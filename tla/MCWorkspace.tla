---------------------------- MODULE MCWorkspace ----------------------------
(***************************************************************************)
(* Small instances of the workspace.                                       *)
(***************************************************************************)
EXTENDS WorkspaceProperties, TLC

CONSTANTS i1, i2, m1, u1, k1, k2, k3, k4

Acme == [abn |-> "111", name |-> "acme"]

Payload(number, po, qty) ==
    [number |-> number, supplier |-> Acme, currency |-> "AUD", po |-> po, day |-> 10,
     issues |-> {},
     items |-> <<[key |-> "sku:a", unit |-> "each", qty |-> qty, price |-> {5}, total |-> {}]>>]

\* What the documents may say; i2 has no purchase order.
FirstInvoice     == Payload("inv-1", "po", 2)
SecondInvoice    == Payload("inv-2", "", 3)
CorrectedInvoice == Payload("inv-1", "po", 4)
Note             == Payload("note", "po", 2)
CorrectedNote    == Payload("note", "po", 4)
GoodsReceived    == Payload("grn", "po", 2)
InForce          == [payload |-> GoodsReceived, voided |-> FALSE]
Withdrawn        == [payload |-> GoodsReceived, voided |-> TRUE]

ExtractedFrom(d) == IF d \notin Invoices THEN Note
                    ELSE IF d = i1 THEN FirstInvoice ELSE SecondInvoice

MCFileOf      == [d \in Uploads |-> d]
MCSameFile    == [d \in Uploads |-> "file"]
MCExtracted   == [d \in Uploads |-> {ExtractedFrom(d)}]
\* The number of the second invoice may be read as that of the first.
MCMistaken    == [d \in Uploads |-> {ExtractedFrom(d)}
                     \cup (IF d = i2 THEN {[SecondInvoice EXCEPT !.number = "inv-1"]} ELSE {})]
MCCorrections == [d \in Uploads |-> {IF d \in Invoices THEN CorrectedInvoice ELSE CorrectedNote}]
MCImported    == [n \in UpstreamNotes |-> {InForce}]
MCVoidable    == [n \in UpstreamNotes |-> {InForce, Withdrawn}]

KeySymmetry == Permutations(Keys)
=============================================================================
