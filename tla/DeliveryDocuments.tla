------------------------- MODULE DeliveryDocuments -------------------------
(***************************************************************************)
(* The documents of one delivery, and how they come to differ: the goods   *)
(* arrive with several notes, values are missing from a page, others are   *)
(* misread.  The rules of both reconciliations are evaluated on what is    *)
(* left after every such step.                                             *)
(***************************************************************************)
EXTENDS DocumentRules, Sequences

CONSTANTS
    Texts,          \* texts that pages hold, as they are spelled
    Originals,      \* invoices to start from, complete and exact
    Errors,         \* by how much a misread number is off, in units or cents
    OtherHeaders,   \* header values to misread: a set of <<field, value>>
    OtherGoods,     \* goods to misread a line as: a set of [key, match]
    MaxSteps        \* bound: steps away from the original

Optional == SUBSET Int      \* the amounts a value is read as; {} when it is not known
Item == [key : Texts, match : Texts, unit : Texts, qty : Int, price : Optional, total : Optional,
         tax : Optional, free : BOOLEAN]
Document == [number : Texts, supplier : [abn : Texts, name : Texts], location : Texts,
             currency : Texts, po : SUBSET Texts, day : Nat, subtotal : Optional,
             tax : Optional, total : Optional, items : Seq(Item)]

ASSUME DocumentsAreTyped ==
    /\ {"", "note"} \subseteq Texts
    /\ Originals \subseteq Document
    /\ Errors \subseteq Int
    /\ OtherHeaders \subseteq      ({"number", "location", "currency"} \X Texts)
                            \cup ({"po"} \X SUBSET Texts) \cup ({"day"} \X Nat)
                            \cup ({"supplier"} \X [abn : Texts, name : Texts])
    /\ OtherGoods \subseteq [key : Texts, match : Texts]

\* Every value of the document is known, and they agree with each other.
Exact(doc) ==
    /\ \A j \in DOMAIN doc.items :
          LET item == doc.items[j]
          IN  /\ item.qty > 0
              /\ \E p \in item.price : item.price = {p} /\ item.total = {item.qty * p}
              /\ \E t \in item.tax : item.tax = {t} /\ (item.free => t = 0)
    /\ doc.subtotal = SubtotalOf(doc) /\ doc.tax = TaxOf(doc)
    /\ doc.total = {s + t : s \in doc.subtotal, t \in doc.tax}

ASSUME OriginalsAreExact == \A doc \in Originals : Exact(doc)

VARIABLES
    invoice,        \* the invoice as extracted
    notes,          \* the receiving notes as extracted, numbered
    misread,        \* history: the fields that were misread
    steps

vars == <<invoice, notes, misread, steps>>

NoteOf(inv) == [inv EXCEPT !.number = "note", !.subtotal = {}, !.tax = {}, !.total = {}]

Init ==
    /\ invoice \in Originals
    /\ notes = [n \in {1} |-> NoteOf(invoice)]
    /\ misread = {} /\ steps = 0

Step == steps < MaxSteps /\ steps' = steps + 1

\* One unit of a line arrives with a second note.
DeliverApart(j) ==
    /\ Step /\ misread = {}
    /\ LET item == notes[1].items[j]
           one  == [item EXCEPT !.qty = 1, !.total = item.price, !.tax = {}]
           rest == [item EXCEPT !.qty = @ - 1, !.total = {t - p : t \in @, p \in item.price}, !.tax = {}]
           more == IF 2 \in DOMAIN notes THEN notes[2].items ELSE <<>>
       IN  /\ item.qty > 1 /\ item.total # {} /\ item.price # {}
           /\ notes' = [n \in {1, 2} |->
                  IF n = 1 THEN [notes[1] EXCEPT !.items[j] = rest]
                  ELSE [notes[1] EXCEPT !.items = Append(more, one)]]
    /\ UNCHANGED <<invoice, misread>>

\* A document with one value of one line read differently.
LineRead(doc, j, field, value) == [doc EXCEPT !.items[j] = [@ EXCEPT ![field] = value]]

(* A value is not found on a page: each value has its own way of missing.  *)
ClearedAmounts(doc) == {[doc EXCEPT ![f] = {}] : f \in {"subtotal", "tax", "total", "po"}}
ClearedTexts(doc) ==
    {[doc EXCEPT !.day = 0], [doc EXCEPT !.supplier.name = ""], [doc EXCEPT !.location = ""]}
ClearedLines(doc) ==
    {LineRead(doc, j, f, {}) : j \in DOMAIN doc.items, f \in {"price", "total", "tax"}}
Cleared(doc) == ClearedAmounts(doc) \cup ClearedTexts(doc) \cup ClearedLines(doc)

Missed ==
    /\ Step
    /\ \/ invoice' \in Cleared(invoice) /\ UNCHANGED notes
       \/ \E n \in DOMAIN notes : \E doc \in Cleared(notes[n]) :
             notes' = [notes EXCEPT ![n] = doc] /\ UNCHANGED invoice
    /\ UNCHANGED misread

MisreadQuantities(doc) ==
    {LineRead(doc, j, "qty", doc.items[j].qty + e) : j \in DOMAIN doc.items, e \in Errors}
Shifted(values, e) == {v + e : v \in values}
MisreadAmounts(doc) ==
    {LineRead(doc, j, f, Shifted(doc.items[j][f], e)) :
        j \in DOMAIN doc.items, f \in {"price", "total", "tax"}, e \in Errors}
GoodsRead(doc, j, good) == [doc EXCEPT !.items[j] = [@ EXCEPT !.key = good.key, !.match = good.match]]
MisreadGoods(doc) == {GoodsRead(doc, j, good) : j \in DOMAIN doc.items, good \in OtherGoods}
MisreadItems(doc) == MisreadQuantities(doc) \cup MisreadAmounts(doc) \cup MisreadGoods(doc)

\* The ways to misread one value of a document.
Misreadings(doc) ==
    {[field |-> "items", doc |-> other] : other \in MisreadItems(doc)}
    \cup {[field |-> h[1], doc |-> [doc EXCEPT ![h[1]] = h[2]]] : h \in OtherHeaders}

Misread ==
    /\ Step
    /\ \/ \E m \in Misreadings(invoice) :
             invoice' = m.doc /\ misread' = misread \cup {m.field} /\ UNCHANGED notes
       \/ \E n \in DOMAIN notes : \E m \in Misreadings(notes[n]) :
             notes' = [notes EXCEPT ![n] = m.doc] /\ misread' = misread \cup {m.field} /\ UNCHANGED invoice

Next == Missed \/ Misread \/ \E j \in DOMAIN notes[1].items : DeliverApart(j)

Spec == Init /\ [][Next]_vars

-----------------------------------------------------------------------------
Received   == [n \in DOMAIN notes |-> Payload(notes[n])]
Legacy     == Reconcile(invoice, notes)
Comparison == Compare(Payload(invoice), Received)
Invoiced   == [i \in {"invoice"} |-> invoice]

\* The lines of some documents with a value in a field, and how many units they have.
LinesWith(docs, field, value) == {p \in Positions(docs) : Line(docs, p)[field] = value}
Moved(docs, field, value) ==
    SumIfAllKnown([p \in LinesWith(docs, field, value) |-> {Line(docs, p).qty}])

\* The goods of the delivery, and whether both normal forms tell the same ones apart.
Goods == {Line(Invoiced, p) : p \in Positions(Invoiced)} \cup {Line(notes, p) : p \in Positions(notes)}
ToldApart == \A i, l \in Goods : i.key = l.key <=> i.match = l.match

(* What is not known never makes a difference: as long as no number was    *)
(* misread, however much is missing and with however many notes the goods  *)
(* came, no rule blocks a document, the legacy has no line to decide on,   *)
(* and the workspace calls no line different.                              *)
UnknownMakesNoDifference ==
    "items" \notin misread =>
        /\ BlockingIssues(invoice) = {}
        /\ \A n \in DOMAIN notes : BlockingIssues(notes[n]) = {}
        /\ \A key \in DOMAIN Legacy.lines : Legacy.lines[key] \notin Actionable
        /\ \A l \in Comparison.lines : l.status \in {"equal", "unverified"}

(* What is billed and not delivered, or delivered and not billed, is       *)
(* decided by a person, each reconciliation telling the goods apart by its *)
(* own normal form: where the legacy's differ the case has an item for the *)
(* goods, and where the workspace's do the invoice is not consistent.  A   *)
(* shortage the workspace sees is a case of the legacy too when the two    *)
(* forms tell the same goods apart; otherwise it need not be.              *)
(* And a reconciliation that requires review has an item to decide on.     *)
ShortagesAreDecided ==
    /\ \A good \in Goods :
          LET short(field) == Moved(Invoiced, field, good[field]) # Moved(notes, field, good[field])
              decided      == <<"line", good.match>> \in CaseItemsOf(Legacy)
          IN  /\ short("match") => decided
              /\ short("key") => Comparison.outcome # "consistent"
              /\ short("key") /\ ToldApart => decided
    /\ Legacy.requiresReview => CaseItemsOf(Legacy) # {}

(* What is proposed survives its comparison.  Notes that the legacy        *)
(* recommends have goods, currency and purchase order in common with the   *)
(* invoice, except that the recommendation forgives a spelling which the   *)
(* comparison does not; records that the workspace selects can be compared *)
(* in a line and raise no conflict of supplier or currency.                *)
SpelledAlike ==
    \A n \in DOMAIN notes : "" \notin invoice.po \cup notes[n].po
                              /\ (Alike(invoice.po, notes[n].po) => invoice.po = notes[n].po)
ProposalsHoldUp ==
    /\ LET chosen == {n \in DOMAIN notes : Recommended(invoice, notes[n])}
           result == Reconcile(invoice, [n \in chosen |-> notes[n]])
       IN  chosen # {} =>
               /\ result.currencyMatch
               /\ SpelledAlike => result.poMatch # {FALSE}
               /\ \E key \in DOMAIN result.lines :
                     result.lines[key] \notin {"invoice_only", "receive_note_only"}
    /\ LET chosen == SelectCandidates(Payload(invoice), Received, {}).selected
           result == Compare(Payload(invoice), [n \in chosen |-> Received[n]])
       IN  chosen # {} =>
               /\ \E l \in result.lines : l.aligned
               /\ result.blocks \cap {"SUPPLIER_CONFLICT", "SUPPLIER_UNVERIFIED", "CURRENCY_CONFLICT"} = {}
=============================================================================
