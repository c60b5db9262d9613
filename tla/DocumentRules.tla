--------------------------- MODULE DocumentRules ---------------------------
(***************************************************************************)
(* The pure rules of the legacy reconciliation: the validation of a        *)
(* document, the score of a receiving note as a candidate for an invoice,  *)
(* the comparison of an invoice with notes, and the case made of it.       *)
(*                                                                         *)
(* A document is a payload of WorkspaceMatching whose purchase order po is *)
(* a set of at most one spelling, with optional subtotal, tax and total,   *)
(* a location, and lines with tax and free (a tax-free code).  Its texts   *)
(* are as they are spelled, and the two reconciliations normalise them     *)
(* differently: the workspace folds forms and keeps the letters and digits *)
(* of every script, the legacy keeps only a-z and 0-9.  So a line carries  *)
(* what each makes of its SKU, or else of its description: key in the      *)
(* workspace, "" when nothing is left, and match in the legacy, which a    *)
(* prefix keeps from being empty.  Amounts are in cents, quantities whole. *)
(***************************************************************************)
EXTENDS WorkspaceComparison

CONSTANTS
    Normal,         \* normalize_identity of the workspace, for every text
    Stripped        \* _normalized_text of the legacy, for every text

-----------------------------------------------------------------------------
(* ValidationService.validate: the rules that block an approval; the two   *)
(* that only warn are left out.  A rule is silent when a value it needs is *)
(* unknown.                                                                *)
LineTolerance == 2
DocumentTolerance == 5

\* MUTANT: an unknown line total counts as zero.
SubtotalOfKnown(doc) ==
    SumIfAllKnown([j \in DOMAIN doc.items |->
                      IF doc.items[j].total = {} THEN {0} ELSE doc.items[j].total])
SubtotalOf(doc) == SumIfAllKnown([j \in DOMAIN doc.items |-> doc.items[j].total])
TaxOf(doc)      == SumIfAllKnown([j \in DOMAIN doc.items |-> doc.items[j].tax])

OffBy(left, right, tolerance) == \E a \in left, b \in right : Distance(a, b) > tolerance

BlockingIssues(doc) ==
    LET items == {doc.items[j] : j \in DOMAIN doc.items}
        code(condition, name) == IF condition THEN {name} ELSE {}
    IN       code(\E item \in items : OffBy({item.qty * p : p \in item.price}, item.total, LineTolerance),
                  "LINE_TOTAL_MISMATCH")
        \cup code(\E item \in items : item.free /\ item.tax \notin {{}, {0}}, "GST_FREE_LINE_HAS_TAX")
        \cup code(OffBy(SubtotalOf(doc), doc.subtotal, DocumentTolerance), "SUBTOTAL_MISMATCH")
        \cup code(OffBy(TaxOf(doc), doc.tax, DocumentTolerance), "TAX_TOTAL_MISMATCH")
        \cup code(OffBy({s + t : s \in doc.subtotal, t \in doc.tax}, doc.total, DocumentTolerance),
                  "TOTAL_MISMATCH")

\* What the rules of the workspace see of a document.
Payload(doc) ==
    [number |-> Normal[doc.number], currency |-> doc.currency,
     supplier |-> [abn |-> Normal[doc.supplier.abn], name |-> Normal[doc.supplier.name]],
     po |-> IF doc.po = {} THEN "" ELSE CHOOSE t \in {Normal[s] : s \in doc.po} : TRUE,
     day |-> doc.day, issues |-> BlockingIssues(doc), items |-> doc.items]

-----------------------------------------------------------------------------
(* assess_candidate: a score out of 100 and the conflicts that forbid a    *)
(* recommendation however high the score is.                               *)
Keys(doc) == {doc.items[j].match : j \in DOMAIN doc.items}

Alike(left, right) == {Stripped[t] : t \in left} = {Stripped[t] : t \in right}

(* Points for an identity field, a set of at most one text: agreeing,      *)
(* conflicting, or missing on a side.                                      *)
Identity(left, right, match, conflict) ==
    IF {left, right} \cap {{}, {""}} # {} THEN 0 ELSE IF Alike(left, right) THEN match ELSE conflict

DatePoints(inv, note) ==
    IF inv.day = 0 \/ note.day = 0 THEN 0
    ELSE IF WithinDays(inv, note, 7) THEN 10
    ELSE IF WithinDays(inv, note, 30) THEN 5
    ELSE IF WithinDays(inv, note, 60) THEN 0 ELSE -5

\* Python's round of n / d: a half goes to the even neighbour.
Rounded(n, d) ==
    LET q == n \div d
        r == 2 * (n % d)
    IN  IF r > d \/ (r = d /\ q % 2 = 1) THEN q + 1 ELSE q

ItemPoints(inv, note) ==
    LET shared == Cardinality(Keys(inv) \cap Keys(note))
    IN  IF shared = 0 THEN -20 ELSE Rounded(20 * shared, Cardinality(Keys(inv)))

Conflicts(inv, note) ==
    LET code(condition, name) == IF condition THEN {name} ELSE {}
    IN       code(Alike({inv.number}, {note.number}), "same_document_number")
        \cup code(Identity(inv.po, note.po, 40, -40) < 0, "purchase_order_mismatch")
        \cup code(inv.currency # note.currency, "currency_mismatch")
        \cup code(Keys(inv) \cap Keys(note) = {}, "no_item_overlap")

Points(inv, note) ==
    LET all ==   (IF Alike({inv.number}, {note.number}) THEN -100 ELSE 0)
               + Identity(inv.po, note.po, 40, -40)
               + Identity({inv.supplier.name}, {note.supplier.name}, 20, -15)
               + Identity({inv.location}, {note.location}, 10, -5)
               + (IF inv.currency = note.currency THEN 10 ELSE -25)
               + DatePoints(inv, note) + ItemPoints(inv, note)
    IN  IF all < 0 THEN 0 ELSE IF all > 100 THEN 100 ELSE all

\* MUTANT: a high score outweighs a conflict.
RecommendedByScore(inv, note) == Points(inv, note) >= 60
Recommended(inv, note) == Points(inv, note) >= 60 /\ Conflicts(inv, note) = {}

-----------------------------------------------------------------------------
(* reconcile: all lines of all notes with one key are added up before they *)
(* are compared; the price is the average weighted by quantity.            *)
PriceTolerance == 1
AmountTolerance == 2

KeyLines(docs, key) == {p \in Positions(docs) : Line(docs, p).match = key}

Merged(docs, key) ==
    LET lines == KeyLines(docs, key)
        extension(item) == {item.qty * price : price \in item.price}
    IN  [quantity  |-> SumIfAllKnown([p \in lines |-> {Line(docs, p).qty}]),
         amount    |-> SumIfAllKnown([p \in lines |-> LineAmount(Line(docs, p))]),
         extension |-> SumIfAllKnown([p \in lines |-> extension(Line(docs, p))])]

(* The gaps between two merged lines.  A measure unknown on a side has no  *)
(* gap, so that such a line may be called exact.  Averages are compared as *)
(* fractions, so their gap and limit are multiplied by both quantities.    *)
Gaps(l, r) ==
         {[gap |-> Distance(a, b), limit |-> 0] : a \in l.quantity, b \in r.quantity}
    \cup {[gap |-> Distance(a, b), limit |-> AmountTolerance] : a \in l.amount, b \in r.amount}
    \cup UNION {{[gap |-> Distance(a * n, b * m), limit |-> PriceTolerance * m * n] :
                    a \in l.extension, b \in r.extension} : m \in l.quantity, n \in r.quantity}

Classify(inv, notes, key) ==
    LET gaps == Gaps(Merged(inv, key), Merged(notes, key))
    IN  IF KeyLines(inv, key) = {} THEN "receive_note_only"
        ELSE IF KeyLines(notes, key) = {} THEN "invoice_only"
        ELSE IF \E g \in gaps : g.gap > g.limit THEN "mismatch"
        ELSE IF \E g \in gaps : g.gap > 0 THEN "within_tolerance" ELSE "exact"

Actionable == {"mismatch", "invoice_only", "receive_note_only"}

(* notes: a function from the selected notes to documents.  The purchase   *)
(* orders are compared as they are spelled.                                *)
Reconcile(inv, notes) ==
    LET invoice  == [i \in {"invoice"} |-> inv]
        keys     == Keys(inv) \cup UNION {Keys(notes[n]) : n \in DOMAIN notes}
        status   == [key \in keys |-> Classify(invoice, notes, key)]
        orders   == UNION {notes[n].po : n \in DOMAIN notes}
        poMatch  == IF inv.po = {} \/ orders = {} THEN {} ELSE {orders = inv.po}
        currency == \A n \in DOMAIN notes : notes[n].currency = inv.currency
    IN  [lines |-> status, poMatch |-> poMatch, currencyMatch |-> currency,
         requiresReview |-> \/ \E key \in keys : status[key] \in Actionable
                            \/ poMatch = {FALSE} \/ ~currency]

\* MUTANT: what was delivered and not billed needs no decision.
BilledItems(result) ==
    {<<"line", key>> : key \in {k \in DOMAIN result.lines :
                                    result.lines[k] \in Actionable \ {"receive_note_only"}}}
LineItems(result) ==
    {<<"line", key>> : key \in {k \in DOMAIN result.lines : result.lines[k] \in Actionable}}
HeaderItems(result) ==
    {h \in {<<"purchase_order_conflict">>, <<"currency_conflict">>} :
        IF h = <<"currency_conflict">> THEN ~result.currencyMatch ELSE result.poMatch = {FALSE}}

\* build_case_bundle: no case, or one with these items; without any it raises.
CaseItemsOf(result) ==
    IF result.requiresReview THEN LineItems(result) \cup HeaderItems(result) ELSE {}
=============================================================================
