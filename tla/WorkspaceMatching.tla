------------------------- MODULE WorkspaceMatching -------------------------
(***************************************************************************)
(* The association rules of app/services/workspace_matching.py: which      *)
(* receiving records an invoice is proposed to be compared with.           *)
(*                                                                         *)
(* A payload is a record                                                   *)
(*   [number, supplier : [abn, name], currency, po, day, issues, items]    *)
(* whose texts are already normalised; "" is a text that normalises to     *)
(* nothing, day 0 a missing date, issues the field groups that carry a     *)
(* blocking validation issue, and items a sequence of                      *)
(*   [key, unit, qty, price, total]                                        *)
(* where price and total are sets of at most one amount in cents.          *)
(***************************************************************************)
EXTENDS Integers, FiniteSets

Distance(a, b) == IF a > b THEN a - b ELSE b - a

(* Two parties are compared by business number when both have one, else by *)
(* name; a party without either decides nothing.                           *)
SupplierStatus(left, right) ==
    LET byNumber == left.abn # "" /\ right.abn # ""
        a == IF byNumber THEN left.abn ELSE left.name
        b == IF byNumber THEN right.abn ELSE right.name
    IN  IF a = "" \/ b = "" THEN "unverified"
        ELSE IF a = b THEN "equal" ELSE "conflict"

SupplierUnverified(inv) ==
    SupplierStatus(inv.supplier, inv.supplier) # "equal" \/ "supplier" \in inv.issues

ItemIdentities(payload) ==
    {<<item.key, item.unit>> : item \in
        {payload.items[j] : j \in {i \in DOMAIN payload.items :
            payload.items[i].key # "" /\ payload.items[i].unit # ""}}}

SameSubject(inv, note) ==
    /\ ~SupplierUnverified(inv)
    /\ SupplierStatus(inv.supplier, note.supplier) = "equal"
    /\ inv.currency = note.currency

BothHavePO(inv, note) == inv.po # "" /\ note.po # ""
POMatch(inv, note)    == BothHavePO(inv, note) /\ inv.po = note.po
POConflict(inv, note) == BothHavePO(inv, note) /\ inv.po # note.po

WithinDays(inv, note, window) ==
    inv.day # 0 /\ note.day # 0 /\ Distance(inv.day, note.day) <= window

Overlap(inv, note) == ItemIdentities(inv) \cap ItemIdentities(note)

Eligible(inv, note, isUsed) ==
    /\ SameSubject(inv, note)
    /\ ~isUsed
    /\ ~POConflict(inv, note)
    /\ WithinDays(inv, note, 30)
    /\ Overlap(inv, note) # {}

Score(inv, note) ==
    LET when(condition, points) == IF condition THEN points ELSE 0
        supplierEqual == ~SupplierUnverified(inv)
                         /\ SupplierStatus(inv.supplier, note.supplier) = "equal"
    IN    when(supplierEqual, 20)
        + when(inv.currency = note.currency, 10)
        + when(POMatch(inv, note), 40)
        + when(WithinDays(inv, note, 30), 5) + when(WithinDays(inv, note, 7), 5)
        + when(ItemIdentities(inv) # {},
               (Cardinality(Overlap(inv, note)) * 20)
                   \div (IF ItemIdentities(inv) = {} THEN 1
                         ELSE Cardinality(ItemIdentities(inv))))

(* notes: a function from receiving documents to payloads.                 *)
(* Every eligible record under the invoice's purchase order is taken as a  *)
(* group; otherwise one record that leads every other by 20 points.        *)
SelectCandidates(inv, notes, used) ==
    LET eligible == {n \in DOMAIN notes : Eligible(inv, notes[n], n \in used)}
        poGroup  == {n \in eligible : POMatch(inv, notes[n])}
        score(n) == Score(inv, notes[n])
        clear    == {n \in eligible : score(n) >= 60
                        /\ \A m \in eligible \ {n} : score(n) - score(m) >= 20}
        selected == IF poGroup = {} THEN clear
                    ELSE IF Cardinality(poGroup) <= 100 THEN poGroup ELSE {}
    IN  [selected |-> selected,
         status   |-> IF selected # {} THEN "selected"
                      ELSE IF SupplierUnverified(inv)
                              \/ \E n \in DOMAIN notes : SameSubject(inv, notes[n])
                           THEN "needs_selection"
                      ELSE "waiting_counterpart"]
=============================================================================
