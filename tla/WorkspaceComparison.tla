------------------------ MODULE WorkspaceComparison ------------------------
(***************************************************************************)
(* The comparison of an invoice with the receiving records selected for    *)
(* it, app/services/workspace_comparison.py: quantity, price and amount    *)
(* per item and unit, the blocking codes of the subject, and the outcome.  *)
(* Amounts are in cents; a value that is not known is the empty set.       *)
(***************************************************************************)
EXTENDS WorkspaceMatching

(* The lines of a set of documents: positions <<document, index>>.         *)
Positions(docs) == UNION {{<<d, j>> : j \in DOMAIN docs[d].items} : d \in DOMAIN docs}
Line(docs, p)   == docs[p[1]].items[p[2]]
Group(docs, key, unit) ==
    {p \in Positions(docs) : Line(docs, p).key = key /\ Line(docs, p).unit = unit}
Groups(docs) == {<<Line(docs, p).key, Line(docs, p).unit>> : p \in Positions(docs)}

LineAmount(item) ==
    IF item.total # {} THEN item.total ELSE {item.qty * price : price \in item.price}

(* Sum of an optional value over lines; unknown as soon as one is unknown. *)
SumIfAllKnown(values) ==
    LET known == [p \in DOMAIN values |-> CHOOSE v \in values[p] : TRUE]
        sum[S \in SUBSET DOMAIN values] ==
            IF S = {} THEN 0
            ELSE LET p == CHOOSE q \in S : TRUE IN known[p] + sum[S \ {p}]
    IN  IF \E p \in DOMAIN values : values[p] = {} THEN {} ELSE {sum[DOMAIN values]}

Aggregate(docs, key, unit) ==
    LET lines  == Group(docs, key, unit)
        prices == UNION {Line(docs, p).price : p \in lines}
        priced == \A p \in lines : Line(docs, p).price # {}
    IN  IF lines = {}
        THEN [quantity |-> {}, price |-> {}, amount |-> {}]
        ELSE [quantity |-> SumIfAllKnown([p \in lines |-> {Line(docs, p).qty}]),
              price    |-> IF priced /\ Cardinality(prices) = 1 THEN prices ELSE {},
              amount   |-> SumIfAllKnown([p \in lines |-> LineAmount(Line(docs, p))])]

Metric(left, right, tolerance) ==
    IF left = {} \/ right = {} THEN "unverified"
    ELSE LET apart == CHOOSE v \in {Distance(a, b) : a \in left, b \in right} : TRUE
         IN  IF apart = 0 THEN "equal"
             ELSE IF apart <= tolerance THEN "within_tolerance" ELSE "different"

LineResult(inv, notes, key, unit) ==
    LET l == Aggregate(inv, key, unit)
        r == Aggregate(notes, key, unit)
        quantity == Metric(l.quantity, r.quantity, 0)
        price    == Metric(l.price, r.price, 1)
        amount   == Metric(l.amount, r.amount, 2)
        statuses == {quantity, price, amount}
    IN  [key |-> key, unit |-> unit, price |-> price, amount |-> amount,
         aligned |-> Group(inv, key, unit) # {} /\ Group(notes, key, unit) # {},
         status  |-> IF Group(inv, key, unit) = {} THEN "receive_only"
                     ELSE IF Group(notes, key, unit) = {} THEN "invoice_only"
                     ELSE IF "different" \in statuses THEN "different"
                     ELSE IF "unverified" \in statuses THEN "unverified"
                     ELSE IF "within_tolerance" \in statuses THEN "within_tolerance"
                     ELSE "equal"]

Units(docs, key) == {g[2] : g \in {h \in Groups(docs) : h[1] = key}}

Blocks(inv, notes) ==
    LET supplier == {SupplierStatus(inv.supplier, notes[n].supplier) : n \in DOMAIN notes}
                        \cup {SupplierStatus(inv.supplier, inv.supplier)}
        payloads == {inv} \cup {notes[n] : n \in DOMAIN notes}
        sides    == <<[i \in {"invoice"} |-> inv], notes>>
        groups   == Groups(sides[1]) \cup Groups(sides[2])
        code(condition, name) == IF condition THEN {name} ELSE {}
    IN       code("conflict" \in supplier, "SUPPLIER_CONFLICT")
        \cup code("conflict" \notin supplier /\ "unverified" \in supplier, "SUPPLIER_UNVERIFIED")
        \cup code(\E p \in payloads : p.currency # inv.currency, "CURRENCY_CONFLICT")
        \cup code(\E p \in payloads : p.currency # "AUD", "UNSUPPORTED_CURRENCY")
        \cup code(inv.number = "" \/ \E p \in payloads : p.issues # {}, "VALIDATION_BLOCKED")
        \cup code(\E g \in groups : g[1] = "", "EMPTY_ITEM_KEY")
        \cup code(\E g \in groups : g[2] = "", "UNIT_UNVERIFIED")
        \cup code(\E g \in Groups(sides[1]) :
                     /\ Units(sides[2], g[1]) # {}
                     /\ Units(sides[1], g[1]) # Units(sides[2], g[1]), "UNIT_CONFLICT")

(* notes: a function from the selected receiving documents to payloads.    *)
Compare(inv, notes) ==
    LET invoice  == [i \in {"invoice"} |-> inv]
        lines    == {LineResult(invoice, notes, g[1], g[2]) :
                        g \in Groups(invoice) \cup Groups(notes)}
        aligned  == {l \in lines : l.aligned}
        blocks   == Blocks(inv, notes)
        differs  == \E l \in lines : l.status \in {"different", "invoice_only", "receive_only"}
        verified(dimension) == aligned # {} /\ \A l \in aligned : l[dimension] # "unverified"
        open(dimension)     == aligned = {} \/ \E l \in lines : l[dimension] = "unverified"
    IN  [outcome    |-> IF blocks # {} THEN "blocked"
                        ELSE IF differs \/ aligned = {} THEN "difference" ELSE "consistent",
         blocks     |-> blocks,
         lines      |-> lines,
         coverage   |-> {dim \in {"price", "amount"} : verified(dim)},
         unverified |-> {"document_total", "tax"} \cup {dim \in {"price", "amount"} : open(dim)}]
=============================================================================
