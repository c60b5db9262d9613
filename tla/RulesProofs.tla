----------------------------- MODULE RulesProofs -----------------------------
(***************************************************************************)
(* Theorems about the rules of both reconciliations, for any documents and *)
(* any number of steps by which they come to differ.                       *)
(***************************************************************************)
EXTENDS DeliveryDocuments, NumberLemmas

-----------------------------------------------------------------------------
(* Proposals.                                                              *)

\* A line of a document is a position of it, and its key one of its keys.
LEMMA PositionsOfLines ==
    ASSUME NEW docs, NEW d \in DOMAIN docs, NEW j \in DOMAIN docs[d].items
    PROVE  <<d, j>> \in Positions(docs) /\ Line(docs, <<d, j>>) = docs[d].items[j]
  BY DEF Positions, Line

LEMMA KeysHaveLines ==
    ASSUME NEW docs, NEW d \in DOMAIN docs, NEW key \in Keys(docs[d])
    PROVE  KeyLines(docs, key) # {}
  <1>1. PICK j \in DOMAIN docs[d].items : docs[d].items[j].match = key
    BY DEF Keys
  <1>2. <<d, j>> \in KeyLines(docs, key)
    BY <1>1, PositionsOfLines DEF KeyLines
  <1>. QED BY <1>2

\* A good that both sides have is not called missing on a side.
LEMMA SharedKeysAreCompared ==
    ASSUME NEW inv, NEW notes0, NEW key, KeyLines(inv, key) # {}, KeyLines(notes0, key) # {}
    PROVE  Classify(inv, notes0, key) \in {"mismatch", "within_tolerance", "exact"}
  <1>. DEFINE gaps == Gaps(Merged(inv, key), Merged(notes0, key))
  <1>. HIDE DEF gaps
  <1>1. Classify(inv, notes0, key) =
          IF KeyLines(inv, key) = {} THEN "receive_note_only"
          ELSE IF KeyLines(notes0, key) = {} THEN "invoice_only"
          ELSE IF \E g \in gaps : g.gap > g.limit THEN "mismatch"
          ELSE IF \E g \in gaps : g.gap > 0 THEN "within_tolerance" ELSE "exact"
    BY DEF Classify, gaps
  <1>2. CASE \E g \in gaps : g.gap > g.limit
    BY <1>1, <1>2
  <1>3. CASE \E g \in gaps : g.gap > 0
    BY <1>1, <1>3
  <1>4. CASE ~(\E g \in gaps : g.gap > g.limit) /\ ~(\E g \in gaps : g.gap > 0)
    BY <1>1, <1>4
  <1>. QED BY <1>2, <1>3, <1>4

\* A note is recommended only without any of the four conflicts.
LEMMA RecommendedAgree ==
    ASSUME NEW inv, NEW note, Recommended(inv, note)
    PROVE  /\ inv.currency = note.currency
           /\ Keys(inv) \cap Keys(note) # {}
           /\ {inv.po, note.po} \cap {{}, {""}} # {} \/ Alike(inv.po, note.po)
  <1>1. Conflicts(inv, note) = {}
    BY DEF Recommended
  <1>2. /\ ~(inv.currency # note.currency) /\ ~(Keys(inv) \cap Keys(note) = {})
        /\ ~(Identity(inv.po, note.po, 40, -40) < 0)
    BY <1>1 DEF Conflicts
  <1>3. CASE {inv.po, note.po} \cap {{}, {""}} = {} /\ ~Alike(inv.po, note.po)
    BY <1>2, <1>3 DEF Identity
  <1>. QED BY <1>2, <1>3

LEMMA RecommendationsHoldUp ==
    ASSUME NEW n0 \in DOMAIN notes, Recommended(invoice, notes[n0])
    PROVE  LET chosen == {n \in DOMAIN notes : Recommended(invoice, notes[n])}
               result == Reconcile(invoice, [n \in chosen |-> notes[n]])
           IN  /\ result.currencyMatch
               /\ SpelledAlike => result.poMatch # {FALSE}
               /\ \E key \in DOMAIN result.lines :
                     result.lines[key] \notin {"invoice_only", "receive_note_only"}
  <1>. DEFINE chosen == {n \in DOMAIN notes : Recommended(invoice, notes[n])}
              picked == [n \in chosen |-> notes[n]]
              orders == UNION {picked[n].po : n \in DOMAIN picked}
              keys   == Keys(invoice) \cup UNION {Keys(picked[n]) : n \in DOMAIN picked}
              alone  == [i \in {"invoice"} |-> invoice]
              result == Reconcile(invoice, picked)
  <1>1. DOMAIN picked = chosen /\ \A n \in chosen : picked[n] = notes[n]
    OBVIOUS
  <1>. HIDE DEF picked
  <1>2. /\ result.currencyMatch = \A n \in DOMAIN picked : picked[n].currency = invoice.currency
        /\ result.poMatch = IF invoice.po = {} \/ orders = {} THEN {} ELSE {orders = invoice.po}
        /\ DOMAIN result.lines = keys
        /\ \A key \in keys : result.lines[key] = Classify(alone, picked, key)
    BY DEF Reconcile
  <1>3. \A n \in chosen : /\ invoice.currency = notes[n].currency
                          /\ Keys(invoice) \cap Keys(notes[n]) # {}
                          /\ {invoice.po, notes[n].po} \cap {{}, {""}} # {}
                             \/ Alike(invoice.po, notes[n].po)
    BY RecommendedAgree
  <1>4. result.currencyMatch
    BY <1>1, <1>2, <1>3
  <1>5. ASSUME SpelledAlike, invoice.po # {}, orders # {} PROVE orders = invoice.po
    <2>1. ASSUME NEW n \in chosen PROVE notes[n].po = {} \/ notes[n].po = invoice.po
      <3>1. n \in DOMAIN notes
        OBVIOUS
      <3>2. /\ {invoice.po, notes[n].po} \cap {{}, {""}} # {} \/ Alike(invoice.po, notes[n].po)
            /\ "" \notin invoice.po \cup notes[n].po
            /\ Alike(invoice.po, notes[n].po) => invoice.po = notes[n].po
        BY <1>3, <1>5, <3>1 DEF SpelledAlike
      <3>. DEFINE a == invoice.po
                  b == notes[n].po
      <3>3. {a, b} \cap {{}, {""}} # {} \/ a = b
        BY <3>2
      <3>4. a # {} /\ a # {""} /\ b # {""}
        BY <1>5, <3>2
      <3>. HIDE DEF a, b
      <3>5. b = {} \/ b = a
        BY <3>3, <3>4
      <3>. QED BY <3>5 DEF a, b
    <2>2. orders = UNION {notes[n].po : n \in chosen}
      BY <1>1
    <2>. HIDE DEF orders, chosen
    <2>. QED BY <1>5, <2>1, <2>2
  <1>6. SpelledAlike => result.poMatch # {FALSE}
    <2>. HIDE DEF orders, result
    <2>. QED BY <1>2, <1>5
  <1>7. PICK key \in Keys(invoice) \cap Keys(notes[n0]) : TRUE
    BY <1>3
  <1>8. Classify(alone, picked, key) \in {"mismatch", "within_tolerance", "exact"}
    <2>1. KeyLines(alone, key) # {}
      <3>1. "invoice" \in DOMAIN alone /\ key \in Keys(alone["invoice"])
        BY <1>7
      <3>. HIDE DEF alone
      <3>. QED BY <3>1, KeysHaveLines
    <2>2. KeyLines(picked, key) # {}
      <3>1. n0 \in DOMAIN picked /\ key \in Keys(picked[n0])
        BY <1>1, <1>7
      <3>. QED BY <3>1, KeysHaveLines
    <2>. HIDE DEF alone
    <2>. QED BY <2>1, <2>2, SharedKeysAreCompared
  <1>9. key \in DOMAIN result.lines /\ result.lines[key] \notin {"invoice_only", "receive_note_only"}
    <2>. HIDE DEF result, alone
    <2>. QED BY <1>2, <1>7, <1>8
  <1>. HIDE DEF result
  <1>. QED BY <1>4, <1>6, <1>9 DEF result, picked

\* What is selected was eligible.
LEMMA SelectedAreEligible ==
    ASSUME NEW inv, NEW ns, NEW n \in SelectCandidates(inv, ns, {}).selected
    PROVE  n \in DOMAIN ns /\ Eligible(inv, ns[n], FALSE)
  <1>. DEFINE eligible == {m \in DOMAIN ns : Eligible(inv, ns[m], m \in {})}
              poGroup  == {m \in eligible : POMatch(inv, ns[m])}
              score(m) == Score(inv, ns[m])
              clear    == {m \in eligible : score(m) >= 60
                              /\ \A k \in eligible \ {m} : score(m) - score(k) >= 20}
              selected == IF poGroup = {} THEN clear
                          ELSE IF Cardinality(poGroup) <= 100 THEN poGroup ELSE {}
  <1>1. n \in selected
    BY DEF SelectCandidates
  <1>2. selected \in SUBSET eligible
    <2>1. clear \in SUBSET eligible /\ poGroup \in SUBSET eligible /\ {} \in SUBSET eligible
      OBVIOUS
    <2>. HIDE DEF clear, poGroup, eligible
    <2>. QED BY <2>1
  <1>3. n \in eligible
    <2>. HIDE DEF selected, eligible
    <2>. QED BY <1>1, <1>2
  <1>4. (n \in {}) = FALSE
    OBVIOUS
  <1>5. n \in DOMAIN ns /\ Eligible(inv, ns[n], n \in {})
    BY <1>3
  <1>. QED BY <1>4, <1>5

\* Eligible records have the invoice's supplier and currency.
LEMMA EligibleSubjects ==
    ASSUME NEW inv, NEW note, Eligible(inv, note, FALSE)
    PROVE  /\ SupplierStatus(inv.supplier, inv.supplier) = "equal"
           /\ SupplierStatus(inv.supplier, note.supplier) = "equal"
           /\ note.currency = inv.currency
           /\ Overlap(inv, note) # {}
  BY DEF Eligible, SameSubject, SupplierUnverified

\* A good in the same unit on both sides is a line that can be compared.
LEMMA OverlapsAlign ==
    ASSUME NEW inv, NEW ns, NEW n \in DOMAIN ns, Overlap(inv, ns[n]) # {}
    PROVE  \E l \in Compare(inv, ns).lines : l.aligned
  <1>1. PICK g \in ItemIdentities(inv) \cap ItemIdentities(ns[n]) : TRUE
    BY DEF Overlap
  <1>2. PICK i \in DOMAIN inv.items : g = <<inv.items[i].key, inv.items[i].unit>>
    BY <1>1 DEF ItemIdentities
  <1>3. PICK j \in DOMAIN ns[n].items : g = <<ns[n].items[j].key, ns[n].items[j].unit>>
    BY <1>1 DEF ItemIdentities
  <1>. DEFINE alone == [x \in {"invoice"} |-> inv]
              key   == inv.items[i].key
              unit  == inv.items[i].unit
  <1>4. "invoice" \in DOMAIN alone /\ alone["invoice"] = inv
    OBVIOUS
  <1>5. ns[n].items[j].key = key /\ ns[n].items[j].unit = unit
    BY <1>2, <1>3
  <1>6. <<"invoice", i>> \in Positions(alone) /\ Line(alone, <<"invoice", i>>) = inv.items[i]
    <2>1. i \in DOMAIN alone["invoice"].items
      BY <1>4
    <2>. HIDE DEF alone
    <2>. QED BY <1>4, <2>1, PositionsOfLines
  <1>7. Group(alone, key, unit) # {} /\ Group(ns, key, unit) # {}
    <2>1. <<"invoice", i>> \in Group(alone, key, unit)
      BY <1>6 DEF Group
    <2>2. <<n, j>> \in Group(ns, key, unit)
      BY <1>5, PositionsOfLines DEF Group
    <2>. QED BY <2>1, <2>2
  <1>8. <<key, unit>> \in Groups(alone)
    BY <1>6 DEF Groups
  <1>. HIDE DEF alone, key, unit
  <1>9. LineResult(alone, ns, key, unit).aligned
    BY <1>7 DEF LineResult
  <1>10. LineResult(alone, ns, key, unit) \in Compare(inv, ns).lines
    <2>. DEFINE g0 == <<key, unit>>
    <2>1. g0 \in Groups(alone) \cup Groups(ns) /\ g0[1] = key /\ g0[2] = unit
      BY <1>8
    <2>. HIDE DEF g0
    <2>2. LineResult(alone, ns, key, unit)
             \in {LineResult(alone, ns, h[1], h[2]) : h \in Groups(alone) \cup Groups(ns)}
      BY <2>1
    <2>. QED BY <2>2 DEF Compare, alone
  <1>. QED BY <1>9, <1>10

\* Records of the invoice's supplier and currency raise no conflict of either.
LEMMA SameSubjectsDoNotBlock ==
    ASSUME NEW inv, NEW ns,
           SupplierStatus(inv.supplier, inv.supplier) = "equal",
           \A n \in DOMAIN ns : /\ SupplierStatus(inv.supplier, ns[n].supplier) = "equal"
                                /\ ns[n].currency = inv.currency
    PROVE  Blocks(inv, ns) \cap {"SUPPLIER_CONFLICT", "SUPPLIER_UNVERIFIED", "CURRENCY_CONFLICT"} = {}
  <1>. DEFINE supplier == {SupplierStatus(inv.supplier, ns[n].supplier) : n \in DOMAIN ns}
                              \cup {SupplierStatus(inv.supplier, inv.supplier)}
              payloads == {inv} \cup {ns[n] : n \in DOMAIN ns}
  <1>1. \A s \in supplier : s = "equal"
    OBVIOUS
  <1>2. \A p \in payloads : p.currency = inv.currency
    OBVIOUS
  <1>. HIDE DEF supplier, payloads
  <1>3. "conflict" \notin supplier /\ "unverified" \notin supplier
    BY <1>1
  <1>4. ~ \E p \in payloads : p.currency # inv.currency
    BY <1>2
  <1>. QED BY <1>3, <1>4 DEF Blocks, supplier, payloads

LEMMA SelectionsHoldUp ==
    ASSUME NEW n0 \in SelectCandidates(Payload(invoice), Received, {}).selected
    PROVE  LET chosen == SelectCandidates(Payload(invoice), Received, {}).selected
               result == Compare(Payload(invoice), [n \in chosen |-> Received[n]])
           IN  /\ \E l \in result.lines : l.aligned
               /\ result.blocks \cap {"SUPPLIER_CONFLICT", "SUPPLIER_UNVERIFIED", "CURRENCY_CONFLICT"} = {}
  <1>. DEFINE inv    == Payload(invoice)
              chosen == SelectCandidates(inv, Received, {}).selected
              picked == [n \in chosen |-> Received[n]]
  <1>1. \A n \in chosen : Eligible(inv, Received[n], FALSE)
    <2>. HIDE DEF inv
    <2>. QED BY SelectedAreEligible
  <1>. HIDE DEF inv, chosen
  <1>2. DOMAIN picked = chosen /\ \A n \in chosen : picked[n] = Received[n]
    OBVIOUS
  <1>. HIDE DEF picked
  <1>3. \A n \in DOMAIN picked : /\ SupplierStatus(inv.supplier, inv.supplier) = "equal"
                                 /\ SupplierStatus(inv.supplier, picked[n].supplier) = "equal"
                                 /\ picked[n].currency = inv.currency
                                 /\ Overlap(inv, picked[n]) # {}
    BY <1>1, <1>2, EligibleSubjects
  <1>4. n0 \in DOMAIN picked
    BY <1>2 DEF chosen, inv
  <1>5. \E l \in Compare(inv, picked).lines : l.aligned
    BY <1>3, <1>4, OverlapsAlign
  <1>6. Compare(inv, picked).blocks = Blocks(inv, picked)
    BY DEF Compare
  <1>7. Blocks(inv, picked) \cap {"SUPPLIER_CONFLICT", "SUPPLIER_UNVERIFIED", "CURRENCY_CONFLICT"} = {}
    BY <1>3, <1>4, SameSubjectsDoNotBlock
  <1>. QED BY <1>5, <1>6, <1>7 DEF picked, chosen, inv

LEMMA ProposalsAlwaysHoldUp == ProposalsHoldUp
  <1>1. ASSUME NEW n0 \in {n \in DOMAIN notes : Recommended(invoice, notes[n])}
        PROVE  n0 \in DOMAIN notes /\ Recommended(invoice, notes[n0])
    OBVIOUS
  <1>. QED BY <1>1, RecommendationsHoldUp, SelectionsHoldUp DEF ProposalsHoldUp

(* Whatever is missing or misread on any number of notes: what the legacy  *)
(* recommends and what the workspace selects survives its comparison.      *)
(* The rules alone give it, so it holds of every state and not only of     *)
(* those that the steps of DeliveryDocuments reach.                        *)
THEOREM ProposalsCorrect == Spec => []ProposalsHoldUp
  <1>1. ProposalsHoldUp
    BY ProposalsAlwaysHoldUp
  <1>. QED BY <1>1, PTL

-----------------------------------------------------------------------------
(* The documents keep their types, and there are at most two notes.        *)

DocumentsTyped ==
    /\ invoice \in Document
    /\ DOMAIN notes \in {{1}, {1, 2}}
    /\ \A n \in DOMAIN notes : notes[n] \in Document

Fields == {"number", "supplier", "location", "currency", "po", "day", "subtotal", "tax", "total", "items"}

LEMMA DocumentFields ==
    ASSUME NEW doc \in Document
    PROVE  /\ DOMAIN doc = Fields
           /\ doc.items \in Seq(Item)
           /\ DOMAIN doc.items \in SUBSET Nat /\ IsFiniteSet(DOMAIN doc.items)
           /\ \A j \in DOMAIN doc.items : doc.items[j] \in Item
  <1>1. doc.items \in Seq(Item) /\ DOMAIN doc = Fields
    BY DEF Document, Fields
  <1>2. DOMAIN doc.items = 1 .. Len(doc.items) /\ Len(doc.items) \in Nat
    BY <1>1
  <1>3. IsFiniteSet(1 .. Len(doc.items))
    BY <1>2, FS_Interval
  <1>. QED BY <1>1, <1>2, <1>3

\* A document with one value of a line replaced by another of its type.
LEMMA LineReadIsDocument ==
    ASSUME NEW doc \in Document, NEW j \in DOMAIN doc.items, NEW field, NEW value,
           \/ field = "qty" /\ value \in Int
           \/ field \in {"price", "total", "tax"} /\ value \in Optional
    PROVE  /\ LineRead(doc, j, field, value) \in Document
           /\ LineRead(doc, j, field, value).items = [doc.items EXCEPT ![j] = [@ EXCEPT ![field] = value]]
  <1>. DEFINE item  == [doc.items[j] EXCEPT ![field] = value]
              items == [doc.items EXCEPT ![j] = item]
  <1>1. item \in Item
    <2>1. doc.items[j] \in Item
      BY DocumentFields
    <2>. QED BY <2>1 DEF Item
  <1>. HIDE DEF item
  <1>2. items \in Seq(Item)
    BY <1>1, DocumentFields
  <1>3. LineRead(doc, j, field, value) = [doc EXCEPT !.items = items]
    BY DEF LineRead, item
  <1>. HIDE DEF items
  <1>4. [doc EXCEPT !.items = items] \in Document /\ [doc EXCEPT !.items = items].items = items
    BY <1>2 DEF Document
  <1>. QED BY <1>3, <1>4 DEF items, item

LEMMA ClearedAreDocuments ==
    ASSUME NEW doc \in Document, NEW other \in Cleared(doc)
    PROVE  other \in Document
  <1>1. CASE \E f \in {"subtotal", "tax", "total", "po"} : other = [doc EXCEPT ![f] = {}]
    BY <1>1 DEF Document, Optional
  <1>2. CASE other \in {[doc EXCEPT !.day = 0], [doc EXCEPT !.location = ""]}
    <2>. DEFINE none == ""
    <2>1. none \in Texts
      BY DocumentsAreTyped
    <2>2. \/ other = [doc EXCEPT !.day = 0] \/ other = [doc EXCEPT !.location = none]
      BY <1>2
    <2>. HIDE DEF none
    <2>. QED BY <2>1, <2>2 DEF Document
  <1>3. CASE other = [doc EXCEPT !.supplier.name = ""]
    <2>. DEFINE supplier == [doc.supplier EXCEPT !.name = ""]
    <2>1. supplier \in [abn : Texts, name : Texts]
      <3>1. doc.supplier \in [abn : Texts, name : Texts] /\ "" \in Texts
        BY DocumentsAreTyped DEF Document
      <3>. QED BY <3>1
    <2>2. other = [doc EXCEPT !.supplier = supplier]
      BY <1>3
    <2>. HIDE DEF supplier
    <2>. QED BY <2>1, <2>2 DEF Document
  <1>4. CASE \E j \in DOMAIN doc.items, f \in {"price", "total", "tax"} : other = LineRead(doc, j, f, {})
    <2>. DEFINE none == {}
    <2>1. none \in Optional
      BY DEF Optional
    <2>2. PICK j \in DOMAIN doc.items, f \in {"price", "total", "tax"} : other = LineRead(doc, j, f, none)
      BY <1>4
    <2>. HIDE DEF none
    <2>. QED BY <2>1, <2>2, LineReadIsDocument
  <1>5. other \in ClearedAmounts(doc) => \E f \in {"subtotal", "tax", "total", "po"} : other = [doc EXCEPT ![f] = {}]
    BY DEF ClearedAmounts
  <1>6. other \in ClearedTexts(doc) => \/ other \in {[doc EXCEPT !.day = 0], [doc EXCEPT !.location = ""]}
                                       \/ other = [doc EXCEPT !.supplier.name = ""]
    BY Zenon DEF ClearedTexts
  <1>7. other \in ClearedLines(doc) =>
            \E j \in DOMAIN doc.items, f \in {"price", "total", "tax"} : other = LineRead(doc, j, f, {})
    BY DEF ClearedLines
  <1>8. CASE other \in ClearedAmounts(doc)
    BY <1>1, <1>5, <1>8
  <1>9. CASE other \in ClearedTexts(doc)
    BY <1>2, <1>3, <1>6, <1>9
  <1>10. CASE other \in ClearedLines(doc)
    BY <1>4, <1>7, <1>10
  <1>. QED BY <1>8, <1>9, <1>10 DEF Cleared

LEMMA MisreadItemsAreDocuments ==
    ASSUME NEW doc \in Document, NEW other \in MisreadItems(doc)
    PROVE  other \in Document
  <1>1. ASSUME other \in MisreadQuantities(doc) PROVE other \in Document
    <2>. DEFINE field == "qty"
                value(j, e) == doc.items[j].qty + e
    <2>0. PICK j \in DOMAIN doc.items, e \in Errors : other = LineRead(doc, j, field, value(j, e))
      BY <1>1 DEF MisreadQuantities
    <2>1. doc.items[j] \in Item /\ e \in Int
      BY DocumentFields, DocumentsAreTyped
    <2>2. field = "qty" /\ value(j, e) \in Int
      BY <2>1 DEF Item
    <2>. HIDE DEF field, value
    <2>. QED BY <2>0, <2>2, LineReadIsDocument
  <1>2. ASSUME other \in MisreadAmounts(doc) PROVE other \in Document
    <2>0. PICK j \in DOMAIN doc.items, f \in {"price", "total", "tax"}, e \in Errors :
              other = LineRead(doc, j, f, Shifted(doc.items[j][f], e))
      BY <1>2 DEF MisreadAmounts
    <2>1. doc.items[j] \in Item /\ e \in Int
      BY DocumentFields, DocumentsAreTyped
    <2>2. doc.items[j][f] \in SUBSET Int
      BY <2>1 DEF Item, Optional
    <2>3. Shifted(doc.items[j][f], e) \in Optional
      BY <2>1, <2>2 DEF Optional, Shifted
    <2>. QED BY <2>0, <2>3, LineReadIsDocument
  <1>3. ASSUME other \in MisreadGoods(doc) PROVE other \in Document
    <2>1. PICK j \in DOMAIN doc.items, good \in OtherGoods : other = GoodsRead(doc, j, good)
      BY <1>3 DEF MisreadGoods
    <2>. DEFINE item  == [doc.items[j] EXCEPT !.key = good.key, !.match = good.match]
                items == [doc.items EXCEPT ![j] = item]
    <2>2. item \in Item
      <3>1. doc.items[j] \in Item /\ good.key \in Texts /\ good.match \in Texts
        BY DocumentFields, DocumentsAreTyped
      <3>. QED BY <3>1 DEF Item
    <2>3. other = [doc EXCEPT !.items = items]
      BY <2>1 DEF GoodsRead
    <2>. HIDE DEF item
    <2>4. items \in Seq(Item)
      BY <2>2, DocumentFields
    <2>. HIDE DEF items
    <2>. QED BY <2>3, <2>4 DEF Document
  <1>. QED BY <1>1, <1>2, <1>3 DEF MisreadItems

LEMMA MisreadAreDocuments ==
    ASSUME NEW doc \in Document, NEW m \in Misreadings(doc)
    PROVE  m.doc \in Document
  <1>1. CASE \E other \in MisreadItems(doc) : m = [field |-> "items", doc |-> other]
    BY <1>1, MisreadItemsAreDocuments
  <1>2. CASE \E h \in OtherHeaders : m = [field |-> h[1], doc |-> [doc EXCEPT ![h[1]] = h[2]]]
    <2>. DEFINE other(h) == [doc EXCEPT ![h[1]] = h[2]]
    <2>0. PICK h \in OtherHeaders : m.doc = other(h)
      <3>1. PICK h \in OtherHeaders : m = [field |-> h[1], doc |-> other(h)]
        BY <1>2
      <3>. HIDE DEF other
      <3>. QED BY <3>1
    <2>1. \/ h[1] \in {"number", "location", "currency"} /\ h[2] \in Texts
          \/ h[1] = "po" /\ h[2] \in SUBSET Texts
          \/ h[1] = "day" /\ h[2] \in Nat
          \/ h[1] = "supplier" /\ h[2] \in [abn : Texts, name : Texts]
      BY DocumentsAreTyped
    <2>. QED BY <2>0, <2>1 DEF Document
  <1>. QED BY <1>1, <1>2 DEF Misreadings

LEMMA NotesAreDocuments ==
    ASSUME NEW doc \in Document PROVE NoteOf(doc) \in Document /\ NoteOf(doc).items = doc.items
  <1>. DEFINE number == "note"
  <1>1. number \in Texts
    BY DocumentsAreTyped
  <1>2. NoteOf(doc) = [doc EXCEPT !.number = number, !.subtotal = {}, !.tax = {}, !.total = {}]
    BY DEF NoteOf
  <1>. HIDE DEF number
  <1>. QED BY <1>1, <1>2 DEF Document, Optional

LEMMA ItemsReplaced ==
    ASSUME NEW doc \in Document, NEW items \in Seq(Item)
    PROVE  /\ [doc EXCEPT !.items = items] \in Document
           /\ [doc EXCEPT !.items = items].items = items
  BY DEF Document

\* What DeliverApart makes of the line and adds to the second note.
Rest(item) == [item EXCEPT !.qty = @ - 1, !.total = {t - p : t \in @, p \in item.price}, !.tax = {}]
One(item)  == [item EXCEPT !.qty = 1, !.total = item.price, !.tax = {}]

LEMMA PartsAreItems ==
    ASSUME NEW item \in Item
    PROVE  /\ Rest(item) \in Item /\ Rest(item).qty = item.qty - 1
           /\ Rest(item).key = item.key /\ Rest(item).match = item.match /\ Rest(item).unit = item.unit
           /\ One(item) \in Item /\ One(item).qty = 1
           /\ One(item).key = item.key /\ One(item).match = item.match /\ One(item).unit = item.unit
  <1>. DEFINE left == {t - p : t \in item.total, p \in item.price}
  <1>1. item.qty \in Int /\ item.price \in SUBSET Int /\ item.total \in SUBSET Int
    BY DEF Item, Optional
  <1>2. left \in Optional /\ item.price \in Optional /\ {} \in Optional
    BY <1>1 DEF Optional
  <1>3. item.qty - 1 \in Int /\ 1 \in Int
    BY <1>1
  <1>4. Rest(item) = [item EXCEPT !.qty = item.qty - 1, !.total = left, !.tax = {}]
    BY DEF Rest
  <1>. HIDE DEF left
  <1>5. /\ Rest(item) \in Item /\ Rest(item).qty = item.qty - 1
        /\ Rest(item).key = item.key /\ Rest(item).match = item.match /\ Rest(item).unit = item.unit
    BY <1>2, <1>3, <1>4 DEF Item
  <1>6. /\ One(item) \in Item /\ One(item).qty = 1
        /\ One(item).key = item.key /\ One(item).match = item.match /\ One(item).unit = item.unit
    BY <1>2, <1>3 DEF Item, One
  <1>. QED BY <1>5, <1>6

\* The notes after DeliverApart, and that they are documents again.
LEMMA ApartMeans ==
    ASSUME DocumentsTyped, NEW j \in DOMAIN notes[1].items, DeliverApart(j)
    PROVE  LET item  == notes[1].items[j]
               items == [notes[1].items EXCEPT ![j] = Rest(item)]
               more  == IF 2 \in DOMAIN notes THEN notes[2].items ELSE <<>>
           IN  /\ item \in Item /\ items \in Seq(Item) /\ more \in Seq(Item)
               /\ Append(more, One(item)) \in Seq(Item)
               /\ notes' = [n \in {1, 2} |-> IF n = 1 THEN [notes[1] EXCEPT !.items = items]
                                             ELSE [notes[1] EXCEPT !.items = Append(more, One(item))]]
               /\ misread = {} /\ item.qty > 1 /\ item.total # {} /\ item.price # {}
               /\ UNCHANGED <<invoice, misread>>
  <1>. DEFINE item  == notes[1].items[j]
              items == [notes[1].items EXCEPT ![j] = Rest(item)]
              more  == IF 2 \in DOMAIN notes THEN notes[2].items ELSE <<>>
  <1>1. 1 \in DOMAIN notes /\ notes[1] \in Document
    BY DEF DocumentsTyped
  <1>2. item \in Item /\ notes[1].items \in Seq(Item)
    BY <1>1, DocumentFields
  <1>3. Rest(item) \in Item /\ One(item) \in Item
    BY <1>2, PartsAreItems
  <1>4. items \in Seq(Item)
    <2>. HIDE DEF item
    <2>. QED BY <1>2, <1>3
  <1>5. more \in Seq(Item)
    <2>1. CASE 2 \in DOMAIN notes
      BY <2>1, DocumentFields DEF DocumentsTyped
    <2>2. CASE 2 \notin DOMAIN notes
      BY <2>2
    <2>. QED BY <2>1, <2>2
  <1>6. Append(more, One(item)) \in Seq(Item)
    <2>. HIDE DEF item, more
    <2>. QED BY <1>3, <1>5
  <1>7. /\ notes' = [n \in {1, 2} |-> IF n = 1 THEN [notes[1] EXCEPT !.items[j] = Rest(item)]
                                      ELSE [notes[1] EXCEPT !.items = Append(more, One(item))]]
        /\ misread = {} /\ item.qty > 1 /\ item.total # {} /\ item.price # {}
        /\ UNCHANGED <<invoice, misread>>
    BY DEF DeliverApart, Rest, One
  <1>. HIDE DEF more
  <1>8. notes' = [n \in {1, 2} |-> IF n = 1 THEN [notes[1] EXCEPT !.items = items]
                                   ELSE [notes[1] EXCEPT !.items = Append(more, One(item))]]
    BY <1>7
  <1>. HIDE DEF item, items
  <1>. QED BY <1>2, <1>4, <1>5, <1>6, <1>7, <1>8 DEF item, items, more

LEMMA TypedInit == Init => DocumentsTyped
  <1>. SUFFICES ASSUME Init PROVE DocumentsTyped
    OBVIOUS
  <1>1. invoice \in Document
    BY DocumentsAreTyped DEF Init
  <1>2. NoteOf(invoice) \in Document
    BY <1>1, NotesAreDocuments
  <1>3. notes = [n \in {1} |-> NoteOf(invoice)]
    BY DEF Init
  <1>. QED BY <1>1, <1>2, <1>3 DEF DocumentsTyped

LEMMA TypedStep == DocumentsTyped /\ [Next]_vars => DocumentsTyped'
  <1>. SUFFICES ASSUME DocumentsTyped, [Next]_vars PROVE DocumentsTyped'
    OBVIOUS
  <1>0. ASSUME NEW n \in DOMAIN notes, NEW doc \in Document, notes' = [notes EXCEPT ![n] = doc],
               UNCHANGED invoice
        PROVE  DocumentsTyped'
    BY <1>0 DEF DocumentsTyped
  <1>1. CASE Missed
    <2>1. ASSUME invoice' \in Cleared(invoice), UNCHANGED notes PROVE DocumentsTyped'
      BY <2>1, ClearedAreDocuments DEF DocumentsTyped
    <2>2. ASSUME NEW n \in DOMAIN notes, NEW doc \in Cleared(notes[n]),
                 notes' = [notes EXCEPT ![n] = doc], UNCHANGED invoice
          PROVE  DocumentsTyped'
      <3>1. doc \in Document
        BY ClearedAreDocuments DEF DocumentsTyped
      <3>. QED BY <1>0, <2>2, <3>1
    <2>. QED BY <1>1, <2>1, <2>2 DEF Missed
  <1>2. CASE Misread
    <2>1. ASSUME NEW m \in Misreadings(invoice), invoice' = m.doc, UNCHANGED notes PROVE DocumentsTyped'
      BY <2>1, MisreadAreDocuments DEF DocumentsTyped
    <2>2. ASSUME NEW n \in DOMAIN notes, NEW m \in Misreadings(notes[n]),
                 notes' = [notes EXCEPT ![n] = m.doc], UNCHANGED invoice
          PROVE  DocumentsTyped'
      <3>1. m.doc \in Document
        BY MisreadAreDocuments DEF DocumentsTyped
      <3>. QED BY <1>0, <2>2, <3>1
    <2>. QED BY <1>2, <2>1, <2>2 DEF Misread
  <1>3. ASSUME NEW j \in DOMAIN notes[1].items, DeliverApart(j) PROVE DocumentsTyped'
    <2>. DEFINE item   == notes[1].items[j]
                first  == [notes[1].items EXCEPT ![j] = Rest(item)]
                more   == IF 2 \in DOMAIN notes THEN notes[2].items ELSE <<>>
                second == Append(more, One(item))
    <2>1. /\ first \in Seq(Item) /\ second \in Seq(Item)
          /\ notes' = [n \in {1, 2} |-> IF n = 1 THEN [notes[1] EXCEPT !.items = first]
                                        ELSE [notes[1] EXCEPT !.items = second]]
          /\ UNCHANGED invoice
      BY <1>3, ApartMeans, Zenon
    <2>. HIDE DEF first, second
    <2>2. notes[1] \in Document
      BY DEF DocumentsTyped
    <2>3. [notes[1] EXCEPT !.items = first] \in Document /\ [notes[1] EXCEPT !.items = second] \in Document
      BY <2>1, <2>2, ItemsReplaced
    <2>. QED BY <2>1, <2>3 DEF DocumentsTyped
  <1>4. CASE UNCHANGED vars
    BY <1>4 DEF DocumentsTyped, vars
  <1>. QED BY <1>1, <1>2, <1>3, <1>4 DEF Next

LEMMA AlwaysTyped == Spec => []DocumentsTyped
  BY TypedInit, TypedStep, PTL DEF Spec

-----------------------------------------------------------------------------
(* Sums of quantities.                                                     *)

\* The sum of values that are all known is the sum of what they are.
LEMMA KnownSum ==
    ASSUME NEW values, NEW D, DOMAIN values = D, IsFiniteSet(D),
           NEW f, \A p \in D : values[p] = {f[p]}
    PROVE  SumIfAllKnown(values) = {SumOver(f, D)}
  <1>. DEFINE known == [p \in DOMAIN values |-> CHOOSE v \in values[p] : TRUE]
              sum[S \in SUBSET DOMAIN values] ==
                  IF S = {} THEN 0
                  ELSE LET p == CHOOSE q \in S : TRUE IN known[p] + sum[S \ {p}]
  <1>0. IsFiniteSet(DOMAIN values)
    OBVIOUS
  <1>. HIDE DEF known
  <1>1. PICK F : Sums(F, known, DOMAIN values)
    BY <1>0, SumsExist
  <1>2. sum = [S \in SUBSET DOMAIN values |->
                  IF S = {} THEN 0
                  ELSE LET p == CHOOSE q \in S : TRUE IN known[p] + sum[S \ {p}]]
    <2>1. F = [S \in SUBSET DOMAIN values |->
                  IF S = {} THEN 0
                  ELSE LET p == CHOOSE q \in S : TRUE IN known[p] + F[S \ {p}]]
      BY <1>1, Zenon DEF Sums
    <2>. DEFINE IsSum(G) == G = [S \in SUBSET DOMAIN values |->
                                    IF S = {} THEN 0
                                    ELSE LET p == CHOOSE q \in S : TRUE IN known[p] + G[S \ {p}]]
    <2>2. IsSum(F)
      BY <2>1
    <2>3. sum = CHOOSE G : IsSum(G)
      BY Zenon
    <2>4. IsSum(CHOOSE G : IsSum(G))
      <3>. HIDE DEF IsSum
      <3>. QED BY <2>2
    <2>5. IsSum(sum)
      <3>. HIDE DEF IsSum, sum
      <3>. QED BY <2>3, <2>4
    <2>. QED BY <2>5, Zenon
  <1>3. SumIfAllKnown(values) = IF \E p \in DOMAIN values : values[p] = {} THEN {} ELSE {sum[DOMAIN values]}
    BY DEF SumIfAllKnown, known
  <1>4. \A p \in D : known[p] = f[p]
    BY DEF known
  <1>. HIDE DEF sum, known
  <1>5. Sums(sum, known, D)
    BY <1>2 DEF Sums
  <1>6. sum[D] = SumOver(known, D)
    BY <1>5, AnySum
  <1>7. SumOver(known, D) = SumOver(f, D)
    BY <1>4, SumSame
  <1>8. ~ \E p \in D : values[p] = {}
    OBVIOUS
  <1>. QED BY <1>3, <1>6, <1>7, <1>8

Quantities(docs) == [p \in Positions(docs) |-> Line(docs, p).qty]
Counted(docs) == IsFiniteSet(Positions(docs)) /\ \A p \in Positions(docs) : Quantities(docs)[p] \in Int

LEMMA FewPositions ==
    ASSUME NEW docs, IsFiniteSet(DOMAIN docs), \A d \in DOMAIN docs : IsFiniteSet(DOMAIN docs[d].items)
    PROVE  IsFiniteSet(Positions(docs))
  <1>. DEFINE of == [d \in DOMAIN docs |-> {<<d, j>> : j \in DOMAIN docs[d].items}]
  <1>1. Positions(docs) = UNION {of[d] : d \in DOMAIN docs}
    BY DEF Positions
  <1>2. ASSUME NEW d \in DOMAIN docs PROVE IsFiniteSet(of[d])
    <2>. DEFINE at == [j \in DOMAIN docs[d].items |-> <<d, j>>]
    <2>1. of[d] = {at[j] : j \in DOMAIN docs[d].items}
      OBVIOUS
    <2>. HIDE DEF at, of
    <2>. QED BY <2>1, FiniteImage
  <1>3. IsFiniteSet({of[d] : d \in DOMAIN docs})
    <2>. HIDE DEF of
    <2>. QED BY FiniteImage
  <1>4. \A T \in {of[d] : d \in DOMAIN docs} : IsFiniteSet(T)
    <2>. HIDE DEF of
    <2>. QED BY <1>2
  <1>. HIDE DEF of
  <1>. QED BY <1>1, <1>3, <1>4, FS_UNION

LEMMA DocumentsAreCounted ==
    ASSUME NEW docs, IsFiniteSet(DOMAIN docs), \A d \in DOMAIN docs : docs[d] \in Document
    PROVE  Counted(docs)
  <1>1. ASSUME NEW d \in DOMAIN docs
        PROVE  IsFiniteSet(DOMAIN docs[d].items) /\ \A j \in DOMAIN docs[d].items : docs[d].items[j] \in Item
    BY DocumentFields
  <1>2. IsFiniteSet(Positions(docs))
    BY <1>1, FewPositions
  <1>3. ASSUME NEW p \in Positions(docs) PROVE Quantities(docs)[p] \in Int
    <2>0. PICK d \in DOMAIN docs : p \in {<<d, j>> : j \in DOMAIN docs[d].items}
      BY DEF Positions
    <2>1. PICK j \in DOMAIN docs[d].items : p = <<d, j>>
      BY <2>0
    <2>2. Line(docs, p) = docs[d].items[j]
      BY <2>1 DEF Line
    <2>3. Line(docs, p).qty \in Int
      BY <1>1, <2>2 DEF Item
    <2>. QED BY <2>3 DEF Quantities
  <1>. QED BY <1>2, <1>3 DEF Counted

LEMMA InvoiceIsCounted == ASSUME DocumentsTyped PROVE Counted(Invoiced)
  <1>1. DOMAIN Invoiced = {"invoice"} /\ Invoiced["invoice"] = invoice /\ invoice \in Document
    BY DEF Invoiced, DocumentsTyped
  <1>2. IsFiniteSet({"invoice"})
    BY FS_Singleton
  <1>. QED BY <1>1, <1>2, DocumentsAreCounted

LEMMA NotesAreCounted == ASSUME DocumentsTyped PROVE Counted(notes)
  <1>1. DOMAIN notes \in {{1}, {1, 2}} /\ \A n \in DOMAIN notes : notes[n] \in Document
    BY DEF DocumentsTyped
  <1>2. IsFiniteSet({1}) /\ IsFiniteSet({2}) /\ {1, 2} = {1} \cup {2}
    BY FS_Singleton
  <1>3. IsFiniteSet({1} \cup {2})
    BY <1>2, FS_Union
  <1>4. IsFiniteSet(DOMAIN notes)
    BY <1>1, <1>2, <1>3
  <1>. QED BY <1>1, <1>4, DocumentsAreCounted

\* The quantity of some lines of documents.
LEMMA LinesSum ==
    ASSUME NEW docs, Counted(docs), NEW S \in SUBSET Positions(docs)
    PROVE  /\ IsFiniteSet(S)
           /\ SumOver(Quantities(docs), S) \in Int
           /\ SumIfAllKnown([p \in S |-> {Line(docs, p).qty}]) = {SumOver(Quantities(docs), S)}
  <1>. DEFINE values == [p \in S |-> {Line(docs, p).qty}]
  <1>1. IsFiniteSet(S) /\ \A p \in S : Quantities(docs)[p] \in Int
    BY FS_Subset DEF Counted
  <1>2. SumOver(Quantities(docs), S) \in Int
    BY <1>1, SumType
  <1>3. DOMAIN values = S /\ \A p \in S : values[p] = {Quantities(docs)[p]}
    BY DEF Quantities
  <1>. HIDE DEF values
  <1>4. SumIfAllKnown(values) = {SumOver(Quantities(docs), S)}
    BY <1>1, <1>3, KnownSum
  <1>. QED BY <1>1, <1>2, <1>4 DEF values

\* Documents with the same lines have the same groups and sums.
LEMMA SameLines ==
    ASSUME NEW docs, NEW others, DOMAIN docs = DOMAIN others,
           \A d \in DOMAIN docs : docs[d].items = others[d].items
    PROVE  /\ Positions(docs) = Positions(others)
           /\ \A p \in Positions(docs) : Line(docs, p) = Line(others, p)
           /\ Quantities(docs) = Quantities(others)
           /\ \A field, value : LinesWith(docs, field, value) = LinesWith(others, field, value)
           /\ \A key, unit : Group(docs, key, unit) = Group(others, key, unit)
  <1>1. Positions(docs) = Positions(others)
    BY DEF Positions
  <1>2. ASSUME NEW p \in Positions(docs) PROVE Line(docs, p) = Line(others, p)
    <2>0. PICK d \in DOMAIN docs : p \in {<<d, j>> : j \in DOMAIN docs[d].items}
      BY DEF Positions
    <2>1. PICK j \in DOMAIN docs[d].items : p = <<d, j>>
      BY <2>0
    <2>. QED BY <2>1 DEF Line
  <1>3. Quantities(docs) = Quantities(others)
    BY <1>1, <1>2 DEF Quantities
  <1>4. \A field, value : LinesWith(docs, field, value) = LinesWith(others, field, value)
    BY <1>1, <1>2 DEF LinesWith
  <1>5. \A key, unit : Group(docs, key, unit) = Group(others, key, unit)
    BY <1>1, <1>2 DEF Group
  <1>. QED BY <1>1, <1>2, <1>3, <1>4, <1>5

-----------------------------------------------------------------------------
(* Shortages.                                                              *)

LEMMA Distances ==
    ASSUME NEW a \in Int, NEW b \in Int
    PROVE  /\ Distance(a, b) \in Nat
           /\ a # b => Distance(a, b) > 0
  BY DEF Distance

\* In the legacy a difference of the quantities is a line to decide on.
LEMMA ShortLinesAreActionable ==
    ASSUME NEW left, NEW right, Counted(left), Counted(right), NEW key,
           SumOver(Quantities(left), KeyLines(left, key)) # SumOver(Quantities(right), KeyLines(right, key))
    PROVE  Classify(left, right, key) \in Actionable
  <1>. DEFINE a == SumOver(Quantities(left), KeyLines(left, key))
              b == SumOver(Quantities(right), KeyLines(right, key))
              gaps == Gaps(Merged(left, key), Merged(right, key))
  <1>1. KeyLines(left, key) \in SUBSET Positions(left) /\ KeyLines(right, key) \in SUBSET Positions(right)
    BY DEF KeyLines
  <1>2. /\ a \in Int /\ b \in Int
        /\ Merged(left, key).quantity = {a} /\ Merged(right, key).quantity = {b}
    BY <1>1, LinesSum DEF Merged
  <1>. HIDE DEF a, b
  <1>3. [gap |-> Distance(a, b), limit |-> 0] \in gaps
    BY <1>2 DEF Gaps
  <1>4. a # b
    BY DEF a, b
  <1>5. \E g \in gaps : g.gap > g.limit
    <2>1. Distance(a, b) > 0
      BY <1>2, <1>4, Distances
    <2>. HIDE DEF gaps
    <2>. QED BY <1>3, <2>1
  <1>6. Classify(left, right, key) =
          IF KeyLines(left, key) = {} THEN "receive_note_only"
          ELSE IF KeyLines(right, key) = {} THEN "invoice_only"
          ELSE IF \E g \in gaps : g.gap > g.limit THEN "mismatch"
          ELSE IF \E g \in gaps : g.gap > 0 THEN "within_tolerance" ELSE "exact"
    BY DEF Classify
  <1>. HIDE DEF gaps
  <1>7. Classify(left, right, key) \in {"receive_note_only", "invoice_only", "mismatch"}
    <2>1. \/ KeyLines(left, key) = {} /\ KeyLines(right, key) = {}
          \/ KeyLines(left, key) = {} /\ KeyLines(right, key) # {}
          \/ KeyLines(left, key) # {} /\ KeyLines(right, key) = {}
          \/ KeyLines(left, key) # {} /\ KeyLines(right, key) # {}
      OBVIOUS
    <2>2. CASE KeyLines(left, key) = {} /\ KeyLines(right, key) = {}
      <3>1. a = 0 /\ b = 0
        BY <2>2, SumOfNone DEF a, b
      <3>. QED BY <1>4, <3>1
    <2>3. CASE KeyLines(left, key) = {} /\ KeyLines(right, key) # {}
      BY <1>5, <1>6, <2>3
    <2>4. CASE KeyLines(left, key) # {} /\ KeyLines(right, key) = {}
      BY <1>5, <1>6, <2>4
    <2>5. CASE KeyLines(left, key) # {} /\ KeyLines(right, key) # {}
      BY <1>5, <1>6, <2>5
    <2>. QED BY <2>1, <2>2, <2>3, <2>4, <2>5
  <1>. QED BY <1>7 DEF Actionable

\* An actionable line is an item of a case.
LEMMA ActionableHasItem ==
    ASSUME NEW inv, NEW ns, NEW key \in DOMAIN Reconcile(inv, ns).lines,
           Reconcile(inv, ns).lines[key] \in Actionable
    PROVE  <<"line", key>> \in CaseItemsOf(Reconcile(inv, ns))
  <1>. DEFINE result == Reconcile(inv, ns)
              keys   == Keys(inv) \cup UNION {Keys(ns[n]) : n \in DOMAIN ns}
              alone  == [i \in {"invoice"} |-> inv]
              status == [k \in keys |-> Classify(alone, ns, k)]
  <1>1. /\ result.lines = status
        /\ (\E k \in keys : status[k] \in Actionable) => result.requiresReview
    BY Zenon DEF Reconcile
  <1>2. key \in keys /\ status[key] \in Actionable
    <2>1. DOMAIN status = keys
      OBVIOUS
    <2>. HIDE DEF status, keys, result
    <2>. QED BY <1>1, <2>1 DEF result
  <1>3. result.requiresReview
    <2>. HIDE DEF status, keys, result
    <2>. QED BY <1>1, <1>2
  <1>4. <<"line", key>> \in LineItems(result)
    <2>. HIDE DEF result
    <2>. QED BY DEF LineItems, result
  <1>. HIDE DEF result
  <1>. QED BY <1>3, <1>4 DEF CaseItemsOf, result

\* What requires review has an item: each of its reasons makes one.
LEMMA ReviewsHaveItems ==
    ASSUME NEW inv, NEW ns, Reconcile(inv, ns).requiresReview
    PROVE  CaseItemsOf(Reconcile(inv, ns)) # {}
  <1>. DEFINE result == Reconcile(inv, ns)
              keys   == Keys(inv) \cup UNION {Keys(ns[n]) : n \in DOMAIN ns}
              alone  == [i \in {"invoice"} |-> inv]
              status == [k \in keys |-> Classify(alone, ns, k)]
  <1>1. /\ result.lines = status
        /\ \/ \E k \in keys : status[k] \in Actionable
           \/ result.poMatch = {FALSE} \/ ~result.currencyMatch
    BY Zenon DEF Reconcile
  <1>2. CASE \E k \in keys : status[k] \in Actionable
    <2>1. PICK k \in keys : status[k] \in Actionable
      BY <1>2
    <2>2. DOMAIN status = keys
      OBVIOUS
    <2>3. k \in DOMAIN result.lines /\ result.lines[k] \in Actionable
      <3>. HIDE DEF status, keys, result
      <3>. QED BY <1>1, <2>1, <2>2
    <2>4. <<"line", k>> \in CaseItemsOf(result)
      BY <2>3, ActionableHasItem
    <2>. QED BY <2>4
  <1>3. CASE result.poMatch = {FALSE}
    <2>. HIDE DEF result
    <2>1. <<"purchase_order_conflict">> # <<"currency_conflict">>
      OBVIOUS
    <2>2. <<"purchase_order_conflict">> \in HeaderItems(result)
      BY <1>3, <2>1 DEF HeaderItems
    <2>. QED BY <2>2 DEF CaseItemsOf, result
  <1>4. CASE ~result.currencyMatch
    <2>. HIDE DEF result
    <2>1. <<"currency_conflict">> \in HeaderItems(result)
      BY <1>4 DEF HeaderItems
    <2>. QED BY <2>1 DEF CaseItemsOf, result
  <1>. QED BY <1>1, <1>2, <1>3, <1>4

\* Lines that the workspace does not call different have the same quantity.
LEMMA EqualLinesBalance ==
    ASSUME NEW left, NEW right, Counted(left), Counted(right), NEW key, NEW unit,
           Group(left, key, unit) # {}, Group(right, key, unit) # {},
           LineResult(left, right, key, unit).status # "different"
    PROVE  SumOver(Quantities(left), Group(left, key, unit)) = SumOver(Quantities(right), Group(right, key, unit))
  <1>. DEFINE a == SumOver(Quantities(left), Group(left, key, unit))
              b == SumOver(Quantities(right), Group(right, key, unit))
              l == Aggregate(left, key, unit)
              r == Aggregate(right, key, unit)
              statuses == {Metric(l.quantity, r.quantity, 0), Metric(l.price, r.price, 1),
                           Metric(l.amount, r.amount, 2)}
  <1>1. Group(left, key, unit) \in SUBSET Positions(left) /\ Group(right, key, unit) \in SUBSET Positions(right)
    BY DEF Group
  <1>2. a \in Int /\ b \in Int /\ l.quantity = {a} /\ r.quantity = {b}
    BY <1>1, LinesSum DEF Aggregate
  <1>3. "different" \notin statuses
    BY DEF LineResult
  <1>. HIDE DEF a, b, l, r
  <1>4. Metric(l.quantity, r.quantity, 0) # "different"
    BY <1>3
  <1>5. CASE a # b
    <2>. DEFINE d == Distance(a, b)
    <2>1. d \in Nat /\ d > 0
      BY <1>2, <1>5, Distances
    <2>2. {Distance(x, y) : x \in l.quantity, y \in r.quantity} = {d}
      BY <1>2
    <2>. HIDE DEF d
    <2>3. (CHOOSE v \in {d} : TRUE) = d
      OBVIOUS
    <2>4. Metric(l.quantity, r.quantity, 0) = "different"
      BY <1>2, <2>1, <2>2, <2>3 DEF Metric
    <2>. QED BY <1>4, <2>4
  <1>. QED BY <1>5 DEF a, b

\* A consistent comparison has no line that is different or on one side only.
LEMMA ConsistentLines ==
    ASSUME NEW inv, NEW ns, Compare(inv, ns).outcome = "consistent",
           NEW g \in Groups([i \in {"invoice"} |-> inv]) \cup Groups(ns)
    PROVE  LineResult([i \in {"invoice"} |-> inv], ns, g[1], g[2]).status
               \notin {"different", "invoice_only", "receive_only"}
  <1>. DEFINE alone   == [i \in {"invoice"} |-> inv]
              lines   == {LineResult(alone, ns, h[1], h[2]) : h \in Groups(alone) \cup Groups(ns)}
              aligned == {l \in lines : l.aligned}
              blocks  == Blocks(inv, ns)
              differs == \E l \in lines : l.status \in {"different", "invoice_only", "receive_only"}
  <1>1. Compare(inv, ns).outcome = IF blocks # {} THEN "blocked"
                                   ELSE IF differs \/ aligned = {} THEN "difference" ELSE "consistent"
    BY DEF Compare
  <1>2. LineResult(alone, ns, g[1], g[2]) \in lines
    OBVIOUS
  <1>3. ~differs
    <2>. HIDE DEF blocks, differs, aligned
    <2>. QED BY <1>1
  <1>4. \A l \in lines : l.status \notin {"different", "invoice_only", "receive_only"}
    <2>. HIDE DEF lines
    <2>. QED BY <1>3
  <1>. QED BY <1>2, <1>4

\* A consistent comparison balances every group, those of one side included.
LEMMA ConsistentGroups ==
    ASSUME NEW inv, NEW ns, NEW left, left = [i \in {"invoice"} |-> inv], Counted(left), Counted(ns),
           Compare(inv, ns).outcome = "consistent", NEW key, NEW unit
    PROVE  SumOver(Quantities(left), Group(left, key, unit)) = SumOver(Quantities(ns), Group(ns, key, unit))
  <1>1. CASE Group(left, key, unit) = {} /\ Group(ns, key, unit) = {}
    BY <1>1, SumOfNone
  <1>2. ASSUME Group(left, key, unit) # {} \/ Group(ns, key, unit) # {}
        PROVE  LineResult(left, ns, key, unit).status \notin {"different", "invoice_only", "receive_only"}
    <2>. DEFINE g == <<key, unit>>
    <2>1. g \in Groups(left) \cup Groups(ns)
      BY <1>2 DEF Group, Groups
    <2>2. g[1] = key /\ g[2] = unit
      OBVIOUS
    <2>. HIDE DEF g
    <2>. QED BY <2>1, <2>2, ConsistentLines
  <1>3. ASSUME Group(left, key, unit) # {} \/ Group(ns, key, unit) # {}
        PROVE  Group(left, key, unit) # {} /\ Group(ns, key, unit) # {}
    BY <1>2, <1>3 DEF LineResult
  <1>4. CASE Group(left, key, unit) # {} \/ Group(ns, key, unit) # {}
    BY <1>2, <1>3, <1>4, EqualLinesBalance
  <1>. QED BY <1>1, <1>4

\* So it balances every good, whatever units it was counted in.
LEMMA ConsistentBalances ==
    ASSUME NEW inv, NEW ns, NEW left, left = [i \in {"invoice"} |-> inv], Counted(left), Counted(ns),
           Compare(inv, ns).outcome = "consistent", NEW key
    PROVE  SumOver(Quantities(left), LinesWith(left, "key", key)) = SumOver(Quantities(ns), LinesWith(ns, "key", key))
  <1>. DEFINE unit(docs) == [p \in Positions(docs) |-> Line(docs, p).unit]
              S == LinesWith(left, "key", key)
              T == LinesWith(ns, "key", key)
              f == Quantities(left)
              g == Quantities(ns)
              c == unit(left)
              d == unit(ns)
  <1>1. \A u : Part(S, c, u) = Group(left, key, u)
    BY DEF LinesWith, Group, Part
  <1>2. \A u : Part(T, d, u) = Group(ns, key, u)
    BY DEF LinesWith, Group, Part
  <1>3. \A u : SumOver(f, Group(left, key, u)) = SumOver(g, Group(ns, key, u))
    BY ConsistentGroups
  <1>4. IsFiniteSet(S) /\ \A x \in S : f[x] \in Int
    BY FS_Subset DEF LinesWith, Counted
  <1>5. IsFiniteSet(T) /\ \A x \in T : g[x] \in Int
    BY FS_Subset DEF LinesWith, Counted
  <1>. HIDE DEF S, T, c, d, f, g
  <1>6. EqualByParts(f, S, c, g, T, d)
    BY <1>1, <1>2, <1>3 DEF EqualByParts
  <1>7. SumOver(f, S) = SumOver(g, T)
    BY <1>4, <1>5, <1>6, SumByParts
  <1>. QED BY <1>7 DEF S, T, f, g

\* In either field, what moved is the sum over the lines.
LEMMA MovedLines ==
    ASSUME NEW docs, Counted(docs), NEW field, NEW value
    PROVE  Moved(docs, field, value) = {SumOver(Quantities(docs), LinesWith(docs, field, value))}
  <1>1. LinesWith(docs, field, value) \in SUBSET Positions(docs)
    BY DEF LinesWith
  <1>. QED BY <1>1, LinesSum DEF Moved

\* A shortage in the normal form of the legacy has an item of the case.
LEMMA ShortMatchesHaveItems ==
    ASSUME DocumentsTyped, NEW good \in Goods,
           Moved(Invoiced, "match", good.match) # Moved(notes, "match", good.match)
    PROVE  <<"line", good.match>> \in CaseItemsOf(Legacy)
  <1>. DEFINE keys  == Keys(invoice) \cup UNION {Keys(notes[n]) : n \in DOMAIN notes}
              alone == [i \in {"invoice"} |-> invoice]
              key   == good.match
  <1>1. Counted(Invoiced) /\ Counted(notes)
    BY InvoiceIsCounted, NotesAreCounted
  <1>2. \A docs : LinesWith(docs, "match", key) = KeyLines(docs, key)
    BY DEF LinesWith, KeyLines
  <1>3. SumOver(Quantities(Invoiced), KeyLines(Invoiced, key)) # SumOver(Quantities(notes), KeyLines(notes, key))
    BY <1>1, <1>2, MovedLines
  <1>4. Classify(Invoiced, notes, key) \in Actionable
    BY <1>1, <1>3, ShortLinesAreActionable
  <1>5. key \in keys
    <2>1. ASSUME NEW docs, NEW p \in Positions(docs), good = Line(docs, p)
          PROVE  \E d \in DOMAIN docs : key \in Keys(docs[d])
      <3>1. PICK d \in DOMAIN docs : p \in {<<d, j>> : j \in DOMAIN docs[d].items}
        BY DEF Positions
      <3>2. PICK j \in DOMAIN docs[d].items : p = <<d, j>>
        BY <3>1
      <3>. QED BY <2>1, <3>2 DEF Line, Keys
    <2>2. \/ \E p \in Positions(Invoiced) : good = Line(Invoiced, p)
          \/ \E p \in Positions(notes) : good = Line(notes, p)
      BY DEF Goods
    <2>3. DOMAIN Invoiced = {"invoice"} /\ Invoiced["invoice"] = invoice
      BY DEF Invoiced
    <2>. HIDE DEF key
    <2>. QED BY <2>1, <2>2, <2>3
  <1>6. Legacy.lines = [k \in keys |-> Classify(alone, notes, k)]
    BY Zenon DEF Legacy, Reconcile
  <1>7. alone = Invoiced
    BY DEF Invoiced
  <1>. HIDE DEF keys, alone, key
  <1>8. key \in DOMAIN Legacy.lines /\ Legacy.lines[key] = Classify(Invoiced, notes, key)
    BY <1>5, <1>6, <1>7
  <1>9. <<"line", key>> \in CaseItemsOf(Legacy)
    BY <1>4, <1>8, ActionableHasItem DEF Legacy
  <1>. QED BY <1>9 DEF key

\* A shortage in the normal form of the workspace keeps it from being consistent.
LEMMA ShortKeysAreNotConsistent ==
    ASSUME DocumentsTyped, NEW key, Moved(Invoiced, "key", key) # Moved(notes, "key", key)
    PROVE  Comparison.outcome # "consistent"
  <1>. DEFINE inv  == Payload(invoice)
              left == [i \in {"invoice"} |-> inv]
  <1>1. Counted(Invoiced) /\ Counted(notes)
    BY InvoiceIsCounted, NotesAreCounted
  <1>2. inv.items = invoice.items
    BY DEF Payload
  <1>3. DOMAIN left = DOMAIN Invoiced /\ \A i \in DOMAIN left : left[i].items = Invoiced[i].items
    <2>. HIDE DEF inv
    <2>. QED BY <1>2 DEF Invoiced
  <1>4. DOMAIN Received = DOMAIN notes /\ \A n \in DOMAIN Received : Received[n].items = notes[n].items
    BY DEF Received, Payload
  <1>. HIDE DEF inv, left
  <1>5. /\ Quantities(left) = Quantities(Invoiced) /\ Counted(left)
        /\ LinesWith(left, "key", key) = LinesWith(Invoiced, "key", key)
    BY <1>1, <1>3, SameLines DEF Counted
  <1>6. /\ Quantities(Received) = Quantities(notes) /\ Counted(Received)
        /\ LinesWith(Received, "key", key) = LinesWith(notes, "key", key)
    BY <1>1, <1>4, SameLines DEF Counted
  <1>7. left = [i \in {"invoice"} |-> inv]
    BY DEF left
  <1>8. SumOver(Quantities(left), LinesWith(left, "key", key)) # SumOver(Quantities(Received), LinesWith(Received, "key", key))
    <2>. DEFINE field == "key"
    <2>1. Moved(Invoiced, field, key) # Moved(notes, field, key)
      OBVIOUS
    <2>2. /\ SumOver(Quantities(left), LinesWith(left, field, key)) = SumOver(Quantities(Invoiced), LinesWith(Invoiced, field, key))
          /\ SumOver(Quantities(Received), LinesWith(Received, field, key)) = SumOver(Quantities(notes), LinesWith(notes, field, key))
      BY <1>5, <1>6
    <2>. HIDE DEF field
    <2>3. Moved(Invoiced, field, key) = {SumOver(Quantities(Invoiced), LinesWith(Invoiced, field, key))}
      BY <1>1, MovedLines
    <2>4. Moved(notes, field, key) = {SumOver(Quantities(notes), LinesWith(notes, field, key))}
      BY <1>1, MovedLines
    <2>5. SumOver(Quantities(left), LinesWith(left, field, key)) # SumOver(Quantities(Received), LinesWith(Received, field, key))
      BY <2>1, <2>2, <2>3, <2>4
    <2>. QED BY <2>5 DEF field
  <1>9. Compare(inv, Received).outcome # "consistent"
    BY <1>5, <1>6, <1>7, <1>8, ConsistentBalances
  <1>. QED BY <1>9 DEF Comparison, inv

\* Where both forms tell the same goods apart, a good has the same lines in both.
LEMMA ToldApartLines ==
    ASSUME ToldApart, NEW good \in Goods, NEW docs, docs = Invoiced \/ docs = notes
    PROVE  Moved(docs, "key", good.key) = Moved(docs, "match", good.match)
  <1>1. ASSUME NEW p \in Positions(docs) PROVE Line(docs, p).key = good.key <=> Line(docs, p).match = good.match
    <2>1. Line(docs, p) \in Goods
      BY DEF Goods
    <2>. QED BY <2>1 DEF ToldApart
  <1>2. LinesWith(docs, "key", good.key) = LinesWith(docs, "match", good.match)
    BY <1>1 DEF LinesWith
  <1>. QED BY <1>2 DEF Moved

LEMMA TypedDecides == DocumentsTyped => ShortagesAreDecided
  <1>. SUFFICES ASSUME DocumentsTyped PROVE ShortagesAreDecided
    OBVIOUS
  <1>1. ASSUME NEW good \in Goods, Moved(Invoiced, "match", good.match) # Moved(notes, "match", good.match)
        PROVE  <<"line", good.match>> \in CaseItemsOf(Legacy)
    BY <1>1, ShortMatchesHaveItems
  <1>2. ASSUME NEW good \in Goods, Moved(Invoiced, "key", good.key) # Moved(notes, "key", good.key)
        PROVE  Comparison.outcome # "consistent"
    BY <1>2, ShortKeysAreNotConsistent
  <1>3. ASSUME NEW good \in Goods, Moved(Invoiced, "key", good.key) # Moved(notes, "key", good.key), ToldApart
        PROVE  <<"line", good.match>> \in CaseItemsOf(Legacy)
    <2>1. /\ Moved(Invoiced, "key", good.key) = Moved(Invoiced, "match", good.match)
          /\ Moved(notes, "key", good.key) = Moved(notes, "match", good.match)
      BY <1>3, ToldApartLines
    <2>. QED BY <1>1, <1>3, <2>1
  <1>4. Legacy.requiresReview => CaseItemsOf(Legacy) # {}
    BY ReviewsHaveItems DEF Legacy
  <1>. QED BY <1>1, <1>2, <1>3, <1>4 DEF ShortagesAreDecided

(* For any invoice with any number of lines, any units and any misreading, *)
(* and for any two normal forms of the goods: a good billed and delivered  *)
(* in different quantities by the form of the legacy has an item in the    *)
(* legacy case, one that differs by the form of the workspace keeps it     *)
(* from calling the invoice consistent and has an item too when the forms  *)
(* tell the same goods apart, and no reconciliation that requires review   *)
(* is without items.                                                       *)
THEOREM ShortagesDecided == Spec => []ShortagesAreDecided
  BY AlwaysTyped, TypedDecides, PTL

-----------------------------------------------------------------------------
(* Documents of one delivery.  As long as no number is misread, every line *)
(* is a part of a line of the original: src says of which, and the parts   *)
(* of a line add up to it.  A line then says nothing about its part that   *)
(* the original does not say of the whole.                                 *)

UnitPrice(item) == CHOOSE p \in item.price : TRUE

Fits(line, item) ==
    /\ line.key = item.key /\ line.match = item.match
    /\ line.unit = item.unit /\ line.free = item.free
    /\ line.price \subseteq item.price
    /\ line.total \subseteq {line.qty * p : p \in item.price}
    /\ line.tax \subseteq item.tax

Covers(docs, o, src) ==
    /\ src \in [Positions(docs) -> DOMAIN o.items]
    /\ \A p \in Positions(docs) : Fits(Line(docs, p), o.items[src[p]])
    /\ \A j \in DOMAIN o.items :
          SumOver(Quantities(docs), Part(Positions(docs), src, j)) = o.items[j].qty

BilledAs(o) ==
    /\ DOMAIN invoice.items = DOMAIN o.items
    /\ \A j \in DOMAIN o.items :
          invoice.items[j].qty = o.items[j].qty /\ Fits(invoice.items[j], o.items[j])
    /\ invoice.subtotal \subseteq o.subtotal /\ invoice.tax \subseteq o.tax
    /\ invoice.total \subseteq o.total

DeliveredAs(o) ==
    /\ \E src : Covers(notes, o, src)
    /\ \A n \in DOMAIN notes : notes[n].subtotal = {} /\ notes[n].tax = {} /\ notes[n].total = {}

SameOrigin == "items" \notin misread => \E o \in Originals : BilledAs(o) /\ DeliveredAs(o)

LEMMA ExactLines ==
    ASSUME NEW o \in Originals, NEW j \in DOMAIN o.items
    PROVE  LET item == o.items[j]
           IN  /\ o \in Document /\ item \in Item
               /\ item.qty \in Int /\ item.qty > 0 /\ UnitPrice(item) \in Int
               /\ item.price = {UnitPrice(item)} /\ item.total = {item.qty * UnitPrice(item)}
               /\ \E t \in Int : item.tax = {t} /\ (item.free => t = 0)
  <1>. DEFINE item == o.items[j]
  <1>1. o \in Document /\ Exact(o)
    BY DocumentsAreTyped, OriginalsAreExact
  <1>2. item \in Item
    BY <1>1, DocumentFields
  <1>3. /\ item.qty > 0
        /\ \E p \in item.price : item.price = {p} /\ item.total = {item.qty * p}
        /\ \E t \in item.tax : item.tax = {t} /\ (item.free => t = 0)
    BY <1>1 DEF Exact
  <1>4. item.qty \in Int /\ item.price \in SUBSET Int /\ item.tax \in SUBSET Int
    BY <1>2 DEF Item, Optional
  <1>. HIDE DEF item
  <1>5. PICK p \in item.price : item.price = {p} /\ item.total = {item.qty * p}
    BY <1>3
  <1>6. UnitPrice(item) = p
    BY <1>5 DEF UnitPrice
  <1>. QED BY <1>1, <1>2, <1>3, <1>4, <1>5, <1>6 DEF item

Ordered(o) == [j \in DOMAIN o.items |-> o.items[j].qty]
Billed(o)  == [j \in DOMAIN o.items |-> o.items[j].qty * UnitPrice(o.items[j])]
Worth(docs, o, src) == [p \in Positions(docs) |-> Quantities(docs)[p] * UnitPrice(o.items[src[p]])]
LinesFrom(docs, src, J) == {p \in Positions(docs) : src[p] \in J}

\* The parts of a line have its quantity and, at its price, its amount.
LEMMA PartsAddUp ==
    ASSUME NEW o \in Originals, NEW docs, Counted(docs), NEW src, Covers(docs, o, src),
           NEW j \in DOMAIN o.items
    PROVE  /\ SumOver(Quantities(docs), Part(Positions(docs), src, j)) = Ordered(o)[j]
           /\ SumOver(Worth(docs, o, src), Part(Positions(docs), src, j)) = Billed(o)[j]
           /\ Ordered(o)[j] \in Int /\ Billed(o)[j] \in Int
           /\ Part(Positions(docs), src, j) # {}
  <1>. DEFINE S == Part(Positions(docs), src, j)
              u == UnitPrice(o.items[j])
              f == Quantities(docs)
              g == Worth(docs, o, src)
  <1>1. o.items[j].qty \in Int /\ o.items[j].qty > 0 /\ u \in Int
    BY ExactLines
  <1>2. S \in SUBSET Positions(docs) /\ \A p \in S : src[p] = j
    BY DEF Part
  <1>3. IsFiniteSet(S) /\ \A p \in S : f[p] \in Int
    BY <1>2, FS_Subset DEF Counted
  <1>4. \A p \in S : g[p] = f[p] * u
    BY <1>2 DEF Worth
  <1>5. SumOver(f, S) = o.items[j].qty
    BY DEF Covers
  <1>6. S # {}
    BY <1>1, <1>5, SumOfNone
  <1>. HIDE DEF S, f, g, u
  <1>7. SumOver(g, S) = SumOver(f, S) * u
    BY <1>1, <1>3, <1>4, SumScaled
  <1>8. Ordered(o)[j] = o.items[j].qty /\ Billed(o)[j] = o.items[j].qty * u
    BY DEF Ordered, Billed, u
  <1>9. o.items[j].qty * u \in Int
    BY <1>1
  <1>. QED BY <1>1, <1>5, <1>6, <1>7, <1>8, <1>9 DEF S, f, g

\* What comes from some lines of the original adds up to them.
LEMMA LinesAddUp ==
    ASSUME NEW o \in Originals, NEW docs, Counted(docs), NEW src, Covers(docs, o, src),
           NEW J \in SUBSET DOMAIN o.items,
           NEW f, NEW g, \A p \in Positions(docs) : f[p] \in Int, \A j \in DOMAIN o.items : g[j] \in Int,
           \A j \in DOMAIN o.items : SumOver(f, Part(Positions(docs), src, j)) = g[j]
    PROVE  SumOver(f, LinesFrom(docs, src, J)) = SumOver(g, J)
  <1>. DEFINE S == LinesFrom(docs, src, J)
              id == [j \in DOMAIN o.items |-> j]
  <1>1. S \in SUBSET Positions(docs) /\ IsFiniteSet(S)
    BY FS_Subset DEF LinesFrom, Counted
  <1>2. o \in Document
    BY DocumentsAreTyped
  <1>3. IsFiniteSet(DOMAIN o.items)
    BY <1>2, DocumentFields
  <1>4. IsFiniteSet(J)
    BY <1>3, FS_Subset
  <1>5. ASSUME NEW u PROVE SumOver(f, Part(S, src, u)) = SumOver(g, Part(J, id, u))
    <2>1. CASE u \in J
      <3>1. Part(S, src, u) = Part(Positions(docs), src, u)
        BY <2>1 DEF Part, LinesFrom
      <3>2. Part(J, id, u) = {u}
        BY <2>1 DEF Part
      <3>3. u \in DOMAIN o.items /\ g[u] \in Int
        BY <2>1
      <3>. HIDE DEF S, id
      <3>4. SumOver(g, {u}) = g[u]
        BY <3>3, SumOfOne
      <3>. QED BY <3>1, <3>2, <3>3, <3>4
    <2>2. CASE u \notin J
      <3>1. Part(S, src, u) = {}
        BY <2>2 DEF Part, LinesFrom
      <3>2. Part(J, id, u) = {}
        BY <2>2 DEF Part
      <3>. QED BY <3>1, <3>2, SumOfNone
    <2>. QED BY <2>1, <2>2
  <1>. HIDE DEF S, id
  <1>6. EqualByParts(f, S, src, g, J, id)
    BY <1>5 DEF EqualByParts
  <1>7. \A p \in S : f[p] \in Int
    BY <1>1
  <1>8. \A j \in J : g[j] \in Int
    OBVIOUS
  <1>9. SumOver(f, S) = SumOver(g, J)
    BY <1>1, <1>4, <1>6, <1>7, <1>8, SumByParts
  <1>. QED BY <1>9 DEF S

LEMMA CoversAddUp ==
    ASSUME NEW o \in Originals, NEW docs, Counted(docs), NEW src, Covers(docs, o, src),
           NEW J \in SUBSET DOMAIN o.items
    PROVE  /\ SumOver(Quantities(docs), LinesFrom(docs, src, J)) = SumOver(Ordered(o), J)
           /\ SumOver(Worth(docs, o, src), LinesFrom(docs, src, J)) = SumOver(Billed(o), J)
           /\ \A p \in Positions(docs) : Worth(docs, o, src)[p] \in Int
           /\ SumOver(Ordered(o), J) \in Int /\ SumOver(Billed(o), J) \in Int
  <1>1. \A p \in Positions(docs) : Quantities(docs)[p] \in Int
    BY DEF Counted
  <1>2. ASSUME NEW p \in Positions(docs) PROVE Worth(docs, o, src)[p] \in Int
    <2>1. src[p] \in DOMAIN o.items
      BY DEF Covers
    <2>2. UnitPrice(o.items[src[p]]) \in Int
      BY <2>1, ExactLines
    <2>3. Worth(docs, o, src)[p] = Quantities(docs)[p] * UnitPrice(o.items[src[p]])
      BY DEF Worth
    <2>. QED BY <1>1, <2>2, <2>3
  <1>3. \A j \in DOMAIN o.items : Ordered(o)[j] \in Int /\ Billed(o)[j] \in Int
    BY PartsAddUp
  <1>4. SumOver(Quantities(docs), LinesFrom(docs, src, J)) = SumOver(Ordered(o), J)
    BY <1>1, <1>3, PartsAddUp, LinesAddUp
  <1>5. SumOver(Worth(docs, o, src), LinesFrom(docs, src, J)) = SumOver(Billed(o), J)
    BY <1>2, <1>3, PartsAddUp, LinesAddUp
  <1>6. IsFiniteSet(J)
    <2>1. o \in Document
      BY DocumentsAreTyped
    <2>2. IsFiniteSet(DOMAIN o.items)
      BY <2>1, DocumentFields
    <2>. QED BY <2>2, FS_Subset
  <1>7. SumOver(Ordered(o), J) \in Int /\ SumOver(Billed(o), J) \in Int
    BY <1>3, <1>6, SumType
  <1>. QED BY <1>2, <1>4, <1>5, <1>7

\* A sum of values that may be missing says nothing else than the whole sum.
LEMMA PartlyKnownSum ==
    ASSUME NEW values, NEW D, DOMAIN values = D, IsFiniteSet(D),
           NEW f, \A p \in D : values[p] \subseteq {f[p]}
    PROVE  SumIfAllKnown(values) \subseteq {SumOver(f, D)}
  <1>1. CASE \E p \in D : values[p] = {}
    <2>1. SumIfAllKnown(values) = {}
      BY <1>1 DEF SumIfAllKnown
    <2>. QED BY <2>1
  <1>2. CASE \A p \in D : values[p] # {}
    <2>1. \A p \in D : values[p] = {f[p]}
      BY <1>2
    <2>. QED BY <2>1, KnownSum
  <1>. QED BY <1>1, <1>2

\* What a line says of its amount is its quantity at the price of the original.
LEMMA LineWorth ==
    ASSUME NEW o \in Originals, NEW docs, Counted(docs), NEW src, Covers(docs, o, src),
           NEW p \in Positions(docs)
    PROVE  /\ LineAmount(Line(docs, p)) \subseteq {Worth(docs, o, src)[p]}
           /\ {Line(docs, p).qty * price : price \in Line(docs, p).price} \subseteq {Worth(docs, o, src)[p]}
           /\ Line(docs, p).price \subseteq {UnitPrice(o.items[src[p]])}
  <1>. DEFINE item == o.items[src[p]]
              line == Line(docs, p)
              u    == UnitPrice(item)
  <1>1. src[p] \in DOMAIN o.items /\ Fits(line, item)
    BY DEF Covers
  <1>2. item.price = {u}
    BY <1>1, ExactLines
  <1>3. Worth(docs, o, src)[p] = line.qty * u
    BY DEF Worth, Quantities
  <1>4. line.price \subseteq {u} /\ line.total \subseteq {line.qty * u}
    <2>. HIDE DEF item, line, u
    <2>1. line.price \subseteq item.price /\ line.total \subseteq {line.qty * v : v \in item.price}
      BY <1>1 DEF Fits
    <2>2. {line.qty * v : v \in {u}} = {line.qty * u}
      OBVIOUS
    <2>. QED BY <1>2, <2>1, <2>2
  <1>. HIDE DEF item, line, u
  <1>5. {line.qty * v : v \in line.price} \subseteq {line.qty * u}
    BY <1>4
  <1>6. LineAmount(line) \subseteq {line.qty * u}
    BY <1>4, <1>5 DEF LineAmount
  <1>. QED BY <1>3, <1>4, <1>5, <1>6 DEF item, line, u

\* What the lines from some lines of the original say when they are merged.
LEMMA LinesSay ==
    ASSUME NEW o \in Originals, NEW docs, Counted(docs), NEW src, Covers(docs, o, src),
           NEW J \in SUBSET DOMAIN o.items, NEW S, S = LinesFrom(docs, src, J)
    PROVE  /\ SumIfAllKnown([p \in S |-> {Line(docs, p).qty}]) = {SumOver(Ordered(o), J)}
           /\ SumIfAllKnown([p \in S |-> LineAmount(Line(docs, p))]) \subseteq {SumOver(Billed(o), J)}
           /\ SumIfAllKnown([p \in S |-> {Line(docs, p).qty * price : price \in Line(docs, p).price}])
                 \subseteq {SumOver(Billed(o), J)}
           /\ J # {} => S # {}
  <1>. DEFINE amounts    == [p \in S |-> LineAmount(Line(docs, p))]
              extensions == [p \in S |-> {Line(docs, p).qty * price : price \in Line(docs, p).price}]
              f == Worth(docs, o, src)
  <1>1. S \in SUBSET Positions(docs) /\ IsFiniteSet(S)
    BY FS_Subset DEF LinesFrom, Counted
  <1>2. /\ SumOver(Quantities(docs), S) = SumOver(Ordered(o), J)
        /\ SumOver(f, S) = SumOver(Billed(o), J)
    BY CoversAddUp
  <1>3. SumIfAllKnown([p \in S |-> {Line(docs, p).qty}]) = {SumOver(Ordered(o), J)}
    BY <1>1, <1>2, LinesSum
  <1>4. ASSUME NEW p \in S PROVE amounts[p] \subseteq {f[p]} /\ extensions[p] \subseteq {f[p]}
    BY <1>1, LineWorth
  <1>5. DOMAIN amounts = S /\ DOMAIN extensions = S
    OBVIOUS
  <1>6. ASSUME NEW j \in J PROVE S # {}
    <2>1. Part(Positions(docs), src, j) # {}
      BY PartsAddUp
    <2>2. Part(Positions(docs), src, j) \in SUBSET S
      BY DEF Part, LinesFrom
    <2>. QED BY <2>1, <2>2
  <1>. HIDE DEF amounts, extensions, f
  <1>7. SumIfAllKnown(amounts) \subseteq {SumOver(f, S)}
    BY <1>1, <1>4, <1>5, PartlyKnownSum
  <1>8. SumIfAllKnown(extensions) \subseteq {SumOver(f, S)}
    BY <1>1, <1>4, <1>5, PartlyKnownSum
  <1>. QED BY <1>2, <1>3, <1>6, <1>7, <1>8 DEF amounts, extensions

\* The lines of the original with a key, and with a key and a unit.
OfKey(o, key)         == {j \in DOMAIN o.items : o.items[j].match = key}
OfGroup(o, key, unit) == {j \in DOMAIN o.items : o.items[j].key = key /\ o.items[j].unit = unit}

LEMMA LinesOfKey ==
    ASSUME NEW o, NEW docs, NEW src, Covers(docs, o, src), NEW key
    PROVE  /\ KeyLines(docs, key) = LinesFrom(docs, src, OfKey(o, key))
           /\ \A unit : Group(docs, key, unit) = LinesFrom(docs, src, OfGroup(o, key, unit))
  <1>1. \A p \in Positions(docs) : /\ src[p] \in DOMAIN o.items
                                   /\ Line(docs, p).key = o.items[src[p]].key
                                   /\ Line(docs, p).match = o.items[src[p]].match
                                   /\ Line(docs, p).unit = o.items[src[p]].unit
    BY DEF Covers, Fits
  <1>2. KeyLines(docs, key) = LinesFrom(docs, src, OfKey(o, key))
    BY <1>1 DEF KeyLines, LinesFrom, OfKey
  <1>3. \A unit : Group(docs, key, unit) = LinesFrom(docs, src, OfGroup(o, key, unit))
    BY <1>1 DEF Group, LinesFrom, OfGroup
  <1>. QED BY <1>2, <1>3

LEMMA NoDistance == ASSUME NEW a \in Int PROVE Distance(a, a) = 0
  BY DEF Distance

\* Two sets of documents that cover an original are exact in every good.
LEMMA CoversAreExact ==
    ASSUME NEW o \in Originals, NEW key, OfKey(o, key) # {},
           NEW left, Counted(left), NEW lsrc, Covers(left, o, lsrc),
           NEW right, Counted(right), NEW rsrc, Covers(right, o, rsrc)
    PROVE  Classify(left, right, key) = "exact"
  <1>. DEFINE J == OfKey(o, key)
              q == SumOver(Ordered(o), J)
              w == SumOver(Billed(o), J)
              l == Merged(left, key)
              r == Merged(right, key)
              gaps == Gaps(l, r)
  <1>1. J \in SUBSET DOMAIN o.items
    BY DEF OfKey
  <1>2. q \in Int /\ w \in Int
    BY <1>1, CoversAddUp
  <1>3. KeyLines(left, key) = LinesFrom(left, lsrc, J) /\ KeyLines(right, key) = LinesFrom(right, rsrc, J)
    BY LinesOfKey
  <1>4. /\ l.quantity = {q} /\ l.amount \subseteq {w} /\ l.extension \subseteq {w}
        /\ KeyLines(left, key) # {}
    <2>. HIDE DEF J
    <2>. QED BY <1>1, <1>3, LinesSay DEF Merged, J
  <1>5. /\ r.quantity = {q} /\ r.amount \subseteq {w} /\ r.extension \subseteq {w}
        /\ KeyLines(right, key) # {}
    <2>. HIDE DEF J
    <2>. QED BY <1>1, <1>3, LinesSay DEF Merged, J
  <1>. HIDE DEF q, w, l, r
  <1>6. ASSUME NEW g \in gaps PROVE g.gap = 0 /\ g.limit \in Nat
    <2>1. CASE g \in {[gap |-> Distance(a, b), limit |-> 0] : a \in l.quantity, b \in r.quantity}
      BY <1>2, <1>4, <1>5, <2>1, NoDistance
    <2>2. CASE g \in {[gap |-> Distance(a, b), limit |-> AmountTolerance] : a \in l.amount, b \in r.amount}
      BY <1>2, <1>4, <1>5, <2>2, NoDistance DEF AmountTolerance
    <2>3. ASSUME NEW m \in l.quantity, NEW n \in r.quantity, NEW a \in l.extension, NEW b \in r.extension,
                 g = [gap |-> Distance(a * n, b * m), limit |-> PriceTolerance * m * n]
          PROVE  g.gap = 0 /\ g.limit \in Nat
      <3>1. m = q /\ n = q /\ a = w /\ b = w
        BY <1>4, <1>5, <2>3
      <3>2. w * q \in Int
        BY <1>2
      <3>3. PriceTolerance * q * q \in Nat
        <4>1. PriceTolerance * q = q
          BY <1>2 DEF PriceTolerance
        <4>2. \A x \in Int : x * x >= 0 /\ x * x \in Int
          OBVIOUS
        <4>. QED BY <1>2, <4>1, <4>2
      <3>. QED BY <2>3, <3>1, <3>2, <3>3, NoDistance
    <2>. DEFINE prices(m, n) == {[gap |-> Distance(a * n, b * m), limit |-> PriceTolerance * m * n] :
                                    a \in l.extension, b \in r.extension}
    <2>4. ASSUME NEW m \in l.quantity, NEW n \in r.quantity, g \in prices(m, n)
          PROVE  g.gap = 0 /\ g.limit \in Nat
      <3>1. PICK a \in l.extension, b \in r.extension :
                g = [gap |-> Distance(a * n, b * m), limit |-> PriceTolerance * m * n]
        BY <2>4
      <3>. QED BY <2>3, <3>1
    <2>5. \/ g \in {[gap |-> Distance(a, b), limit |-> 0] : a \in l.quantity, b \in r.quantity}
          \/ g \in {[gap |-> Distance(a, b), limit |-> AmountTolerance] : a \in l.amount, b \in r.amount}
          \/ g \in UNION {{[gap |-> Distance(a * n, b * m), limit |-> PriceTolerance * m * n] :
                              a \in l.extension, b \in r.extension} : m \in l.quantity, n \in r.quantity}
      BY DEF Gaps
    <2>6. ASSUME g \in UNION {{[gap |-> Distance(a * n, b * m), limit |-> PriceTolerance * m * n] :
                              a \in l.extension, b \in r.extension} : m \in l.quantity, n \in r.quantity}
          PROVE  \E m \in l.quantity, n \in r.quantity : g \in prices(m, n)
      BY <2>6
    <2>. HIDE DEF prices
    <2>. QED BY <2>1, <2>2, <2>4, <2>5, <2>6
  <1>. HIDE DEF gaps
  <1>7. ~ (\E g \in gaps : g.gap > g.limit) /\ ~ (\E g \in gaps : g.gap > 0)
    BY <1>6
  <1>8. Classify(left, right, key) =
          IF KeyLines(left, key) = {} THEN "receive_note_only"
          ELSE IF KeyLines(right, key) = {} THEN "invoice_only"
          ELSE IF \E g \in gaps : g.gap > g.limit THEN "mismatch"
          ELSE IF \E g \in gaps : g.gap > 0 THEN "within_tolerance" ELSE "exact"
    BY DEF Classify, gaps, l, r
  <1>. QED BY <1>4, <1>5, <1>7, <1>8

LEMMA AgreeingMetrics ==
    ASSUME NEW x \in Int, NEW left \in SUBSET {x}, NEW right \in SUBSET {x}, NEW tolerance
    PROVE  Metric(left, right, tolerance) \in {"equal", "unverified"}
  <1>1. CASE left = {} \/ right = {}
    BY <1>1 DEF Metric
  <1>2. CASE left = {x} /\ right = {x}
    <2>1. {Distance(a, b) : a \in left, b \in right} = {0}
      BY <1>2, NoDistance
    <2>2. (CHOOSE v \in {0} : TRUE) = 0
      OBVIOUS
    <2>. QED BY <1>2, <2>1, <2>2 DEF Metric
  <1>. QED BY <1>1, <1>2

\* The lines of a group have one price only if the original's lines have it.
LEMMA GroupPrices ==
    ASSUME NEW o \in Originals, NEW docs, Counted(docs), NEW src, Covers(docs, o, src),
           NEW key, NEW unit, OfGroup(o, key, unit) # {}
    PROVE  \A x \in Aggregate(docs, key, unit).price :
              \A j \in OfGroup(o, key, unit) : UnitPrice(o.items[j]) = x
  <1>. DEFINE J      == OfGroup(o, key, unit)
              lines  == Group(docs, key, unit)
              prices == UNION {Line(docs, p).price : p \in lines}
              priced == \A p \in lines : Line(docs, p).price # {}
  <1>. SUFFICES ASSUME NEW x \in Aggregate(docs, key, unit).price, NEW j \in J
                PROVE  UnitPrice(o.items[j]) = x
    OBVIOUS
  <1>1. J \in SUBSET DOMAIN o.items /\ lines = LinesFrom(docs, src, J)
    BY LinesOfKey DEF OfGroup
  <1>2. lines # {}
    <2>. HIDE DEF J, lines
    <2>. QED BY <1>1, LinesSay
  <1>3. x \in prices /\ priced /\ Cardinality(prices) = 1
    <2>1. Aggregate(docs, key, unit).price = IF priced /\ Cardinality(prices) = 1 THEN prices ELSE {}
      BY <1>2 DEF Aggregate
    <2>. HIDE DEF prices, priced
    <2>. QED BY <2>1
  <1>4. PICK p \in Positions(docs) : src[p] = j /\ p \in lines
    <2>1. Part(Positions(docs), src, j) # {}
      <3>. HIDE DEF J
      <3>. QED BY <1>1, PartsAddUp
    <2>. HIDE DEF J, lines
    <2>. QED BY <1>1, <2>1 DEF Part, LinesFrom
  <1>5. Line(docs, p).price = {UnitPrice(o.items[j])}
    <2>1. Line(docs, p).price \subseteq {UnitPrice(o.items[j])}
      BY <1>4, LineWorth
    <2>. HIDE DEF lines
    <2>. QED BY <1>3, <1>4, <2>1
  <1>6. UnitPrice(o.items[j]) \in prices
    BY <1>4, <1>5
  <1>7. \A a, b \in prices : a = b
    <2>. HIDE DEF prices
    <2>1. IsFiniteSet(prices)
      <3>1. IsFiniteSet(lines)
        BY <1>1, FS_Subset DEF LinesFrom, Counted
      <3>2. \A q \in lines : IsFiniteSet(Line(docs, q).price)
        <4>1. \A q \in lines : q \in Positions(docs)
          BY <1>1 DEF LinesFrom
        <4>. HIDE DEF lines
        <4>2. \A q \in lines : Line(docs, q).price \subseteq {UnitPrice(o.items[src[q]])}
          BY <4>1, LineWorth
        <4>3. \A y : IsFiniteSet({y})
          BY FS_Singleton
        <4>4. ASSUME NEW q \in lines PROVE IsFiniteSet(Line(docs, q).price)
          <5>. DEFINE whole == {UnitPrice(o.items[src[q]])}
          <5>1. IsFiniteSet(whole) /\ Line(docs, q).price \in SUBSET whole
            BY <4>2, <4>3
          <5>. HIDE DEF whole
          <5>. QED BY <5>1, FS_Subset
        <4>. QED BY <4>4
      <3>. DEFINE f == [q \in lines |-> Line(docs, q).price]
      <3>3. prices = UNION {f[q] : q \in lines}
        BY DEF prices
      <3>4. \A q \in lines : IsFiniteSet(f[q])
        BY <3>2
      <3>. HIDE DEF f, lines
      <3>5. IsFiniteSet({f[q] : q \in lines}) /\ \A T \in {f[q] : q \in lines} : IsFiniteSet(T)
        BY <3>1, <3>4, FiniteImage
      <3>. QED BY <3>3, <3>5, FS_UNION
    <2>2. PICK y : prices = {y}
      BY <1>3, <2>1, FS_Singleton
    <2>. QED BY <2>2
  <1>. QED BY <1>3, <1>6, <1>7

\* The workspace calls no line different between two covers of an original.
LEMMA CoversAreEqual ==
    ASSUME NEW o \in Originals, NEW key, NEW unit, OfGroup(o, key, unit) # {},
           NEW left, Counted(left), NEW lsrc, Covers(left, o, lsrc),
           NEW right, Counted(right), NEW rsrc, Covers(right, o, rsrc)
    PROVE  LineResult(left, right, key, unit).status \in {"equal", "unverified"}
  <1>. DEFINE J == OfGroup(o, key, unit)
              q == SumOver(Ordered(o), J)
              w == SumOver(Billed(o), J)
              l == Aggregate(left, key, unit)
              r == Aggregate(right, key, unit)
              statuses == {Metric(l.quantity, r.quantity, 0), Metric(l.price, r.price, 1),
                           Metric(l.amount, r.amount, 2)}
  <1>1. J \in SUBSET DOMAIN o.items
    BY DEF OfGroup
  <1>2. q \in Int /\ w \in Int
    BY <1>1, CoversAddUp
  <1>3. Group(left, key, unit) = LinesFrom(left, lsrc, J) /\ Group(right, key, unit) = LinesFrom(right, rsrc, J)
    BY LinesOfKey
  <1>4. Group(left, key, unit) # {} /\ l.quantity = {q} /\ l.amount \subseteq {w}
    <2>. HIDE DEF J
    <2>1. Group(left, key, unit) # {}
      BY <1>1, <1>3, LinesSay DEF J
    <2>. QED BY <1>1, <1>3, <2>1, LinesSay DEF Aggregate
  <1>5. Group(right, key, unit) # {} /\ r.quantity = {q} /\ r.amount \subseteq {w}
    <2>. HIDE DEF J
    <2>1. Group(right, key, unit) # {}
      BY <1>1, <1>3, LinesSay DEF J
    <2>. QED BY <1>1, <1>3, <2>1, LinesSay DEF Aggregate
  <1>6. PICK j \in J : TRUE
    OBVIOUS
  <1>7. l.price \subseteq {UnitPrice(o.items[j])} /\ r.price \subseteq {UnitPrice(o.items[j])}
    BY <1>6, GroupPrices
  <1>8. UnitPrice(o.items[j]) \in Int
    BY <1>1, <1>6, ExactLines
  <1>. HIDE DEF q, w, l, r
  <1>9. \A s \in statuses : s \in {"equal", "unverified"}
    <2>1. Metric(l.quantity, r.quantity, 0) \in {"equal", "unverified"}
      BY <1>2, <1>4, <1>5, AgreeingMetrics
    <2>2. Metric(l.price, r.price, 1) \in {"equal", "unverified"}
      BY <1>7, <1>8, AgreeingMetrics
    <2>3. Metric(l.amount, r.amount, 2) \in {"equal", "unverified"}
      BY <1>2, <1>4, <1>5, AgreeingMetrics
    <2>. QED BY <2>1, <2>2, <2>3
  <1>10. LineResult(left, right, key, unit).status =
            IF Group(left, key, unit) = {} THEN "receive_only"
            ELSE IF Group(right, key, unit) = {} THEN "invoice_only"
            ELSE IF "different" \in statuses THEN "different"
            ELSE IF "unverified" \in statuses THEN "unverified"
            ELSE IF "within_tolerance" \in statuses THEN "within_tolerance" ELSE "equal"
    BY DEF LineResult, l, r
  <1>. HIDE DEF statuses
  <1>. QED BY <1>4, <1>5, <1>9, <1>10

-----------------------------------------------------------------------------
(* What the rules say of documents of one delivery.                        *)

LEMMA NothingOff ==
    ASSUME NEW x \in Int, NEW left \in SUBSET {x}, NEW right \in SUBSET {x}, NEW tolerance \in Nat
    PROVE  ~OffBy(left, right, tolerance)
  <1>1. \A a \in left, b \in right : Distance(a, b) = 0
    BY NoDistance
  <1>. QED BY <1>1 DEF OffBy

\* Lines that fit lines of an original, and totals that are not off, block nothing.
LEMMA FittingDocumentsPass ==
    ASSUME NEW o \in Originals, NEW doc,
           \A j \in DOMAIN doc.items : \E k \in DOMAIN o.items :
              doc.items[j].qty \in Int /\ Fits(doc.items[j], o.items[k]),
           ~OffBy(SubtotalOf(doc), doc.subtotal, DocumentTolerance),
           ~OffBy(TaxOf(doc), doc.tax, DocumentTolerance),
           ~OffBy({s + t : s \in doc.subtotal, t \in doc.tax}, doc.total, DocumentTolerance)
    PROVE  BlockingIssues(doc) = {}
  <1>. DEFINE items == {doc.items[j] : j \in DOMAIN doc.items}
  <1>1. ASSUME NEW item \in items
        PROVE  /\ ~OffBy({item.qty * p : p \in item.price}, item.total, LineTolerance)
               /\ ~(item.free /\ item.tax \notin {{}, {0}})
    <2>1. PICK k \in DOMAIN o.items : item.qty \in Int /\ Fits(item, o.items[k])
      BY <1>1
    <2>. DEFINE u == UnitPrice(o.items[k])
    <2>2. u \in Int /\ o.items[k].price = {u}
      BY ExactLines
    <2>3. \E t \in Int : o.items[k].tax = {t} /\ (o.items[k].free => t = 0)
      BY ExactLines
    <2>. HIDE DEF u
    <2>4. item.price \subseteq {u} /\ item.total \subseteq {item.qty * u} /\ item.qty * u \in Int
      <3>1. {item.qty * v : v \in {u}} = {item.qty * u}
        OBVIOUS
      <3>. QED BY <2>1, <2>2, <3>1 DEF Fits
    <2>5. {item.qty * p : p \in item.price} \subseteq {item.qty * u}
      BY <2>4
    <2>6. ~OffBy({item.qty * p : p \in item.price}, item.total, LineTolerance)
      <3>. DEFINE product == {item.qty * p : p \in item.price}
                  worth   == item.qty * u
      <3>1. product \in SUBSET {worth} /\ item.total \in SUBSET {worth} /\ worth \in Int
        BY <2>4, <2>5
      <3>2. LineTolerance \in Nat
        BY DEF LineTolerance
      <3>. HIDE DEF product, worth
      <3>3. ~OffBy(product, item.total, LineTolerance)
        BY <3>1, <3>2, NothingOff
      <3>. QED BY <3>3 DEF product
    <2>7. item.free => item.tax \in {{}, {0}}
      <3>1. PICK t \in Int : o.items[k].tax = {t} /\ (o.items[k].free => t = 0)
        BY <2>3
      <3>2. item.free = o.items[k].free /\ item.tax \subseteq o.items[k].tax
        BY <2>1 DEF Fits
      <3>. QED BY <3>1, <3>2
    <2>. QED BY <2>6, <2>7
  <1>2. ~ \E item \in items : OffBy({item.qty * p : p \in item.price}, item.total, LineTolerance)
    BY <1>1
  <1>3. ~ \E item \in items : item.free /\ item.tax \notin {{}, {0}}
    BY <1>1
  <1>. DEFINE lineOff == \E item \in items : OffBy({item.qty * p : p \in item.price}, item.total, LineTolerance)
              freeTax == \E item \in items : item.free /\ item.tax \notin {{}, {0}}
              sumOff  == OffBy({s + t : s \in doc.subtotal, t \in doc.tax}, doc.total, DocumentTolerance)
  <1>4. BlockingIssues(doc) =
               (IF lineOff THEN {"LINE_TOTAL_MISMATCH"} ELSE {})
          \cup (IF freeTax THEN {"GST_FREE_LINE_HAS_TAX"} ELSE {})
          \cup (IF OffBy(SubtotalOf(doc), doc.subtotal, DocumentTolerance) THEN {"SUBTOTAL_MISMATCH"} ELSE {})
          \cup (IF OffBy(TaxOf(doc), doc.tax, DocumentTolerance) THEN {"TAX_TOTAL_MISMATCH"} ELSE {})
          \cup (IF sumOff THEN {"TOTAL_MISMATCH"} ELSE {})
    BY DEF BlockingIssues
  <1>5. ~lineOff /\ ~freeTax /\ ~sumOff
    <2>1. ~lineOff
      BY <1>2, Zenon
    <2>2. ~freeTax
      BY <1>3, Zenon
    <2>3. ~sumOff
      OBVIOUS
    <2>. HIDE DEF lineOff, freeTax, sumOff
    <2>. QED BY <2>1, <2>2, <2>3
  <1>. HIDE DEF lineOff, freeTax, sumOff
  <1>. QED BY <1>4, <1>5

\* The totals of an exact invoice, and what is left of them.
LEMMA TotalsOf ==
    ASSUME NEW o \in Originals
    PROVE  \E subtotal \in Int, tax \in Int :
              /\ o.subtotal = {subtotal} /\ o.tax = {tax} /\ o.total = {subtotal + tax}
              /\ \A doc : /\ DOMAIN doc.items = DOMAIN o.items
                          /\ \A j \in DOMAIN o.items : /\ doc.items[j].total \subseteq o.items[j].total
                                                       /\ doc.items[j].tax \subseteq o.items[j].tax
                          => SubtotalOf(doc) \subseteq {subtotal} /\ TaxOf(doc) \subseteq {tax}
  <1>. DEFINE D == DOMAIN o.items
              taxes    == [j \in D |-> CHOOSE t \in o.items[j].tax : TRUE]
              subtotal == SumOver(Billed(o), D)
              tax      == SumOver(taxes, D)
  <1>1. o \in Document /\ Exact(o)
    BY DocumentsAreTyped, OriginalsAreExact
  <1>2. IsFiniteSet(D)
    BY <1>1, DocumentFields
  <1>3. ASSUME NEW j \in D
        PROVE  /\ Billed(o)[j] \in Int /\ o.items[j].total = {Billed(o)[j]}
               /\ taxes[j] \in Int /\ o.items[j].tax = {taxes[j]}
    <2>1. /\ o.items[j].qty \in Int /\ UnitPrice(o.items[j]) \in Int
          /\ o.items[j].total = {o.items[j].qty * UnitPrice(o.items[j])}
          /\ \E t \in Int : o.items[j].tax = {t}
      BY ExactLines
    <2>2. Billed(o)[j] = o.items[j].qty * UnitPrice(o.items[j])
      BY DEF Billed
    <2>3. PICK t \in Int : o.items[j].tax = {t}
      BY <2>1
    <2>4. taxes[j] = t
      BY <2>3
    <2>. QED BY <2>1, <2>2, <2>3, <2>4
  <1>. HIDE DEF taxes
  <1>4. subtotal \in Int /\ tax \in Int
    BY <1>2, <1>3, SumType
  <1>5. ASSUME NEW doc, DOMAIN doc.items = D,
               \A j \in D : /\ doc.items[j].total \subseteq o.items[j].total
                            /\ doc.items[j].tax \subseteq o.items[j].tax
        PROVE  SubtotalOf(doc) \subseteq {subtotal} /\ TaxOf(doc) \subseteq {tax}
    <2>. DEFINE totals == [j \in DOMAIN doc.items |-> doc.items[j].total]
                levied == [j \in DOMAIN doc.items |-> doc.items[j].tax]
    <2>1. DOMAIN totals = D /\ \A j \in D : totals[j] \subseteq {Billed(o)[j]}
      BY <1>3, <1>5
    <2>2. DOMAIN levied = D /\ \A j \in D : levied[j] \subseteq {taxes[j]}
      BY <1>3, <1>5
    <2>. HIDE DEF totals, levied
    <2>3. SumIfAllKnown(totals) \subseteq {subtotal}
      BY <1>2, <2>1, PartlyKnownSum
    <2>4. SumIfAllKnown(levied) \subseteq {tax}
      BY <1>2, <2>2, PartlyKnownSum
    <2>. QED BY <2>3, <2>4 DEF SubtotalOf, TaxOf, totals, levied
  <1>6. o.subtotal = {subtotal}
    <2>. DEFINE totals == [j \in D |-> o.items[j].total]
    <2>1. DOMAIN totals = D /\ \A j \in D : totals[j] = {Billed(o)[j]}
      BY <1>3
    <2>. HIDE DEF totals
    <2>2. SumIfAllKnown(totals) = {subtotal}
      BY <1>2, <2>1, KnownSum
    <2>. QED BY <1>1, <2>2 DEF Exact, SubtotalOf, totals
  <1>7. o.tax = {tax}
    <2>. DEFINE levied == [j \in D |-> o.items[j].tax]
    <2>1. DOMAIN levied = D /\ \A j \in D : levied[j] = {taxes[j]}
      BY <1>3
    <2>. HIDE DEF levied
    <2>2. SumIfAllKnown(levied) = {tax}
      BY <1>2, <2>1, KnownSum
    <2>. QED BY <1>1, <2>2 DEF Exact, TaxOf, levied
  <1>. HIDE DEF subtotal, tax
  <1>8. o.total = {subtotal + tax}
    <2>1. o.total = {s + t : s \in o.subtotal, t \in o.tax}
      BY <1>1 DEF Exact
    <2>. QED BY <1>6, <1>7, <2>1
  <1>. QED BY <1>4, <1>5, <1>6, <1>7, <1>8

LEMMA BilledInvoicePasses ==
    ASSUME DocumentsTyped, NEW o \in Originals, BilledAs(o)
    PROVE  BlockingIssues(invoice) = {}
  <1>1. PICK subtotal \in Int, tax \in Int :
              /\ o.subtotal = {subtotal} /\ o.tax = {tax} /\ o.total = {subtotal + tax}
              /\ \A doc : /\ DOMAIN doc.items = DOMAIN o.items
                          /\ \A j \in DOMAIN o.items : /\ doc.items[j].total \subseteq o.items[j].total
                                                       /\ doc.items[j].tax \subseteq o.items[j].tax
                          => SubtotalOf(doc) \subseteq {subtotal} /\ TaxOf(doc) \subseteq {tax}
    BY TotalsOf
  <1>2. ASSUME NEW j \in DOMAIN o.items
        PROVE  /\ invoice.items[j].qty \in Int /\ Fits(invoice.items[j], o.items[j])
               /\ invoice.items[j].total \subseteq o.items[j].total
               /\ invoice.items[j].tax \subseteq o.items[j].tax
    <2>1. invoice.items[j].qty = o.items[j].qty /\ Fits(invoice.items[j], o.items[j])
      BY DEF BilledAs
    <2>2. o.items[j].qty \in Int /\ o.items[j].price = {UnitPrice(o.items[j])}
          /\ o.items[j].total = {o.items[j].qty * UnitPrice(o.items[j])}
      BY ExactLines
    <2>. QED BY <2>1, <2>2 DEF Fits
  <1>3. DOMAIN invoice.items = DOMAIN o.items
    BY DEF BilledAs
  <1>4. SubtotalOf(invoice) \subseteq {subtotal} /\ TaxOf(invoice) \subseteq {tax}
    BY <1>1, <1>2, <1>3
  <1>5. /\ invoice.subtotal \subseteq {subtotal} /\ invoice.tax \subseteq {tax}
        /\ invoice.total \subseteq {subtotal + tax}
    BY <1>1 DEF BilledAs
  <1>6. DocumentTolerance \in Nat /\ subtotal + tax \in Int
    BY DEF DocumentTolerance
  <1>7. ~OffBy(SubtotalOf(invoice), invoice.subtotal, DocumentTolerance)
    BY <1>4, <1>5, <1>6, NothingOff
  <1>8. ~OffBy(TaxOf(invoice), invoice.tax, DocumentTolerance)
    BY <1>4, <1>5, <1>6, NothingOff
  <1>9. ~OffBy({s + t : s \in invoice.subtotal, t \in invoice.tax}, invoice.total, DocumentTolerance)
    <2>. DEFINE both == {s + t : s \in invoice.subtotal, t \in invoice.tax}
                x    == subtotal + tax
    <2>1. both \in SUBSET {x} /\ invoice.total \in SUBSET {x} /\ x \in Int
      BY <1>5, <1>6
    <2>. HIDE DEF both, x
    <2>2. ~OffBy(both, invoice.total, DocumentTolerance)
      BY <1>6, <2>1, NothingOff
    <2>. QED BY <2>2 DEF both
  <1>. QED BY <1>2, <1>3, <1>7, <1>8, <1>9, FittingDocumentsPass

LEMMA DeliveredNotesPass ==
    ASSUME DocumentsTyped, NEW o \in Originals, DeliveredAs(o), NEW n \in DOMAIN notes
    PROVE  BlockingIssues(notes[n]) = {}
  <1>1. PICK src : Covers(notes, o, src)
    BY DEF DeliveredAs
  <1>2. ASSUME NEW j \in DOMAIN notes[n].items
        PROVE  \E k \in DOMAIN o.items : notes[n].items[j].qty \in Int /\ Fits(notes[n].items[j], o.items[k])
    <2>1. <<n, j>> \in Positions(notes) /\ Line(notes, <<n, j>>) = notes[n].items[j]
      BY PositionsOfLines
    <2>2. src[<<n, j>>] \in DOMAIN o.items /\ Fits(notes[n].items[j], o.items[src[<<n, j>>]])
      BY <1>1, <2>1 DEF Covers
    <2>3. notes[n].items[j] \in Item
      BY DocumentFields DEF DocumentsTyped
    <2>4. notes[n].items[j].qty \in Int
      BY <2>3 DEF Item
    <2>. QED BY <2>2, <2>4
  <1>3. notes[n].subtotal = {} /\ notes[n].tax = {} /\ notes[n].total = {}
    BY DEF DeliveredAs
  <1>4. /\ ~OffBy(SubtotalOf(notes[n]), notes[n].subtotal, DocumentTolerance)
        /\ ~OffBy(TaxOf(notes[n]), notes[n].tax, DocumentTolerance)
        /\ ~OffBy({s + t : s \in notes[n].subtotal, t \in notes[n].tax}, notes[n].total, DocumentTolerance)
    BY <1>3 DEF OffBy
  <1>. QED BY <1>2, <1>4, FittingDocumentsPass

\* A single document with the lines of an original covers it, each from itself.
LEMMA OneDocumentCovers ==
    ASSUME NEW o \in Originals, NEW docs, NEW d, DOMAIN docs = {d}, Counted(docs),
           DOMAIN docs[d].items = DOMAIN o.items,
           \A j \in DOMAIN o.items : /\ docs[d].items[j].qty = o.items[j].qty
                                     /\ Fits(docs[d].items[j], o.items[j])
    PROVE  \E src : Covers(docs, o, src)
  <1>. DEFINE src == [p \in Positions(docs) |-> p[2]]
  <1>1. Positions(docs) = {<<d, j>> : j \in DOMAIN o.items}
    BY DEF Positions
  <1>2. ASSUME NEW j \in DOMAIN o.items
        PROVE  /\ <<d, j>> \in Positions(docs) /\ src[<<d, j>>] = j
               /\ Line(docs, <<d, j>>) = docs[d].items[j]
    BY <1>1 DEF Line
  <1>3. ASSUME NEW p \in Positions(docs) PROVE src[p] \in DOMAIN o.items /\ p = <<d, src[p]>>
    BY <1>1
  <1>4. DOMAIN src = Positions(docs) /\ src \in [Positions(docs) -> DOMAIN o.items]
    BY <1>3
  <1>. HIDE DEF src
  <1>5. ASSUME NEW p \in Positions(docs) PROVE Fits(Line(docs, p), o.items[src[p]])
    BY <1>2, <1>3
  <1>6. ASSUME NEW j \in DOMAIN o.items
        PROVE  SumOver(Quantities(docs), Part(Positions(docs), src, j)) = o.items[j].qty
    <2>. DEFINE p == <<d, j>>
    <2>1. Part(Positions(docs), src, j) = {p}
      BY <1>2, <1>3 DEF Part
    <2>2. p \in Positions(docs) /\ Quantities(docs)[p] = o.items[j].qty
      BY <1>2 DEF Quantities
    <2>3. Quantities(docs)[p] \in Int
      BY <2>2 DEF Counted
    <2>. HIDE DEF p
    <2>4. SumOver(Quantities(docs), {p}) = Quantities(docs)[p]
      BY <2>3, SumOfOne
    <2>. QED BY <2>1, <2>2, <2>4
  <1>7. Covers(docs, o, src)
    BY <1>4, <1>5, <1>6 DEF Covers
  <1>. QED BY <1>7

LEMMA InvoicesCover ==
    ASSUME DocumentsTyped, NEW o \in Originals, BilledAs(o)
    PROVE  Counted(Invoiced) /\ \E src : Covers(Invoiced, o, src)
  <1>1. DOMAIN Invoiced = {"invoice"} /\ Invoiced["invoice"] = invoice /\ invoice \in Document
    BY DEF Invoiced, DocumentsTyped
  <1>2. Counted(Invoiced)
    BY InvoiceIsCounted
  <1>. DEFINE d == "invoice"
  <1>3. /\ DOMAIN Invoiced = {d} /\ DOMAIN Invoiced[d].items = DOMAIN o.items
        /\ \A j \in DOMAIN o.items : /\ Invoiced[d].items[j].qty = o.items[j].qty
                                     /\ Fits(Invoiced[d].items[j], o.items[j])
    BY <1>1 DEF BilledAs
  <1>. HIDE DEF d
  <1>. QED BY <1>2, <1>3, OneDocumentCovers

LEMMA SameLinesCover ==
    ASSUME NEW docs, NEW others, DOMAIN docs = DOMAIN others,
           \A d \in DOMAIN docs : docs[d].items = others[d].items,
           Counted(docs), NEW o, NEW src, Covers(docs, o, src)
    PROVE  Counted(others) /\ Covers(others, o, src)
  <1>1. /\ Positions(docs) = Positions(others) /\ Quantities(docs) = Quantities(others)
        /\ \A p \in Positions(docs) : Line(docs, p) = Line(others, p)
    BY SameLines
  <1>. QED BY <1>1 DEF Counted, Covers

LEMMA OneOriginMakesNoDifference ==
    ASSUME DocumentsTyped, NEW o \in Originals, BilledAs(o), DeliveredAs(o)
    PROVE  /\ \A key \in DOMAIN Legacy.lines : Legacy.lines[key] \notin Actionable
           /\ \A l \in Comparison.lines : l.status \in {"equal", "unverified"}
  <1>1. Counted(Invoiced) /\ \E src : Covers(Invoiced, o, src)
    BY InvoicesCover
  <1>2. PICK isrc : Covers(Invoiced, o, isrc)
    BY <1>1
  <1>3. PICK nsrc : Covers(notes, o, nsrc)
    BY DEF DeliveredAs
  <1>4. Counted(notes)
    BY NotesAreCounted
  <1>5. DOMAIN Invoiced = {"invoice"} /\ Invoiced["invoice"] = invoice
    BY DEF Invoiced
  <1>6. ASSUME NEW key \in DOMAIN Legacy.lines PROVE Legacy.lines[key] \notin Actionable
    <2>. DEFINE keys  == Keys(invoice) \cup UNION {Keys(notes[n]) : n \in DOMAIN notes}
                alone == [i \in {"invoice"} |-> invoice]
    <2>1. Legacy.lines = [k \in keys |-> Classify(alone, notes, k)]
      BY Zenon DEF Legacy, Reconcile
    <2>2. alone = Invoiced
      BY DEF Invoiced
    <2>3. key \in keys
      <3>. HIDE DEF keys, alone
      <3>. QED BY <2>1
    <2>4. OfKey(o, key) # {}
      <3>1. CASE key \in Keys(invoice)
        <4>1. PICK j \in DOMAIN invoice.items : invoice.items[j].match = key
          BY <3>1 DEF Keys
        <4>2. j \in DOMAIN o.items /\ o.items[j].match = key
          BY <4>1 DEF BilledAs, Fits
        <4>. QED BY <4>2 DEF OfKey
      <3>2. ASSUME NEW n \in DOMAIN notes, key \in Keys(notes[n]) PROVE OfKey(o, key) # {}
        <4>1. PICK j \in DOMAIN notes[n].items : notes[n].items[j].match = key
          BY <3>2 DEF Keys
        <4>2. <<n, j>> \in Positions(notes) /\ Line(notes, <<n, j>>).match = key
          BY <4>1, PositionsOfLines
        <4>3. nsrc[<<n, j>>] \in DOMAIN o.items /\ o.items[nsrc[<<n, j>>]].match = key
          BY <1>3, <4>2 DEF Covers, Fits
        <4>. QED BY <4>3 DEF OfKey
      <3>. QED BY <2>3, <3>1, <3>2
    <2>5. Classify(Invoiced, notes, key) = "exact" /\ "exact" \notin Actionable
      BY <1>1, <1>2, <1>3, <1>4, <2>4, CoversAreExact DEF Actionable
    <2>. HIDE DEF keys, alone
    <2>6. Legacy.lines[key] = Classify(alone, notes, key)
      BY <2>1, <2>3
    <2>. QED BY <2>2, <2>5, <2>6
  <1>7. ASSUME NEW l \in Comparison.lines PROVE l.status \in {"equal", "unverified"}
    <2>. DEFINE inv  == Payload(invoice)
                left == [i \in {"invoice"} |-> inv]
    <2>1. inv.items = invoice.items
      BY DEF Payload
    <2>2. DOMAIN left = DOMAIN Invoiced /\ \A i \in DOMAIN left : left[i].items = Invoiced[i].items
      <3>. HIDE DEF inv
      <3>. QED BY <1>5, <2>1
    <2>3. DOMAIN Received = DOMAIN notes /\ \A n \in DOMAIN Received : Received[n].items = notes[n].items
      BY DEF Received, Payload
    <2>4. PICK g \in Groups(left) \cup Groups(Received) : l = LineResult(left, Received, g[1], g[2])
      <3>1. Comparison.lines = {LineResult(left, Received, h[1], h[2]) : h \in Groups(left) \cup Groups(Received)}
        BY DEF Comparison, Compare
      <3>. HIDE DEF left
      <3>. QED BY <3>1
    <2>. HIDE DEF inv, left
    <2>5. Counted(left) /\ Covers(left, o, isrc)
      <3>1. DOMAIN Invoiced = DOMAIN left /\ \A i \in DOMAIN Invoiced : Invoiced[i].items = left[i].items
        BY <2>2
      <3>. QED BY <1>1, <1>2, <3>1, SameLinesCover
    <2>6. Counted(Received) /\ Covers(Received, o, nsrc)
      <3>1. DOMAIN notes = DOMAIN Received /\ \A n \in DOMAIN notes : notes[n].items = Received[n].items
        BY <2>3
      <3>. QED BY <1>3, <1>4, <3>1, SameLinesCover
    <2>7. OfGroup(o, g[1], g[2]) # {}
      <3>1. ASSUME NEW docs, NEW src, Covers(docs, o, src), g \in Groups(docs)
            PROVE  OfGroup(o, g[1], g[2]) # {}
        <4>1. PICK p \in Positions(docs) : g = <<Line(docs, p).key, Line(docs, p).unit>>
          BY <3>1 DEF Groups
        <4>2. src[p] \in DOMAIN o.items /\ Fits(Line(docs, p), o.items[src[p]])
          BY <3>1, <4>1 DEF Covers
        <4>3. g[1] = o.items[src[p]].key /\ g[2] = o.items[src[p]].unit
          BY <4>1, <4>2 DEF Fits
        <4>. QED BY <4>2, <4>3 DEF OfGroup
      <3>. QED BY <2>4, <2>5, <2>6, <3>1
    <2>8. LineResult(left, Received, g[1], g[2]).status \in {"equal", "unverified"}
      <3>. DEFINE key  == g[1]
                  unit == g[2]
      <3>1. OfGroup(o, key, unit) # {}
        BY <2>7
      <3>. HIDE DEF key, unit
      <3>2. LineResult(left, Received, key, unit).status \in {"equal", "unverified"}
        BY <2>5, <2>6, <3>1, CoversAreEqual
      <3>. QED BY <3>2 DEF key, unit
    <2>. QED BY <2>4, <2>8
  <1>. QED BY <1>6, <1>7

LEMMA SameOriginMeans == DocumentsTyped /\ SameOrigin => UnknownMakesNoDifference
  <1>. SUFFICES ASSUME DocumentsTyped, SameOrigin, "items" \notin misread
                PROVE  /\ BlockingIssues(invoice) = {}
                       /\ \A n \in DOMAIN notes : BlockingIssues(notes[n]) = {}
                       /\ \A key \in DOMAIN Legacy.lines : Legacy.lines[key] \notin Actionable
                       /\ \A l \in Comparison.lines : l.status \in {"equal", "unverified"}
    BY DEF UnknownMakesNoDifference
  <1>1. PICK o \in Originals : BilledAs(o) /\ DeliveredAs(o)
    BY DEF SameOrigin
  <1>2. BlockingIssues(invoice) = {} /\ \A n \in DOMAIN notes : BlockingIssues(notes[n]) = {}
    BY <1>1, BilledInvoicePasses, DeliveredNotesPass
  <1>. QED BY <1>1, <1>2, OneOriginMakesNoDifference

-----------------------------------------------------------------------------
(* No step loses the origin: what goes missing leaves less to fit, and a   *)
(* unit that arrives apart is still a part of the same line.               *)

LessKnown(other, doc) ==
    /\ DOMAIN other.items = DOMAIN doc.items
    /\ \A j \in DOMAIN doc.items :
          /\ other.items[j].qty = doc.items[j].qty
          /\ \A item : Fits(doc.items[j], item) => Fits(other.items[j], item)
    /\ other.subtotal \subseteq doc.subtotal /\ other.tax \subseteq doc.tax
    /\ other.total \subseteq doc.total

LEMMA ClearedAreLess ==
    ASSUME NEW doc \in Document, NEW other \in Cleared(doc)
    PROVE  LessKnown(other, doc)
  <1>1. ASSUME other.items = doc.items, other.subtotal \subseteq doc.subtotal,
               other.tax \subseteq doc.tax, other.total \subseteq doc.total
        PROVE  LessKnown(other, doc)
    BY <1>1 DEF LessKnown
  <1>2. CASE \E f \in {"subtotal", "tax", "total", "po"} : other = [doc EXCEPT ![f] = {}]
    <2>1. /\ other.items = doc.items /\ other.subtotal \subseteq doc.subtotal
          /\ other.tax \subseteq doc.tax /\ other.total \subseteq doc.total
      BY <1>2 DEF Document
    <2>. QED BY <1>1, <2>1
  <1>3. CASE other \in {[doc EXCEPT !.day = 0], [doc EXCEPT !.location = ""]}
    <2>1. /\ other.items = doc.items /\ other.subtotal = doc.subtotal
          /\ other.tax = doc.tax /\ other.total = doc.total
      BY <1>3 DEF Document
    <2>. QED BY <1>1, <2>1
  <1>4. CASE other = [doc EXCEPT !.supplier.name = ""]
    <2>1. /\ other.items = doc.items /\ other.subtotal = doc.subtotal
          /\ other.tax = doc.tax /\ other.total = doc.total
      BY <1>4 DEF Document
    <2>. QED BY <1>1, <2>1
  <1>5. ASSUME NEW j \in DOMAIN doc.items, NEW f \in {"price", "total", "tax"}, other = LineRead(doc, j, f, {})
        PROVE  LessKnown(other, doc)
    <2>. DEFINE none == {}
                line == [doc.items[j] EXCEPT ![f] = none]
    <2>1. other.items = [doc.items EXCEPT ![j] = line]
      BY <1>5 DEF LineRead, Document
    <2>2. other.subtotal = doc.subtotal /\ other.tax = doc.tax /\ other.total = doc.total
      BY <1>5 DEF LineRead, Document
    <2>3. doc.items[j] \in Item
      BY DocumentFields
    <2>4. /\ line.qty = doc.items[j].qty /\ line.key = doc.items[j].key /\ line.match = doc.items[j].match
          /\ line.unit = doc.items[j].unit /\ line.free = doc.items[j].free
          /\ line.price \subseteq doc.items[j].price /\ line.total \subseteq doc.items[j].total
          /\ line.tax \subseteq doc.items[j].tax
      BY <2>3 DEF Item
    <2>. HIDE DEF line
    <2>5. \A item : Fits(doc.items[j], item) => Fits(line, item)
      BY <2>4 DEF Fits
    <2>6. DOMAIN other.items = DOMAIN doc.items
          /\ \A k \in DOMAIN doc.items : other.items[k] = IF k = j THEN line ELSE doc.items[k]
      BY <2>1
    <2>. QED BY <2>2, <2>4, <2>5, <2>6 DEF LessKnown
  <1>6. other \in ClearedAmounts(doc) => \E f \in {"subtotal", "tax", "total", "po"} : other = [doc EXCEPT ![f] = {}]
    BY DEF ClearedAmounts
  <1>7. other \in ClearedTexts(doc) => \/ other \in {[doc EXCEPT !.day = 0], [doc EXCEPT !.location = ""]}
                                       \/ other = [doc EXCEPT !.supplier.name = ""]
    BY Zenon DEF ClearedTexts
  <1>8. other \in ClearedLines(doc) =>
            \E j \in DOMAIN doc.items, f \in {"price", "total", "tax"} : other = LineRead(doc, j, f, {})
    BY DEF ClearedLines
  <1>9. CASE other \in ClearedAmounts(doc)
    BY <1>2, <1>6, <1>9
  <1>10. CASE other \in ClearedTexts(doc)
    BY <1>3, <1>4, <1>7, <1>10
  <1>11. CASE other \in ClearedLines(doc)
    BY <1>5, <1>8, <1>11
  <1>. QED BY <1>9, <1>10, <1>11 DEF Cleared

LEMMA MisreadHeadersAreLess ==
    ASSUME NEW doc \in Document, NEW m \in Misreadings(doc), m.field # "items"
    PROVE  LessKnown(m.doc, doc)
  <1>. DEFINE other(h) == [doc EXCEPT ![h[1]] = h[2]]
  <1>1. PICK h \in OtherHeaders : m.doc = other(h)
    <2>1. CASE \E d \in MisreadItems(doc) : m = [field |-> "items", doc |-> d]
      BY <2>1
    <2>2. CASE \E h \in OtherHeaders : m = [field |-> h[1], doc |-> other(h)]
      <3>. HIDE DEF other
      <3>. QED BY <2>2
    <2>. QED BY <2>1, <2>2 DEF Misreadings
  <1>2. h[1] \in {"number", "location", "currency", "po", "day", "supplier"}
    BY DocumentsAreTyped
  <1>3. /\ m.doc.items = doc.items /\ m.doc.subtotal = doc.subtotal
        /\ m.doc.tax = doc.tax /\ m.doc.total = doc.total
    BY <1>1, <1>2 DEF Document
  <1>. QED BY <1>3 DEF LessKnown

LEMMA BilledAsLess ==
    ASSUME NEW o \in Originals, BilledAs(o), LessKnown(invoice', invoice)
    PROVE  BilledAs(o)'
  <1>1. DOMAIN invoice'.items = DOMAIN o.items
    BY DEF BilledAs, LessKnown
  <1>2. ASSUME NEW j \in DOMAIN o.items
        PROVE  invoice'.items[j].qty = o.items[j].qty /\ Fits(invoice'.items[j], o.items[j])
    BY DEF BilledAs, LessKnown
  <1>3. invoice'.subtotal \subseteq o.subtotal /\ invoice'.tax \subseteq o.tax /\ invoice'.total \subseteq o.total
    BY DEF BilledAs, LessKnown
  <1>. QED BY <1>1, <1>2, <1>3 DEF BilledAs

LEMMA LessIsCovered ==
    ASSUME NEW docs, NEW others, DOMAIN others = DOMAIN docs,
           \A d \in DOMAIN docs : LessKnown(others[d], docs[d]),
           NEW o, NEW src, Covers(docs, o, src)
    PROVE  Covers(others, o, src)
  <1>1. Positions(others) = Positions(docs)
    BY DEF Positions, LessKnown
  <1>2. ASSUME NEW p \in Positions(docs)
        PROVE  /\ Line(others, p).qty = Line(docs, p).qty
               /\ \A item : Fits(Line(docs, p), item) => Fits(Line(others, p), item)
    <2>0. PICK d \in DOMAIN docs : p \in {<<d, j>> : j \in DOMAIN docs[d].items}
      BY DEF Positions
    <2>1. PICK j \in DOMAIN docs[d].items : p = <<d, j>>
      BY <2>0
    <2>2. Line(docs, p) = docs[d].items[j] /\ Line(others, p) = others[d].items[j]
      BY <2>1 DEF Line
    <2>. QED BY <2>2 DEF LessKnown
  <1>3. Quantities(others) = Quantities(docs)
    BY <1>1, <1>2 DEF Quantities
  <1>. QED BY <1>1, <1>2, <1>3 DEF Covers

LEMMA DeliveredAsLess ==
    ASSUME NEW o \in Originals, DeliveredAs(o), NEW n \in DOMAIN notes, NEW doc,
           notes' = [notes EXCEPT ![n] = doc], LessKnown(doc, notes[n])
    PROVE  DeliveredAs(o)'
  <1>1. DOMAIN notes' = DOMAIN notes
    OBVIOUS
  <1>2. ASSUME NEW d \in DOMAIN notes PROVE LessKnown(notes'[d], notes[d])
    <2>1. CASE d = n
      BY <2>1
    <2>2. CASE d # n
      <3>1. notes'[d] = notes[d]
        BY <2>2
      <3>. QED BY <3>1 DEF LessKnown
    <2>. QED BY <2>1, <2>2
  <1>3. PICK src : Covers(notes, o, src)
    BY DEF DeliveredAs
  <1>4. Covers(notes', o, src)
    BY <1>1, <1>2, <1>3, LessIsCovered
  <1>5. \A d \in DOMAIN notes : notes'[d].subtotal = {} /\ notes'[d].tax = {} /\ notes'[d].total = {}
    BY <1>2 DEF DeliveredAs, LessKnown
  <1>. QED BY <1>1, <1>4, <1>5 DEF DeliveredAs

-----------------------------------------------------------------------------
(* A unit that arrives apart.                                              *)

\* A part of a line that knows its price and total, and what is left of it, fit.
LEMMA PartsFit ==
    ASSUME NEW item, NEW u \in Int, item.price = {u}, NEW line \in Item, Fits(line, item)
    PROVE  Fits(Rest(line), item) /\ Fits(One(line), item)
  <1>. DEFINE left == {t - p : t \in line.total, p \in line.price}
  <1>1. line.qty \in Int /\ line.price \subseteq {u} /\ line.total \subseteq {line.qty * u}
    BY DEF Item, Fits
  <1>2. left \subseteq {(line.qty - 1) * u}
    <2>1. ASSUME NEW t \in line.total, NEW p \in line.price PROVE t - p = (line.qty - 1) * u
      <3>1. t = line.qty * u /\ p = u
        BY <1>1
      <3>2. line.qty * u - u = (line.qty - 1) * u
        BY <1>1
      <3>. QED BY <3>1, <3>2
    <2>. QED BY <2>1
  <1>3. /\ Rest(line).key = line.key /\ Rest(line).match = line.match /\ Rest(line).unit = line.unit /\ Rest(line).free = line.free
        /\ Rest(line).price = line.price /\ Rest(line).total = left /\ Rest(line).tax = {}
        /\ Rest(line).qty = line.qty - 1
    BY DEF Item, Rest
  <1>4. /\ One(line).key = line.key /\ One(line).match = line.match /\ One(line).unit = line.unit /\ One(line).free = line.free
        /\ One(line).price = line.price /\ One(line).total = line.price /\ One(line).tax = {}
        /\ One(line).qty = 1
    BY DEF Item, One
  <1>5. {q * p : q \in {1}, p \in {u}} = {u} /\ 1 * u = u
    OBVIOUS
  <1>. HIDE DEF left
  <1>6. Fits(Rest(line), item)
    BY <1>1, <1>2, <1>3 DEF Fits
  <1>7. Fits(One(line), item)
    BY <1>1, <1>4, <1>5 DEF Fits
  <1>. QED BY <1>6, <1>7

(* A unit of the line at becomes the new line: what covered the original   *)
(* still does, with the new line from where at is from.                    *)
LEMMA PartingCovers ==
    ASSUME NEW o \in Originals, NEW docs, NEW others, Counted(docs), Counted(others),
           NEW src, Covers(docs, o, src),
           NEW at \in Positions(docs), NEW new, new \notin Positions(docs),
           Positions(others) = Positions(docs) \cup {new},
           Line(docs, at) \in Item,
           Line(others, at) = Rest(Line(docs, at)), Line(others, new) = One(Line(docs, at)),
           \A p \in Positions(docs) \ {at} : Line(others, p) = Line(docs, p)
    PROVE  \E to : Covers(others, o, to)
  <1>. DEFINE to == [p \in Positions(others) |-> IF p = new THEN src[at] ELSE src[p]]
              f  == Quantities(docs)
              g  == Quantities(others)
              Of(j)  == Part(Positions(docs), src, j)
              Now(j) == Part(Positions(others), to, j)
  <1>1. src \in [Positions(docs) -> DOMAIN o.items]
    BY DEF Covers
  <1>2. to \in [Positions(others) -> DOMAIN o.items]
    BY <1>1
  <1>3. to[new] = src[at] /\ \A p \in Positions(docs) : to[p] = src[p]
    OBVIOUS
  <1>. HIDE DEF to
  <1>4. Fits(Line(others, at), o.items[src[at]]) /\ Fits(Line(others, new), o.items[src[at]])
    <2>. DEFINE item == o.items[src[at]]
                u    == UnitPrice(item)
    <2>1. item.price = {u} /\ u \in Int
      BY <1>1, ExactLines
    <2>2. Fits(Line(docs, at), item)
      BY DEF Covers
    <2>. HIDE DEF item, u
    <2>3. Fits(Rest(Line(docs, at)), item) /\ Fits(One(Line(docs, at)), item)
      BY <2>1, <2>2, PartsFit
    <2>. QED BY <2>3 DEF item
  <1>5. ASSUME NEW p \in Positions(others) PROVE Fits(Line(others, p), o.items[to[p]])
    <2>1. CASE p \in {at, new}
      BY <1>3, <1>4, <2>1
    <2>2. CASE p \notin {at, new}
      <3>1. p \in Positions(docs) \ {at}
        BY <2>2
      <3>2. Fits(Line(docs, p), o.items[src[p]])
        BY <3>1 DEF Covers
      <3>. QED BY <1>3, <3>1, <3>2
    <2>. QED BY <2>1, <2>2
  <1>6. /\ g[at] = f[at] - 1 /\ g[new] = 1 /\ f[at] \in Int
        /\ \A p \in Positions(docs) \ {at} : g[p] = f[p]
    <2>1. Rest(Line(docs, at)).qty = Line(docs, at).qty - 1 /\ One(Line(docs, at)).qty = 1
      BY PartsAreItems
    <2>. QED BY <2>1 DEF Quantities, Counted
  <1>7. /\ IsFiniteSet(Positions(docs)) /\ IsFiniteSet(Positions(others))
        /\ \A p \in Positions(docs) : f[p] \in Int
        /\ \A p \in Positions(others) : g[p] \in Int
    BY DEF Counted
  <1>. HIDE DEF f, g
  <1>8. ASSUME NEW j \in DOMAIN o.items PROVE SumOver(g, Now(j)) = SumOver(f, Of(j))
    <2>1. Of(j) \in SUBSET Positions(docs) /\ Now(j) \in SUBSET Positions(others)
      BY DEF Part
    <2>2. /\ IsFiniteSet(Of(j)) /\ IsFiniteSet(Now(j))
          /\ (\A p \in Of(j) : f[p] \in Int) /\ \A p \in Now(j) : g[p] \in Int
      BY <1>7, <2>1, FS_Subset
    <2>3. CASE src[at] = j
      <3>. DEFINE R == Of(j) \ {at}
                  N == Now(j) \ {new}
      <3>1. at \in Of(j) /\ new \in Now(j) /\ at \in N /\ N \ {at} = R
        BY <1>3, <2>3 DEF Part
      <3>2. IsFiniteSet(R) /\ IsFiniteSet(N) /\ (\A p \in N : g[p] \in Int) /\ \A p \in R : g[p] = f[p]
        <4>1. R \subseteq Positions(docs) \ {at} /\ R \subseteq Of(j) /\ N \subseteq Now(j)
          BY <2>1
        <4>. QED BY <1>6, <2>2, <4>1, FS_Subset
      <3>. HIDE DEF Of, Now
      <3>3. SumOver(f, Of(j)) = f[at] + SumOver(f, R)
        BY <2>2, <3>1, SumWithout
      <3>4. SumOver(g, Now(j)) = g[new] + SumOver(g, N)
        BY <2>2, <3>1, SumWithout
      <3>. HIDE DEF R, N
      <3>5. SumOver(g, N) = g[at] + SumOver(g, N \ {at})
        BY <3>1, <3>2, SumWithout
      <3>6. SumOver(g, N \ {at}) = SumOver(g, R)
        BY <3>1
      <3>7. SumOver(g, R) = SumOver(f, R) /\ SumOver(f, R) \in Int
        <4>1. \A p \in R : f[p] \in Int
          BY <2>2, <3>1 DEF R
        <4>2. SumOver(f, R) \in Int
          BY <3>2, <4>1, SumType
        <4>. QED BY <3>2, <4>2, SumSame
      <3>. QED BY <1>6, <3>3, <3>4, <3>5, <3>6, <3>7
    <2>4. CASE src[at] # j
      <3>1. Now(j) = Of(j) /\ at \notin Of(j)
        BY <1>3, <2>4 DEF Part
      <3>2. \A p \in Of(j) : g[p] = f[p]
        BY <1>6, <2>1, <3>1
      <3>. HIDE DEF Of, Now
      <3>. QED BY <2>2, <3>1, <3>2, SumSame
    <2>. QED BY <2>3, <2>4
  <1>9. ASSUME NEW j \in DOMAIN o.items
        PROVE  SumOver(Quantities(others), Part(Positions(others), to, j)) = o.items[j].qty
    <2>1. SumOver(f, Of(j)) = o.items[j].qty
      BY DEF Covers, f
    <2>. QED BY <1>8, <2>1 DEF g
  <1>10. Covers(others, o, to)
    BY <1>2, <1>5, <1>9 DEF Covers
  <1>. QED BY <1>10

\* The lines of the notes after a unit of line j of the first has come apart.
LEMMA ApartLines ==
    ASSUME DocumentsTyped, NEW j \in DOMAIN notes[1].items, DeliverApart(j)
    PROVE  \E new : /\ <<1, j>> \in Positions(notes) /\ new \notin Positions(notes)
                    /\ Positions(notes') = Positions(notes) \cup {new}
                    /\ Line(notes, <<1, j>>) \in Item
                    /\ Line(notes', <<1, j>>) = Rest(Line(notes, <<1, j>>))
                    /\ Line(notes', new) = One(Line(notes, <<1, j>>))
                    /\ \A p \in Positions(notes) \ {<<1, j>>} : Line(notes', p) = Line(notes, p)
  <1>. DEFINE item  == notes[1].items[j]
              items == [notes[1].items EXCEPT ![j] = Rest(item)]
              more  == IF 2 \in DOMAIN notes THEN notes[2].items ELSE <<>>
              both  == Append(more, One(item))
              new   == <<2, Len(more) + 1>>
  <1>1. /\ item \in Item /\ more \in Seq(Item) /\ both \in Seq(Item) /\ items \in Seq(Item)
        /\ notes' = [n \in {1, 2} |-> IF n = 1 THEN [notes[1] EXCEPT !.items = items]
                                      ELSE [notes[1] EXCEPT !.items = both]]
    BY ApartMeans, Zenon
  <1>2. /\ 1 \in DOMAIN notes /\ notes[1] \in Document
        /\ DOMAIN notes \in {{1}, {1, 2}}
    BY DEF DocumentsTyped
  <1>3. /\ DOMAIN more = 1 .. Len(more) /\ Len(more) \in Nat
        /\ DOMAIN both = 1 .. (Len(more) + 1) /\ both[Len(more) + 1] = One(item)
        /\ \A k \in DOMAIN more : both[k] = more[k]
    <2>1. One(item) \in Item
      BY <1>1, PartsAreItems
    <2>. HIDE DEF item, more
    <2>. QED BY <1>1, <2>1
  <1>. DEFINE end == Len(more) + 1
  <1>4. DOMAIN both = DOMAIN more \cup {end} /\ end \notin DOMAIN more
    BY <1>3
  <1>5. /\ DOMAIN items = DOMAIN notes[1].items /\ items[j] = Rest(item)
        /\ \A k \in DOMAIN items \ {j} : items[k] = notes[1].items[k]
    OBVIOUS
  <1>6. /\ \A k \in DOMAIN more : 2 \in DOMAIN notes /\ more[k] = notes[2].items[k]
        /\ 2 \in DOMAIN notes => DOMAIN more = DOMAIN notes[2].items
    <2>1. CASE 2 \in DOMAIN notes
      BY <2>1
    <2>2. CASE 2 \notin DOMAIN notes
      BY <2>2
    <2>. QED BY <2>1, <2>2
  <1>. HIDE DEF items, more, both, end
  <1>7. /\ DOMAIN notes' = {1, 2}
        /\ notes'[1].items = items /\ notes'[2].items = both
    <2>1. /\ [notes[1] EXCEPT !.items = items].items = items
          /\ [notes[1] EXCEPT !.items = both].items = both
      BY <1>1, <1>2, ItemsReplaced
    <2>. DEFINE first == [notes[1] EXCEPT !.items = items]
                second == [notes[1] EXCEPT !.items = both]
    <2>2. notes' = [n \in {1, 2} |-> IF n = 1 THEN first ELSE second]
      BY <1>1
    <2>3. first.items = items /\ second.items = both
      BY <2>1
    <2>. HIDE DEF first, second
    <2>. QED BY <2>2, <2>3
  <1>. HIDE DEF item
  <1>8. Positions(notes') = {<<1, k>> : k \in DOMAIN items} \cup {<<2, k>> : k \in DOMAIN both}
    BY <1>7 DEF Positions
  <1>9. Positions(notes) = {<<1, k>> : k \in DOMAIN items} \cup {<<2, k>> : k \in DOMAIN more}
    <2>1. CASE DOMAIN notes = {1}
      <3>1. Positions(notes) = {<<1, k>> : k \in DOMAIN notes[1].items}
        BY <2>1 DEF Positions
      <3>2. DOMAIN more = {}
        BY <1>6, <2>1
      <3>. QED BY <1>5, <3>1, <3>2
    <2>2. CASE DOMAIN notes = {1, 2}
      <3>1. Positions(notes) = {<<1, k>> : k \in DOMAIN notes[1].items}
                               \cup {<<2, k>> : k \in DOMAIN notes[2].items}
        BY <2>2 DEF Positions
      <3>. QED BY <1>5, <1>6, <2>2, <3>1
    <2>. QED BY <1>2, <2>1, <2>2
  <1>10. <<1, j>> \in Positions(notes)
    BY <1>5, <1>9
  <1>11. new = <<2, end>>
    BY DEF end
  <1>12. new \notin Positions(notes) /\ Positions(notes') = Positions(notes) \cup {new}
    BY <1>4, <1>8, <1>9, <1>11
  <1>13. Line(notes, <<1, j>>) = item /\ Line(notes', <<1, j>>) = Rest(item)
    BY <1>5, <1>7 DEF Line, item
  <1>14. Line(notes', new) = One(item)
    BY <1>3, <1>7, <1>11 DEF Line, end
  <1>15. ASSUME NEW p \in Positions(notes) \ {<<1, j>>} PROVE Line(notes', p) = Line(notes, p)
    <2>1. ASSUME NEW k \in DOMAIN items, p = <<1, k>> PROVE Line(notes', p) = Line(notes, p)
      BY <1>5, <1>7, <2>1 DEF Line
    <2>2. ASSUME NEW k \in DOMAIN more, p = <<2, k>> PROVE Line(notes', p) = Line(notes, p)
      BY <1>3, <1>6, <1>7, <2>2 DEF Line
    <2>. QED BY <1>9, <2>1, <2>2
  <1>. HIDE DEF new
  <1>. QED BY <1>1, <1>10, <1>12, <1>13, <1>14, <1>15

LEMMA DeliveredApart ==
    ASSUME DocumentsTyped, DocumentsTyped', NEW o \in Originals, DeliveredAs(o),
           NEW j \in DOMAIN notes[1].items, DeliverApart(j)
    PROVE  DeliveredAs(o)'
  <1>1. PICK src : Covers(notes, o, src)
    BY DEF DeliveredAs
  <1>2. Counted(notes)
    BY NotesAreCounted
  <1>3. Counted(notes')
    <2>1. DOMAIN notes' \in {{1}, {1, 2}} /\ \A n \in DOMAIN notes' : notes'[n] \in Document
      BY DEF DocumentsTyped
    <2>2. IsFiniteSet({1}) /\ IsFiniteSet({2}) /\ {1, 2} = {1} \cup {2}
      BY FS_Singleton
    <2>3. IsFiniteSet({1} \cup {2})
      BY <2>2, FS_Union
    <2>4. IsFiniteSet(DOMAIN notes')
      BY <2>1, <2>2, <2>3
    <2>. QED BY <2>1, <2>4, DocumentsAreCounted
  <1>. DEFINE at == <<1, j>>
  <1>4. PICK new : /\ at \in Positions(notes) /\ new \notin Positions(notes)
                   /\ Positions(notes') = Positions(notes) \cup {new}
                   /\ Line(notes, at) \in Item
                   /\ Line(notes', at) = Rest(Line(notes, at))
                   /\ Line(notes', new) = One(Line(notes, at))
                   /\ \A p \in Positions(notes) \ {at} : Line(notes', p) = Line(notes, p)
    BY ApartLines
  <1>. HIDE DEF at
  <1>5. \E to : Covers(notes', o, to)
    BY <1>1, <1>2, <1>3, <1>4, PartingCovers
  <1>6. ASSUME NEW n \in DOMAIN notes'
        PROVE  notes'[n].subtotal = {} /\ notes'[n].tax = {} /\ notes'[n].total = {}
    <2>. DEFINE item   == notes[1].items[j]
                first  == [notes[1].items EXCEPT ![j] = Rest(item)]
                more   == IF 2 \in DOMAIN notes THEN notes[2].items ELSE <<>>
                second == Append(more, One(item))
    <2>1. notes' = [d \in {1, 2} |-> IF d = 1 THEN [notes[1] EXCEPT !.items = first]
                                     ELSE [notes[1] EXCEPT !.items = second]]
      BY ApartMeans, Zenon
    <2>. HIDE DEF first, second
    <2>2. 1 \in DOMAIN notes /\ notes[1] \in Document
      BY DEF DocumentsTyped
    <2>3. notes[1].subtotal = {} /\ notes[1].tax = {} /\ notes[1].total = {}
      BY <2>2 DEF DeliveredAs
    <2>. QED BY <2>1, <2>2, <2>3 DEF Document
  <1>. QED BY <1>5, <1>6 DEF DeliveredAs

-----------------------------------------------------------------------------
LEMMA SameOriginInit == Init => SameOrigin
  <1>. SUFFICES ASSUME Init PROVE \E o \in Originals : BilledAs(o) /\ DeliveredAs(o)
    BY DEF SameOrigin
  <1>1. invoice \in Originals /\ invoice \in Document
    BY DocumentsAreTyped DEF Init
  <1>2. DocumentsTyped
    BY TypedInit
  <1>3. ASSUME NEW j \in DOMAIN invoice.items PROVE Fits(invoice.items[j], invoice.items[j])
    <2>. DEFINE item == invoice.items[j]
                u    == UnitPrice(item)
    <2>1. item.price = {u} /\ item.total = {item.qty * u}
      BY <1>1, ExactLines
    <2>. HIDE DEF item, u
    <2>2. item.total \subseteq {item.qty * p : p \in item.price}
      BY <2>1
    <2>3. Fits(item, item)
      BY <2>2 DEF Fits
    <2>. QED BY <2>3 DEF item
  <1>4. BilledAs(invoice)
    BY <1>3 DEF BilledAs
  <1>5. /\ DOMAIN notes = {1} /\ notes[1] = NoteOf(invoice) /\ notes[1].items = invoice.items
        /\ notes[1].subtotal = {} /\ notes[1].tax = {} /\ notes[1].total = {}
    <2>1. notes = [n \in {1} |-> NoteOf(invoice)]
      BY DEF Init
    <2>2. NoteOf(invoice).subtotal = {} /\ NoteOf(invoice).tax = {} /\ NoteOf(invoice).total = {}
      BY <1>1 DEF NoteOf, Document
    <2>. QED BY <1>1, <2>1, <2>2, NotesAreDocuments
  <1>6. \E src : Covers(notes, invoice, src)
    <2>1. Counted(notes)
      BY <1>2, NotesAreCounted
    <2>2. /\ DOMAIN notes[1].items = DOMAIN invoice.items
          /\ \A j \in DOMAIN invoice.items : /\ notes[1].items[j].qty = invoice.items[j].qty
                                             /\ Fits(notes[1].items[j], invoice.items[j])
      BY <1>3, <1>5
    <2>. QED BY <1>1, <1>5, <2>1, <2>2, OneDocumentCovers
  <1>7. DeliveredAs(invoice)
    BY <1>5, <1>6 DEF DeliveredAs
  <1>. QED BY <1>1, <1>4, <1>7

LEMMA SameOriginStep == DocumentsTyped /\ SameOrigin /\ [Next]_vars => SameOrigin'
  <1>. SUFFICES ASSUME DocumentsTyped, SameOrigin, [Next]_vars, "items" \notin misread'
                PROVE  (\E o \in Originals : BilledAs(o) /\ DeliveredAs(o))'
    BY DEF SameOrigin
  <1>0. misread \subseteq misread'
    <2>1. CASE Misread
      BY <2>1 DEF Misread
    <2>2. CASE Missed \/ UNCHANGED vars
      BY <2>2 DEF Missed, vars
    <2>3. ASSUME NEW j \in DOMAIN notes[1].items, DeliverApart(j) PROVE UNCHANGED misread
      BY <2>3, Zenon DEF DeliverApart
    <2>. QED BY <2>1, <2>2, <2>3 DEF Next
  <1>1. PICK o \in Originals : BilledAs(o) /\ DeliveredAs(o)
    BY <1>0 DEF SameOrigin
  <1>2. SUFFICES BilledAs(o)' /\ DeliveredAs(o)'
    OBVIOUS
  <1>3. ASSUME UNCHANGED invoice PROVE BilledAs(o)'
    BY <1>1, <1>3 DEF BilledAs
  <1>4. ASSUME UNCHANGED notes PROVE DeliveredAs(o)'
    BY <1>1, <1>4 DEF DeliveredAs
  <1>5. CASE Missed
    <2>1. ASSUME invoice' \in Cleared(invoice), UNCHANGED notes PROVE BilledAs(o)' /\ DeliveredAs(o)'
      <3>1. LessKnown(invoice', invoice)
        BY <2>1, ClearedAreLess DEF DocumentsTyped
      <3>. QED BY <1>1, <1>4, <2>1, <3>1, BilledAsLess
    <2>2. ASSUME NEW n \in DOMAIN notes, NEW doc \in Cleared(notes[n]),
                 notes' = [notes EXCEPT ![n] = doc], UNCHANGED invoice
          PROVE  BilledAs(o)' /\ DeliveredAs(o)'
      <3>1. LessKnown(doc, notes[n])
        BY ClearedAreLess DEF DocumentsTyped
      <3>. QED BY <1>1, <1>3, <2>2, <3>1, DeliveredAsLess
    <2>. QED BY <1>5, <2>1, <2>2 DEF Missed
  <1>6. CASE Misread
    <2>1. ASSUME NEW m \in Misreadings(invoice), invoice' = m.doc, misread' = misread \cup {m.field},
                 UNCHANGED notes
          PROVE  BilledAs(o)' /\ DeliveredAs(o)'
      <3>1. LessKnown(invoice', invoice)
        BY <2>1, MisreadHeadersAreLess DEF DocumentsTyped
      <3>. QED BY <1>1, <1>4, <2>1, <3>1, BilledAsLess
    <2>2. ASSUME NEW n \in DOMAIN notes, NEW m \in Misreadings(notes[n]),
                 notes' = [notes EXCEPT ![n] = m.doc], misread' = misread \cup {m.field}, UNCHANGED invoice
          PROVE  BilledAs(o)' /\ DeliveredAs(o)'
      <3>1. LessKnown(m.doc, notes[n])
        BY <2>2, MisreadHeadersAreLess DEF DocumentsTyped
      <3>. QED BY <1>1, <1>3, <2>2, <3>1, DeliveredAsLess
    <2>. QED BY <1>6, <2>1, <2>2 DEF Misread
  <1>7. ASSUME NEW j \in DOMAIN notes[1].items, DeliverApart(j)
        PROVE  BilledAs(o)' /\ DeliveredAs(o)'
    <2>1. UNCHANGED invoice
      BY <1>7 DEF DeliverApart
    <2>2. DocumentsTyped'
      BY TypedStep
    <2>3. DeliveredAs(o)'
      BY <1>1, <1>7, <2>2, DeliveredApart
    <2>. QED BY <1>3, <2>1, <2>3
  <1>8. CASE UNCHANGED vars
    BY <1>3, <1>4, <1>8 DEF vars
  <1>. QED BY <1>5, <1>6, <1>7, <1>8 DEF Next

(* For any original invoice whose values are known and agree, with any     *)
(* number of lines of any amounts, however much of the documents is not    *)
(* found, whatever header is misread and with whichever notes the units    *)
(* arrive: while no line is misread, no document is blocked, the legacy    *)
(* reconciliation has no line to decide on, and the workspace calls no     *)
(* line different.                                                         *)
THEOREM UnknownMakesNoDifferenceCorrect == Spec => []UnknownMakesNoDifference
  <1>1. SameOrigin /\ DocumentsTyped /\ [Next]_vars => SameOrigin'
    BY SameOriginStep
  <1>. QED BY <1>1, SameOriginInit, SameOriginMeans, AlwaysTyped, PTL DEF Spec
=============================================================================
