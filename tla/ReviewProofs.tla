---------------------------- MODULE ReviewProofs ----------------------------
(***************************************************************************)
(* Proofs about review, import and reconciliation, for any number of       *)
(* documents, records, requests and versions.  The number of a new version *)
(* is one more than that of the newest; that there is a newest, and one    *)
(* only, is carried along as an invariant, since the tables are unbounded. *)
(***************************************************************************)
EXTENDS ReviewProperties, TLAPS

Row == UploadRow \cup UpstreamRow

-----------------------------------------------------------------------------
(* A table of rows, as a value.                                            *)

OfIn(table, d) == {v \in DOMAIN table : table[v].of = d}
IsNewestIn(table, v, d) ==
    v \in OfIn(table, d) /\ \A w \in OfIn(table, d) : table[w].number =< table[v].number
UniqueIn(table) == \A v, w \in DOMAIN table :
    table[v].of = table[w].of /\ table[v].number = table[w].number => v = w
NumberedIn(table) == \A d \in Tasks \cup Records :
    OfIn(table, d) # {} => \E v \in DOMAIN table : IsNewestIn(table, v, d)
Judged(table, x, s) == [table EXCEPT ![x].status = s]
NewestIn(table, d) ==
    CHOOSE v \in OfIn(table, d) : \A w \in OfIn(table, d) : table[w].number =< table[v].number

LEMMA RowFields ==
    ASSUME NEW r \in Row
    PROVE  /\ r.of \in Tasks \cup Records /\ r.number \in Nat \ {0} /\ r.type \in Types
           /\ r.body \in Bodies /\ r.status \in Statuses /\ r.from \in Nat
           /\ r.of \in Records => r \in UpstreamRow /\ r.status = "approved"
           /\ r.of \in Tasks => r \in UploadRow /\ r.active
  <1>1. Tasks \cap Records = {}
    BY Documents
  <1>2. CASE r \in UploadRow
    <2>1. /\ r.of \in Tasks /\ r.number \in Nat \ {0} /\ r.type \in Types /\ r.body \in Bodies
          /\ r.status \in Statuses /\ r.from \in Nat /\ r.active = TRUE
      BY <1>2 DEF UploadRow
    <2>. QED  BY <1>1, <1>2, <2>1
  <1>3. CASE r \in UpstreamRow
    <2>1. /\ r.of \in Records /\ r.number \in Nat \ {0} /\ r.type = "receive_note"
          /\ r.body \in Bodies /\ r.status = "approved" /\ r.from = 0
      BY <1>3 DEF UpstreamRow
    <2>. QED  BY <1>1, <1>3, <2>1 DEF Types, Statuses
  <1>. QED  BY <1>2, <1>3 DEF Row

\* The newest row of a document is the one with the largest number.
LEMMA NewestIsTheLargest ==
    ASSUME NEW table \in Seq(Row), UniqueIn(table), NumberedIn(table), NEW d \in Tasks \cup Records
    PROVE  /\ OfIn(table, d) # {} => IsNewestIn(table, NewestIn(table, d), d)
           /\ \A v \in DOMAIN table : IsNewestIn(table, v, d) => v = NewestIn(table, d)
  <1>1. ASSUME OfIn(table, d) # {} PROVE IsNewestIn(table, NewestIn(table, d), d)
    BY <1>1 DEF NumberedIn, IsNewestIn, NewestIn
  <1>2. ASSUME NEW v \in DOMAIN table, IsNewestIn(table, v, d) PROVE v = NewestIn(table, d)
    <2>. DEFINE n == NewestIn(table, d)
    <2>1. IsNewestIn(table, n, d)
      BY <1>1, <1>2 DEF IsNewestIn
    <2>2. n \in DOMAIN table /\ table[n].of = d /\ table[v].of = d
          /\ table[v].number =< table[n].number /\ table[n].number =< table[v].number
      BY <2>1, <1>2 DEF IsNewestIn, OfIn
    <2>3. table[v].number \in Nat /\ table[n].number \in Nat
      BY <2>2, RowFields
    <2>4. table[v].number = table[n].number
      BY <2>2, <2>3
    <2>. QED  BY <2>2, <2>4 DEF UniqueIn
  <1>. QED  BY <1>1, <1>2

\* A row with a number of its own, larger than those of its document.
LEMMA RowAppended ==
    ASSUME NEW table \in Seq(Row), UniqueIn(table), NumberedIn(table), NEW new \in Row,
           \A w \in OfIn(table, new.of) : table[w].number < new.number
    PROVE  LET grown == Append(table, new) IN
           /\ grown \in Seq(Row) /\ UniqueIn(grown) /\ NumberedIn(grown)
           /\ Len(grown) = Len(table) + 1 /\ Len(table) + 1 \notin DOMAIN table
           /\ DOMAIN grown = DOMAIN table \cup {Len(table) + 1}
           /\ \A v \in DOMAIN table : grown[v] = table[v]
           /\ grown[Len(table) + 1] = new
           /\ IsNewestIn(grown, Len(table) + 1, new.of)
  <1>. DEFINE n     == Len(table) + 1
              grown == Append(table, new)
  <1>1. /\ grown \in Seq(Row) /\ Len(grown) = n /\ n \notin DOMAIN table
        /\ DOMAIN grown = DOMAIN table \cup {n}
        /\ \A v \in DOMAIN table : grown[v] = table[v]
        /\ grown[n] = new
    OBVIOUS
  <1>. HIDE DEF n, grown
  <1>2. new.number \in Nat /\ \A v \in DOMAIN table : table[v] \in Row /\ table[v].number \in Nat
    BY RowFields
  <1>3. \A w \in DOMAIN table : table[w].of = new.of => table[w].number < new.number
    BY DEF OfIn
  <1>4. UniqueIn(grown)
    BY <1>1, <1>2, <1>3 DEF UniqueIn
  <1>5. IsNewestIn(grown, n, new.of)
    BY <1>1, <1>2, <1>3 DEF IsNewestIn, OfIn
  <1>6. ASSUME NEW d \in Tasks \cup Records, OfIn(grown, d) # {}
        PROVE  \E v \in DOMAIN grown : IsNewestIn(grown, v, d)
    <2>1. CASE d = new.of
      BY <2>1, <1>5, <1>1
    <2>2. CASE d # new.of
      <3>1. OfIn(grown, d) = OfIn(table, d)
        BY <2>2, <1>1 DEF OfIn
      <3>2. PICK v \in DOMAIN table : IsNewestIn(table, v, d)
        BY <3>1, <1>6 DEF NumberedIn
      <3>3. IsNewestIn(grown, v, d)
        BY <3>1, <3>2, <1>1 DEF IsNewestIn, OfIn
      <3>. QED  BY <3>3, <1>1
    <2>. QED  BY <2>1, <2>2
  <1>. QED  BY <1>1, <1>4, <1>5, <1>6 DEF NumberedIn, n, grown

\* A decision changes the status of a row of an upload and nothing else.
LEMMA RowDecided ==
    ASSUME NEW table \in Seq(Row), UniqueIn(table), NumberedIn(table),
           NEW x \in DOMAIN table, table[x].of \in Tasks, NEW s \in Statuses
    PROVE  LET judged == Judged(table, x, s) IN
           /\ judged \in Seq(Row) /\ UniqueIn(judged) /\ NumberedIn(judged)
           /\ Len(judged) = Len(table) /\ DOMAIN judged = DOMAIN table
           /\ \A v \in DOMAIN table :
                 /\ v # x => judged[v] = table[v]
                 /\ judged[v].of = table[v].of /\ judged[v].number = table[v].number
                 /\ judged[v].type = table[v].type /\ judged[v].from = table[v].from
                 /\ judged[v].active = table[v].active /\ judged[v].supplier = table[v].supplier
           /\ judged[x].status = s
  <1>1. table[x] \in UploadRow
    BY RowFields
  <1>. DEFINE row    == [table[x] EXCEPT !.status = s]
              judged == Judged(table, x, s)
  <1>2. /\ row \in UploadRow /\ row.status = s
        /\ row.of = table[x].of /\ row.number = table[x].number /\ row.type = table[x].type
        /\ row.from = table[x].from /\ row.active = table[x].active /\ row.supplier = table[x].supplier
    BY <1>1 DEF UploadRow
  <1>3. judged = [table EXCEPT ![x] = row]
    BY DEF Judged
  <1>. HIDE DEF row, judged
  <1>4. row \in Row
    BY <1>2 DEF Row
  <1>5. judged \in Seq(Row) /\ Len(judged) = Len(table) /\ DOMAIN judged = DOMAIN table
    BY <1>3, <1>4
  <1>6. \A v \in DOMAIN table : judged[v] = IF v = x THEN row ELSE table[v]
    BY <1>3
  <1>7. \A v \in DOMAIN table :
           /\ judged[v].of = table[v].of /\ judged[v].number = table[v].number
           /\ judged[v].type = table[v].type /\ judged[v].from = table[v].from
           /\ judged[v].active = table[v].active /\ judged[v].supplier = table[v].supplier
    BY <1>6, <1>2
  <1>8. UniqueIn(judged)
    BY <1>5, <1>7 DEF UniqueIn
  <1>9. \A d : OfIn(judged, d) = OfIn(table, d)
    BY <1>5, <1>7 DEF OfIn
  <1>10. \A v, d : IsNewestIn(judged, v, d) <=> IsNewestIn(table, v, d)
    <2>1. \A d : \A w \in OfIn(table, d) : w \in DOMAIN table
      BY DEF OfIn
    <2>. QED  BY <2>1, <1>7, <1>9 DEF IsNewestIn
  <1>11. NumberedIn(judged)
    BY <1>5, <1>9, <1>10 DEF NumberedIn
  <1>. QED  BY <1>2, <1>5, <1>6, <1>7, <1>8, <1>11 DEF judged

-----------------------------------------------------------------------------
(* The invariant.                                                          *)

Numbered == NumberedIn(versions)

(* A request that is past its write, or about to approve, is about a row   *)
(* of its task; the row keeps the decision of one that has written it.     *)
RequestPoints(r) ==
    /\ r.stage = "checked" => r.action # "rejected"
    /\ r.stage = "written" \/ r.action = "approved" =>
          r.version \in DOMAIN versions /\ versions[r.version].of = r.task
    /\ r.stage = "written" /\ r.action \in {"approved", "rejected"} =>
          versions[r.version].status = r.action
RequestsPointAtRows == \A q \in Requests : request[q] # Null => RequestPoints(request[q])
AuditPointsAtRows == \A a \in audit : a.version \in DOMAIN versions

(* The only request on a document still has before it what it checked.     *)
StillAsChecked(r) == r.stage = "checked" =>
    \/ r.version = 0 /\ OfIn(versions, r.task) = {}
    \/ r.version # 0 /\ IsNewestIn(versions, r.version, r.task) /\ versions[r.version].status = "draft"
AloneSeesAll == \A q \in Requests : request[q] # Null /\ request[q].task \in alone =>
    /\ StillAsChecked(request[q])
    /\ \A p \in Requests : request[p] # Null /\ request[p].task = request[q].task => p = q

FollowsItsSource(v) ==
    /\ versions[v].from = 0 <=> versions[v].number = 1
    /\ versions[v].from # 0 =>
          /\ versions[v].from \in DOMAIN versions
          /\ versions[versions[v].from].of = versions[v].of
          /\ versions[versions[v].from].number + 1 = versions[v].number
Lines == \A v \in DOMAIN versions : versions[v].of \in alone =>
    /\ FollowsItsSource(v)
    /\ versions[v].status = "approved" => IsNewestIn(versions, v, versions[v].of)

(* What a comparison has read was usable when it was read, and all of it   *)
(* was there when it began.                                                *)
ReadWhileUsable(c) ==
    /\ c.since =< Len(versions) /\ c.invoice \in DOMAIN versions
    /\ c.wanted \cup c.read \subseteq 1..c.since
    /\ versions[c.invoice].type = "invoice" /\ WasUsable(c.invoice, c.since)
    /\ \A v \in c.wanted \cup c.read : versions[v].type = "receive_note"
    /\ \A v \in c.read : \E k \in c.since..Len(versions) : WasUsable(v, k)
ComparisonsReadUsable == \A p \in Comparers : comparing[p] # Null => ReadWhileUsable(comparing[p])
ReconciliationsPointAtRows == \A r \in reconciliations :
    /\ r.since \in Nat /\ r.until \in Nat /\ r.until =< Len(versions)
    /\ r.invoice \in DOMAIN versions /\ r.notes \subseteq DOMAIN versions

ReviewInv ==
    /\ TypeOK /\ Numbered
    /\ RequestsPointAtRows /\ AuditPointsAtRows /\ AuditTellsTheDecision
    /\ AloneSeesAll /\ Lines
    /\ ReceivingOnlyMovesOn
    /\ ComparisonsReadUsable /\ ReconciliationsPointAtRows /\ ReconciledWhileUsable

-----------------------------------------------------------------------------
(* What a step does to the table: nothing, one row more, one decision.     *)

Grows(new) == /\ versions' = Append(versions, new)
              /\ \A w \in OfIn(versions, new.of) : versions[w].number < new.number
Judges(v, s) == /\ versions[v].of \in Tasks /\ versions[v].status = "draft"
                /\ versions' = [versions EXCEPT ![v].status = s]
TableStep ==
    \/ versions' = versions
    \/ \E new \in Row : Grows(new)
    \/ \E v \in DOMAIN versions, s \in {"approved", "rejected"} : Judges(v, s)

KeptRow(v) ==
    /\ versions'[v].of = versions[v].of /\ versions'[v].number = versions[v].number
    /\ versions'[v].type = versions[v].type /\ versions'[v].from = versions[v].from
    /\ versions'[v].active = versions[v].active /\ versions'[v].supplier = versions[v].supplier
    /\ versions'[v].status # versions[v].status =>
          versions[v].status = "draft" /\ versions[v].of \in Tasks
Kept == /\ DOMAIN versions \subseteq DOMAIN versions' /\ Len(versions) =< Len(versions')
        /\ \A v \in DOMAIN versions : KeptRow(v)

LEMMA TableTyped ==
    ASSUME TypeOK
    PROVE  /\ versions \in Seq(Row) /\ UniqueIn(versions)
           /\ \A v \in DOMAIN versions : v \in Nat \ {0} /\ v =< Len(versions) /\ versions[v] \in Row
           /\ Len(versions) \in Nat /\ DOMAIN versions = 1..Len(versions)
  BY DEF TypeOK, Row, UniqueIn

LEMMA NewestByDef ==
    ASSUME NEW d PROVE Newest(d) = NewestIn(versions, d) /\ Of(d) = OfIn(versions, d)
  BY DEF Newest, NewestIn, Of, OfIn

\* The number of the next version of an upload is larger than all it has.
LEMMA CreatedRow ==
    ASSUME TypeOK, Numbered, NEW q \in Requests, CreateVersion(q)
    PROVE  LET r   == request[q]
               new == [of |-> r.task, number |-> NextNumber(r.task), type |-> r.type,
                       body |-> r.body, status |-> "draft", from |-> r.version,
                       supplier |-> Null, active |-> TRUE]
           IN  /\ r \in ReviewRequest /\ new \in UploadRow /\ Grows(new)
               /\ OfIn(versions, r.task) = {} => new.number = 1
               /\ \A v \in DOMAIN versions : IsNewestIn(versions, v, r.task) =>
                     new.number = versions[v].number + 1
  <1>. DEFINE r   == request[q]
              new == [of |-> r.task, number |-> NextNumber(r.task), type |-> r.type,
                      body |-> r.body, status |-> "draft", from |-> r.version,
                      supplier |-> Null, active |-> TRUE]
  <1>1. r \in ReviewRequest
    BY DEF TypeOK, CreateVersion
  <1>2. r.task \in Tasks /\ r.type \in Types /\ r.body \in Bodies /\ r.version \in Nat
    BY <1>1 DEF ReviewRequest
  <1>3. CASE OfIn(versions, r.task) = {}
    <2>1. NextNumber(r.task) = 1
      BY <1>3, NewestByDef DEF NextNumber
    <2>2. \A v \in DOMAIN versions : ~IsNewestIn(versions, v, r.task)
      BY <1>3 DEF IsNewestIn
    <2>3. new \in UploadRow /\ new.number = 1 /\ new.of = r.task
      BY <1>2, <2>1 DEF UploadRow, Statuses
    <2>. QED  BY <1>1, <1>3, <2>2, <2>3 DEF Grows, CreateVersion
  <1>4. CASE OfIn(versions, r.task) # {}
    <2>. DEFINE n == NewestIn(versions, r.task)
    <2>1. IsNewestIn(versions, n, r.task) /\ \A v \in DOMAIN versions :
              IsNewestIn(versions, v, r.task) => v = n
      BY <1>2, <1>4, TableTyped, NewestIsTheLargest DEF Numbered
    <2>2. n \in DOMAIN versions /\ versions[n].number \in Nat
      BY <2>1, TableTyped, RowFields DEF IsNewestIn, OfIn
    <2>3. NextNumber(r.task) = versions[n].number + 1
      BY <1>4, NewestByDef DEF NextNumber
    <2>. HIDE DEF n
    <2>4. new \in UploadRow /\ new.number = versions[n].number + 1 /\ new.of = r.task
      BY <1>2, <2>2, <2>3 DEF UploadRow, Statuses
    <2>5. \A w \in OfIn(versions, r.task) : versions[w].number \in Nat
      BY TableTyped, RowFields DEF OfIn
    <2>6. \A w \in OfIn(versions, r.task) : versions[w].number < new.number
      BY <2>1, <2>2, <2>4, <2>5 DEF IsNewestIn
    <2>. QED  BY <1>1, <1>4, <2>1, <2>4, <2>6 DEF Grows, CreateVersion
  <1>. QED  BY <1>3, <1>4

LEMMA ImportedRow ==
    ASSUME TypeOK, NEW rec \in Records, NEW number \in 1..MaxNumber, NEW s \in Suppliers,
           NEW body \in Bodies \ Blocking, NEW active \in BOOLEAN,
           ImportVersion(rec, number, s, body, active)
    PROVE  LET new == [of |-> rec, number |-> number, type |-> "receive_note", body |-> body,
                       status |-> "approved", from |-> 0, supplier |-> s, active |-> active]
           IN  new \in UpstreamRow /\ Grows(new)
  <1>. DEFINE new == [of |-> rec, number |-> number, type |-> "receive_note", body |-> body,
                      status |-> "approved", from |-> 0, supplier |-> s, active |-> active]
  <1>1. new \in UpstreamRow /\ new.of = rec /\ new.number = number
    BY Documents DEF UpstreamRow
  <1>2. \A w \in OfIn(versions, rec) : versions[w].number < number
    <2>1. \A w \in OfIn(versions, rec) : number > versions[w].number /\ versions[w].number \in Nat
      BY TableTyped, RowFields, NewestByDef DEF ImportVersion, NewerThanKnown, OfIn
    <2>. QED  BY <2>1, Documents
  <1>. QED  BY <1>1, <1>2 DEF Grows, ImportVersion

LEMMA TableSteps ==
    ASSUME TypeOK, Numbered, RequestsPointAtRows, [Next]_vars
    PROVE  TableStep
  <1>1. CASE \E q \in Requests : CreateVersion(q)
    BY <1>1, CreatedRow DEF TableStep, Row
  <1>2. CASE \E rec \in Records, number \in 1..MaxNumber, s \in Suppliers,
                body \in Bodies \ Blocking, active \in BOOLEAN :
                ImportVersion(rec, number, s, body, active)
    BY <1>2, ImportedRow DEF TableStep, Row
  <1>3. CASE \E q \in Requests, v \in DOMAIN versions : Reject(q, v)
    BY <1>3 DEF Reject, Undecided, Judges, TableStep
  <1>4. CASE \E q \in Requests : WriteApproval(q)
    <2>1. PICK q \in Requests : WriteApproval(q)
      BY <1>4
    <2>. DEFINE v == request[q].version
    <2>2. request[q] \in ReviewRequest /\ v \in DOMAIN versions
          /\ versions[v].of \in Tasks /\ versions[v].status = "draft"
      BY <2>1 DEF WriteApproval, TypeOK, RequestsPointAtRows, RequestPoints, Undecided, ReviewRequest
    <2>. QED  BY <2>1, <2>2 DEF WriteApproval, Judges, TableStep
  <1>5. CASE UNCHANGED versions
    BY <1>5 DEF TableStep
  <1>. QED
    BY <1>1, <1>2, <1>3, <1>4, <1>5
    DEF Next, ReviewNext, StartReview, SaveEdit, Reclassify, Approve, AppendAction, Drop,
        CompareInvoice, CompareNote, SaveReconciliation, CompareDropped, vars, reviewVars

LEMMA TableStepsKeep ==
    ASSUME TypeOK, Numbered, TableStep
    PROVE  versions' \in Seq(Row) /\ UniqueIn(versions') /\ Numbered' /\ Kept
  <1>1. versions \in Seq(Row) /\ UniqueIn(versions) /\ NumberedIn(versions)
        /\ Len(versions) \in Nat
    BY TableTyped DEF Numbered
  <1>2. CASE versions' = versions
    BY <1>1, <1>2 DEF Numbered, Kept, KeptRow
  <1>3. CASE \E new \in Row : Grows(new)
    <2>1. PICK new \in Row : Grows(new)
      BY <1>3
    <2>2. /\ versions' \in Seq(Row) /\ UniqueIn(versions') /\ NumberedIn(versions')
          /\ Len(versions') = Len(versions) + 1
          /\ DOMAIN versions' = DOMAIN versions \cup {Len(versions) + 1}
          /\ \A v \in DOMAIN versions : versions'[v] = versions[v]
      <3>1. \A w \in OfIn(versions, new.of) : versions[w].number < new.number
        BY <2>1 DEF Grows
      <3>. QED  BY <1>1, <2>1, <3>1, RowAppended DEF Grows
    <2>. QED  BY <1>1, <2>2 DEF Numbered, Kept, KeptRow
  <1>4. CASE \E v \in DOMAIN versions, s \in {"approved", "rejected"} : Judges(v, s)
    <2>1. PICK x \in DOMAIN versions, s \in {"approved", "rejected"} : Judges(x, s)
      BY <1>4
    <2>2. /\ versions' \in Seq(Row) /\ UniqueIn(versions') /\ NumberedIn(versions')
          /\ Len(versions') = Len(versions) /\ DOMAIN versions' = DOMAIN versions
          /\ \A v \in DOMAIN versions :
                /\ v # x => versions'[v] = versions[v]
                /\ versions'[v].of = versions[v].of /\ versions'[v].number = versions[v].number
                /\ versions'[v].type = versions[v].type /\ versions'[v].from = versions[v].from
                /\ versions'[v].active = versions[v].active
                /\ versions'[v].supplier = versions[v].supplier
      <3>1. s \in Statuses /\ versions[x].of \in Tasks /\ versions' = Judged(versions, x, s)
        BY <2>1 DEF Judges, Judged, Statuses
      <3>. QED  BY <1>1, <3>1, RowDecided
    <2>. QED  BY <1>1, <2>1, <2>2 DEF Numbered, Kept, KeptRow, Judges
  <1>. QED  BY <1>2, <1>3, <1>4 DEF TableStep

LEMMA RowAdded ==
    ASSUME TypeOK, Numbered, NEW new \in Row, Grows(new)
    PROVE  /\ Kept /\ Len(versions') = Len(versions) + 1
           /\ Len(versions) + 1 \notin DOMAIN versions
           /\ DOMAIN versions' = DOMAIN versions \cup {Len(versions) + 1}
           /\ \A v \in DOMAIN versions : versions'[v] = versions[v]
           /\ versions'[Len(versions) + 1] = new
           /\ IsNewestIn(versions', Len(versions) + 1, new.of)
  <1>1. Kept
    BY TableStepsKeep DEF TableStep
  <1>2. /\ versions \in Seq(Row) /\ UniqueIn(versions) /\ NumberedIn(versions)
        /\ \A w \in OfIn(versions, new.of) : versions[w].number < new.number
        /\ versions' = Append(versions, new)
    BY TableTyped DEF Numbered, Grows
  <1>. QED  BY <1>1, <1>2, RowAppended

-----------------------------------------------------------------------------
(* Requests and the audit trail.                                           *)

(* A request begins with a check that held, or with a rejection.           *)
Checks(q, r) ==
    /\ request[q] = Null /\ Begin(q, r) /\ r \in ReviewRequest
    /\ r.stage = "checked" /\ r.action # "rejected" /\ StillAsChecked(r)
    /\ r.action = "approved" => r.version \in DOMAIN versions /\ versions[r.version].of = r.task
    /\ UNCHANGED <<versions, audit, unaudited>>
Rejects(q, r) ==
    /\ request[q] = Null /\ Begin(q, r) /\ r \in ReviewRequest
    /\ r.stage = "written" /\ r.action = "rejected"
    /\ r.version \in DOMAIN versions /\ versions[r.version].of = r.task
    /\ Judges(r.version, "rejected")
    /\ UNCHANGED <<audit, unaudited>>

LEMMA RequestsBegin ==
    ASSUME TypeOK, Numbered, NEW q \in Requests
    PROVE  /\ \A t \in Tasks : StartReview(q, t) => \E r \in ReviewRequest : Checks(q, r)
           /\ \A v \in DOMAIN versions :
                 /\ \A body \in Bodies : SaveEdit(q, v, body) => \E r \in ReviewRequest : Checks(q, r)
                 /\ \A type \in Types : Reclassify(q, v, type) => \E r \in ReviewRequest : Checks(q, r)
                 /\ Approve(q, v) => \E r \in ReviewRequest : Checks(q, r)
                 /\ Reject(q, v) => \E r \in ReviewRequest : Rejects(q, r)
  <1>1. ASSUME NEW t \in Tasks, StartReview(q, t) PROVE \E r \in ReviewRequest : Checks(q, r)
    <2>. DEFINE r == [stage |-> "checked", action |-> "review_started", task |-> t, version |-> 0,
                      type |-> MachineType[t], body |-> MachineBody[t]]
    <2>1. r \in ReviewRequest
      BY Documents DEF ReviewRequest, Types
    <2>2. r.stage = "checked" /\ r.action = "review_started" /\ r.version = 0 /\ r.task = t
      OBVIOUS
    <2>3. request[q] = Null /\ Begin(q, r) /\ UNCHANGED <<versions, audit, unaudited>>
          /\ OfIn(versions, t) = {}
      BY <1>1, NewestByDef DEF StartReview
    <2>. HIDE DEF r
    <2>. QED  BY <2>1, <2>2, <2>3 DEF Checks, StillAsChecked
  <1>2. ASSUME NEW v \in DOMAIN versions, versions[v].of \in Tasks, NEW action \in
                   {"document_edited", "document_reclassified", "approved", "rejected"},
               NEW type \in Types, NEW body \in Bodies
        PROVE  LET r == Reviewed(v, action, type, body)
               IN  /\ r \in ReviewRequest /\ r.stage = "checked" /\ r.action = action /\ r.version = v
                   /\ r.task = versions[v].of
    <2>. DEFINE r == Reviewed(v, action, type, body)
    <2>1. v \in Nat
      BY TableTyped
    <2>2. r \in ReviewRequest /\ r.stage = "checked" /\ r.action = action /\ r.version = v
          /\ r.task = versions[v].of
      BY <1>2, <2>1 DEF Reviewed, ReviewRequest
    <2>. QED  BY <2>2
  <1>3. ASSUME NEW v \in DOMAIN versions
        PROVE  /\ versions[v].type \in Types /\ versions[v].body \in Bodies /\ v # 0
               /\ versions[v].of \in Tasks /\ EditableLatest(v) =>
                     IsNewestIn(versions, v, versions[v].of) /\ versions[v].status = "draft"
    <2>1. versions[v] \in Row /\ v # 0 /\ versions \in Seq(Row) /\ UniqueIn(versions)
      BY TableTyped
    <2>2. versions[v].of \in Tasks \cup Records /\ OfIn(versions, versions[v].of) # {}
      BY <2>1, RowFields DEF OfIn
    <2>3. IsNewestIn(versions, NewestIn(versions, versions[v].of), versions[v].of)
      BY <2>1, <2>2, NewestIsTheLargest DEF Numbered
    <2>. QED  BY <2>1, <2>3, RowFields, NewestByDef DEF EditableLatest, Undecided
  <1>4. ASSUME NEW v \in DOMAIN versions, versions[v].of \in Tasks, EditableLatest(v),
               NEW action \in {"document_edited", "document_reclassified", "approved"},
               NEW type \in Types, NEW body \in Bodies,
               request[q] = Null, Begin(q, Reviewed(v, action, type, body)),
               UNCHANGED <<versions, audit, unaudited>>
        PROVE  \E r \in ReviewRequest : Checks(q, r)
    <2>. DEFINE r == Reviewed(v, action, type, body)
    <2>1. /\ r \in ReviewRequest /\ r.stage = "checked" /\ r.action = action /\ r.version = v
          /\ r.task = versions[v].of
      BY <1>2, <1>4
    <2>2. StillAsChecked(r)
      BY <1>3, <1>4, <2>1 DEF StillAsChecked
    <2>. QED  BY <1>4, <2>1, <2>2 DEF Checks
  <1>5. ASSUME NEW v \in DOMAIN versions, Reject(q, v) PROVE \E r \in ReviewRequest : Rejects(q, r)
    <2>. DEFINE r0 == Reviewed(v, "rejected", versions[v].type, versions[v].body)
                r  == [r0 EXCEPT !.stage = "written"]
    <2>1. versions[v].of \in Tasks
      BY <1>5 DEF Reject
    <2>2. r0 \in ReviewRequest /\ r0.action = "rejected" /\ r0.version = v
          /\ r0.task = versions[v].of
      BY <1>2, <1>3, <2>1
    <2>. HIDE DEF r0
    <2>3. r \in ReviewRequest /\ r.stage = "written" /\ r.action = "rejected" /\ r.version = v
          /\ r.task = versions[v].of
      BY <2>2 DEF ReviewRequest
    <2>4. request[q] = Null /\ Begin(q, r) /\ Judges(v, "rejected") /\ UNCHANGED <<audit, unaudited>>
      BY <1>5 DEF Reject, Judges, Undecided, r0
    <2>. HIDE DEF r
    <2>. QED  BY <2>2, <2>3, <2>4 DEF Rejects
  <1>6. ASSUME NEW v \in DOMAIN versions, NEW body \in Bodies, SaveEdit(q, v, body)
        PROVE  \E r \in ReviewRequest : Checks(q, r)
    BY <1>3, <1>4, <1>6 DEF SaveEdit
  <1>7. ASSUME NEW v \in DOMAIN versions, NEW type \in Types, Reclassify(q, v, type)
        PROVE  \E r \in ReviewRequest : Checks(q, r)
    BY <1>3, <1>4, <1>7 DEF Reclassify
  <1>8. ASSUME NEW v \in DOMAIN versions, Approve(q, v) PROVE \E r \in ReviewRequest : Checks(q, r)
    BY <1>3, <1>4, <1>8 DEF Approve
  <1>. QED  BY <1>1, <1>5, <1>6, <1>7, <1>8

Imports == \E rec \in Records, number \in 1..MaxNumber, s \in Suppliers,
              body \in Bodies \ Blocking, active \in BOOLEAN :
              ImportVersion(rec, number, s, body, active)

\* The steps on versions and requests, as the proofs below take them.
LEMMA ReviewSteps ==
    ASSUME TypeOK, Numbered, ReviewNext
    PROVE  \/ \E q \in Requests : \/ \E r \in ReviewRequest : Checks(q, r) \/ Rejects(q, r)
                                  \/ CreateVersion(q) \/ WriteApproval(q)
                                  \/ AppendAction(q) \/ Drop(q)
           \/ Imports
  BY RequestsBegin DEF ReviewNext, Imports

RequestsTyped ==
    /\ audit \subseteq AuditRow
    /\ request \in [Requests -> ReviewRequest \cup {Null}]
    /\ unaudited \subseteq DOMAIN versions /\ alone \subseteq Tasks
Audited == RequestsTyped /\ RequestsPointAtRows /\ AuditPointsAtRows /\ AuditTellsTheDecision

\* A row that has not changed keeps its decision and its row of the trail.
LEMMA AuditedKept ==
    ASSUME TypeOK, Audited, Kept, NEW q \in Requests, UNCHANGED audit, alone' \subseteq alone,
           request' \in [Requests -> ReviewRequest \cup {Null}],
           \A p \in Requests \ {q} : request'[p] = request[p],
           request'[q] # Null => RequestPoints(request[q])',
           unaudited \subseteq unaudited', unaudited' \subseteq DOMAIN versions'
    PROVE  /\ RequestsTyped' /\ RequestsPointAtRows' /\ AuditPointsAtRows'
           /\ \A a \in audit' : a.action \in {"approved", "rejected"} =>
                 versions'[a.version].status = a.action
  <1>1. ASSUME NEW a \in audit'
        PROVE  /\ a.version \in DOMAIN versions'
               /\ a.action \in {"approved", "rejected"} => versions'[a.version].status = a.action
    BY <1>1 DEF Audited, AuditPointsAtRows, AuditTellsTheDecision, Kept, KeptRow
  <1>2. ASSUME NEW p \in Requests, request'[p] # Null PROVE RequestPoints(request[p])'
    <2>1. CASE p = q
      BY <1>2, <2>1 DEF RequestPoints
    <2>2. CASE p # q
      <3>1. request'[p] = request[p] /\ RequestPoints(request[p])
        BY <1>2, <2>2 DEF Audited, RequestsPointAtRows
      <3>. QED  BY <3>1 DEF RequestPoints, Kept, KeptRow
    <2>. QED  BY <2>1, <2>2
  <1>. QED  BY <1>1, <1>2 DEF Audited, RequestsTyped, RequestsPointAtRows, AuditPointsAtRows

AuditedBy(v) ==
    \/ [version |-> v, action |-> versions[v].status] \in audit
    \/ v \in unaudited
    \/ \E q \in Requests : request[q] # Null /\ request[q].stage = "written"
                           /\ request[q].version = v /\ request[q].action = versions[v].status

LEMMA AuditTellsInParts ==
    AuditTellsTheDecision <=>
        /\ \A a \in audit : a.action \in {"approved", "rejected"} => versions[a.version].status = a.action
        /\ \A v \in DOMAIN versions : Decided(v) => AuditedBy(v)
  BY DEF AuditTellsTheDecision, AuditedBy

LEMMA AuditedChecks ==
    ASSUME TypeOK, Audited, NEW q \in Requests, NEW r \in ReviewRequest, Checks(q, r)
    PROVE  Audited'
  <1>1. /\ request[q] = Null /\ request' = [request EXCEPT ![q] = r]
        /\ alone' \subseteq alone /\ UNCHANGED <<versions, audit, unaudited>>
    BY DEF Checks, Begin
  <1>2. Kept
    BY <1>1, TableTyped DEF Kept, KeptRow
  <1>3. /\ request' \in [Requests -> ReviewRequest \cup {Null}]
        /\ \A p \in Requests \ {q} : request'[p] = request[p]
        /\ request'[q] = r
    BY <1>1 DEF TypeOK
  <1>4. RequestPoints(request[q])'
    BY <1>1, <1>3 DEF Checks, RequestPoints
  <1>5. unaudited' \subseteq DOMAIN versions'
    BY <1>1 DEF TypeOK
  <1>6. \A v \in DOMAIN versions' : Decided(v)' => AuditedBy(v)'
    <2>. SUFFICES ASSUME NEW v \in DOMAIN versions, Decided(v) PROVE AuditedBy(v)'
      BY <1>1 DEF Decided
    <2>1. AuditedBy(v)
      BY AuditTellsInParts DEF Audited
    <2>. QED  BY <1>1, <1>3, <2>1 DEF AuditedBy
  <1>7. /\ RequestsTyped' /\ RequestsPointAtRows' /\ AuditPointsAtRows'
        /\ \A a \in audit' : a.action \in {"approved", "rejected"} =>
              versions'[a.version].status = a.action
    BY <1>1, <1>2, <1>3, <1>4, <1>5, AuditedKept
  <1>. QED  BY <1>6, <1>7 DEF Audited, AuditTellsTheDecision, AuditedBy

LEMMA AuditedRejects ==
    ASSUME TypeOK, Numbered, Audited, NEW q \in Requests, NEW r \in ReviewRequest, Rejects(q, r)
    PROVE  Audited'
  <1>. DEFINE x == r.version
  <1>1. /\ request[q] = Null /\ request' = [request EXCEPT ![q] = r]
        /\ alone' \subseteq alone /\ UNCHANGED <<audit, unaudited>>
        /\ r.stage = "written" /\ r.action = "rejected"
        /\ x \in DOMAIN versions /\ versions[x].of = r.task
        /\ versions[x].of \in Tasks /\ versions' = Judged(versions, x, "rejected")
    BY DEF Rejects, Begin, Judges, Judged
  <1>2. Kept
    BY TableStepsKeep DEF Rejects, TableStep
  <1>3. /\ DOMAIN versions' = DOMAIN versions /\ versions'[x].status = "rejected"
        /\ versions'[x].of = versions[x].of
        /\ \A v \in DOMAIN versions : v # x => versions'[v] = versions[v]
    BY <1>1, TableTyped, RowDecided DEF Numbered, Statuses
  <1>4. /\ request' \in [Requests -> ReviewRequest \cup {Null}]
        /\ \A p \in Requests \ {q} : request'[p] = request[p]
        /\ request'[q] = r
    BY <1>1 DEF TypeOK
  <1>5. RequestPoints(request[q])'
    BY <1>1, <1>3, <1>4 DEF RequestPoints
  <1>6. unaudited' \subseteq DOMAIN versions'
    BY <1>1, <1>3 DEF TypeOK
  <1>7. \A v \in DOMAIN versions' : Decided(v)' => AuditedBy(v)'
    <2>. SUFFICES ASSUME NEW v \in DOMAIN versions, Decided(v)' PROVE AuditedBy(v)'
      BY <1>3
    <2>1. CASE v = x
      <3>1. request'[q] # Null
        BY <1>4, NullIsNoRecord
      <3>. QED  BY <1>1, <1>3, <1>4, <2>1, <3>1 DEF AuditedBy
    <2>2. CASE v # x
      <3>1. Decided(v)
        BY <1>3, <2>2 DEF Decided
      <3>2. AuditedBy(v)
        BY <3>1, AuditTellsInParts DEF Audited
      <3>. QED  BY <1>1, <1>3, <1>4, <2>2, <3>2 DEF AuditedBy
    <2>. QED  BY <2>1, <2>2
  <1>8. /\ RequestsTyped' /\ RequestsPointAtRows' /\ AuditPointsAtRows'
        /\ \A a \in audit' : a.action \in {"approved", "rejected"} =>
              versions'[a.version].status = a.action
    BY <1>1, <1>2, <1>4, <1>5, <1>6, AuditedKept
  <1>. QED  BY <1>7, <1>8 DEF Audited, AuditTellsTheDecision, AuditedBy

LEMMA AuditedApproves ==
    ASSUME TypeOK, Numbered, Audited, NEW q \in Requests, WriteApproval(q)
    PROVE  Audited'
  <1>. DEFINE r == request[q]
              x == r.version
              u == [r EXCEPT !.stage = "written"]
  <1>1. /\ r \in ReviewRequest /\ r # Null /\ r.action = "approved"
        /\ x \in DOMAIN versions /\ versions[x].of = r.task /\ versions[x].status = "draft"
    BY DEF TypeOK, WriteApproval, Audited, RequestsPointAtRows, RequestPoints, Undecided
  <1>2. /\ versions[x].of \in Tasks /\ versions' = Judged(versions, x, "approved")
        /\ Judges(x, "approved") /\ request' = [request EXCEPT ![q] = u]
        /\ UNCHANGED <<audit, unaudited, alone>>
    BY <1>1 DEF ReviewRequest, WriteApproval, Judged, Judges, TypeOK
  <1>3. Kept
    BY <1>1, <1>2, TableStepsKeep DEF TableStep
  <1>4. /\ DOMAIN versions' = DOMAIN versions /\ versions'[x].status = "approved"
        /\ versions'[x].of = versions[x].of
        /\ \A v \in DOMAIN versions : v # x => versions'[v] = versions[v]
    BY <1>1, <1>2, TableTyped, RowDecided DEF Numbered, Statuses
  <1>5. /\ u \in ReviewRequest /\ u.stage = "written" /\ u.action = "approved"
        /\ u.version = x /\ u.task = r.task
    BY <1>1 DEF ReviewRequest
  <1>. HIDE DEF u
  <1>6. /\ request' \in [Requests -> ReviewRequest \cup {Null}]
        /\ \A p \in Requests \ {q} : request'[p] = request[p]
        /\ request'[q] = u /\ u # Null
    BY <1>2, <1>5, NullIsNoRecord DEF TypeOK
  <1>7. RequestPoints(request[q])'
    BY <1>1, <1>4, <1>5, <1>6 DEF RequestPoints
  <1>8. unaudited' \subseteq DOMAIN versions'
    BY <1>2, <1>4 DEF TypeOK
  <1>9. \A v \in DOMAIN versions' : Decided(v)' => AuditedBy(v)'
    <2>. SUFFICES ASSUME NEW v \in DOMAIN versions, Decided(v)' PROVE AuditedBy(v)'
      BY <1>4
    <2>1. CASE v = x
      BY <1>4, <1>5, <1>6, <2>1 DEF AuditedBy
    <2>2. CASE v # x
      <3>1. Decided(v)
        BY <1>4, <2>2 DEF Decided
      <3>2. AuditedBy(v)
        BY <3>1, AuditTellsInParts DEF Audited
      <3>3. r.stage = "checked"
        BY DEF WriteApproval
      <3>. QED  BY <1>2, <1>4, <1>6, <2>2, <3>2, <3>3 DEF AuditedBy
    <2>. QED  BY <2>1, <2>2
  <1>10. /\ RequestsTyped' /\ RequestsPointAtRows' /\ AuditPointsAtRows'
         /\ \A a \in audit' : a.action \in {"approved", "rejected"} =>
               versions'[a.version].status = a.action
    BY <1>2, <1>3, <1>6, <1>7, <1>8, AuditedKept
  <1>. QED  BY <1>9, <1>10 DEF Audited, AuditTellsTheDecision, AuditedBy

LEMMA AuditedCreates ==
    ASSUME TypeOK, Numbered, Audited, NEW q \in Requests, CreateVersion(q)
    PROVE  Audited'
  <1>. DEFINE r == request[q]
              n == Len(versions) + 1
              u == [r EXCEPT !.stage = "written", !.version = n]
  <1>1. PICK new \in UploadRow : Grows(new) /\ new.of = r.task /\ new.status = "draft"
    BY CreatedRow
  <1>2. new \in Row
    BY DEF Row
  <1>3. /\ DOMAIN versions' = DOMAIN versions \cup {n} /\ n \notin DOMAIN versions
        /\ versions'[n] = new /\ n \in Nat
        /\ \A v \in DOMAIN versions : versions'[v] = versions[v]
    <2>1. n \in Nat
      BY TableTyped
    <2>. QED  BY <1>1, <1>2, <2>1, RowAdded
  <1>4. Kept
    BY <1>1, <1>2, RowAdded
  <1>5. /\ r \in ReviewRequest /\ r.stage = "checked" /\ r.action # "approved"
        /\ r.action # "rejected"
        /\ request' = [request EXCEPT ![q] = u] /\ UNCHANGED <<audit, unaudited, alone>>
    BY DEF CreateVersion, TypeOK, Audited, RequestsPointAtRows, RequestPoints
  <1>6. /\ u \in ReviewRequest /\ u.stage = "written" /\ u.action = r.action
        /\ u.version = n /\ u.task = r.task
    BY <1>3, <1>5 DEF ReviewRequest
  <1>. HIDE DEF u, n
  <1>7. /\ request' \in [Requests -> ReviewRequest \cup {Null}]
        /\ \A p \in Requests \ {q} : request'[p] = request[p]
        /\ request'[q] = u
    BY <1>5, <1>6 DEF TypeOK
  <1>8. RequestPoints(request[q])'
    BY <1>1, <1>3, <1>5, <1>6, <1>7 DEF RequestPoints
  <1>9. unaudited' \subseteq DOMAIN versions'
    BY <1>3, <1>5 DEF TypeOK
  <1>10. \A v \in DOMAIN versions' : Decided(v)' => AuditedBy(v)'
    <2>. SUFFICES ASSUME NEW v \in DOMAIN versions', Decided(v)' PROVE AuditedBy(v)'
      OBVIOUS
    <2>1. v # n
      BY <1>1, <1>3 DEF Decided
    <2>2. v \in DOMAIN versions /\ Decided(v)
      BY <1>3, <2>1 DEF Decided
    <2>3. AuditedBy(v)
      BY <2>2, AuditTellsInParts DEF Audited
    <2>. QED  BY <1>3, <1>5, <1>7, <2>2, <2>3 DEF AuditedBy
  <1>11. /\ RequestsTyped' /\ RequestsPointAtRows' /\ AuditPointsAtRows'
         /\ \A a \in audit' : a.action \in {"approved", "rejected"} =>
               versions'[a.version].status = a.action
    BY <1>4, <1>5, <1>7, <1>8, <1>9, AuditedKept
  <1>. QED  BY <1>10, <1>11 DEF Audited, AuditTellsTheDecision, AuditedBy

\* A request ends, with its row of the trail or with none.
LEMMA AuditedEnds ==
    ASSUME TypeOK, Audited, NEW q \in Requests, AppendAction(q) \/ Drop(q)
    PROVE  Audited'
  <1>. DEFINE r   == request[q]
              row == [version |-> r.version, action |-> r.action]
  <1>1. /\ r # Null /\ r \in ReviewRequest /\ request' = [request EXCEPT ![q] = Null]
        /\ UNCHANGED <<versions, alone>> /\ RequestPoints(r)
        /\ \/ r.stage = "written" /\ audit' = audit \cup {row} /\ unaudited' = unaudited
           \/ audit' = audit /\ r.stage = "written" /\ unaudited' = unaudited \cup {r.version}
           \/ audit' = audit /\ r.stage # "written" /\ unaudited' = unaudited
    BY DEF AppendAction, Drop, TypeOK, Audited, RequestsPointAtRows
  <1>2. row \in AuditRow /\ row.version = r.version /\ row.action = r.action
    BY <1>1 DEF ReviewRequest, AuditRow
  <1>3. r.stage = "written" => r.version \in DOMAIN versions
           /\ (r.action \in {"approved", "rejected"} => versions[r.version].status = r.action)
    BY <1>1 DEF RequestPoints
  <1>4. /\ request' \in [Requests -> ReviewRequest \cup {Null}]
        /\ \A p \in Requests \ {q} : request'[p] = request[p]
        /\ request'[q] = Null
    BY <1>1 DEF TypeOK
  <1>5. RequestsTyped'
    BY <1>1, <1>2, <1>3, <1>4 DEF RequestsTyped, TypeOK
  <1>6. RequestsPointAtRows'
    <2>. SUFFICES ASSUME NEW p \in Requests, request'[p] # Null PROVE RequestPoints(request[p])'
      BY DEF RequestsPointAtRows
    <2>1. request'[p] = request[p] /\ RequestPoints(request[p])
      BY <1>4 DEF Audited, RequestsPointAtRows
    <2>. QED  BY <1>1, <2>1 DEF RequestPoints
  <1>7. /\ AuditPointsAtRows'
        /\ \A a \in audit' : a.action \in {"approved", "rejected"} =>
              versions'[a.version].status = a.action
    BY <1>1, <1>2, <1>3 DEF Audited, AuditPointsAtRows, AuditTellsTheDecision
  <1>8. ASSUME NEW v \in DOMAIN versions, Decided(v) PROVE AuditedBy(v)'
    <2>1. AuditedBy(v)
      BY <1>8, AuditTellsInParts DEF Audited
    <2>. HIDE DEF row
    <2>2. CASE r.stage = "written" /\ r.version = v /\ r.action = versions[v].status
      BY <1>1, <2>2 DEF AuditedBy, row
    <2>3. CASE ~(r.stage = "written" /\ r.version = v /\ r.action = versions[v].status)
      BY <1>1, <1>4, <2>1, <2>3 DEF AuditedBy
    <2>. QED  BY <2>2, <2>3
  <1>9. \A v \in DOMAIN versions' : Decided(v)' => AuditedBy(v)'
    BY <1>1, <1>8 DEF Decided
  <1>. QED  BY <1>5, <1>6, <1>7, <1>9 DEF Audited, AuditTellsTheDecision, AuditedBy

\* A step that leaves the requests alone and adds at most a receiving note.
LEMMA AuditedElsewhere ==
    ASSUME TypeOK, Numbered, Audited, UNCHANGED <<audit, request, unaudited, alone>>,
           Imports \/ UNCHANGED versions
    PROVE  Audited'
  <1>1. /\ Kept
        /\ \A v \in DOMAIN versions' : v \in DOMAIN versions \/ versions'[v].of \in Records
        /\ \A v \in DOMAIN versions : versions'[v] = versions[v]
    <2>1. CASE UNCHANGED versions
      BY <2>1, TableTyped DEF Kept, KeptRow
    <2>2. CASE Imports
      <3>1. PICK new \in UpstreamRow : Grows(new)
        BY <2>2, ImportedRow DEF Imports
      <3>2. new \in Row /\ new.of \in Records
        BY DEF Row, UpstreamRow
      <3>3. /\ Kept
            /\ DOMAIN versions' = DOMAIN versions \cup {Len(versions) + 1}
            /\ \A v \in DOMAIN versions : versions'[v] = versions[v]
            /\ versions'[Len(versions) + 1] = new
        BY <3>1, <3>2, RowAdded
      <3>. QED  BY <3>2, <3>3
    <2>. QED  BY <2>1, <2>2
  <1>2. RequestsTyped'
    BY <1>1 DEF RequestsTyped, TypeOK, Kept
  <1>3. RequestsPointAtRows' /\ AuditPointsAtRows'
    BY <1>1 DEF Audited, RequestsPointAtRows, AuditPointsAtRows, RequestPoints, Kept
  <1>4. \A a \in audit' : a.action \in {"approved", "rejected"} =>
              versions'[a.version].status = a.action
    BY <1>1 DEF Audited, AuditPointsAtRows, AuditTellsTheDecision
  <1>5. \A v \in DOMAIN versions' : Decided(v)' => AuditedBy(v)'
    <2>. SUFFICES ASSUME NEW v \in DOMAIN versions', Decided(v)' PROVE AuditedBy(v)'
      OBVIOUS
    <2>1. v \in DOMAIN versions /\ Decided(v)
      BY <1>1, Documents DEF Decided
    <2>2. AuditedBy(v)
      BY <2>1, AuditTellsInParts DEF Audited
    <2>. QED  BY <1>1, <2>1, <2>2 DEF AuditedBy
  <1>. QED  BY <1>2, <1>3, <1>4, <1>5 DEF Audited, AuditTellsTheDecision, AuditedBy

-----------------------------------------------------------------------------
(* The histories of documents whose requests never overlapped.             *)

Same(t) == /\ OfIn(versions', t) = OfIn(versions, t)
           /\ \A v \in OfIn(versions, t) : versions'[v] = versions[v]

\* A step of one request leaves the requests on other documents as they are.
LEMMA AloneKept ==
    ASSUME AloneSeesAll, NEW q \in Requests, NEW task, alone' \subseteq alone,
           \A p \in Requests \ {q} : request'[p] = request[p],
           request'[q] # Null => request'[q].task = task,
           \A p \in Requests \ {q} : task \in alone' /\ request[p] # Null => request[p].task # task,
           request'[q] # Null /\ task \in alone' => StillAsChecked(request[q])',
           \A t \in alone' \ {task} : Same(t)
    PROVE  AloneSeesAll'
  <1>. SUFFICES ASSUME NEW p \in Requests, request'[p] # Null, request'[p].task \in alone'
                PROVE  /\ StillAsChecked(request[p])'
                       /\ \A o \in Requests : request'[o] # Null
                              /\ request'[o].task = request'[p].task => o = p
    BY DEF AloneSeesAll
  <1>1. CASE p = q
    BY <1>1 DEF StillAsChecked
  <1>2. CASE p # q
    <2>1. request'[p] = request[p] /\ request[p].task # task /\ Same(request[p].task)
          /\ request[p].task \in alone
      BY <1>2
    <2>2. StillAsChecked(request[p])
          /\ \A o \in Requests : request[o] # Null /\ request[o].task = request[p].task => o = p
      BY <2>1 DEF AloneSeesAll
    <2>3. StillAsChecked(request[p])'
      BY <2>1, <2>2 DEF StillAsChecked, Same, IsNewestIn
    <2>. QED  BY <2>1, <2>2, <2>3
  <1>. QED  BY <1>1, <1>2

LEMMA LinesKept ==
    ASSUME TypeOK, Lines, Kept, NEW task, alone' \subseteq alone,
           \A t \in alone' \ {task} : Same(t),
           \A v \in OfIn(versions', task) : task \in alone' =>
                /\ FollowsItsSource(v)'
                /\ versions'[v].status = "approved" => IsNewestIn(versions', v, task)
    PROVE  Lines'
  <1>. SUFFICES ASSUME NEW v \in DOMAIN versions', versions'[v].of \in alone'
                PROVE  /\ FollowsItsSource(v)'
                       /\ versions'[v].status = "approved" => IsNewestIn(versions', v, versions'[v].of)
    BY DEF Lines
  <1>1. CASE versions'[v].of = task
    BY <1>1 DEF OfIn
  <1>2. CASE versions'[v].of # task
    <2>. DEFINE t == versions'[v].of
    <2>1. Same(t) /\ v \in OfIn(versions', t)
      BY <1>2 DEF OfIn
    <2>2. v \in DOMAIN versions /\ versions'[v] = versions[v] /\ versions[v].of \in alone
      BY <2>1 DEF Same, OfIn
    <2>3. FollowsItsSource(v) /\ (versions[v].status = "approved" => IsNewestIn(versions, v, t))
      BY <2>2 DEF Lines
    <2>4. FollowsItsSource(v)'
      BY <2>2, <2>3 DEF FollowsItsSource, Kept, KeptRow
    <2>5. IsNewestIn(versions, v, t) => IsNewestIn(versions', v, t)
      BY <2>1 DEF IsNewestIn, Same
    <2>. QED  BY <2>2, <2>3, <2>4, <2>5
  <1>. QED  BY <1>1, <1>2

\* A decision moves no row and changes no number.
LEMMA DecisionMovesNothing ==
    ASSUME Kept, DOMAIN versions' = DOMAIN versions
    PROVE  /\ \A v, d : IsNewestIn(versions', v, d) <=> IsNewestIn(versions, v, d)
           /\ \A v \in DOMAIN versions : FollowsItsSource(v) => FollowsItsSource(v)'
  <1>1. \A d : OfIn(versions', d) = OfIn(versions, d)
    BY DEF Kept, KeptRow, OfIn
  <1>2. \A d : \A w \in OfIn(versions, d) : w \in DOMAIN versions
    BY DEF OfIn
  <1>3. \A v, d : IsNewestIn(versions', v, d) <=> IsNewestIn(versions, v, d)
    BY <1>1, <1>2 DEF Kept, KeptRow, IsNewestIn
  <1>. QED  BY <1>3 DEF FollowsItsSource, Kept, KeptRow

LEMMA UnchangedIsSame ==
    ASSUME TypeOK, UNCHANGED versions PROVE Kept /\ \A t : Same(t)
  BY TableTyped DEF Kept, KeptRow, Same

\* Requests that touch no row: a check, an end, or none.
LEMMA LinearUntouched ==
    ASSUME TypeOK, AloneSeesAll, Lines, UNCHANGED versions, NEW q \in Requests,
           \/ \E r \in ReviewRequest : Checks(q, r)
           \/ AppendAction(q) \/ Drop(q) \/ UNCHANGED <<request, alone>>
    PROVE  AloneSeesAll' /\ Lines'
  <1>1. Kept /\ \A t : Same(t)
    BY UnchangedIsSame
  <1>2. alone' \subseteq alone
    BY DEF Checks, Begin, AppendAction, Drop
  <1>3. Lines'
    <2>1. \A v \in OfIn(versions', 0) : 0 \in alone' =>
                /\ FollowsItsSource(v)'
                /\ versions'[v].status = "approved" => IsNewestIn(versions', v, 0)
      BY <1>2 DEF Lines, FollowsItsSource, OfIn
    <2>. QED  BY <1>1, <1>2, <2>1, LinesKept
  <1>4. ASSUME NEW r \in ReviewRequest, Checks(q, r) PROVE AloneSeesAll'
    <2>1. /\ \A p \in Requests \ {q} : request'[p] = request[p]
          /\ request'[q] = r
      BY <1>4 DEF Checks, Begin, TypeOK
    <2>2. \A p \in Requests \ {q} : r.task \in alone' /\ request[p] # Null => request[p].task # r.task
      BY <1>4 DEF Checks, Begin, Busy
    <2>3. StillAsChecked(request[q])'
      BY <1>4, <2>1 DEF Checks, StillAsChecked
    <2>. QED  BY <1>1, <1>2, <2>1, <2>2, <2>3, AloneKept
  <1>5. ASSUME AppendAction(q) \/ Drop(q) PROVE AloneSeesAll'
    <2>1. /\ \A p \in Requests \ {q} : request'[p] = request[p]
          /\ request'[q] = Null /\ request[q] # Null /\ alone' = alone
      BY <1>5 DEF AppendAction, Drop, TypeOK
    <2>2. \A p \in Requests \ {q} : request[q].task \in alone' /\ request[p] # Null =>
              request[p].task # request[q].task
      BY <2>1 DEF AloneSeesAll
    <2>. QED  BY <1>1, <1>2, <2>1, <2>2, AloneKept
  <1>6. ASSUME UNCHANGED <<request, alone>> PROVE AloneSeesAll'
    BY <1>6 DEF AloneSeesAll, StillAsChecked
  <1>. QED  BY <1>3, <1>4, <1>5, <1>6

LEMMA LinearImports ==
    ASSUME TypeOK, Numbered, AloneSeesAll, Lines, Imports, UNCHANGED <<request, alone>>
    PROVE  AloneSeesAll' /\ Lines'
  <1>1. PICK new \in UpstreamRow : Grows(new)
    BY ImportedRow DEF Imports
  <1>2. new \in Row /\ new.of \in Records
    BY DEF Row, UpstreamRow
  <1>3. /\ Kept /\ DOMAIN versions' = DOMAIN versions \cup {Len(versions) + 1}
        /\ Len(versions) + 1 \notin DOMAIN versions
        /\ versions'[Len(versions) + 1] = new
        /\ \A v \in DOMAIN versions : versions'[v] = versions[v]
    BY <1>1, <1>2, RowAdded
  <1>4. \A t \in Tasks : Same(t)
    BY <1>2, <1>3, Documents DEF Same, OfIn
  <1>5. alone \subseteq Tasks
    BY DEF TypeOK
  <1>6. AloneSeesAll'
    <2>. SUFFICES ASSUME NEW p \in Requests, request[p] # Null, request[p].task \in alone
                  PROVE  StillAsChecked(request[p])'
      BY DEF AloneSeesAll
    <2>1. StillAsChecked(request[p]) /\ Same(request[p].task)
      BY <1>4, <1>5 DEF AloneSeesAll
    <2>. QED  BY <2>1 DEF StillAsChecked, Same, IsNewestIn
  <1>7. Lines'
    BY <1>2, <1>3, <1>4, <1>5, LinesKept, Documents DEF OfIn
  <1>. QED  BY <1>6, <1>7

\* A decision on a row of a document: the newest draft, if it is an approval.
LEMMA LinearDecides ==
    ASSUME TypeOK, Numbered, Lines, NEW x \in DOMAIN versions, NEW s \in {"approved", "rejected"},
           Judges(x, s), alone' \subseteq alone,
           s = "approved" /\ versions[x].of \in alone' => IsNewestIn(versions, x, versions[x].of)
    PROVE  Lines' /\ Kept /\ \A t \in Tasks \ {versions[x].of} : Same(t)
  <1>. DEFINE task == versions[x].of
  <1>1. Kept
    BY TableStepsKeep DEF TableStep
  <1>2. versions[x].of \in Tasks /\ versions' = Judged(versions, x, s)
    BY DEF Judges, Judged
  <1>3. /\ DOMAIN versions' = DOMAIN versions /\ versions'[x].status = s
        /\ versions'[x].of = task
        /\ \A v \in DOMAIN versions : v # x => versions'[v] = versions[v]
    BY <1>2, TableTyped, RowDecided DEF Numbered, Statuses
  <1>4. \A t \in Tasks \ {task} : Same(t)
    BY <1>1, <1>3 DEF Same, OfIn, Kept, KeptRow
  <1>5. ASSUME NEW v \in OfIn(versions', task), task \in alone'
        PROVE  /\ FollowsItsSource(v)'
               /\ versions'[v].status = "approved" => IsNewestIn(versions', v, task)
    <2>1. v \in DOMAIN versions /\ versions[v].of = task /\ task \in alone
      BY <1>1, <1>3, <1>5 DEF OfIn, Kept, KeptRow
    <2>2. FollowsItsSource(v) /\ (versions[v].status = "approved" => IsNewestIn(versions, v, task))
      BY <2>1 DEF Lines
    <2>3. versions'[v].status = "approved" => IsNewestIn(versions, v, task)
      BY <1>3, <1>5, <2>1, <2>2
    <2>. QED  BY <1>1, <1>3, <2>1, <2>2, <2>3, DecisionMovesNothing
  <1>6. alone' \subseteq Tasks
    BY DEF TypeOK
  <1>7. Lines'
    BY <1>1, <1>4, <1>5, <1>6, LinesKept
  <1>. QED  BY <1>1, <1>4, <1>7

LEMMA LinearRejects ==
    ASSUME TypeOK, Numbered, AloneSeesAll, Lines,
           NEW q \in Requests, NEW r \in ReviewRequest, Rejects(q, r)
    PROVE  AloneSeesAll' /\ Lines'
  <1>1. /\ \A p \in Requests \ {q} : request'[p] = request[p]
        /\ request'[q] = r /\ r.stage = "written" /\ alone' \subseteq alone
        /\ r.version \in DOMAIN versions /\ versions[r.version].of = r.task
        /\ Judges(r.version, "rejected")
    BY DEF Rejects, Begin, TypeOK
  <1>2. \A p \in Requests \ {q} : r.task \in alone' /\ request[p] # Null => request[p].task # r.task
    BY DEF Rejects, Begin, Busy
  <1>3. Lines' /\ \A t \in Tasks \ {r.task} : Same(t)
    BY <1>1, LinearDecides
  <1>4. StillAsChecked(request[q])'
    BY <1>1 DEF StillAsChecked
  <1>5. alone' \subseteq Tasks
    BY <1>1 DEF TypeOK
  <1>. QED  BY <1>1, <1>2, <1>3, <1>4, <1>5, AloneKept

\* A request that has the document to itself: no other one is on its task.
LEMMA NobodyElse ==
    ASSUME AloneSeesAll, NEW q \in Requests, request[q] # Null
    PROVE  \A p \in Requests \ {q} : request[q].task \in alone /\ request[p] # Null =>
               request[p].task # request[q].task
  BY DEF AloneSeesAll

LEMMA LinearApproves ==
    ASSUME TypeOK, Numbered, RequestsPointAtRows, AloneSeesAll, Lines,
           NEW q \in Requests, WriteApproval(q)
    PROVE  AloneSeesAll' /\ Lines'
  <1>. DEFINE r == request[q]
              x == r.version
              u == [r EXCEPT !.stage = "written"]
  <1>1. /\ r \in ReviewRequest /\ r # Null /\ r.stage = "checked" /\ r.action = "approved"
        /\ x \in DOMAIN versions /\ versions[x].of = r.task /\ versions[x].status = "draft"
        /\ alone' = alone
    BY DEF TypeOK, WriteApproval, RequestsPointAtRows, RequestPoints, Undecided
  <1>2. Judges(x, "approved") /\ request' = [request EXCEPT ![q] = u]
    BY <1>1 DEF ReviewRequest, WriteApproval, Judges, TypeOK
  <1>3. u \in ReviewRequest /\ u.stage = "written" /\ u.task = r.task
    BY <1>1 DEF ReviewRequest
  <1>. HIDE DEF u
  <1>4. /\ \A p \in Requests \ {q} : request'[p] = request[p]
        /\ request'[q] = u
    BY <1>2 DEF TypeOK
  <1>5. r.task \in alone => IsNewestIn(versions, x, r.task)
    BY <1>1 DEF AloneSeesAll, StillAsChecked, OfIn
  <1>6. Lines' /\ \A t \in Tasks \ {r.task} : Same(t)
    BY <1>1, <1>2, <1>5, LinearDecides
  <1>7. StillAsChecked(request[q])'
    BY <1>3, <1>4 DEF StillAsChecked
  <1>8. alone' \subseteq Tasks
    BY <1>1 DEF TypeOK
  <1>. QED  BY <1>1, <1>3, <1>4, <1>6, <1>7, <1>8, AloneKept, NobodyElse

(* The new row follows the one that was checked, which is still the newest *)
(* and still a draft: so no row of the document was approved before it.    *)
LEMMA LinearCreates ==
    ASSUME TypeOK, Numbered, AloneSeesAll, Lines, NEW q \in Requests, CreateVersion(q)
    PROVE  AloneSeesAll' /\ Lines'
  <1>. DEFINE r == request[q]
              n == Len(versions) + 1
              u == [r EXCEPT !.stage = "written", !.version = n]
  <1>1. PICK new \in UploadRow :
           /\ Grows(new) /\ new.of = r.task /\ new.status = "draft" /\ new.from = r.version
           /\ OfIn(versions, r.task) = {} => new.number = 1
           /\ \A v \in DOMAIN versions : IsNewestIn(versions, v, r.task) =>
                 new.number = versions[v].number + 1
    BY CreatedRow
  <1>2. new \in Row
    BY DEF Row
  <1>3. /\ Kept /\ DOMAIN versions' = DOMAIN versions \cup {n} /\ n \notin DOMAIN versions
        /\ versions'[n] = new
        /\ \A v \in DOMAIN versions : versions'[v] = versions[v]
    BY <1>1, <1>2, RowAdded
  <1>4. /\ r \in ReviewRequest /\ r # Null /\ r.stage = "checked"
        /\ request' = [request EXCEPT ![q] = u] /\ alone' = alone
    BY DEF CreateVersion, TypeOK
  <1>5. u \in ReviewRequest /\ u.stage = "written" /\ u.task = r.task
    <2>1. n \in Nat
      BY TableTyped
    <2>. QED  BY <1>4, <2>1 DEF ReviewRequest
  <1>. HIDE DEF u, n
  <1>6. /\ \A p \in Requests \ {q} : request'[p] = request[p]
        /\ request'[q] = u
    BY <1>4 DEF TypeOK
  <1>7. \A t \in Tasks \ {r.task} : Same(t)
    BY <1>1, <1>3 DEF Same, OfIn
  <1>8. ASSUME NEW v \in OfIn(versions', r.task), r.task \in alone'
        PROVE  /\ FollowsItsSource(v)'
               /\ versions'[v].status = "approved" => IsNewestIn(versions', v, r.task)
    <2>1. \/ r.version = 0 /\ OfIn(versions, r.task) = {}
          \/ r.version # 0 /\ IsNewestIn(versions, r.version, r.task)
             /\ versions[r.version].status = "draft"
      BY <1>4, <1>8 DEF AloneSeesAll, StillAsChecked
    <2>2. CASE v = n
      <3>1. CASE r.version = 0 /\ OfIn(versions, r.task) = {}
        BY <1>1, <1>3, <2>2, <3>1 DEF FollowsItsSource
      <3>2. CASE r.version # 0 /\ IsNewestIn(versions, r.version, r.task)
        <4>1. r.version \in DOMAIN versions /\ versions[r.version].of = r.task
          BY <3>2 DEF IsNewestIn, OfIn
        <4>2. versions[r.version].number \in Nat \ {0}
              /\ new.number = versions[r.version].number + 1
          BY <1>1, <3>2, <4>1, TableTyped, RowFields
        <4>. QED  BY <1>1, <1>3, <2>2, <3>2, <4>1, <4>2 DEF FollowsItsSource
      <3>. QED  BY <2>1, <3>1, <3>2
    <2>3. CASE v # n
      <3>1. v \in DOMAIN versions /\ versions'[v] = versions[v] /\ versions[v].of = r.task
        BY <1>3, <1>8, <2>3 DEF OfIn
      <3>2. FollowsItsSource(v) /\ (versions[v].status = "approved" => IsNewestIn(versions, v, r.task))
        BY <1>4, <1>8, <3>1 DEF Lines
      <3>3. FollowsItsSource(v)'
        BY <1>3, <3>1, <3>2 DEF FollowsItsSource
      <3>4. r.version # 0 /\ IsNewestIn(versions, r.version, r.task) /\ r.version \in DOMAIN versions
            /\ versions[r.version].status = "draft"
        BY <2>1, <3>1 DEF OfIn, IsNewestIn
      <3>5. IsNewestIn(versions, v, r.task) => v = r.version
        BY <1>4, <3>1, <3>4, TableTyped, NewestIsTheLargest DEF Numbered, ReviewRequest
      <3>. QED  BY <3>1, <3>2, <3>3, <3>4, <3>5
    <2>. QED  BY <2>2, <2>3
  <1>9. Lines'
    BY <1>3, <1>4, <1>7, <1>8, LinesKept DEF TypeOK
  <1>10. StillAsChecked(request[q])'
    BY <1>5, <1>6 DEF StillAsChecked
  <1>11. \A p \in Requests \ {q} : r.task \in alone' /\ request[p] # Null =>
             request[p].task # r.task
    BY <1>4, NobodyElse
  <1>12. alone' \subseteq alone /\ \A t \in alone' \ {r.task} : Same(t)
    BY <1>4, <1>7 DEF TypeOK
  <1>13. AloneSeesAll'
    BY <1>5, <1>6, <1>10, <1>11, <1>12, AloneKept
  <1>. QED  BY <1>9, <1>13

-----------------------------------------------------------------------------
(* Receiving records.                                                      *)

LEMMA ReceivingNext ==
    ASSUME TypeOK, Numbered, RequestsPointAtRows, ReceivingOnlyMovesOn, [Next]_vars
    PROVE  ReceivingOnlyMovesOn'
  <1>1. TableStep /\ Kept
    BY TableSteps, TableStepsKeep
  <1>2. CASE DOMAIN versions' = DOMAIN versions
    BY <1>1, <1>2 DEF Kept, KeptRow, ReceivingOnlyMovesOn
  <1>3. CASE Imports
    <2>1. PICK rec \in Records, number \in 1..MaxNumber, s \in Suppliers,
               body \in Bodies \ Blocking, active \in BOOLEAN :
               ImportVersion(rec, number, s, body, active)
      BY <1>3 DEF Imports
    <2>. DEFINE new == [of |-> rec, number |-> number, type |-> "receive_note", body |-> body,
                        status |-> "approved", from |-> 0, supplier |-> s, active |-> active]
                n   == Len(versions) + 1
    <2>2. new \in UpstreamRow /\ Grows(new) /\ new.of = rec /\ new.number = number /\ new.supplier = s
      BY <2>1, ImportedRow
    <2>. HIDE DEF new
    <2>3. /\ DOMAIN versions' = DOMAIN versions \cup {n} /\ versions'[n] = new
          /\ \A v \in DOMAIN versions : versions'[v] = versions[v]
      <3>1. new \in Row
        BY <2>2 DEF Row
      <3>. QED  BY <2>2, <3>1, RowAdded
    <2>9. n \in Nat /\ \A v \in DOMAIN versions : v \in Nat /\ v < n
      BY TableTyped
    <2>4. ASSUME NEW v \in DOMAIN versions, versions[v].of = rec
          PROVE  versions[v].number < number /\ versions[v].supplier = s
      <3>1. OfIn(versions, rec) # {} /\ v \in OfIn(versions, rec)
        BY <2>4 DEF OfIn
      <3>2. IsNewestIn(versions, Newest(rec), rec)
        BY <3>1, NewestByDef, TableTyped, NewestIsTheLargest DEF Numbered
      <3>3. Newest(rec) \in DOMAIN versions /\ versions[Newest(rec)].of = rec
        BY <3>2 DEF IsNewestIn, OfIn
      <3>4. versions[Newest(rec)].supplier = s
        BY <2>1, <3>1, NewestByDef DEF ImportVersion, SameSupplier
      <3>5. v = Newest(rec) \/ v < Newest(rec) \/ Newest(rec) < v
        BY <3>3, TableTyped
      <3>6. versions[v].supplier = versions[Newest(rec)].supplier
        BY <2>4, <3>3, <3>5 DEF ReceivingOnlyMovesOn
      <3>. QED  BY <2>2, <3>1, <3>4, <3>6 DEF Grows
    <2>. HIDE DEF n
    <2>5. SUFFICES ASSUME NEW v \in DOMAIN versions', NEW w \in DOMAIN versions',
                          versions'[v].of \in Records, versions'[w].of = versions'[v].of, v < w
                   PROVE  versions'[v].number < versions'[w].number
                          /\ versions'[v].supplier = versions'[w].supplier
      BY DEF ReceivingOnlyMovesOn
    <2>6. v # n /\ v \in DOMAIN versions /\ versions'[v] = versions[v]
      BY <2>3, <2>5, <2>9
    <2>7. CASE w = n
      BY <2>2, <2>3, <2>4, <2>5, <2>6, <2>7
    <2>8. CASE w # n
      BY <2>3, <2>5, <2>6, <2>8 DEF ReceivingOnlyMovesOn
    <2>. QED  BY <2>7, <2>8
  <1>4. CASE \E q \in Requests : CreateVersion(q)
    <2>1. PICK new \in UploadRow : Grows(new)
      BY <1>4, CreatedRow
    <2>2. new \in Row /\ new.of \notin Records
      BY Documents DEF Row, UploadRow
    <2>3. /\ DOMAIN versions' = DOMAIN versions \cup {Len(versions) + 1}
          /\ versions'[Len(versions) + 1] = new
          /\ \A v \in DOMAIN versions : versions'[v] = versions[v]
      BY <2>1, <2>2, RowAdded
    <2>. QED  BY <2>2, <2>3 DEF ReceivingOnlyMovesOn
  <1>5. \/ DOMAIN versions' = DOMAIN versions \/ Imports \/ \E q \in Requests : CreateVersion(q)
    BY TableTyped, RowDecided
    DEF Next, ReviewNext, Imports, StartReview, SaveEdit, Reclassify, Approve, AppendAction, Drop,
        CompareInvoice, CompareNote, SaveReconciliation, CompareDropped, vars, reviewVars,
        Reject, WriteApproval
  <1>. QED  BY <1>2, <1>3, <1>4, <1>5

(* The listing takes the first row of each record, the check its newest    *)
(* version: the same, since all rows of a record are approved.             *)
LEMMA ListingAgrees ==
    ASSUME TypeOK PROVE OfferedIsAccepted
  <1>1. \A v \in DOMAIN versions : versions[v].of \in Records =>
            \A w \in Of(versions[v].of) : w \in DOMAIN versions /\ versions[w].status = "approved"
    BY TableTyped, RowFields DEF Of
  <1>2. ASSUME NEW v \in DOMAIN versions, versions[v].of \in Records
        PROVE  First(v, {w \in DOMAIN versions : versions[w].status = "approved"}) <=> LatestUpstream(v)
    BY <1>1, <1>2 DEF First, LatestUpstream, Of
  <1>. QED  BY <1>2 DEF OfferedIsAccepted, ListedForReconciliation, Usable

-----------------------------------------------------------------------------
(* Reconciliations.                                                        *)

Compared == /\ comparing \in [Comparers -> Comparison \cup {Null}]
            /\ ComparisonsReadUsable /\ ReconciliationsPointAtRows /\ ReconciledWhileUsable

\* What was usable once stays so: the past of the table is never rewritten.
LEMMA WasUsableStays ==
    ASSUME TypeOK, Kept, NEW v \in DOMAIN versions, NEW k \in Nat, k =< Len(versions), WasUsable(v, k)
    PROVE  WasUsable(v, k)'
  <1>1. \A w \in (v + 1)..k : w \in DOMAIN versions
    BY TableTyped
  <1>. QED  BY <1>1 DEF WasUsable, Kept, KeptRow

LEMMA UsableIsNow ==
    ASSUME TypeOK, ReceivingOnlyMovesOn, NEW v \in DOMAIN versions, Usable(v)
    PROVE  WasUsable(v, Len(versions))
  <1>1. v =< Len(versions) /\ versions[v].status = "approved"
    BY TableTyped DEF Usable
  <1>2. ASSUME versions[v].of \in Records, NEW w \in (v + 1)..Len(versions),
               versions[w].of = versions[v].of
        PROVE  FALSE
    <2>1. w \in DOMAIN versions /\ v < w /\ versions[w].number \in Nat /\ versions[v].number \in Nat
      BY TableTyped, RowFields
    <2>2. versions[w].number =< versions[v].number
      BY <1>2, <2>1 DEF Usable, LatestUpstream, Of
    <2>3. versions[v].number < versions[w].number
      BY <1>2, <2>1 DEF ReceivingOnlyMovesOn
    <2>. QED  BY <2>1, <2>2, <2>3
  <1>. QED  BY <1>1, <1>2 DEF WasUsable, Usable

LEMMA ReadUsableStays ==
    ASSUME TypeOK, Kept, NEW c \in Comparison, ReadWhileUsable(c)
    PROVE  ReadWhileUsable(c)'
  <1>1. c.since \in Nat /\ c.since =< Len(versions) /\ Len(versions) \in Nat
        /\ Len(versions') \in Nat /\ Len(versions) =< Len(versions')
    BY TableTyped DEF Comparison, ReadWhileUsable, Kept
  <1>2. \A v \in c.wanted \cup c.read : v \in DOMAIN versions
    BY <1>1, TableTyped DEF ReadWhileUsable
  <1>3. WasUsable(c.invoice, c.since)'
    BY <1>1, WasUsableStays DEF ReadWhileUsable
  <1>4. ASSUME NEW v \in c.read PROVE \E k \in c.since..Len(versions') : WasUsable(v, k)'
    <2>1. PICK k \in c.since..Len(versions) : WasUsable(v, k)
      BY DEF ReadWhileUsable
    <2>2. WasUsable(v, k)'
      BY <1>1, <1>2, <2>1, WasUsableStays
    <2>. QED  BY <1>1, <2>2
  <1>. QED  BY <1>1, <1>2, <1>3, <1>4 DEF ReadWhileUsable, Kept, KeptRow

LEMMA ReconciledStays ==
    ASSUME TypeOK, Kept, alone' \subseteq alone, ReconciliationsPointAtRows, ReconciledWhileUsable,
           UNCHANGED reconciliations
    PROVE  ReconciliationsPointAtRows' /\ ReconciledWhileUsable'
  <1>1. Len(versions) \in Nat /\ Len(versions') \in Nat /\ Len(versions) =< Len(versions')
    BY TableTyped DEF Kept
  <1>2. ReconciliationsPointAtRows'
    BY <1>1 DEF ReconciliationsPointAtRows, Kept
  <1>3. ASSUME NEW r \in reconciliations, NEW v \in r.notes \cup {r.invoice}
        PROVE  \E k \in r.since..r.until : WasUsable(v, k)'
    <2>1. PICK k \in r.since..r.until : WasUsable(v, k)
      BY DEF ReconciledWhileUsable
    <2>2. r.since \in Nat /\ r.until \in Nat /\ r.until =< Len(versions) /\ v \in DOMAIN versions
      BY DEF ReconciliationsPointAtRows
    <2>. QED  BY <1>1, <2>1, <2>2, WasUsableStays
  <1>4. ASSUME NEW r \in reconciliations
        PROVE  /\ versions'[r.invoice].type = "invoice"
               /\ \A v, w \in r.notes : versions'[v].type = "receive_note"
                     /\ versions'[v].of = versions'[w].of => v = w \/ versions'[v].of \in Tasks \ alone'
    BY DEF ReconciledWhileUsable, ReconciliationsPointAtRows, Kept, KeptRow
  <1>. QED  BY <1>2, <1>3, <1>4 DEF ReconciledWhileUsable

LEMMA ComparedKept ==
    ASSUME TypeOK, Compared, Kept, alone' \subseteq alone, UNCHANGED <<comparing, reconciliations>>
    PROVE  Compared'
  <1>1. ReconciliationsPointAtRows' /\ ReconciledWhileUsable'
    BY ReconciledStays DEF Compared
  <1>2. ASSUME NEW p \in Comparers, comparing[p] # Null PROVE ReadWhileUsable(comparing[p])'
    <2>1. comparing[p] \in Comparison /\ ReadWhileUsable(comparing[p])
      BY <1>2 DEF Compared, ComparisonsReadUsable
    <2>2. ASSUME NEW c, c = comparing[p] PROVE ReadWhileUsable(c)'
      BY <2>1, <2>2, ReadUsableStays
    <2>. QED  BY <2>2 DEF ReadWhileUsable
  <1>. QED  BY <1>1, <1>2 DEF Compared, ComparisonsReadUsable

\* A comparison that begins, reads on or ends leaves the others alone.
LEMMA OneComparison ==
    ASSUME TypeOK, Compared, UNCHANGED reviewVars, UNCHANGED reconciliations,
           NEW p \in Comparers, NEW c \in Comparison \cup {Null},
           comparing' = [comparing EXCEPT ![p] = c], c # Null => ReadWhileUsable(c)
    PROVE  Compared'
  <1>1. /\ comparing' \in [Comparers -> Comparison \cup {Null}]
        /\ \A o \in Comparers : comparing'[o] = IF o = p THEN c ELSE comparing[o]
    BY DEF Compared
  <1>2. UNCHANGED versions /\ UNCHANGED alone
    BY DEF reviewVars
  <1>3. ReconciliationsPointAtRows' /\ ReconciledWhileUsable'
    BY <1>2, UnchangedIsSame, ReconciledStays DEF Compared
  <1>4. ASSUME NEW o \in Comparers, comparing'[o] # Null PROVE ReadWhileUsable(comparing[o])'
    <2>1. ReadWhileUsable(comparing'[o])
      BY <1>1, <1>4 DEF Compared, ComparisonsReadUsable
    <2>. QED  BY <1>2, <2>1 DEF ReadWhileUsable, WasUsable
  <1>. QED  BY <1>1, <1>3, <1>4 DEF Compared, ComparisonsReadUsable

LEMMA ComparedBegins ==
    ASSUME TypeOK, ReceivingOnlyMovesOn, Compared, NEW p \in Comparers, NEW v \in DOMAIN versions,
           NEW wanted \in SUBSET DOMAIN versions, CompareInvoice(p, v, wanted)
    PROVE  Compared'
  <1>. DEFINE c == [invoice |-> v, wanted |-> wanted, read |-> {}, since |-> Len(versions)]
  <1>1. DOMAIN versions = 1..Len(versions) /\ Len(versions) \in Nat
    BY TableTyped
  <1>2. c \in Comparison
    BY <1>1 DEF Comparison
  <1>3. Usable(v) /\ versions[v].type = "invoice"
        /\ \A w \in wanted : versions[w].type = "receive_note"
    BY DEF CompareInvoice, IsUsable
  <1>4. ReadWhileUsable(c)
    BY <1>1, <1>3, UsableIsNow DEF ReadWhileUsable
  <1>. QED  BY <1>2, <1>4, OneComparison DEF CompareInvoice

LEMMA ComparedReads ==
    ASSUME TypeOK, ReceivingOnlyMovesOn, Compared, NEW p \in Comparers, NEW v \in DOMAIN versions,
           CompareNote(p, v)
    PROVE  Compared'
  <1>. DEFINE b == comparing[p]
              c == [b EXCEPT !.wanted = @ \ {v}, !.read = @ \cup {v}]
  <1>1. b \in Comparison /\ ReadWhileUsable(b) /\ v \in b.wanted /\ Usable(v)
    BY DEF CompareNote, IsUsable, Compared, ComparisonsReadUsable
  <1>2. /\ c \in Comparison /\ c.invoice = b.invoice /\ c.since = b.since
        /\ c.wanted = b.wanted \ {v} /\ c.read = b.read \cup {v}
    BY <1>1, TableTyped DEF Comparison
  <1>3. comparing' = [comparing EXCEPT ![p] = c]
    BY DEF CompareNote
  <1>. HIDE DEF c
  <1>4. WasUsable(v, Len(versions)) /\ Len(versions) \in b.since..Len(versions)
    BY <1>1, TableTyped, UsableIsNow DEF ReadWhileUsable, Comparison
  <1>5. \A w \in c.read : \E k \in c.since..Len(versions) : WasUsable(w, k)
    BY <1>1, <1>2, <1>4 DEF ReadWhileUsable
  <1>6. ReadWhileUsable(c)
    BY <1>1, <1>2, <1>5 DEF ReadWhileUsable
  <1>. QED  BY <1>2, <1>3, <1>6, OneComparison DEF CompareNote

(* Two versions of one document in a comparison: of a receiving record,    *)
(* each was there when it began and was still the newest when it was read; *)
(* of an upload without overlaps, both are approved and so the newest.     *)
LEMMA NoDocumentTwice ==
    ASSUME TypeOK, Numbered, Lines, NEW c \in Comparison, ReadWhileUsable(c),
           NEW v \in c.read, NEW w \in c.read, versions[v].of = versions[w].of
    PROVE  v = w \/ versions[v].of \in Tasks \ alone
  <1>1. v \in DOMAIN versions /\ w \in DOMAIN versions /\ v =< c.since /\ w =< c.since
        /\ c.since \in Nat /\ v \in Nat /\ w \in Nat /\ versions[v].of \in Tasks \cup Records
    BY TableTyped, RowFields DEF ReadWhileUsable, Comparison
  <1>2. PICK k \in c.since..Len(versions) : WasUsable(v, k)
    BY DEF ReadWhileUsable
  <1>3. PICK l \in c.since..Len(versions) : WasUsable(w, l)
    BY DEF ReadWhileUsable
  <1>4. CASE versions[v].of \in Records
    <2>1. ~(v < w)
      BY <1>1, <1>2, <1>4, TableTyped DEF WasUsable
    <2>2. ~(w < v)
      BY <1>1, <1>3, <1>4, TableTyped DEF WasUsable
    <2>. QED  BY <1>1, <2>1, <2>2
  <1>5. CASE versions[v].of \in alone
    <2>1. versions[v].status = "approved" /\ versions[w].status = "approved"
      BY <1>2, <1>3 DEF WasUsable
    <2>2. IsNewestIn(versions, v, versions[v].of) /\ IsNewestIn(versions, w, versions[v].of)
      BY <1>1, <1>5, <2>1 DEF Lines
    <2>. QED  BY <1>1, <2>2, TableTyped, NewestIsTheLargest DEF Numbered
  <1>. QED  BY <1>1, <1>4, <1>5

LEMMA ComparedSaves ==
    ASSUME TypeOK, Numbered, Lines, Compared, NEW p \in Comparers, SaveReconciliation(p)
    PROVE  Compared'
  <1>. DEFINE c   == comparing[p]
              new == [invoice |-> c.invoice, notes |-> c.read, since |-> c.since, until |-> Len(versions)]
  <1>1. c \in Comparison /\ ReadWhileUsable(c)
    BY DEF SaveReconciliation, Compared, ComparisonsReadUsable
  <1>2. /\ c.since \in Nat /\ c.since =< Len(versions) /\ Len(versions) \in Nat
        /\ c.invoice \in DOMAIN versions /\ c.read \subseteq DOMAIN versions
    BY <1>1, TableTyped DEF ReadWhileUsable, Comparison
  <1>3. reconciliations' = reconciliations \cup {new} /\ UNCHANGED <<versions, alone>>
        /\ comparing' = [comparing EXCEPT ![p] = Null]
    BY DEF SaveReconciliation, reviewVars
  <1>4. \A v \in c.read \cup {c.invoice} : \E k \in c.since..Len(versions) : WasUsable(v, k)
    BY <1>1, <1>2 DEF ReadWhileUsable
  <1>5. /\ versions[c.invoice].type = "invoice"
        /\ \A v, w \in c.read : versions[v].type = "receive_note"
              /\ versions[v].of = versions[w].of => v = w \/ versions[v].of \in Tasks \ alone
    BY <1>1, NoDocumentTwice DEF ReadWhileUsable
  <1>6. /\ new.invoice = c.invoice /\ new.notes = c.read /\ new.since = c.since
        /\ new.until = Len(versions)
    OBVIOUS
  <1>. HIDE DEF new
  <1>7. ReconciliationsPointAtRows'
    BY <1>2, <1>3, <1>6 DEF Compared, ReconciliationsPointAtRows
  <1>8. ReconciledWhileUsable'
    BY <1>3, <1>4, <1>5, <1>6 DEF Compared, ReconciledWhileUsable, WasUsable
  <1>9. comparing' \in [Comparers -> Comparison \cup {Null}] /\ ComparisonsReadUsable'
    BY <1>3 DEF Compared, ComparisonsReadUsable, ReadWhileUsable, WasUsable
  <1>. QED  BY <1>7, <1>8, <1>9 DEF Compared

-----------------------------------------------------------------------------
(* The theorems.                                                           *)

LEMMA ReviewInvInit == Init => ReviewInv
  <1>. SUFFICES ASSUME Init PROVE ReviewInv
    OBVIOUS
  <1>1. /\ versions = <<>> /\ audit = {} /\ unaudited = {} /\ alone = Tasks
        /\ \A q \in Requests : request[q] = Null
        /\ \A p \in Comparers : comparing[p] = Null
        /\ reconciliations = {} /\ DOMAIN versions = {}
    BY DEF Init, ReviewInit
  <1>2. TypeOK
    BY <1>1 DEF Init, ReviewInit, TypeOK
  <1>3. Numbered
    BY <1>1 DEF Numbered, NumberedIn, OfIn
  <1>. QED
    BY <1>1, <1>2, <1>3
    DEF ReviewInv, RequestsPointAtRows, AuditPointsAtRows, AuditTellsTheDecision, AloneSeesAll, Lines,
        ReceivingOnlyMovesOn, ComparisonsReadUsable, ReconciliationsPointAtRows, ReconciledWhileUsable

LEMMA ReviewInvNext == ReviewInv /\ [Next]_vars => ReviewInv'
  <1>. SUFFICES ASSUME ReviewInv, [Next]_vars PROVE ReviewInv'
    OBVIOUS
  <1>1. TypeOK /\ Numbered /\ RequestsPointAtRows /\ AloneSeesAll /\ Lines /\ ReceivingOnlyMovesOn
        /\ Audited /\ Compared
    BY DEF ReviewInv, Audited, RequestsTyped, Compared, TypeOK
  <1>2. versions' \in Seq(Row) /\ UniqueIn(versions') /\ Numbered' /\ Kept
    BY <1>1, TableSteps, TableStepsKeep
  <1>3. ReceivingOnlyMovesOn'
    BY <1>1, ReceivingNext
  <1>4. CASE ReviewNext /\ UNCHANGED <<comparing, reconciliations>>
    <2>1. Audited' /\ AloneSeesAll' /\ Lines'
      <3>1. ASSUME NEW q \in Requests, NEW r \in ReviewRequest, Checks(q, r)
            PROVE  Audited' /\ AloneSeesAll' /\ Lines'
        BY <1>1, <3>1, AuditedChecks, LinearUntouched DEF Checks
      <3>2. ASSUME NEW q \in Requests, NEW r \in ReviewRequest, Rejects(q, r)
            PROVE  Audited' /\ AloneSeesAll' /\ Lines'
        BY <1>1, <3>2, AuditedRejects, LinearRejects
      <3>3. ASSUME NEW q \in Requests, CreateVersion(q) PROVE Audited' /\ AloneSeesAll' /\ Lines'
        BY <1>1, <3>3, AuditedCreates, LinearCreates
      <3>4. ASSUME NEW q \in Requests, WriteApproval(q) PROVE Audited' /\ AloneSeesAll' /\ Lines'
        BY <1>1, <3>4, AuditedApproves, LinearApproves
      <3>5. ASSUME NEW q \in Requests, AppendAction(q) \/ Drop(q)
            PROVE  Audited' /\ AloneSeesAll' /\ Lines'
        <4>1. UNCHANGED versions
          BY <3>5 DEF AppendAction, Drop
        <4>. QED  BY <1>1, <3>5, <4>1, AuditedEnds, LinearUntouched
      <3>6. ASSUME Imports PROVE Audited' /\ AloneSeesAll' /\ Lines'
        <4>1. UNCHANGED <<audit, request, unaudited, alone>>
          BY <3>6 DEF Imports, ImportVersion
        <4>. QED  BY <1>1, <3>6, <4>1, AuditedElsewhere, LinearImports
      <3>. QED  BY <1>1, <1>4, <3>1, <3>2, <3>3, <3>4, <3>5, <3>6, ReviewSteps
    <2>2. alone' \subseteq alone
      <3>1. ASSUME NEW q \in Requests, NEW r \in ReviewRequest, Checks(q, r) \/ Rejects(q, r)
            PROVE  alone' \subseteq alone
        BY <3>1 DEF Checks, Rejects, Begin
      <3>2. ASSUME NEW q \in Requests,
                   CreateVersion(q) \/ WriteApproval(q) \/ AppendAction(q) \/ Drop(q)
            PROVE  UNCHANGED alone
        BY <3>2 DEF CreateVersion, WriteApproval, AppendAction, Drop
      <3>3. Imports => UNCHANGED alone
        BY DEF Imports, ImportVersion
      <3>. QED  BY <1>1, <1>4, <3>1, <3>2, <3>3, ReviewSteps
    <2>3. Compared'
      BY <1>1, <1>2, <1>4, <2>2, ComparedKept
    <2>. QED
      BY <1>2, <1>3, <2>1, <2>3
      DEF ReviewInv, TypeOK, Audited, RequestsTyped, Compared, UniqueIn, Row
  <1>5. CASE UNCHANGED reviewVars /\ \E p \in Comparers :
                \/ \E v \in DOMAIN versions, wanted \in SUBSET DOMAIN versions : CompareInvoice(p, v, wanted)
                \/ \E v \in DOMAIN versions : CompareNote(p, v)
                \/ SaveReconciliation(p) \/ CompareDropped(p)
    <2>1. UNCHANGED <<versions, audit, request, unaudited, alone>>
      BY <1>5 DEF reviewVars
    <2>2. Audited' /\ AloneSeesAll' /\ Lines'
      BY <1>1, <2>1, AuditedElsewhere
      DEF AloneSeesAll, StillAsChecked, Lines, FollowsItsSource
    <2>3. ASSUME NEW p \in Comparers, CompareDropped(p) PROVE Compared'
      BY <1>1, <1>5, <2>3, OneComparison DEF CompareDropped
    <2>4. Compared'
      BY <1>1, <1>5, <2>3, ComparedBegins, ComparedReads, ComparedSaves
    <2>. QED
      BY <1>2, <1>3, <2>2, <2>4
      DEF ReviewInv, TypeOK, Audited, RequestsTyped, Compared, UniqueIn, Row
  <1>6. CASE UNCHANGED vars
    <2>1. UNCHANGED <<versions, audit, request, unaudited, alone, comparing, reconciliations>>
      BY <1>6 DEF vars, reviewVars
    <2>2. Audited' /\ AloneSeesAll' /\ Lines'
      BY <1>1, <2>1, AuditedElsewhere
      DEF AloneSeesAll, StillAsChecked, Lines, FollowsItsSource
    <2>3. Compared'
      BY <1>1, <1>2, <2>1, ComparedKept
    <2>. QED
      BY <1>2, <1>3, <2>2, <2>3
      DEF ReviewInv, TypeOK, Audited, RequestsTyped, Compared, UniqueIn, Row
  <1>7. \/ ReviewNext /\ UNCHANGED <<comparing, reconciliations>>
        \/ UNCHANGED reviewVars /\ \E p \in Comparers :
                \/ \E v \in DOMAIN versions, wanted \in SUBSET DOMAIN versions : CompareInvoice(p, v, wanted)
                \/ \E v \in DOMAIN versions : CompareNote(p, v)
                \/ SaveReconciliation(p) \/ CompareDropped(p)
        \/ UNCHANGED vars
    BY DEF Next, CompareInvoice, CompareNote, SaveReconciliation, CompareDropped
  <1>. QED  BY <1>4, <1>5, <1>6, <1>7

(* The versions, the requests, the trail and the reconciliations stay in   *)
(* the relations above, whatever requests and imports overlap.             *)
THEOREM ReviewInvariant == Spec => []ReviewInv
  BY ReviewInvInit, ReviewInvNext, PTL DEF Spec

(* The rows keep their shape, and a number is given once to a document,    *)
(* however many requests number its versions at the same time.             *)
THEOREM ReviewTyped == Spec => []TypeOK
  <1>1. ReviewInv => TypeOK
    BY DEF ReviewInv
  <1>. QED  BY <1>1, ReviewInvariant, PTL

(* The audit trail never tells a decision that was not taken, and tells    *)
(* each one that was, unless its request failed or is about to.            *)
THEOREM AuditTells == Spec => []AuditTellsTheDecision
  <1>1. ReviewInv => AuditTellsTheDecision
    BY DEF ReviewInv
  <1>. QED  BY <1>1, ReviewInvariant, PTL

(* Without overlapping requests the history of a document is a line and    *)
(* nothing but its newest version is approved.                             *)
THEOREM LinearHistories == Spec => []LinearWithoutOverlap
  <1>1. ASSUME ReviewInv PROVE LinearWithoutOverlap
    <2>1. ASSUME NEW t \in alone, NEW v \in Of(t)
          PROVE  /\ versions[v].from = 0 <=> versions[v].number = 1
                 /\ versions[v].from # 0 =>
                       /\ versions[v].from \in Of(t)
                       /\ versions[versions[v].from].number + 1 = versions[v].number
                 /\ versions[v].status = "approved" => v = Newest(t)
      <3>1. TypeOK /\ Numbered /\ Lines /\ t \in Tasks
        BY <1>1 DEF ReviewInv, TypeOK
      <3>2. v \in DOMAIN versions /\ versions[v].of = t
        BY <2>1 DEF Of
      <3>3. FollowsItsSource(v) /\ (versions[v].status = "approved" => IsNewestIn(versions, v, t))
        BY <2>1, <3>1, <3>2 DEF Lines
      <3>4. IsNewestIn(versions, v, t) => v = Newest(t)
        BY <3>1, <3>2, TableTyped, NewestIsTheLargest, NewestByDef DEF Numbered
      <3>. QED  BY <3>2, <3>3, <3>4 DEF FollowsItsSource, Of
    <2>. QED  BY <2>1 DEF LinearWithoutOverlap
  <1>. QED  BY <1>1, ReviewInvariant, PTL

(* What is offered for reconciliation is what a reconciliation accepts.    *)
THEOREM ListingTrue == Spec => []OfferedIsAccepted
  <1>1. ReviewInv => OfferedIsAccepted
    BY ListingAgrees DEF ReviewInv
  <1>. QED  BY <1>1, ReviewInvariant, PTL

(* Imports in any order, repeated or with another supplier, never move a   *)
(* receiving record back.                                                  *)
THEOREM ReceivingMovesOn == Spec => []ReceivingOnlyMovesOn
  <1>1. ReviewInv => ReceivingOnlyMovesOn
    BY DEF ReviewInv
  <1>. QED  BY <1>1, ReviewInvariant, PTL

(* Reading the versions one by one is enough for a reconciliation to be of *)
(* versions that were usable, and of no document twice.                    *)
THEOREM ReconciliationsFounded == Spec => []ReconciledWhileUsable
  <1>1. ReviewInv => ReconciledWhileUsable
    BY DEF ReviewInv
  <1>. QED  BY <1>1, ReviewInvariant, PTL
=============================================================================
