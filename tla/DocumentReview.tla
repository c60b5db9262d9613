--------------------------- MODULE DocumentReview ---------------------------
(***************************************************************************)
(* The versions of documents: the human review of uploads                  *)
(* (app/services/review_service.py over                                    *)
(* app/infra/postgres_review_repository.py) and the import of receiving    *)
(* records from TapTouch (postgres_taptouch_receiving_repository.py),      *)
(* which share the table document_versions.                                *)
(*                                                                         *)
(* A review request checks the version it is about, writes (a new version, *)
(* or the decision on this one) and then appends an audit row: three       *)
(* transactions, each an action.  The check reads the version and the      *)
(* newest one of the task in two transactions; versions are only added     *)
(* and no status becomes draft again, so that both answers held when the   *)
(* version was read, and the check is one action.  Creating a version      *)
(* reads the largest number and inserts in one transaction; of two that    *)
(* read the same number the unique index fails one, which is its Drop.     *)
(*                                                                         *)
(* The machine draft of a task is taken as given; users, reasons, times    *)
(* and field paths are left out, as are the read-only pages of the queue.  *)
(***************************************************************************)
EXTENDS Naturals, Sequences, FiniteSets

CONSTANTS
    Tasks,          \* uploaded documents
    Records,        \* receiving records of TapTouch, by external identity
    Suppliers,      \* supplier identities a record may come with
    Bodies,         \* the quantity a document states, as its content
    Blocking,       \* contents with a validation issue that blocks approval
    MachineType,    \* the type the extraction gave each task
    MachineBody,    \* the content the extraction gave each task
    Requests,       \* review requests that may be under way at a time
    Null,
    MaxVersions,    \* bound: rows of the table
    MaxNumber       \* bound: external version numbers

ASSUME Documents ==
    /\ Bodies \subseteq Nat /\ Blocking \subseteq Bodies
    /\ MachineType \in [Tasks -> {"invoice", "receive_note"}]
    /\ MachineBody \in [Tasks -> Bodies]
    /\ Tasks \cap Records = {} /\ Null \notin Suppliers
    /\ MaxVersions \in Nat /\ MaxNumber \in Nat

Types    == {"invoice", "receive_note"}
Statuses == {"draft", "approved", "rejected"}

(* Rows, in the order they were committed.  A row of an upload has no      *)
(* supplier and is active; from is the version it was made from, which the *)
(* old value of its audit row tells.                                       *)
UploadRow == [of : Tasks, number : Nat \ {0}, type : Types, body : Bodies, status : Statuses,
              from : Nat, supplier : {Null}, active : {TRUE}]
UpstreamRow == [of : Records, number : Nat \ {0}, type : {"receive_note"}, body : Bodies,
                status : {"approved"}, from : {0}, supplier : Suppliers, active : BOOLEAN]

AuditRow == [version : Nat, action : {"review_started", "document_edited",
                                      "document_reclassified", "approved", "rejected"}]

VARIABLES
    versions,   \* document_versions
    audit,      \* review_actions
    request,    \* the review requests under way
    unaudited,  \* history: versions written by a request that then failed
    alone       \* history: tasks whose requests never overlapped

reviewVars == <<versions, audit, request, unaudited, alone>>

ReviewInit ==
    /\ versions = <<>>
    /\ audit = {}
    /\ request = [q \in Requests |-> Null]
    /\ unaudited = {}
    /\ alone = Tasks

-----------------------------------------------------------------------------
(* The repository.                                                         *)

Of(d)     == {v \in DOMAIN versions : versions[v].of = d}
Newest(d) == CHOOSE v \in Of(d) : \A w \in Of(d) : versions[w].number =< versions[v].number

AlwaysFirst(t) == 1         \* MUTANT
NextNumber(t) == IF Of(t) = {} THEN 1 ELSE versions[Newest(t)].number + 1

AnyStatus(v) == TRUE        \* MUTANT: an update by the key alone
Undecided(v) == versions[v].status = "draft"

NoLatest(v) == TRUE         \* MUTANT
\* The newest version of its receiving record.
LatestUpstream(v) == \A w \in Of(versions[v].of) : versions[w].number =< versions[v].number

\* get_approved_version returns it.
Usable(v) ==
    /\ versions[v].status = "approved"
    /\ versions[v].of \in Records => versions[v].active /\ LatestUpstream(v)

First(v, rows) == \A w \in rows : versions[w].of = versions[v].of =>
                                      versions[w].number =< versions[v].number

\* MUTANT: voided rows are skipped before the first of each record is taken.
ListedIfActive ==
    LET rows == {v \in DOMAIN versions : versions[v].status = "approved" /\ versions[v].active}
    IN  {v \in rows : versions[v].of \in Records => First(v, rows)}
(* list_reconciliation_versions: the rows by falling number, of which the  *)
(* first of each receiving record counts, if it is active.                 *)
ListedForReconciliation ==
    LET rows == {v \in DOMAIN versions : versions[v].status = "approved"}
    IN  {v \in rows : versions[v].of \in Records => First(v, rows) /\ versions[v].active}

-----------------------------------------------------------------------------
(* Review requests.                                                        *)

Busy(t) == \E q \in Requests : request[q] # Null /\ request[q].task = t

\* A request on a task begins; history: did another one overlap with it?
Begin(q, r) ==
    /\ request' = [request EXCEPT ![q] = r]
    /\ alone' = IF Busy(r.task) THEN alone \ {r.task} ELSE alone

\* No version yet: one is to be made of the machine draft.
StartReview(q, t) ==
    /\ request[q] = Null /\ Of(t) = {}
    /\ Begin(q, [stage |-> "checked", action |-> "review_started", task |-> t, version |-> 0,
                 type |-> MachineType[t], body |-> MachineBody[t]])
    /\ UNCHANGED <<versions, audit, unaudited>>

DraftOnly(v) == Undecided(v)        \* MUTANT: an old draft is as good as the newest
\* The version may still be edited or approved.
EditableLatest(v) == Undecided(v) /\ v = Newest(versions[v].of)

Reviewed(v, action, type, body) ==
    [stage |-> "checked", action |-> action, task |-> versions[v].of, version |-> v,
     type |-> type, body |-> body]

SaveEdit(q, v, body) ==
    /\ request[q] = Null /\ versions[v].of \in Tasks /\ EditableLatest(v)
    /\ Begin(q, Reviewed(v, "document_edited", versions[v].type, body))
    /\ UNCHANGED <<versions, audit, unaudited>>

Reclassify(q, v, type) ==
    /\ request[q] = Null /\ versions[v].of \in Tasks /\ EditableLatest(v)
    /\ type # versions[v].type
    /\ Begin(q, Reviewed(v, "document_reclassified", type, versions[v].body))
    /\ UNCHANGED <<versions, audit, unaudited>>

\* The type the reviewer confirms is that of the version, or it is refused.
Approve(q, v) ==
    /\ request[q] = Null /\ versions[v].of \in Tasks /\ EditableLatest(v)
    /\ versions[v].body \notin Blocking
    /\ Begin(q, Reviewed(v, "approved", versions[v].type, versions[v].body))
    /\ UNCHANGED <<versions, audit, unaudited>>

\* No check before the write: any draft, the newest or not.
Reject(q, v) ==
    /\ request[q] = Null /\ versions[v].of \in Tasks /\ Undecided(v)
    /\ versions' = [versions EXCEPT ![v].status = "rejected"]
    /\ Begin(q, [Reviewed(v, "rejected", versions[v].type, versions[v].body)
                     EXCEPT !.stage = "written"])
    /\ UNCHANGED <<audit, unaudited>>

CreateVersion(q) ==
    /\ request[q] # Null /\ request[q].stage = "checked" /\ request[q].action # "approved"
    /\ Len(versions) < MaxVersions
    /\ LET r == request[q]
           new == [of |-> r.task, number |-> NextNumber(r.task), type |-> r.type, body |-> r.body,
                   status |-> "draft", from |-> r.version, supplier |-> Null, active |-> TRUE]
       IN  versions' = Append(versions, new)
    /\ request' = [request EXCEPT ![q].stage = "written", ![q].version = Len(versions) + 1]
    /\ UNCHANGED <<audit, unaudited, alone>>

WriteApproval(q) ==
    /\ request[q] # Null /\ request[q].stage = "checked" /\ request[q].action = "approved"
    /\ Undecided(request[q].version)
    /\ versions' = [versions EXCEPT ![request[q].version].status = "approved"]
    /\ request' = [request EXCEPT ![q].stage = "written"]
    /\ UNCHANGED <<audit, unaudited, alone>>

AppendAction(q) ==
    /\ request[q] # Null /\ request[q].stage = "written"
    /\ audit' = audit \cup {[version |-> request[q].version, action |-> request[q].action]}
    /\ request' = [request EXCEPT ![q] = Null]
    /\ UNCHANGED <<versions, unaudited, alone>>

(* A request ends before it is through: a conflict, a failed transaction,  *)
(* a lost process.  What it wrote stays, without its audit row.            *)
Drop(q) ==
    /\ request[q] # Null
    /\ unaudited' = IF request[q].stage = "written" THEN unaudited \cup {request[q].version}
                    ELSE unaudited
    /\ request' = [request EXCEPT ![q] = Null]
    /\ UNCHANGED <<versions, audit, alone>>

-----------------------------------------------------------------------------
(* Receiving records from TapTouch, one at a time under the scope's lock.  *)

AnyNumber(rec, number) == \A v \in Of(rec) : number # versions[v].number     \* MUTANT
\* The version is newer than those known; an equal one changes nothing.
NewerThanKnown(rec, number) == \A v \in Of(rec) : number > versions[v].number

SameSupplier(rec, s) == Of(rec) # {} => versions[Newest(rec)].supplier = s

ImportVersion(rec, number, s, body, active) ==
    /\ Len(versions) < MaxVersions
    /\ NewerThanKnown(rec, number) /\ SameSupplier(rec, s)
    /\ versions' = Append(versions, [of |-> rec, number |-> number, type |-> "receive_note",
                                     body |-> body, status |-> "approved", from |-> 0,
                                     supplier |-> s, active |-> active])
    /\ UNCHANGED <<audit, request, unaudited, alone>>

ReviewNext ==
    \/ \E q \in Requests :
          \/ \E t \in Tasks : StartReview(q, t)
          \/ \E v \in DOMAIN versions :
                \/ \E body \in Bodies : SaveEdit(q, v, body)
                \/ \E type \in Types : Reclassify(q, v, type)
                \/ Approve(q, v) \/ Reject(q, v)
          \/ CreateVersion(q) \/ WriteApproval(q) \/ AppendAction(q) \/ Drop(q)
    \/ \E rec \in Records, number \in 1..MaxNumber, s \in Suppliers, body \in Bodies \ Blocking,
          active \in BOOLEAN :
          ImportVersion(rec, number, s, body, active)
=============================================================================
