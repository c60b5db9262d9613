--------------------------- MODULE CaseProperties ---------------------------
(***************************************************************************)
(* What the cases of the legacy reconciliation guarantee, whatever the     *)
(* interleaving of the requests.                                           *)
(***************************************************************************)
EXTENDS ReconciliationCases

Stages == {"row", "items", "trail", "loaded", "again", "answered"}
Commands == Mutations \cup ViewCommand
Copies == [stage : Stages, case : Cases, command : Commands, tries : 1..3,
           row : CaseRow, items : CaseItems, trail : Nat]
AuditRow == [kind : {"created", "claimed", "reassigned", "resolution_changed", "submitted",
                     "completed", "returned"},
             item : Items \cup {Null},
             to : Users \cup Resolutions \cup Statuses \cup {Null}]

(* Rows as the tables and the domain classes constrain them: a case has    *)
(* items, and an assignee from its first claim on, and every revision one  *)
(* audit row.  A request holds copies of rows.                             *)
TypeOK ==
    /\ row \in [Cases -> CaseRow]
    /\ items \in [Cases -> CaseItems]
    /\ actions \in [Cases -> Seq(AuditRow)]
    /\ request \in [Requests -> Copies \cup {Null}]
    /\ \A c \in Cases :
          /\ row[c].revision = Len(actions[c])
          /\ (row[c].status \in {"none", "unassigned"}) <=> (row[c].assignee = Null)
          /\ (row[c].status = "none") <=> (DOMAIN items[c] = {})

-----------------------------------------------------------------------------
(* The case an audit trail tells of: a case opened with the items of S,    *)
(* and the first n actions of the trail replayed.                          *)
Opened(S) == [status |-> "unassigned", assignee |-> Null, items |-> [i \in S |-> Null]]

Replay(case, a) ==
    CASE a.kind = "created"    -> case
      [] a.kind = "claimed"    -> [case EXCEPT !.status = "in_progress", !.assignee = a.to]
      [] a.kind = "reassigned" -> [case EXCEPT !.assignee = a.to]
      [] a.kind = "resolution_changed" -> [case EXCEPT !.items[a.item] = a.to]
      [] OTHER                 -> [case EXCEPT !.status = a.to]

ReplayOf(S, trail, n) ==
    LET replay[k \in 0..n] == IF k = 0 THEN Opened(S) ELSE Replay(replay[k - 1], trail[k])
    IN  replay[n]

Replayed(c, n) == ReplayOf(DOMAIN items[c], actions[c], n)

Shown(r, resolved) == [status |-> r.status, assignee |-> r.assignee, items |-> resolved]

Told(c, r, resolved) == Shown(r, resolved) = Replayed(c, r.revision)

(* A case is what its audit trail says, and so is every answer given to a  *)
(* client: the case as it stood after the action that made its revision,   *)
(* never a mixture of two revisions (get_detail, get_detail_for_bundle).   *)
AuditExplainsWhatIsShown ==
    /\ \A c \in Cases : row[c] # NoCase => Told(c, row[c], items[c])
    /\ \A q \in Requests : request[q] # Null /\ request[q].stage = "answered" =>
          /\ request[q].trail = request[q].row.revision
          /\ Told(request[q].case, request[q].row, request[q].items)

(* A case is waiting for a decision, or decided, only in the direction     *)
(* that the resolutions of all its items call for.                         *)
DecisionsAreSupported ==
    \A c \in Cases :
        /\ row[c].status \in {"pending_approval", "approved"} =>
              \A i \in DOMAIN items[c] : items[c][i] = "business_exception"
        /\ row[c].status \in {"pending_void", "voided"} =>
              /\ \A i \in DOMAIN items[c] : items[c][i] \notin {Null, "waiting_for_documents"}
              /\ \E i \in DOMAIN items[c] : items[c][i] # "business_exception"

-----------------------------------------------------------------------------
(* Requests that read without a lock and save by revision act as if each   *)
(* was decided by the case at the instant it was saved; a case is only     *)
(* ever given to an active reviewer.                                       *)
Case(c) == Shown(row[c], items[c])

Workflow == INSTANCE CaseWorkflow WITH
    case <- [c \in Cases |-> Case(c)], Reviewers <- Reviewers \ Inactive
ImplementsCaseWorkflow == Workflow!Spec
=============================================================================
