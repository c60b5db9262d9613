------------------------ MODULE ReconciliationCases ------------------------
(***************************************************************************)
(* The cases of the legacy reconciliation:                                 *)
(* app/services/reconciliation_case_service.py over                        *)
(* app/infra/postgres_reconciliation_case_repository.py.                   *)
(*                                                                         *)
(* A request reads the case's row, its items and its audit trail in one    *)
(* session without a lock (READ COMMITTED: each SELECT sees what is        *)
(* committed by then), decides outside any transaction, and saves with one *)
(* conditional update, one item and one audit row in one transaction.      *)
(* Each SELECT and the saving transaction are actions; a request may be    *)
(* lost after any of them, which is also how a refused or failed one ends  *)
(* (Drop).                                                                 *)
(*                                                                         *)
(* Left out: notes, reasons and timestamps (claimed_at, submitted_at and   *)
(* completed_at follow the status), the rows of the reconciliation, which  *)
(* never change, and the listing of cases.                                 *)
(***************************************************************************)
EXTENDS Naturals, Sequences, FiniteSets

CONSTANTS
    Cases,          \* at most one case per reconciliation, named in advance
    Items,          \* differences a case may consist of
    Reviewers,      \* accounts with the role reviewer
    Admins,         \* accounts with the role admin
    Inactive,       \* reviewers whose account is not active
    Requests,       \* requests that may be under way at a time
    Null,
    Typed,          \* bound: the resolutions reviewers of an instance choose
    MaxRevision     \* bound: revisions of a case

Users == Reviewers \cup Admins

ASSUME Roles ==
    /\ Reviewers \cap Admins = {}
    /\ Inactive \subseteq Reviewers
    /\ Null \notin Users \cup Items
    /\ MaxRevision \in Nat

Resolutions == {"business_exception", "document_data_error", "matching_error",
                "waiting_for_documents"}

ASSUME Choices == Typed \subseteq Resolutions /\ Null \notin Resolutions

Statuses == {"unassigned", "in_progress", "pending_approval", "pending_void",
             "approved", "voided"}
Terminal == {"approved", "voided"}

CaseRow   == [status : Statuses \cup {"none"}, assignee : Users \cup {Null}, revision : Nat]
CaseItems == UNION {[S -> Resolutions \cup {Null}] : S \in SUBSET Items}
NoCase    == [status |-> "none", assignee |-> Null, revision |-> 0]
NoItems   == [i \in {} |-> Null]

VARIABLES
    row,        \* reconciliation_cases
    items,      \* case_items: what each item of a case is resolved as
    actions,    \* case_actions, in the order they were committed
    request     \* the requests under way

vars == <<row, items, actions, request>>

Init ==
    /\ row = [c \in Cases |-> NoCase]
    /\ items = [c \in Cases |-> NoItems]
    /\ actions = [c \in Cases |-> <<>>]
    /\ request = [q \in Requests |-> Null]

-----------------------------------------------------------------------------
(* A difference that needs review opens the case with the reconciliation.  *)

Action(kind, item, to) == [kind |-> kind, item |-> item, to |-> to]

Create(c) ==
    /\ row[c] = NoCase
    /\ \E S \in (SUBSET Items) \ {{}} :
          items' = [items EXCEPT ![c] = [i \in S |-> Null]]
    /\ row' = [row EXCEPT ![c] = [status |-> "unassigned", assignee |-> Null, revision |-> 1]]
    /\ actions' = [actions EXCEPT ![c] = <<Action("created", Null, Null)>>]
    /\ UNCHANGED request

-----------------------------------------------------------------------------
(* What the routes accept.  Anyone who is signed in may send anything.     *)

Senders == Users \ Inactive

ClaimCommand    == [op : {"claim"}, user : Senders]
ReassignCommand == [op : {"reassign"}, user : Senders, target : Users]
ResolveCommand  == [op : {"resolve"}, user : Senders, item : Items, resolution : Typed]
SubmitApprovalCommand == [op : {"submit"}, user : Senders, target : {"pending_approval"}]
SubmitVoidCommand == [op : {"submit"}, user : Senders, target : {"pending_void"}]
ApproveCommand  == [op : {"decide"}, user : Senders, from : {"pending_approval"}, target : {"approved"}]
VoidCommand     == [op : {"decide"}, user : Senders, from : {"pending_void"}, target : {"voided"}]
ReturnCommand   == [op : {"return"}, user : Senders]
ViewCommand     == [op : {"view"}]

Mutations == ClaimCommand \cup ReassignCommand \cup ResolveCommand
             \cup SubmitApprovalCommand \cup SubmitVoidCommand
             \cup ApproveCommand \cup VoidCommand \cup ReturnCommand

-----------------------------------------------------------------------------
(* The rules of the service.  r is a request with its copies of the row    *)
(* and the items.  The checks of the row are made as soon as it is read: a *)
(* request they refuse has no further effect.                              *)

IsAssignee(r) == r.command.user = r.row.assignee /\ r.command.user \in Reviewers

MutableCase(r) == r.row.status \notin Terminal

IsActiveReviewer(u) == u \in Reviewers \ Inactive

Admitted(r) ==
    CASE r.command.op = "view"     -> TRUE
      [] r.command.op = "claim"    -> /\ r.row.status = "unassigned" /\ r.row.assignee = Null
                                      /\ r.command.user \in Reviewers
      [] r.command.op = "reassign" -> /\ r.command.user \in Admins
                                      /\ MutableCase(r) /\ r.row.assignee # Null
                                      /\ IsActiveReviewer(r.command.target)
      [] r.command.op \in {"resolve", "submit"} -> IsAssignee(r) /\ r.row.status = "in_progress"
      [] r.command.op = "decide"   -> r.command.user \in Admins /\ r.row.status = r.command.from
      [] r.command.op = "return"   -> /\ r.command.user \in Admins
                                      /\ r.row.status \in {"pending_approval", "pending_void"}

AnyTarget(resolved) == {"pending_approval", "pending_void"}     \* MUTANT
\* The one direction a case may be submitted in, if any.
SubmissionTarget(resolved) ==
    LET kinds == {resolved[i] : i \in DOMAIN resolved}
    IN  IF kinds \cap {Null, "waiting_for_documents"} # {} THEN {}
        ELSE IF kinds = {"business_exception"} THEN {"pending_approval"}
        ELSE IF kinds \cap {"document_data_error", "matching_error"} # {} THEN {"pending_void"}
        ELSE {}

(* The mutation a command asks for, or none when the items refuse it.      *)
Mutation(r, status, assignee, action) ==
    {[row |-> [status |-> status, assignee |-> assignee, revision |-> r.row.revision + 1],
      items |-> IF action.item = Null THEN r.items
                ELSE [r.items EXCEPT ![action.item] = action.to],
      action |-> action]}

\* MUTANT: the status is set, the assignee is not.
ClaimUnassigned(r) == Mutation(r, "in_progress", Null, Action("claimed", Null, r.command.user))
Claim(r) ==
    Mutation(r, "in_progress", r.command.user, Action("claimed", Null, r.command.user))

Reassign(r) ==
    Mutation(r, r.row.status, r.command.target, Action("reassigned", Null, r.command.target))

SetResolution(r) ==
    IF r.command.item \in DOMAIN r.items
    THEN Mutation(r, r.row.status, r.row.assignee,
                  Action("resolution_changed", r.command.item, r.command.resolution))
    ELSE {}

Submit(r) ==
    IF r.command.target \in SubmissionTarget(r.items)
    THEN Mutation(r, r.command.target, r.row.assignee,
                  Action("submitted", Null, r.command.target))
    ELSE {}

Complete(r) ==
    IF r.command.from \in SubmissionTarget(r.items)
    THEN Mutation(r, r.command.target, r.row.assignee,
                  Action("completed", Null, r.command.target))
    ELSE {}

ReturnCase(r) ==
    Mutation(r, "in_progress", r.row.assignee, Action("returned", Null, "in_progress"))

Outcome(r) ==
    CASE r.command.op = "claim"    -> Claim(r)
      [] r.command.op = "reassign" -> Reassign(r)
      [] r.command.op = "resolve"  -> SetResolution(r)
      [] r.command.op = "submit"   -> Submit(r)
      [] r.command.op = "decide"   -> Complete(r)
      [] r.command.op = "return"   -> ReturnCase(r)
      [] OTHER                     -> {}

-----------------------------------------------------------------------------
(* Requests.                                                               *)

Advance(q, stage) == request' = [request EXCEPT ![q].stage = stage]

(* The row is read first.  The revision a client expects is that of the    *)
(* row read, or the request is refused.                                    *)
ReadCase(q, c, command) ==
    /\ request[q] = Null /\ row[c] # NoCase
    /\ row[c].revision < MaxRevision
    /\ LET r == [stage |-> "row", case |-> c, command |-> command, tries |-> 1,
                  row |-> row[c], items |-> NoItems, trail |-> 0]
       IN  Admitted(r) /\ request' = [request EXCEPT ![q] = r]
    /\ UNCHANGED <<row, items, actions>>

\* The detail reads the items first, a change (_load_bundle) the audit trail.
ByOp(r, view, change) == IF r.command.op = "view" THEN view ELSE change

ReadItems(q) ==
    /\ request[q] # Null
    /\ LET r == request[q]
       IN  /\ r.stage = ByOp(r, "row", "trail")
           /\ request' = [request EXCEPT ![q].stage = ByOp(r, "items", "loaded"),
                                         ![q].items = items[r.case]]
    /\ UNCHANGED <<row, items, actions>>

\* Of the audit trail a copy is known by its length: rows are only added.
ReadActions(q) ==
    /\ request[q] # Null
    /\ LET r == request[q]
       IN  /\ r.stage = ByOp(r, "items", "row")
           /\ request' = [request EXCEPT ![q].stage = ByOp(r, "loaded", "trail"),
                                         ![q].trail = Len(actions[r.case])]
    /\ UNCHANGED <<row, items, actions>>

AnyRevision(c, r) == TRUE      \* MUTANT: an update by the key alone
\* The condition of the update.
Unchanged(c, r) ==
    /\ row[c].revision = r.row.revision
    /\ r.command.op = "claim" => row[c].status = "unassigned" /\ row[c].assignee = Null

(* The answer is made of the rows read and the mutation: they are not read *)
(* again.                                                                  *)
Answer(r, m) ==
    [r EXCEPT !.stage = "answered", !.row = m.row, !.items = m.items, !.trail = @ + 1]

\* Only the item the action names is written.
Save(q) ==
    /\ request[q] # Null /\ request[q].stage = "loaded"
    /\ LET r == request[q]
           c == r.case
       IN  \E m \in Outcome(r) :
             /\ Unchanged(c, r)
             /\ row' = [row EXCEPT ![c] = m.row]
             /\ items' = IF m.action.item = Null THEN items
                         ELSE [items EXCEPT ![c][m.action.item] = m.action.to]
             /\ actions' = [actions EXCEPT ![c] = Append(@, m.action)]
             /\ request' = [request EXCEPT ![q] = Answer(r, m)]

NoRecheck(r) == TRUE        \* MUTANT
Consistent(r) == row[r.case].revision = r.row.revision

(* The detail of a case is read again until the revision at the end is the *)
(* one it started with, three times at most.                               *)
View(q) ==
    /\ request[q] # Null /\ request[q].stage = "loaded"
    /\ request[q].command.op = "view"
    /\ \/ Consistent(request[q]) /\ Advance(q, "answered")
       \/ /\ ~Consistent(request[q]) /\ request[q].tries < 3
          /\ Advance(q, "again")
    /\ UNCHANGED <<row, items, actions>>

ReadAgain(q) ==
    /\ request[q] # Null /\ request[q].stage = "again"
    /\ request' = [request EXCEPT ![q].stage = "row", ![q].tries = @ + 1,
                                  ![q].row = row[request[q].case]]
    /\ UNCHANGED <<row, items, actions>>

(* A request ends: answered, refused, in conflict, or its process died.    *)
Drop(q) ==
    /\ request[q] # Null
    /\ request' = [request EXCEPT ![q] = Null]
    /\ UNCHANGED <<row, items, actions>>

Next ==
    \/ \E c \in Cases : Create(c)
    \/ \E q \in Requests :
          \/ \E c \in Cases, command \in Mutations \cup ViewCommand : ReadCase(q, c, command)
          \/ ReadItems(q) \/ ReadActions(q) \/ Save(q) \/ View(q) \/ ReadAgain(q) \/ Drop(q)

Spec == Init /\ [][Next]_vars
=============================================================================
