----------------------------- MODULE CaseProofs -----------------------------
(***************************************************************************)
(* Proofs about the cases, for any number of cases, accounts and requests  *)
(* and any interleaving of them.                                           *)
(***************************************************************************)
EXTENDS CaseProperties, NumberLemmas

Reading == {"row", "items", "trail", "loaded"}
Unread  == {"row", "trail"}       \* the items are not read yet

(* What a request knows: it was admitted by the row it read, which is no   *)
(* newer than the case, and as long as their revisions agree its copies    *)
(* are the case.                                                           *)
CopiesAreDated ==
    \A q \in Requests : request[q] # Null =>
        /\ request[q].row.revision =< row[request[q].case].revision
        /\ request[q].stage \in Reading => Admitted(request[q])
        /\ request[q].stage = "again" =>
              request[q].command.op = "view" /\ request[q].tries < 3
        /\ request[q].stage \in Reading
           /\ request[q].row.revision = row[request[q].case].revision =>
              /\ request[q].row = row[request[q].case]
              /\ request[q].stage \notin Unread => request[q].items = items[request[q].case]

CaseInv == TypeOK /\ CopiesAreDated /\ DecisionsAreSupported

(* What AuditExplainsWhatIsShown rests on: a request is about a case that  *)
(* exists, and the audit trail it has read is no shorter than the row it   *)
(* read first calls for and no longer than the case's.                     *)
TrailsExplain ==
    /\ \A c \in Cases : row[c] # NoCase => Told(c, row[c], items[c])
    /\ \A q \in Requests : request[q] # Null =>
          /\ row[request[q].case] # NoCase
          /\ request[q].stage \in {"trail", "loaded"} =>
                /\ request[q].row.revision =< request[q].trail
                /\ request[q].trail =< row[request[q].case].revision
          /\ request[q].stage = "answered" =>
                /\ request[q].trail = request[q].row.revision
                /\ Told(request[q].case, request[q].row, request[q].items)

\* A command has the fields of its operation.
LEMMA CommandFields ==
    ASSUME NEW x \in Commands
    PROVE  \/ x.op = "view"
           \/ x.op = "claim" /\ x.user \in Senders
           \/ x.op = "reassign" /\ x.user \in Senders /\ x.target \in Users
           \/ x.op = "resolve" /\ x.user \in Senders /\ x.item \in Items /\ x.resolution \in Typed
           \/ x.op = "submit" /\ x.user \in Senders /\ x.target \in {"pending_approval", "pending_void"}
           \/ x.op = "decide" /\ x.user \in Senders
              /\ \/ x.from = "pending_approval" /\ x.target = "approved"
                 \/ x.from = "pending_void" /\ x.target = "voided"
           \/ x.op = "return" /\ x.user \in Senders
  BY DEF Commands, Mutations, ViewCommand, ClaimCommand, ReassignCommand, ResolveCommand,
         SubmitApprovalCommand, SubmitVoidCommand, ApproveCommand, VoidCommand, ReturnCommand

\* A direction the service computes is one the resolutions call for.
LEMMA TargetsAreCalledFor ==
    ASSUME NEW resolved, NEW target \in SubmissionTarget(resolved)
    PROVE  /\ target \in {"pending_approval", "pending_void"}
           /\ target = "pending_approval" =>
                 \A i \in DOMAIN resolved : resolved[i] = "business_exception"
           /\ target = "pending_void" =>
                 /\ \A i \in DOMAIN resolved : resolved[i] \notin {Null, "waiting_for_documents"}
                 /\ \E i \in DOMAIN resolved : resolved[i] # "business_exception"
  <1>. DEFINE kinds == {resolved[i] : i \in DOMAIN resolved}
  <1>1. kinds \cap {Null, "waiting_for_documents"} = {}
    BY DEF SubmissionTarget
  <1>2. \/ kinds = {"business_exception"} /\ target = "pending_approval"
        \/ kinds \cap {"document_data_error", "matching_error"} # {} /\ target = "pending_void"
    BY <1>1 DEF SubmissionTarget
  <1>3. CASE kinds = {"business_exception"} /\ target = "pending_approval"
    BY <1>3
  <1>4. CASE kinds \cap {"document_data_error", "matching_error"} # {} /\ target = "pending_void"
    <2>1. PICK i \in DOMAIN resolved : resolved[i] \in {"document_data_error", "matching_error"}
      BY <1>4
    <2>. QED BY <1>1, <1>4, <2>1
  <1>. QED BY <1>2, <1>3, <1>4

(* The steps of the workflow, told of a row with its items and of what     *)
(* they become.                                                            *)
Moves(old, resolved, new, after) ==
    \/ /\ old.status = "unassigned" /\ new.status = "in_progress"
       /\ new.assignee \in Reviewers \ Inactive /\ after = resolved
    \/ /\ old.status \in {"in_progress", "pending_approval", "pending_void"}
       /\ new.status = old.status
       /\ new.assignee \in Reviewers \ Inactive /\ after = resolved
    \/ /\ old.status = "in_progress" /\ new.status = old.status /\ new.assignee = old.assignee
       /\ \E i \in Items \cap DOMAIN resolved, x \in Resolutions :
             after = [resolved EXCEPT ![i] = x]
    \/ /\ \/ old.status = "in_progress" /\ new.status \in {"pending_approval", "pending_void"}
          \/ old.status = "pending_approval" /\ new.status = "approved"
          \/ old.status = "pending_void" /\ new.status = "voided"
       /\ Workflow!CallsFor(new.status, resolved)
       /\ new.assignee = old.assignee /\ after = resolved
    \/ /\ old.status \in {"pending_approval", "pending_void"} /\ new.status = "in_progress"
       /\ new.assignee = old.assignee /\ after = resolved

\* What Mutation returns.
LEMMA MutationFields ==
    ASSUME NEW r \in Copies, NEW status \in Statuses, NEW assignee \in Users \cup {Null},
           NEW action \in AuditRow,
           action.item # Null => action.item \in DOMAIN r.items /\ action.to \in Resolutions,
           NEW m \in Mutation(r, status, assignee, action)
    PROVE  /\ m.row = [status |-> status, assignee |-> assignee, revision |-> r.row.revision + 1]
           /\ m.row \in CaseRow /\ m.action = action
           /\ action.item = Null => m.items = r.items
           /\ action.item # Null => m.items = [r.items EXCEPT ![action.item] = action.to]
           /\ m.items \in CaseItems /\ DOMAIN m.items = DOMAIN r.items
  <1>1. /\ m.row = [status |-> status, assignee |-> assignee, revision |-> r.row.revision + 1]
        /\ m.action = action
        /\ m.items = IF action.item = Null THEN r.items
                     ELSE [r.items EXCEPT ![action.item] = action.to]
    BY DEF Mutation
  <1>2. r.row \in CaseRow /\ r.items \in CaseItems
    BY DEF Copies
  <1>3. m.row \in CaseRow
    BY <1>1, <1>2 DEF CaseRow
  <1>4. PICK S \in SUBSET Items : r.items \in [S -> Resolutions \cup {Null}]
    BY <1>2 DEF CaseItems
  <1>5. m.items \in [S -> Resolutions \cup {Null}]
    BY <1>1, <1>4
  <1>. QED BY <1>1, <1>3, <1>4, <1>5 DEF CaseItems

(* A request that its row admitted asks for a step of the workflow, with   *)
(* the next revision and the audit row that tells of it.                   *)
LEMMA OutcomesAreMoves ==
    ASSUME NEW r \in Copies, Admitted(r), NEW m \in Outcome(r),
           (r.row.status \in {"none", "unassigned"}) <=> (r.row.assignee = Null)
    PROVE  /\ m.row \in CaseRow /\ m.row.revision = r.row.revision + 1
           /\ m.row.status \notin {"none", "unassigned"} /\ m.row.assignee # Null
           /\ m.action \in AuditRow
           /\ m.action.item = Null => m.items = r.items
           /\ m.action.item # Null => m.items = [r.items EXCEPT ![m.action.item] = m.action.to]
           /\ m.items \in CaseItems /\ DOMAIN m.items = DOMAIN r.items
           /\ Moves(r.row, r.items, m.row, m.items)
  <1>. DEFINE x == r.command
  <1>1. /\ r.row \in CaseRow /\ r.items \in CaseItems /\ x \in Commands
        /\ r.row.status \in Statuses \cup {"none"} /\ r.row.assignee \in Users \cup {Null}
        /\ r.row.revision \in Nat
    BY DEF Copies, CaseRow
  <1>2. Null \notin Users /\ Null \notin Items /\ Typed \subseteq Resolutions /\ Null \notin Resolutions
    BY Roles, Choices
  <1>3. CASE x.op = "view"
    BY <1>3 DEF Outcome
  <1>4. CASE x.op = "claim" /\ x.user \in Senders
    <2>. DEFINE action == Action("claimed", Null, x.user)
    <2>1. m \in Mutation(r, "in_progress", x.user, action)
      BY <1>4 DEF Outcome, Claim
    <2>2. action \in AuditRow /\ action.item = Null /\ x.user \in Users \cup {Null}
      BY <1>4 DEF AuditRow, Action, Senders
    <2>3. x.user \in Reviewers \ Inactive /\ r.row.status = "unassigned"
      BY <1>4 DEF Admitted, Senders
    <2>. HIDE DEF action
    <2>4. /\ m.row = [status |-> "in_progress", assignee |-> x.user, revision |-> r.row.revision + 1]
          /\ m.row \in CaseRow /\ m.action = action /\ m.items = r.items
      BY <1>1, <2>1, <2>2 DEF Mutation, CaseRow, Statuses
    <2>. QED BY <1>1, <1>2, <2>2, <2>3, <2>4 DEF Moves, Users
  <1>5. CASE x.op = "reassign" /\ x.user \in Senders /\ x.target \in Users
    <2>. DEFINE action == Action("reassigned", Null, x.target)
    <2>1. m \in Mutation(r, r.row.status, x.target, action)
      BY <1>5 DEF Outcome, Reassign
    <2>2. action \in AuditRow /\ action.item = Null /\ x.target \in Users \cup {Null}
      BY <1>5 DEF AuditRow, Action, Senders
    <2>3. /\ x.target \in Reviewers \ Inactive
          /\ r.row.status \in {"in_progress", "pending_approval", "pending_void"}
      BY <1>1, <1>5 DEF Admitted, IsActiveReviewer, MutableCase, Terminal, Statuses
    <2>. HIDE DEF action
    <2>4. /\ m.row = [status |-> r.row.status, assignee |-> x.target, revision |-> r.row.revision + 1]
          /\ m.row \in CaseRow /\ m.action = action /\ m.items = r.items
      BY <1>1, <2>1, <2>2, <2>3 DEF Mutation, CaseRow, Statuses
    <2>. QED BY <1>1, <1>2, <2>2, <2>3, <2>4 DEF Moves, Users
  <1>6. CASE x.op = "resolve" /\ x.user \in Senders /\ x.item \in Items /\ x.resolution \in Typed
    <2>. DEFINE action == Action("resolution_changed", x.item, x.resolution)
    <2>1. x.item \in DOMAIN r.items /\ m \in Mutation(r, r.row.status, r.row.assignee, action)
      BY <1>6 DEF Outcome, SetResolution
    <2>2. action \in AuditRow /\ action.item = x.item /\ action.to = x.resolution
      BY <1>2, <1>6 DEF AuditRow, Action
    <2>3. r.row.status = "in_progress" /\ x.item # Null /\ x.resolution \in Resolutions
      BY <1>2, <1>6 DEF Admitted
    <2>. HIDE DEF action
    <2>4. /\ m.row = [status |-> r.row.status, assignee |-> r.row.assignee, revision |-> r.row.revision + 1]
          /\ m.row \in CaseRow /\ m.action = action /\ m.items = [r.items EXCEPT ![x.item] = x.resolution]
          /\ m.items \in CaseItems /\ DOMAIN m.items = DOMAIN r.items
      BY <1>1, <2>1, <2>2, <2>3, MutationFields DEF Statuses
    <2>5. Moves(r.row, r.items, m.row, m.items)
      BY <1>6, <2>1, <2>3, <2>4 DEF Moves
    <2>. QED BY <1>1, <2>2, <2>3, <2>4, <2>5
  <1>7. CASE x.op = "submit" /\ x.user \in Senders /\ x.target \in {"pending_approval", "pending_void"}
    <2>. DEFINE action == Action("submitted", Null, x.target)
    <2>1. x.target \in SubmissionTarget(r.items) /\ m \in Mutation(r, x.target, r.row.assignee, action)
      BY <1>7 DEF Outcome, Submit
    <2>2. action \in AuditRow /\ action.item = Null
      BY <1>7 DEF AuditRow, Action, Statuses
    <2>3. r.row.status = "in_progress"
      BY <1>7 DEF Admitted
    <2>4. Workflow!CallsFor(x.target, r.items)
      BY <1>7, <2>1, TargetsAreCalledFor
         DEF Workflow!CallsFor, Workflow!AllExceptions, Workflow!SomeError
    <2>. HIDE DEF action
    <2>5. /\ m.row = [status |-> x.target, assignee |-> r.row.assignee, revision |-> r.row.revision + 1]
          /\ m.row \in CaseRow /\ m.action = action /\ m.items = r.items
      BY <1>1, <1>7, <2>1, <2>2 DEF Mutation, CaseRow, Statuses
    <2>. QED BY <1>1, <1>7, <2>2, <2>3, <2>4, <2>5 DEF Moves
  <1>8. CASE /\ x.op = "decide" /\ x.user \in Senders
             /\ \/ x.from = "pending_approval" /\ x.target = "approved"
                \/ x.from = "pending_void" /\ x.target = "voided"
    <2>. DEFINE action == Action("completed", Null, x.target)
    <2>1. x.from \in SubmissionTarget(r.items) /\ m \in Mutation(r, x.target, r.row.assignee, action)
      BY <1>8 DEF Outcome, Complete
    <2>2. action \in AuditRow /\ action.item = Null
      BY <1>8 DEF AuditRow, Action, Statuses
    <2>3. r.row.status = x.from
      BY <1>8 DEF Admitted
    <2>4. Workflow!CallsFor(x.target, r.items)
      BY <1>8, <2>1, TargetsAreCalledFor
         DEF Workflow!CallsFor, Workflow!AllExceptions, Workflow!SomeError
    <2>. HIDE DEF action
    <2>5. /\ m.row = [status |-> x.target, assignee |-> r.row.assignee, revision |-> r.row.revision + 1]
          /\ m.row \in CaseRow /\ m.action = action /\ m.items = r.items
      BY <1>1, <1>8, <2>1, <2>2 DEF Mutation, CaseRow, Statuses
    <2>. QED BY <1>1, <1>8, <2>2, <2>3, <2>4, <2>5 DEF Moves
  <1>9. CASE x.op = "return" /\ x.user \in Senders
    <2>. DEFINE action == Action("returned", Null, "in_progress")
    <2>1. m \in Mutation(r, "in_progress", r.row.assignee, action)
      BY <1>9 DEF Outcome, ReturnCase
    <2>2. action \in AuditRow /\ action.item = Null
      BY DEF AuditRow, Action, Statuses
    <2>3. r.row.status \in {"pending_approval", "pending_void"}
      BY <1>9 DEF Admitted
    <2>. HIDE DEF action
    <2>4. /\ m.row = [status |-> "in_progress", assignee |-> r.row.assignee, revision |-> r.row.revision + 1]
          /\ m.row \in CaseRow /\ m.action = action /\ m.items = r.items
      BY <1>1, <2>1, <2>2 DEF Mutation, CaseRow, Statuses
    <2>. QED BY <1>1, <2>2, <2>3, <2>4 DEF Moves
  <1>. QED BY <1>1, <1>3, <1>4, <1>5, <1>6, <1>7, <1>8, <1>9, CommandFields

\* The audit row of an outcome tells what the outcome is.
LEMMA OutcomesAreTold ==
    ASSUME NEW r \in Copies, Admitted(r), NEW m \in Outcome(r)
    PROVE  Shown(m.row, m.items) = Replay(Shown(r.row, r.items), m.action)
  <1>. DEFINE x == r.command
              old == Shown(r.row, r.items)
  <1>1. /\ x \in Commands /\ Null \notin Items
        /\ old = [status |-> r.row.status, assignee |-> r.row.assignee, items |-> r.items]
    BY Roles DEF Copies, Shown
  <1>2. ASSUME NEW status, NEW assignee, NEW action, m \in Mutation(r, status, assignee, action)
        PROVE  /\ m.action = action
               /\ Shown(m.row, m.items) =
                    [status |-> status, assignee |-> assignee,
                     items |-> IF action.item = Null THEN r.items
                               ELSE [r.items EXCEPT ![action.item] = action.to]]
    BY <1>2 DEF Mutation, Shown
  <1>. HIDE DEF old
  <1>3. CASE x.op = "view"
    BY <1>3 DEF Outcome
  <1>4. CASE x.op = "claim" /\ x.user \in Senders
    <2>. DEFINE action == Action("claimed", Null, x.user)
    <2>1. m \in Mutation(r, "in_progress", x.user, action)
      BY <1>4 DEF Outcome, Claim
    <2>2. action.kind = "claimed" /\ action.item = Null /\ action.to = x.user
      BY DEF Action
    <2>. HIDE DEF action
    <2>3. Replay(old, action) = [status |-> "in_progress", assignee |-> x.user, items |-> r.items]
      BY <1>1, <2>2 DEF Replay
    <2>. QED BY <1>2, <2>1, <2>2, <2>3 DEF old
  <1>5. CASE x.op = "reassign" /\ x.user \in Senders /\ x.target \in Users
    <2>. DEFINE action == Action("reassigned", Null, x.target)
    <2>1. m \in Mutation(r, r.row.status, x.target, action)
      BY <1>5 DEF Outcome, Reassign
    <2>2. action.kind = "reassigned" /\ action.item = Null /\ action.to = x.target
      BY DEF Action
    <2>. HIDE DEF action
    <2>3. Replay(old, action) = [status |-> r.row.status, assignee |-> x.target, items |-> r.items]
      BY <1>1, <2>2 DEF Replay
    <2>. QED BY <1>2, <2>1, <2>2, <2>3 DEF old
  <1>6. CASE x.op = "resolve" /\ x.user \in Senders /\ x.item \in Items /\ x.resolution \in Typed
    <2>. DEFINE action == Action("resolution_changed", x.item, x.resolution)
    <2>1. m \in Mutation(r, r.row.status, r.row.assignee, action)
      BY <1>6 DEF Outcome, SetResolution
    <2>2. action.kind = "resolution_changed" /\ action.item = x.item /\ action.to = x.resolution
      BY DEF Action
    <2>. HIDE DEF action
    <2>3. Replay(old, action) = [status |-> r.row.status, assignee |-> r.row.assignee,
                                 items |-> [r.items EXCEPT ![x.item] = x.resolution]]
      BY <1>1, <2>2 DEF Replay
    <2>. QED BY <1>1, <1>2, <1>6, <2>1, <2>2, <2>3 DEF old
  <1>7. CASE x.op = "submit" /\ x.user \in Senders /\ x.target \in {"pending_approval", "pending_void"}
    <2>. DEFINE action == Action("submitted", Null, x.target)
    <2>1. m \in Mutation(r, x.target, r.row.assignee, action)
      BY <1>7 DEF Outcome, Submit
    <2>2. action.kind = "submitted" /\ action.item = Null /\ action.to = x.target
      BY DEF Action
    <2>. HIDE DEF action
    <2>3. Replay(old, action) = [status |-> x.target, assignee |-> r.row.assignee, items |-> r.items]
      BY <1>1, <2>2 DEF Replay
    <2>. QED BY <1>2, <2>1, <2>2, <2>3 DEF old
  <1>8. CASE x.op = "decide" /\ x.user \in Senders
    <2>. DEFINE action == Action("completed", Null, x.target)
    <2>1. m \in Mutation(r, x.target, r.row.assignee, action)
      BY <1>8 DEF Outcome, Complete
    <2>2. action.kind = "completed" /\ action.item = Null /\ action.to = x.target
      BY DEF Action
    <2>. HIDE DEF action
    <2>3. Replay(old, action) = [status |-> x.target, assignee |-> r.row.assignee, items |-> r.items]
      BY <1>1, <2>2 DEF Replay
    <2>. QED BY <1>2, <2>1, <2>2, <2>3 DEF old
  <1>9. CASE x.op = "return" /\ x.user \in Senders
    <2>. DEFINE action == Action("returned", Null, "in_progress")
    <2>1. m \in Mutation(r, "in_progress", r.row.assignee, action)
      BY <1>9 DEF Outcome, ReturnCase
    <2>2. action.kind = "returned" /\ action.item = Null /\ action.to = "in_progress"
      BY DEF Action
    <2>. HIDE DEF action
    <2>3. Replay(old, action) = [status |-> "in_progress", assignee |-> r.row.assignee, items |-> r.items]
      BY <1>1, <2>2 DEF Replay
    <2>. QED BY <1>2, <2>1, <2>2, <2>3 DEF old
  <1>. QED BY <1>1, <1>3, <1>4, <1>5, <1>6, <1>7, <1>8, <1>9, CommandFields

-----------------------------------------------------------------------------
(* A save that finds the revision it read writes a step of the workflow    *)
(* over the case as it is: the copies it was decided by were the case.     *)
LEMMA SavesAreMoves ==
    ASSUME CaseInv, NEW q \in Requests, Save(q)
    PROVE  \E c \in Cases, new \in CaseRow, after \in CaseItems, a \in AuditRow, x \in Copies :
              /\ row' = [row EXCEPT ![c] = new]
              /\ items' = [items EXCEPT ![c] = after]
              /\ actions' = [actions EXCEPT ![c] = Append(actions[c], a)]
              /\ request' = [request EXCEPT ![q] = x]
              /\ x.stage = "answered" /\ x.case = c /\ x.row = new
              /\ new.revision = row[c].revision + 1
              /\ new.status \notin {"none", "unassigned"} /\ new.assignee # Null
              /\ DOMAIN after = DOMAIN items[c]
              /\ Moves(row[c], items[c], new, after)
              /\ request[q] # Null /\ request[q].stage = "loaded" /\ request[q].case = c
              /\ request[q].row.revision = row[c].revision
              /\ x.items = after /\ x.trail = request[q].trail + 1
              /\ Shown(new, after) = Replay(Shown(row[c], items[c]), a)
  <1>. DEFINE r == request[q]
              c == r.case
  <1>1. request[q] # Null /\ r \in Copies /\ r.stage = "loaded" /\ c \in Cases
    BY DEF CaseInv, TypeOK, Save, Copies
  <1>2. PICK m \in Outcome(r) :
             /\ Unchanged(c, r)
             /\ row' = [row EXCEPT ![c] = m.row]
             /\ items' = IF m.action.item = Null THEN items
                         ELSE [items EXCEPT ![c][m.action.item] = m.action.to]
             /\ actions' = [actions EXCEPT ![c] = Append(@, m.action)]
             /\ request' = [request EXCEPT ![q] = Answer(r, m)]
    BY DEF Save
  <1>3. Admitted(r) /\ r.row = row[c] /\ r.items = items[c]
    BY <1>1, <1>2 DEF CaseInv, CopiesAreDated, Reading, Unread, Unchanged
  <1>4. (r.row.status \in {"none", "unassigned"}) <=> (r.row.assignee = Null)
    BY <1>1, <1>3 DEF CaseInv, TypeOK
  <1>5. /\ m.row \in CaseRow /\ m.row.revision = r.row.revision + 1
        /\ m.row.status \notin {"none", "unassigned"} /\ m.row.assignee # Null
        /\ m.action \in AuditRow
        /\ m.action.item = Null => m.items = r.items
        /\ m.action.item # Null => m.items = [r.items EXCEPT ![m.action.item] = m.action.to]
        /\ m.items \in CaseItems /\ DOMAIN m.items = DOMAIN r.items
        /\ Moves(r.row, r.items, m.row, m.items)
    BY <1>1, <1>3, <1>4, OutcomesAreMoves
  <1>. DEFINE x == Answer(r, m)
  <1>6. /\ x \in Copies /\ x.stage = "answered" /\ x.case = c /\ x.row = m.row
        /\ x.items = m.items /\ x.trail = r.trail + 1
    <2>1. r.trail + 1 \in Nat
      BY <1>1 DEF Copies
    <2>. QED BY <1>1, <1>5, <2>1 DEF Copies, Stages, Answer
  <1>7. request' = [request EXCEPT ![q] = x]
    BY <1>2
  <1>8. items' = [items EXCEPT ![c] = m.items]
    BY <1>1, <1>2, <1>3, <1>5 DEF CaseInv, TypeOK
  <1>9. actions' = [actions EXCEPT ![c] = Append(actions[c], m.action)]
    BY <1>1, <1>2
  <1>10. Shown(m.row, m.items) = Replay(Shown(row[c], items[c]), m.action)
    BY <1>1, <1>3, <1>4, OutcomesAreTold
  <1>. HIDE DEF x
  <1>. c \in Cases /\ m.row \in CaseRow /\ m.items \in CaseItems /\ m.action \in AuditRow
       /\ x \in Copies
    BY <1>1, <1>5, <1>6
  <1>. WITNESS c \in Cases, m.row \in CaseRow, m.items \in CaseItems, m.action \in AuditRow,
               x \in Copies
  <1>. QED BY <1>1, <1>2, <1>3, <1>5, <1>6, <1>7, <1>8, <1>9, <1>10

\* A request that only looks leaves the case alone and keeps dated copies.
LEMMA LookingKeeps ==
    ASSUME CaseInv, UNCHANGED <<row, items, actions>>, NEW q \in Requests,
           NEW x \in Copies \cup {Null}, request' = [request EXCEPT ![q] = x],
           x # Null =>
              /\ x.row.revision =< row[x.case].revision
              /\ x.stage \in Reading => Admitted(x)
              /\ x.stage = "again" => x.command.op = "view" /\ x.tries < 3
              /\ x.stage \in Reading /\ x.row.revision = row[x.case].revision =>
                    /\ x.row = row[x.case]
                    /\ x.stage \notin Unread => x.items = items[x.case]
    PROVE  CaseInv'
  <1>1. request'[q] = x /\ \A p \in Requests \ {q} : request'[p] = request[p]
    BY DEF CaseInv, TypeOK
  <1>2. TypeOK'
    BY DEF CaseInv, TypeOK
  <1>3. CopiesAreDated'
    <2>. SUFFICES ASSUME NEW p \in Requests, request'[p] # Null
                  PROVE  /\ request'[p].row.revision =< row'[request'[p].case].revision
                         /\ request'[p].stage \in Reading => Admitted(request'[p])
                         /\ request'[p].stage = "again" =>
                               request'[p].command.op = "view" /\ request'[p].tries < 3
                         /\ request'[p].stage \in Reading
                            /\ request'[p].row.revision = row'[request'[p].case].revision =>
                               /\ request'[p].row = row'[request'[p].case]
                               /\ request'[p].stage \notin Unread =>
                                     request'[p].items = items'[request'[p].case]
      BY DEF CopiesAreDated, Admitted, IsAssignee, IsActiveReviewer, MutableCase
    <2>1. CASE p = q
      BY <1>1, <2>1
    <2>2. CASE p # q
      BY <1>1, <2>2 DEF CaseInv, CopiesAreDated
    <2>. QED BY <2>1, <2>2
  <1>4. DecisionsAreSupported'
    BY DEF CaseInv, DecisionsAreSupported
  <1>. QED BY <1>2, <1>3, <1>4 DEF CaseInv

-----------------------------------------------------------------------------
LEMMA CaseInit == Init => CaseInv
  <1>. SUFFICES ASSUME Init PROVE CaseInv
    OBVIOUS
  <1>1. NoCase \in CaseRow /\ NoItems \in CaseItems /\ DOMAIN NoItems = {} /\ <<>> \in Seq(AuditRow)
    BY DEF NoCase, NoItems, CaseRow, CaseItems
  <1>2. TypeOK
    BY <1>1 DEF Init, TypeOK, NoCase
  <1>3. CopiesAreDated /\ DecisionsAreSupported
    BY DEF Init, CopiesAreDated, DecisionsAreSupported, NoCase
  <1>. QED BY <1>2, <1>3 DEF CaseInv

\* A save keeps the invariant: the copies of every other request are now old.
LEMMA SavesKeep ==
    ASSUME CaseInv, NEW q \in Requests, Save(q)
    PROVE  CaseInv'
  <1>1. PICK c \in Cases, new \in CaseRow, after \in CaseItems, a \in AuditRow, x \in Copies :
              /\ row' = [row EXCEPT ![c] = new]
              /\ items' = [items EXCEPT ![c] = after]
              /\ actions' = [actions EXCEPT ![c] = Append(actions[c], a)]
              /\ request' = [request EXCEPT ![q] = x]
              /\ x.stage = "answered" /\ x.case = c /\ x.row = new
              /\ new.revision = row[c].revision + 1
              /\ new.status \notin {"none", "unassigned"} /\ new.assignee # Null
              /\ DOMAIN after = DOMAIN items[c]
              /\ Moves(row[c], items[c], new, after)
    BY SavesAreMoves
  <1>2. /\ row'[c] = new /\ items'[c] = after /\ request'[q] = x
        /\ \A d \in Cases \ {c} : row'[d] = row[d] /\ items'[d] = items[d] /\ actions'[d] = actions[d]
        /\ \A p \in Requests \ {q} : request'[p] = request[p]
    BY <1>1 DEF CaseInv, TypeOK
  <1>3. row[c] \in CaseRow /\ row[c].revision \in Nat /\ row[c].status # "none"
    BY <1>1 DEF CaseInv, TypeOK, CaseRow, Moves
  <1>4. TypeOK'
    <2>1. actions'[c] \in Seq(AuditRow) /\ Len(actions'[c]) = row[c].revision + 1
      BY <1>1 DEF CaseInv, TypeOK
    <2>2. /\ row' \in [Cases -> CaseRow] /\ items' \in [Cases -> CaseItems]
          /\ actions' \in [Cases -> Seq(AuditRow)] /\ request' \in [Requests -> Copies \cup {Null}]
      BY <1>1, <2>1 DEF CaseInv, TypeOK
    <2>3. DOMAIN items[c] # {}
      BY <1>3 DEF CaseInv, TypeOK
    <2>4. ASSUME NEW d \in Cases
          PROVE  /\ row'[d].revision = Len(actions'[d])
                 /\ (row'[d].status \in {"none", "unassigned"}) <=> (row'[d].assignee = Null)
                 /\ (row'[d].status = "none") <=> (DOMAIN items'[d] = {})
      <3>1. CASE d = c
        BY <1>1, <1>2, <2>1, <2>3, <3>1
      <3>2. CASE d # c
        BY <1>2, <3>2 DEF CaseInv, TypeOK
      <3>. QED BY <3>1, <3>2
    <2>. QED BY <2>2, <2>4 DEF TypeOK
  <1>5. CopiesAreDated'
    <2>. SUFFICES ASSUME NEW p \in Requests, request'[p] # Null
                  PROVE  /\ request'[p].row.revision =< row'[request'[p].case].revision
                         /\ request'[p].stage \in Reading => Admitted(request'[p])
                         /\ request'[p].stage = "again" =>
                               request'[p].command.op = "view" /\ request'[p].tries < 3
                         /\ request'[p].stage \in Reading
                            /\ request'[p].row.revision = row'[request'[p].case].revision =>
                               /\ request'[p].row = row'[request'[p].case]
                               /\ request'[p].stage \notin Unread =>
                                     request'[p].items = items'[request'[p].case]
      BY DEF CopiesAreDated, Admitted, IsAssignee, IsActiveReviewer, MutableCase
    <2>1. CASE p = q
      BY <1>1, <1>2, <1>3, <2>1 DEF Reading
    <2>2. CASE p # q
      <3>1. /\ request[p] # Null /\ request'[p] = request[p] /\ request[p].case \in Cases
            /\ request[p].row.revision \in Nat
        BY <1>2, <2>2 DEF CaseInv, TypeOK, Copies, CaseRow
      <3>2. CASE request[p].case = c
        BY <1>1, <1>2, <1>3, <3>1, <3>2 DEF CaseInv, CopiesAreDated
      <3>3. CASE request[p].case # c
        BY <1>2, <3>1, <3>3 DEF CaseInv, CopiesAreDated
      <3>. QED BY <3>2, <3>3
    <2>. QED BY <2>1, <2>2
  <1>6. DecisionsAreSupported'
    <2>1. CASE new.status = row[c].status /\ after = items[c]
      BY <1>1, <1>2, <2>1 DEF CaseInv, DecisionsAreSupported
    <2>2. CASE new.status = "in_progress"
      BY <1>1, <1>2, <2>2 DEF CaseInv, DecisionsAreSupported
    <2>3. CASE Workflow!CallsFor(new.status, items[c]) /\ after = items[c]
               /\ new.status \in {"pending_approval", "pending_void", "approved", "voided"}
      BY <1>1, <1>2, <2>3 DEF CaseInv, DecisionsAreSupported,
         Workflow!CallsFor, Workflow!AllExceptions, Workflow!SomeError
    <2>. QED BY <1>1, <2>1, <2>2, <2>3 DEF Moves
  <1>. QED BY <1>4, <1>5, <1>6 DEF CaseInv

(* Every other step of a request, and the opening of a case.               *)
LEMMA CaseStep == CaseInv /\ [Next]_vars => CaseInv'
  <1>. SUFFICES ASSUME CaseInv, [Next]_vars PROVE CaseInv'
    OBVIOUS
  <1>1. ASSUME NEW c \in Cases, Create(c) PROVE CaseInv'
    <2>1. PICK S \in (SUBSET Items) \ {{}} : items' = [items EXCEPT ![c] = [i \in S |-> Null]]
      BY <1>1 DEF Create
    <2>. DEFINE new == [status |-> "unassigned", assignee |-> Null, revision |-> 1]
                a == Action("created", Null, Null)
                none == [i \in S |-> Null]
    <2>2. /\ row[c] = NoCase /\ row' = [row EXCEPT ![c] = new]
          /\ actions' = [actions EXCEPT ![c] = <<a>>] /\ request' = request
      BY <1>1 DEF Create
    <2>3. new \in CaseRow /\ a \in AuditRow
      BY DEF CaseRow, Statuses, AuditRow, Action
    <2>4. none \in CaseItems /\ DOMAIN none # {}
      <3>1. none \in [S -> Resolutions \cup {Null}] /\ DOMAIN none = S
        OBVIOUS
      <3>. QED BY <3>1 DEF CaseItems
    <2>5. TypeOK'
      <3>. HIDE DEF a, none
      <3>1. <<a>> \in Seq(AuditRow) /\ Len(<<a>>) = 1
        BY <2>3
      <3>2. items' = [items EXCEPT ![c] = none]
        BY <2>1 DEF none
      <3>3. /\ row'[c] = new /\ items'[c] = none /\ actions'[c] = <<a>>
            /\ \A d \in Cases \ {c} :
                  row'[d] = row[d] /\ items'[d] = items[d] /\ actions'[d] = actions[d]
        BY <2>2, <3>2 DEF CaseInv, TypeOK
      <3>4. /\ row' \in [Cases -> CaseRow] /\ items' \in [Cases -> CaseItems]
            /\ actions' \in [Cases -> Seq(AuditRow)] /\ request' \in [Requests -> Copies \cup {Null}]
        BY <2>2, <2>3, <2>4, <3>1, <3>2 DEF CaseInv, TypeOK
      <3>5. ASSUME NEW d \in Cases
            PROVE  /\ row'[d].revision = Len(actions'[d])
                   /\ (row'[d].status \in {"none", "unassigned"}) <=> (row'[d].assignee = Null)
                   /\ (row'[d].status = "none") <=> (DOMAIN items'[d] = {})
        <4>1. CASE d = c
          <5>1. /\ row'[d].revision = 1 /\ row'[d].status = "unassigned" /\ row'[d].assignee = Null
                /\ items'[d] = none /\ actions'[d] = <<a>>
            BY <3>3, <4>1
          <5>. QED BY <2>4, <3>1, <5>1
        <4>2. CASE d # c
          BY <3>3, <4>2 DEF CaseInv, TypeOK
        <4>. QED BY <4>1, <4>2
      <3>. QED BY <3>4, <3>5 DEF TypeOK
    <2>6. CopiesAreDated'
      <3>. SUFFICES ASSUME NEW p \in Requests, request[p] # Null
                    PROVE  /\ request[p].row.revision =< row'[request[p].case].revision
                           /\ request[p].stage \in Reading => Admitted(request[p])
                           /\ request[p].stage = "again" =>
                                 request[p].command.op = "view" /\ request[p].tries < 3
                           /\ request[p].stage \in Reading
                              /\ request[p].row.revision = row'[request[p].case].revision =>
                                 /\ request[p].row = row'[request[p].case]
                                 /\ request[p].stage \notin Unread =>
                                       request[p].items = items'[request[p].case]
        <4>1. request' = request
          BY <2>2
        <4>2. \A r : Admitted(r)' <=> Admitted(r)
          BY DEF Admitted, IsAssignee, IsActiveReviewer, MutableCase
        <4>. QED BY <4>1, <4>2 DEF CopiesAreDated
      <3>1. request[p] \in Copies
        BY DEF CaseInv, TypeOK
      <3>2. request[p].case \in Cases /\ request[p].row \in CaseRow
        BY <3>1 DEF Copies
      <3>3. CASE request[p].case = c
        BY <2>2, <3>2, <3>3 DEF CaseInv, TypeOK, CopiesAreDated, NoCase, CaseRow
      <3>4. CASE request[p].case # c
        BY <2>1, <2>2, <3>2, <3>4 DEF CaseInv, CopiesAreDated, TypeOK
      <3>. QED BY <3>3, <3>4
    <2>7. DecisionsAreSupported'
      BY <2>1, <2>2 DEF CaseInv, DecisionsAreSupported, TypeOK
    <2>. QED BY <2>5, <2>6, <2>7 DEF CaseInv
  <1>2. ASSUME NEW q \in Requests, NEW c \in Cases, NEW command \in Commands, ReadCase(q, c, command)
        PROVE  CaseInv'
    <2>. DEFINE r == [stage |-> "row", case |-> c, command |-> command, tries |-> 1,
                      row |-> row[c], items |-> NoItems, trail |-> 0]
    <2>1. /\ Admitted(r) /\ request' = [request EXCEPT ![q] = r]
          /\ UNCHANGED <<row, items, actions>>
      BY <1>2 DEF ReadCase
    <2>2. r \in Copies /\ r.row = row[c] /\ r.case = c /\ r.stage = "row"
      <3>1. NoItems \in CaseItems
        BY DEF CaseItems, NoItems
      <3>. QED BY <3>1 DEF Copies, Stages, CaseInv, TypeOK
    <2>3. row[c].revision \in Nat
      BY DEF CaseInv, TypeOK, CaseRow
    <2>. HIDE DEF r
    <2>4. /\ r.row.revision =< row[r.case].revision
          /\ r.stage \in Reading => Admitted(r)
          /\ r.stage = "again" => r.command.op = "view" /\ r.tries < 3
          /\ r.stage \in Reading /\ r.row.revision = row[r.case].revision =>
                r.row = row[r.case] /\ (r.stage \notin Unread => r.items = items[r.case])
      BY <2>1, <2>2, <2>3 DEF Unread
    <2>. QED BY <2>1, <2>2, <2>4, LookingKeeps
  <1>3. ASSUME NEW q \in Requests, ReadItems(q) PROVE CaseInv'
    <2>. DEFINE r == request[q]
                x == [r EXCEPT !.stage = ByOp(r, "items", "loaded"), !.items = items[r.case]]
    <2>1. r # Null /\ r \in Copies /\ r.stage \in Unread /\ r.case \in Cases
      BY <1>3 DEF ReadItems, ByOp, Unread, CaseInv, TypeOK, Copies
    <2>2. request' = [request EXCEPT ![q] = x] /\ UNCHANGED <<row, items, actions>>
      BY <1>3, <2>1 DEF ReadItems, CaseInv, TypeOK
    <2>3. /\ x \in Copies /\ x.stage \in {"items", "loaded"} /\ x.case = r.case
          /\ x.row = r.row /\ x.command = r.command /\ x.items = items[r.case]
      BY <2>1 DEF Copies, Stages, CaseInv, TypeOK, ByOp
    <2>4. Admitted(r) => Admitted(x)
      BY <2>3 DEF Admitted, IsAssignee, MutableCase
    <2>. HIDE DEF x
    <2>. QED BY <2>1, <2>2, <2>3, <2>4, LookingKeeps DEF CaseInv, CopiesAreDated, Reading, Unread
  <1>4. ASSUME NEW q \in Requests, ReadActions(q) PROVE CaseInv'
    <2>. DEFINE r == request[q]
                x == [r EXCEPT !.stage = ByOp(r, "loaded", "trail"), !.trail = Len(actions[r.case])]
    <2>1. r # Null /\ r \in Copies /\ r.stage \in {"items", "row"} /\ r.case \in Cases
      BY <1>4 DEF ReadActions, ByOp, CaseInv, TypeOK, Copies
    <2>2. request' = [request EXCEPT ![q] = x] /\ UNCHANGED <<row, items, actions>>
      BY <1>4, <2>1 DEF ReadActions, CaseInv, TypeOK
    <2>3. Len(actions[r.case]) \in Nat
      BY <2>1 DEF CaseInv, TypeOK
    <2>4. /\ x \in Copies /\ x.stage \in {"loaded", "trail"} /\ x.case = r.case
          /\ x.row = r.row /\ x.command = r.command /\ x.items = r.items
          /\ x.stage = "loaded" => r.stage = "items"
      BY <1>4, <2>1, <2>3 DEF Copies, Stages, ByOp, ReadActions
    <2>5. Admitted(r) => Admitted(x)
      BY <2>4 DEF Admitted, IsAssignee, MutableCase
    <2>. HIDE DEF x
    <2>. QED BY <2>1, <2>2, <2>4, <2>5, LookingKeeps DEF CaseInv, CopiesAreDated, Reading, Unread
  <1>5. ASSUME NEW q \in Requests, Save(q) PROVE CaseInv'
    BY <1>5, SavesKeep
  <1>6. ASSUME NEW q \in Requests, View(q) PROVE CaseInv'
    <2>. DEFINE r == request[q]
    <2>1. /\ r # Null /\ r \in Copies /\ r.command.op = "view"
          /\ r.row.revision =< row[r.case].revision
      BY <1>6 DEF View, CaseInv, TypeOK, CopiesAreDated
    <2>2. PICK stage \in {"answered", "again"} :
              /\ request' = [request EXCEPT ![q].stage = stage]
              /\ stage = "again" => r.tries < 3
      BY <1>6 DEF View, Advance
    <2>. DEFINE x == [r EXCEPT !.stage = stage]
    <2>3. request' = [request EXCEPT ![q] = x] /\ UNCHANGED <<row, items, actions>>
      BY <1>6, <2>1, <2>2 DEF View, CaseInv, TypeOK
    <2>4. /\ x \in Copies /\ x.stage \in {"answered", "again"} /\ x.case = r.case
          /\ x.row = r.row /\ x.command = r.command /\ x.tries = r.tries /\ x.stage = stage
      BY <2>1, <2>2 DEF Copies, Stages
    <2>. HIDE DEF x
    <2>. QED BY <2>1, <2>2, <2>3, <2>4, LookingKeeps DEF Reading
  <1>7. ASSUME NEW q \in Requests, ReadAgain(q) PROVE CaseInv'
    <2>. DEFINE r == request[q]
                x == [r EXCEPT !.stage = "row", !.tries = @ + 1, !.row = row[r.case]]
    <2>1. /\ r # Null /\ r \in Copies /\ r.stage = "again" /\ r.command.op = "view"
          /\ r.tries < 3 /\ r.case \in Cases
      BY <1>7 DEF ReadAgain, CaseInv, TypeOK, Copies, CopiesAreDated
    <2>2. request' = [request EXCEPT ![q] = x] /\ UNCHANGED <<row, items, actions>>
      BY <1>7, <2>1 DEF ReadAgain, CaseInv, TypeOK
    <2>3. r.tries + 1 \in 1..3 /\ row[r.case] \in CaseRow /\ row[r.case].revision \in Nat
      BY <2>1 DEF Copies, CaseInv, TypeOK, CaseRow
    <2>4. /\ x \in Copies /\ x.stage = "row" /\ x.case = r.case /\ x.row = row[r.case]
          /\ x.command = r.command
      BY <2>1, <2>3 DEF Copies, Stages
    <2>5. Admitted(x)
      BY <2>1, <2>4 DEF Admitted
    <2>. HIDE DEF x
    <2>6. /\ x.row.revision =< row[x.case].revision
          /\ x.stage \in Reading => Admitted(x)
          /\ x.stage = "again" => x.command.op = "view" /\ x.tries < 3
          /\ x.stage \in Reading /\ x.row.revision = row[x.case].revision =>
                x.row = row[x.case] /\ (x.stage \notin Unread => x.items = items[x.case])
      BY <2>3, <2>4, <2>5 DEF Unread
    <2>. QED BY <2>2, <2>4, <2>6, LookingKeeps
  <1>8. ASSUME NEW q \in Requests, Drop(q) PROVE CaseInv'
    BY <1>8, LookingKeeps DEF Drop
  <1>9. CASE UNCHANGED vars
    <2>1. UNCHANGED <<row, items, actions, request>>
      BY <1>9 DEF vars
    <2>2. TypeOK' /\ DecisionsAreSupported'
      BY <2>1 DEF CaseInv, TypeOK, DecisionsAreSupported
    <2>3. CopiesAreDated'
      BY <2>1 DEF CaseInv, CopiesAreDated
    <2>. QED BY <2>2, <2>3 DEF CaseInv
  <1>. QED BY <1>1, <1>2, <1>3, <1>4, <1>5, <1>6, <1>7, <1>8, <1>9 DEF Next, Commands

-----------------------------------------------------------------------------
(* The rows are as the tables and the domain classes constrain them.       *)
THEOREM CaseTyped == Spec => []TypeOK
  <1>. CaseInv => TypeOK
    BY DEF CaseInv
  <1>. QED BY CaseInit, CaseStep, PTL DEF Spec

(* Whatever the interleaving of the requests, a case waits for a decision, *)
(* or is decided, only in the direction that the resolutions of all its    *)
(* items call for.                                                         *)
THEOREM CaseDecisionsSupported == Spec => []DecisionsAreSupported
  <1>. CaseInv => DecisionsAreSupported
    BY DEF CaseInv
  <1>. QED BY CaseInit, CaseStep, PTL DEF Spec

-----------------------------------------------------------------------------
LEMMA CaseRefinesInit == Init => Workflow!Init
  BY DEF Init, Workflow!Init, Case, Shown, NoCase, NoItems

LEMMA CaseRefinesStep ==
    CaseInv /\ [Next]_vars => [Workflow!Next]_[c \in Cases |-> Case(c)]
  <1>. SUFFICES ASSUME CaseInv, [Next]_vars
                PROVE  Workflow!Next \/ UNCHANGED [c \in Cases |-> Case(c)]
    OBVIOUS
  <1>. DEFINE case == [c \in Cases |-> Case(c)]
  <1>1. ASSUME NEW c \in Cases, Create(c) PROVE Workflow!Next
    <2>1. PICK S \in (SUBSET Items) \ {{}} : items' = [items EXCEPT ![c] = [i \in S |-> Null]]
      BY <1>1 DEF Create
    <2>2. /\ row[c] = NoCase
          /\ row' = [row EXCEPT ![c] = [status |-> "unassigned", assignee |-> Null, revision |-> 1]]
      BY <1>1 DEF Create
    <2>3. case' = [case EXCEPT ![c] = [status |-> "unassigned", assignee |-> Null,
                                       items |-> [i \in S |-> Null]]]
      BY <2>1, <2>2 DEF CaseInv, TypeOK, Case, Shown
    <2>4. case[c].status = "none"
      BY <2>2 DEF Case, Shown, NoCase
    <2>5. Workflow!Open(c)
      BY <2>3, <2>4 DEF Workflow!Open, Workflow!Is, Workflow!Become
    <2>. QED BY <2>5 DEF Workflow!Next
  <1>2. ASSUME NEW q \in Requests, Save(q) PROVE Workflow!Next
    <2>1. PICK c \in Cases, new \in CaseRow, after \in CaseItems :
              /\ row' = [row EXCEPT ![c] = new]
              /\ items' = [items EXCEPT ![c] = after]
              /\ Moves(row[c], items[c], new, after)
      BY <1>2, SavesAreMoves
    <2>. DEFINE now == [status |-> new.status, assignee |-> new.assignee, items |-> after]
    <2>2. case' = [case EXCEPT ![c] = now]
      BY <2>1 DEF CaseInv, TypeOK, Case, Shown
    <2>3. case[c] = [status |-> row[c].status, assignee |-> row[c].assignee, items |-> items[c]]
      BY DEF Case, Shown
    <2>9. Workflow!Become(c, now)
      BY <2>2 DEF Workflow!Become
    <2>10. \A status : Workflow!Is(c, status) <=> row[c].status = status
      BY <2>3 DEF Workflow!Is
    <2>. HIDE DEF case
    <2>4. CASE /\ row[c].status = "unassigned" /\ new.status = "in_progress"
               /\ new.assignee \in Reviewers \ Inactive /\ after = items[c]
      <3>1. now = [status |-> "in_progress", assignee |-> new.assignee, items |-> case[c].items]
        BY <2>3, <2>4
      <3>2. Workflow!Take(c, new.assignee)
        BY <2>9, <2>10, <2>4, <3>1 DEF Workflow!Take, case
      <3>. QED BY <2>4, <3>2 DEF Workflow!Next
    <2>5. CASE /\ row[c].status \in {"in_progress", "pending_approval", "pending_void"}
               /\ new.status = row[c].status
               /\ new.assignee \in Reviewers \ Inactive /\ after = items[c]
      <3>1. now = [case[c] EXCEPT !.assignee = new.assignee]
        BY <2>3, <2>5
      <3>2. Workflow!HandOver(c, new.assignee)
        BY <2>9, <2>10, <2>5, <3>1 DEF Workflow!HandOver, case
      <3>. QED BY <2>5, <3>2 DEF Workflow!Next
    <2>6. CASE /\ row[c].status = "in_progress" /\ new.status = row[c].status
               /\ new.assignee = row[c].assignee
               /\ \E i \in Items \cap DOMAIN items[c], x \in Resolutions :
                     after = [items[c] EXCEPT ![i] = x]
      <3>1. PICK i \in Items \cap DOMAIN items[c], x \in Resolutions :
                 after = [items[c] EXCEPT ![i] = x]
        BY <2>6
      <3>2. now = [case[c] EXCEPT !.items[i] = x]
        BY <2>3, <2>6, <3>1
      <3>3. Workflow!Resolve(c, i, x)
        BY <2>9, <2>10, <2>6, <3>1, <3>2 DEF Workflow!Resolve, case
      <3>. QED BY <3>1, <3>3 DEF Workflow!Next, Workflow!Resolutions, Resolutions
    <2>7. CASE /\ \/ row[c].status = "in_progress" /\ new.status \in {"pending_approval", "pending_void"}
                  \/ row[c].status = "pending_approval" /\ new.status = "approved"
                  \/ row[c].status = "pending_void" /\ new.status = "voided"
               /\ Workflow!CallsFor(new.status, items[c])
               /\ new.assignee = row[c].assignee /\ after = items[c]
      <3>1. now = [case[c] EXCEPT !.status = new.status]
        BY <2>3, <2>7
      <3>2. \/ Workflow!Submit(c, "pending_approval") \/ Workflow!Submit(c, "pending_void")
            \/ Workflow!Decide(c, "pending_approval", "approved")
            \/ Workflow!Decide(c, "pending_void", "voided")
        BY <2>9, <2>10, <2>7, <3>1 DEF Workflow!Submit, Workflow!Decide, case
      <3>. QED BY <3>2 DEF Workflow!Next
    <2>8. CASE /\ row[c].status \in {"pending_approval", "pending_void"} /\ new.status = "in_progress"
               /\ new.assignee = row[c].assignee /\ after = items[c]
      <3>1. now = [case[c] EXCEPT !.status = "in_progress"]
        BY <2>3, <2>8
      <3>2. Workflow!Return(c)
        BY <2>9, <2>10, <2>8, <3>1 DEF Workflow!Return, case
      <3>. QED BY <3>2 DEF Workflow!Next
    <2>. QED BY <2>1, <2>4, <2>5, <2>6, <2>7, <2>8 DEF Moves
  <1>3. ASSUME UNCHANGED <<row, items>> PROVE UNCHANGED case
    BY <1>3 DEF Case, Shown
  <1>. QED BY <1>1, <1>2, <1>3 DEF Next, vars, ReadCase, ReadItems, ReadActions, View, ReadAgain, Drop

(* Reading without a lock and saving by revision implements the workflow   *)
(* in which every step is decided by the case as it is at that instant.    *)
THEOREM CasesImplementWorkflow == Spec => ImplementsCaseWorkflow
  BY CaseInit, CaseStep, CaseRefinesInit, CaseRefinesStep, PTL
     DEF Spec, ImplementsCaseWorkflow, Workflow!Spec
-----------------------------------------------------------------------------
(* Replaying a trail, one action after the other.                          *)

\* f is the first n actions of a trail, replayed one after the other.
Replays(f, S, trail, n) ==
    f = [k \in 0..n |-> IF k = 0 THEN Opened(S) ELSE Replay(f[k - 1], trail[k])]

LEMMA ReplayExists ==
    ASSUME NEW S, NEW trail, NEW n \in Nat
    PROVE  \E f : Replays(f, S, trail, n)
  <1>. DEFINE Bad == {k \in Nat : ~ \E f : Replays(f, S, trail, k)}
  <1>1. ASSUME Bad # {} PROVE FALSE
    <2>1. PICK k \in Bad : \A m \in Bad : k =< m
      BY <1>1, LeastNumber
    <2>2. CASE k = 0
      <3>. DEFINE f == [j \in 0..0 |-> Opened(S)]
      <3>1. Replays(f, S, trail, 0)
        BY DEF Replays
      <3>. QED BY <2>1, <2>2, <3>1
    <2>3. CASE k # 0
      <3>1. k - 1 \in Nat /\ k - 1 \notin Bad
        BY <2>1, <2>3
      <3>2. PICK g : Replays(g, S, trail, k - 1)
        BY <3>1
      <3>. DEFINE f == [j \in 0..k |-> IF j = k THEN Replay(g[k - 1], trail[k]) ELSE g[j]]
      <3>3. \A j \in 0..k : f[j] = IF j = 0 THEN Opened(S) ELSE Replay(f[j - 1], trail[j])
        <4>1. \A j \in 0..(k - 1) :
                  g[j] = IF j = 0 THEN Opened(S) ELSE Replay(g[j - 1], trail[j])
          BY <3>2 DEF Replays
        <4>2. \A j \in 0..k : j # k => j \in 0..(k - 1)
          BY <2>1
        <4>3. \A j \in 0..k : j # 0 => j - 1 \in 0..k /\ j - 1 # k
          BY <2>1
        <4>4. f[k] = Replay(g[k - 1], trail[k]) /\ \A j \in 0..k : j # k => f[j] = g[j]
          BY <2>1
        <4>. HIDE DEF f
        <4>5. ASSUME NEW j \in 0..k PROVE f[j] = IF j = 0 THEN Opened(S) ELSE Replay(f[j - 1], trail[j])
          <5>1. CASE j = k
            BY <2>3, <4>3, <4>4, <5>1
          <5>2. CASE j # k
            BY <4>1, <4>2, <4>3, <4>4, <5>2
          <5>. QED BY <5>1, <5>2
        <4>. QED BY <4>5
      <3>4. f = [j \in 0..k |-> f[j]]
        OBVIOUS
      <3>. HIDE DEF f
      <3>5. Replays(f, S, trail, k)
        BY <3>3, <3>4 DEF Replays
      <3>. QED BY <2>1, <3>5
    <2>. QED BY <2>2, <2>3
  <1>. QED BY <1>1

\* Trails that agree on what both replays have seen have led to the same.
LEMMA ReplaysAgree ==
    ASSUME NEW S, NEW t, NEW u, NEW f, NEW g, NEW n \in Nat, NEW m \in Nat,
           NEW last \in Nat, last =< n, last =< m,
           Replays(f, S, t, n), Replays(g, S, u, m), \A k \in 1..last : t[k] = u[k]
    PROVE  f[last] = g[last]
  <1>. DEFINE Bad == {k \in 0..last : f[k] # g[k]}
  <1>1. ASSUME Bad # {} PROVE FALSE
    <2>. Bad \in SUBSET Nat
      OBVIOUS
    <2>1. PICK k \in Bad : \A j \in Bad : k =< j
      <3>. HIDE DEF Bad
      <3>. QED BY <1>1, LeastNumber
    <2>2. /\ f[k] = IF k = 0 THEN Opened(S) ELSE Replay(f[k - 1], t[k])
          /\ g[k] = IF k = 0 THEN Opened(S) ELSE Replay(g[k - 1], u[k])
      <3>1. k \in 0..n /\ k \in 0..m
        BY <2>1
      <3>. QED BY <3>1 DEF Replays
    <2>3. k # 0
      BY <2>1, <2>2
    <2>4. k \in 1..last /\ k - 1 \in 0..last /\ k - 1 \notin Bad
      BY <2>1, <2>3
    <2>. QED BY <2>1, <2>2, <2>3, <2>4
  <1>. QED BY <1>1

LEMMA ReplayOfIs ==
    ASSUME NEW S, NEW trail, NEW n \in Nat
    PROVE  \E f : Replays(f, S, trail, n) /\ ReplayOf(S, trail, n) = f[n]
  <1>. DEFINE replay[k \in 0..n] == IF k = 0 THEN Opened(S) ELSE Replay(replay[k - 1], trail[k])
  <1>1. PICK f : Replays(f, S, trail, n)
    BY ReplayExists
  <1>2. replay = [k \in 0..n |-> IF k = 0 THEN Opened(S) ELSE Replay(replay[k - 1], trail[k])]
    BY <1>1 DEF Replays
  <1>3. ReplayOf(S, trail, n) = replay[n]
    BY DEF ReplayOf
  <1>. HIDE DEF replay
  <1>4. Replays(replay, S, trail, n)
    BY <1>2 DEF Replays
  <1>. QED BY <1>3, <1>4

\* Rows a trail got later do not change what its first n told.
LEMMA ReplaySame ==
    ASSUME NEW S, NEW t, NEW u, NEW n \in Nat, \A k \in 1..n : t[k] = u[k]
    PROVE  ReplayOf(S, t, n) = ReplayOf(S, u, n)
  <1>1. PICK f : Replays(f, S, t, n) /\ ReplayOf(S, t, n) = f[n]
    BY ReplayOfIs
  <1>2. PICK g : Replays(g, S, u, n) /\ ReplayOf(S, u, n) = g[n]
    BY ReplayOfIs
  <1>3. n =< n /\ Replays(f, S, t, n) /\ Replays(g, S, u, n)
    BY <1>1, <1>2
  <1>4. f[n] = g[n]
    BY ONLY <1>3, ReplaysAgree, n \in Nat, \A k \in 1..n : t[k] = u[k]
  <1>. QED BY <1>1, <1>2, <1>4

LEMMA ReplayNone ==
    ASSUME NEW S, NEW trail
    PROVE  ReplayOf(S, trail, 0) = Opened(S)
  <1>1. PICK f : Replays(f, S, trail, 0) /\ ReplayOf(S, trail, 0) = f[0]
    BY ReplayOfIs
  <1>. QED BY <1>1 DEF Replays

LEMMA ReplayNext ==
    ASSUME NEW S, NEW trail, NEW n \in Nat
    PROVE  ReplayOf(S, trail, n + 1) = Replay(ReplayOf(S, trail, n), trail[n + 1])
  <1>1. PICK f : Replays(f, S, trail, n) /\ ReplayOf(S, trail, n) = f[n]
    BY ReplayOfIs
  <1>2. PICK g : Replays(g, S, trail, n + 1) /\ ReplayOf(S, trail, n + 1) = g[n + 1]
    BY ReplayOfIs
  <1>3. f[n] = g[n]
    BY <1>1, <1>2, ReplaysAgree
  <1>4. g[n + 1] = Replay(g[n], trail[n + 1])
    <2>1. n + 1 \in 0..(n + 1) /\ n + 1 # 0 /\ (n + 1) - 1 = n
      OBVIOUS
    <2>. QED BY <1>2, <2>1 DEF Replays
  <1>. QED BY <1>1, <1>2, <1>3, <1>4
-----------------------------------------------------------------------------
\* A case that was told stays told while its trail only grows, over the same items.
LEMMA TrailsOnlyGrow ==
    ASSUME CaseInv, NEW c \in Cases, NEW r \in CaseRow, NEW resolved, Told(c, r, resolved),
           r.revision =< row[c].revision, DOMAIN items'[c] = DOMAIN items[c],
           \A k \in 1..row[c].revision : actions'[c][k] = actions[c][k]
    PROVE  Told(c, r, resolved)'
  <1>. DEFINE S == DOMAIN items[c]
  <1>1. r.revision \in Nat /\ row[c].revision \in Nat
    BY DEF CaseRow, CaseInv, TypeOK
  <1>2. \A k \in 1..r.revision : actions[c][k] = actions'[c][k]
    BY <1>1
  <1>3. ReplayOf(S, actions[c], r.revision) = ReplayOf(S, actions'[c], r.revision)
    BY <1>1, <1>2, ReplaySame
  <1>. QED BY <1>3 DEF Told, Replayed, Shown

\* What holds of the copies of one request, as TrailsExplain has it.
Explained(r) ==
    /\ row[r.case] # NoCase
    /\ r.stage \in {"trail", "loaded"} =>
          r.row.revision =< r.trail /\ r.trail =< row[r.case].revision
    /\ r.stage = "answered" => r.trail = r.row.revision /\ Told(r.case, r.row, r.items)

LEMMA ExplainedEach ==
    TrailsExplain <=>
      /\ \A c \in Cases : row[c] # NoCase => Told(c, row[c], items[c])
      /\ \A q \in Requests : request[q] # Null => Explained(request[q])
  BY DEF TrailsExplain, Explained

LEMMA LookingExplains ==
    ASSUME CaseInv, TrailsExplain, UNCHANGED <<row, items, actions>>, NEW q \in Requests,
           NEW x \in Copies \cup {Null}, request' = [request EXCEPT ![q] = x],
           x # Null => Explained(x)
    PROVE  TrailsExplain'
  <1>1. request'[q] = x /\ \A p \in Requests \ {q} : request'[p] = request[p]
    BY DEF CaseInv, TypeOK
  <1>2. \A c, r, resolved : Told(c, r, resolved)' <=> Told(c, r, resolved)
    BY DEF Told, Replayed
  <1>3. \A r : Explained(r)' <=> Explained(r)
    BY <1>2 DEF Explained
  <1>4. \A c \in Cases : row'[c] # NoCase => Told(c, row[c], items[c])'
    BY <1>2, ExplainedEach
  <1>5. ASSUME NEW p \in Requests, request'[p] # Null PROVE Explained(request[p])'
    <2>1. Explained(request'[p])
      BY <1>1, <1>5, ExplainedEach
    <2>. QED BY <1>2, <2>1 DEF Explained
  <1>. QED BY <1>4, <1>5 DEF TrailsExplain, Explained

\* Opening a case: the trail that was opened with it is its first.
LEMMA OpeningExplains ==
    ASSUME CaseInv, TrailsExplain, NEW c \in Cases, Create(c)
    PROVE  TrailsExplain'
  <1>. DEFINE new == [status |-> "unassigned", assignee |-> Null, revision |-> 1]
              a == Action("created", Null, Null)
  <1>1. PICK S \in (SUBSET Items) \ {{}} : items' = [items EXCEPT ![c] = [i \in S |-> Null]]
    BY DEF Create
  <1>2. /\ row[c] = NoCase /\ row' = [row EXCEPT ![c] = new]
        /\ actions' = [actions EXCEPT ![c] = <<a>>] /\ request' = request
    BY DEF Create
  <1>3. /\ row'[c] = new /\ items'[c] = [i \in S |-> Null] /\ actions'[c] = <<a>>
        /\ \A d \in Cases \ {c} :
              row'[d] = row[d] /\ items'[d] = items[d] /\ actions'[d] = actions[d]
    BY <1>1, <1>2 DEF CaseInv, TypeOK
  <1>4. Told(c, row[c], items[c])'
    <2>1. ReplayOf(S, <<a>>, 0) = Opened(S)
      BY ReplayNone
    <2>2. ReplayOf(S, <<a>>, 0 + 1) = Replay(Opened(S), <<a>>[0 + 1])
      BY <2>1, ReplayNext
    <2>3. 0 + 1 = 1 /\ <<a>>[1] = a /\ a.kind = "created"
      BY DEF Action
    <2>4. ReplayOf(S, <<a>>, 1) = Opened(S)
      BY <2>2, <2>3 DEF Replay
    <2>5. DOMAIN items'[c] = S
      BY <1>3
    <2>6. Replayed(c, 1)' = Opened(S)
      BY <1>3, <2>4, <2>5 DEF Replayed
    <2>. QED BY <1>3, <2>6 DEF Told, Shown, Opened
  <1>5. ASSUME NEW d \in Cases, d # c, NEW r, NEW resolved, Told(d, r, resolved)
        PROVE  Told(d, r, resolved)'
    BY <1>3, <1>5 DEF Told, Replayed
  <1>6. ASSUME NEW p \in Requests, request'[p] # Null PROVE Explained(request[p])'
    <2>. DEFINE r == request[p]
    <2>1. r # Null /\ r.case \in Cases /\ request'[p] = r
      BY <1>2, <1>6 DEF CaseInv, TypeOK, Copies
    <2>2. Explained(r)
      BY <2>1, ExplainedEach
    <2>3. r.case # c
      BY <1>2, <2>2 DEF Explained
    <2>4. row'[r.case] = row[r.case]
      BY <1>3, <2>1, <2>3
    <2>5. r.stage = "answered" => Told(r.case, r.row, r.items)'
      BY <1>5, <2>1, <2>2, <2>3 DEF Explained
    <2>. QED BY <2>1, <2>2, <2>4, <2>5 DEF Explained
  <1>7. ASSUME NEW d \in Cases, row'[d] # NoCase PROVE Told(d, row[d], items[d])'
    <2>1. CASE d = c
      BY <1>4, <2>1
    <2>2. CASE d # c
      <3>1. row'[d] = row[d] /\ items'[d] = items[d] /\ Told(d, row[d], items[d])
        BY <1>3, <1>7, <2>2 DEF TrailsExplain
      <3>2. Told(d, row[d], items[d])'
        BY <1>3, <2>2, <3>1 DEF Told, Replayed
      <3>. QED BY <3>2
    <2>. QED BY <2>1, <2>2
  <1>. QED BY <1>6, <1>7 DEF TrailsExplain, Explained

(* A save appends the one action that leads from the case as it was to the *)
(* case as it is, and answers with the latter.                             *)
LEMMA SavesExplain ==
    ASSUME CaseInv, TrailsExplain, NEW q \in Requests, Save(q)
    PROVE  TrailsExplain'
  <1>1. PICK c \in Cases, new \in CaseRow, after \in CaseItems, a \in AuditRow, x \in Copies :
              /\ row' = [row EXCEPT ![c] = new]
              /\ items' = [items EXCEPT ![c] = after]
              /\ actions' = [actions EXCEPT ![c] = Append(actions[c], a)]
              /\ request' = [request EXCEPT ![q] = x]
              /\ x.stage = "answered" /\ x.case = c /\ x.row = new
              /\ new.revision = row[c].revision + 1
              /\ new.status \notin {"none", "unassigned"}
              /\ DOMAIN after = DOMAIN items[c]
              /\ request[q] # Null /\ request[q].stage = "loaded" /\ request[q].case = c
              /\ request[q].row.revision = row[c].revision
              /\ x.items = after /\ x.trail = request[q].trail + 1
              /\ Shown(new, after) = Replay(Shown(row[c], items[c]), a)
    BY SavesAreMoves
  <1>2. /\ row'[c] = new /\ items'[c] = after /\ request'[q] = x
        /\ actions'[c] = Append(actions[c], a)
        /\ \A d \in Cases \ {c} : row'[d] = row[d] /\ items'[d] = items[d] /\ actions'[d] = actions[d]
        /\ \A p \in Requests \ {q} : request'[p] = request[p]
    BY <1>1 DEF CaseInv, TypeOK
  <1>3. /\ actions[c] \in Seq(AuditRow) /\ row[c].revision = Len(actions[c])
        /\ row[c].revision \in Nat
    BY DEF CaseInv, TypeOK, CaseRow
  <1>4. /\ \A k \in 1..row[c].revision : actions'[c][k] = actions[c][k]
        /\ actions'[c][row[c].revision + 1] = a
    BY <1>2, <1>3
  <1>5. Explained(request[q]) /\ row[c] # NoCase
    BY <1>1, ExplainedEach DEF Explained
  <1>6. Told(c, row[c], items[c])
    BY <1>5 DEF TrailsExplain
  <1>7. Told(c, row[c], items[c])'
    <2>. DEFINE S == DOMAIN items[c]
                n == row[c].revision
    <2>1. ReplayOf(S, actions[c], n) = ReplayOf(S, actions'[c], n)
      BY <1>3, <1>4, ReplaySame
    <2>2. ReplayOf(S, actions'[c], n + 1) = Replay(ReplayOf(S, actions'[c], n), actions'[c][n + 1])
      BY <1>3, ReplayNext
    <2>3. Shown(row[c], items[c]) = ReplayOf(S, actions[c], n)
      BY <1>6 DEF Told, Replayed
    <2>4. Shown(new, after) = ReplayOf(S, actions'[c], n + 1)
      BY <1>1, <1>4, <2>1, <2>2, <2>3
    <2>5. Replayed(c, new.revision)' = ReplayOf(S, actions'[c], n + 1)
      BY <1>1, <1>2 DEF Replayed
    <2>6. Shown(row[c], items[c])' = Shown(new, after)
      BY <1>2 DEF Shown
    <2>. QED BY <1>2, <2>4, <2>5, <2>6 DEF Told
  <1>8. ASSUME NEW d \in Cases, NEW r \in CaseRow, NEW resolved, Told(d, r, resolved),
               r.revision =< row[d].revision
        PROVE  Told(d, r, resolved)'
    <2>1. CASE d = c
      BY <1>1, <1>2, <1>4, <1>8, <2>1, TrailsOnlyGrow
    <2>2. CASE d # c
      BY <1>2, <1>8, <2>2 DEF Told, Replayed
    <2>. QED BY <2>1, <2>2
  <1>9. ASSUME NEW p \in Requests, request'[p] # Null PROVE Explained(request[p])'
    <2>1. CASE p = q
      <3>1. request[q].trail = row[c].revision
        BY <1>1, <1>3, <1>5 DEF Explained, CaseInv, TypeOK, Copies
      <3>2. row'[c] # NoCase
        BY <1>1, <1>2 DEF NoCase
      <3>3. x.trail = x.row.revision
        BY <1>1, <3>1
      <3>4. Told(x.case, x.row, x.items)'
        BY <1>1, <1>2, <1>7 DEF Told, Shown, Replayed
      <3>. QED BY <1>1, <1>2, <2>1, <3>2, <3>3, <3>4 DEF Explained
    <2>2. CASE p # q
      <3>. DEFINE r == request[p]
      <3>1. /\ r # Null /\ r \in Copies /\ r.case \in Cases /\ r.row \in CaseRow
            /\ r.trail \in Nat /\ request'[p] = r
        BY <1>2, <1>9, <2>2 DEF CaseInv, TypeOK, Copies
      <3>2. Explained(r) /\ r.row.revision =< row[r.case].revision
        BY <3>1, ExplainedEach DEF CaseInv, CopiesAreDated
      <3>3. r.stage = "answered" => Told(r.case, r.row, r.items)'
        BY <1>8, <3>1, <3>2 DEF Explained
      <3>4. /\ row'[r.case] # NoCase /\ row[r.case].revision =< row'[r.case].revision
            /\ row[r.case].revision \in Nat /\ row'[r.case].revision \in Nat
        <4>1. CASE r.case = c
          BY <1>1, <1>2, <1>3, <4>1 DEF NoCase
        <4>2. CASE r.case # c
          BY <1>2, <3>1, <3>2, <4>2 DEF Explained, CaseInv, TypeOK, CaseRow
        <4>. QED BY <4>1, <4>2
      <3>. HIDE DEF r
      <3>. QED BY <3>1, <3>2, <3>3, <3>4 DEF Explained, r
    <2>. QED BY <2>1, <2>2
  <1>10. ASSUME NEW d \in Cases, row'[d] # NoCase PROVE Told(d, row[d], items[d])'
    <2>1. CASE d = c
      BY <1>7, <2>1
    <2>2. CASE d # c
      <3>1. row'[d] = row[d] /\ items'[d] = items[d] /\ Told(d, row[d], items[d])
        BY <1>2, <1>10, <2>2 DEF TrailsExplain
      <3>. QED BY <1>2, <2>2, <3>1 DEF Told, Replayed
    <2>. QED BY <2>1, <2>2
  <1>. QED BY <1>9, <1>10 DEF TrailsExplain, Explained
LEMMA TrailsStep == CaseInv /\ TrailsExplain /\ [Next]_vars => TrailsExplain'
  <1>. SUFFICES ASSUME CaseInv, TrailsExplain, [Next]_vars PROVE TrailsExplain'
    OBVIOUS
  <1>. DEFINE Seen(q) == request[q] \in Copies /\ request[q].case \in Cases /\ Explained(request[q])
  <1>0. ASSUME NEW q \in Requests, request[q] # Null PROVE Seen(q)
    BY <1>0, ExplainedEach DEF CaseInv, TypeOK, Copies
  <1>1. ASSUME NEW c \in Cases, Create(c) PROVE TrailsExplain'
    BY <1>1, OpeningExplains
  <1>2. ASSUME NEW q \in Requests, NEW c \in Cases, NEW command \in Commands, ReadCase(q, c, command)
        PROVE  TrailsExplain'
    <2>. DEFINE x == [stage |-> "row", case |-> c, command |-> command, tries |-> 1,
                      row |-> row[c], items |-> NoItems, trail |-> 0]
    <2>1. /\ row[c] # NoCase /\ request' = [request EXCEPT ![q] = x]
          /\ UNCHANGED <<row, items, actions>>
      BY <1>2 DEF ReadCase
    <2>2. x \in Copies /\ x.case = c /\ x.stage = "row"
      <3>1. NoItems \in CaseItems
        BY DEF CaseItems, NoItems
      <3>. QED BY <3>1 DEF Copies, Stages, CaseInv, TypeOK
    <2>. HIDE DEF x
    <2>. QED BY <2>1, <2>2, LookingExplains DEF Explained
  <1>3. ASSUME NEW q \in Requests, ReadItems(q) PROVE TrailsExplain'
    <2>. DEFINE r == request[q]
                x == [r EXCEPT !.stage = ByOp(r, "items", "loaded"), !.items = items[r.case]]
    <2>1. r # Null /\ Seen(q) /\ r.stage = ByOp(r, "row", "trail")
      BY <1>0, <1>3 DEF ReadItems
    <2>2. request' = [request EXCEPT ![q] = x] /\ UNCHANGED <<row, items, actions>>
      BY <1>3, <2>1 DEF ReadItems, CaseInv, TypeOK
    <2>3. /\ x \in Copies /\ x.case = r.case /\ x.row = r.row /\ x.trail = r.trail
          /\ \/ x.stage = "items"
             \/ x.stage = "loaded" /\ r.stage = "trail"
      BY <2>1 DEF Copies, Stages, CaseInv, TypeOK, ByOp
    <2>. HIDE DEF x
    <2>4. Explained(x)
      BY <2>1, <2>3 DEF Explained
    <2>. QED BY <2>2, <2>3, <2>4, LookingExplains
  <1>4. ASSUME NEW q \in Requests, ReadActions(q) PROVE TrailsExplain'
    <2>. DEFINE r == request[q]
                x == [r EXCEPT !.stage = ByOp(r, "loaded", "trail"), !.trail = Len(actions[r.case])]
    <2>1. r # Null /\ Seen(q)
      BY <1>0, <1>4 DEF ReadActions
    <2>2. request' = [request EXCEPT ![q] = x] /\ UNCHANGED <<row, items, actions>>
      BY <1>4, <2>1 DEF ReadActions, CaseInv, TypeOK
    <2>3. /\ Len(actions[r.case]) = row[r.case].revision /\ Len(actions[r.case]) \in Nat
          /\ r.row.revision =< row[r.case].revision
      BY <2>1 DEF CaseInv, TypeOK, CopiesAreDated
    <2>4. /\ x \in Copies /\ x.case = r.case /\ x.row = r.row /\ x.trail = row[r.case].revision
          /\ x.stage \in {"loaded", "trail"}
      BY <2>1, <2>3 DEF Copies, Stages, ByOp
    <2>. HIDE DEF x
    <2>5. Explained(x)
      BY <2>1, <2>3, <2>4 DEF Explained
    <2>. QED BY <2>2, <2>4, <2>5, LookingExplains
  <1>5. ASSUME NEW q \in Requests, Save(q) PROVE TrailsExplain'
    BY <1>5, SavesExplain
  <1>6. ASSUME NEW q \in Requests, View(q) PROVE TrailsExplain'
    <2>. DEFINE r == request[q]
    <2>1. r # Null /\ Seen(q) /\ r.stage = "loaded"
      BY <1>0, <1>6 DEF View
    <2>2. PICK stage \in {"answered", "again"} :
              /\ request' = [request EXCEPT ![q].stage = stage]
              /\ stage = "answered" => Consistent(r)
      BY <1>6 DEF View, Advance
    <2>. DEFINE x == [r EXCEPT !.stage = stage]
    <2>3. request' = [request EXCEPT ![q] = x] /\ UNCHANGED <<row, items, actions>>
      BY <1>6, <2>1, <2>2 DEF View, CaseInv, TypeOK
    <2>4. /\ x \in Copies /\ x.case = r.case /\ x.row = r.row /\ x.items = r.items
          /\ x.trail = r.trail /\ x.stage = stage
      BY <2>1, <2>2 DEF Copies, Stages
    <2>5. CASE stage = "answered"
      <3>1. row[r.case].revision = r.row.revision
        BY <2>2, <2>5 DEF Consistent
      <3>2. r.row = row[r.case] /\ r.items = items[r.case]
        BY <2>1, <3>1 DEF CaseInv, CopiesAreDated, Reading, Unread
      <3>3. Told(r.case, r.row, r.items)
        BY <2>1, <3>2 DEF TrailsExplain, Explained
      <3>4. r.trail = r.row.revision
        BY <2>1, <3>1 DEF Explained, Copies, CaseRow
      <3>. HIDE DEF x
      <3>5. Explained(x)
        BY <2>1, <2>4, <2>5, <3>3, <3>4 DEF Explained
      <3>. QED BY <2>3, <2>4, <3>5, LookingExplains
    <2>6. CASE stage = "again"
      <3>. HIDE DEF x
      <3>1. Explained(x)
        BY <2>1, <2>4, <2>6 DEF Explained
      <3>. QED BY <2>3, <2>4, <3>1, LookingExplains
    <2>. QED BY <2>2, <2>5, <2>6
  <1>7. ASSUME NEW q \in Requests, ReadAgain(q) PROVE TrailsExplain'
    <2>. DEFINE r == request[q]
                x == [r EXCEPT !.stage = "row", !.tries = @ + 1, !.row = row[r.case]]
    <2>1. r # Null /\ Seen(q) /\ r.tries < 3
      BY <1>0, <1>7 DEF ReadAgain, CaseInv, CopiesAreDated
    <2>2. request' = [request EXCEPT ![q] = x] /\ UNCHANGED <<row, items, actions>>
      BY <1>7, <2>1 DEF ReadAgain, CaseInv, TypeOK
    <2>3. r.tries + 1 \in 1..3 /\ row[r.case] \in CaseRow
      BY <2>1 DEF Copies, CaseInv, TypeOK
    <2>4. x \in Copies /\ x.stage = "row" /\ x.case = r.case
      BY <2>1, <2>3 DEF Copies, Stages
    <2>. HIDE DEF x
    <2>5. Explained(x)
      BY <2>1, <2>4 DEF Explained
    <2>. QED BY <2>2, <2>4, <2>5, LookingExplains
  <1>8. ASSUME NEW q \in Requests, Drop(q) PROVE TrailsExplain'
    BY <1>8, LookingExplains DEF Drop
  <1>9. CASE UNCHANGED vars
    <2>1. UNCHANGED <<row, items, actions, request>>
      BY <1>9 DEF vars
    <2>. QED BY <2>1 DEF TrailsExplain, Told, Replayed
  <1>. QED BY <1>1, <1>2, <1>3, <1>4, <1>5, <1>6, <1>7, <1>8, <1>9 DEF Next, Commands

(* The audit trail of every case, replayed from its opening, is the case,  *)
(* and whatever a client was answered is the case as it stood after the    *)
(* action that made its revision, never a mixture of two revisions: for    *)
(* any number of requests that read the three tables one by one.           *)
THEOREM CaseAuditExplains == Spec => []AuditExplainsWhatIsShown
  <1>1. Init => TrailsExplain
    BY DEF Init, TrailsExplain
  <1>2. TrailsExplain => AuditExplainsWhatIsShown
    BY DEF TrailsExplain, AuditExplainsWhatIsShown
  <1>. QED BY <1>1, <1>2, CaseInit, CaseStep, TrailsStep, PTL DEF Spec
=============================================================================
