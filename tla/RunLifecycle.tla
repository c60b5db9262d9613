---------------------------- MODULE RunLifecycle ----------------------------
(***************************************************************************)
(* What the extraction of a file promises to those who only read its       *)
(* runs: a run is queued once, its draft is stored at most once and while  *)
(* the run is open, and it is never ready without its draft.  The run is   *)
(* decided once, unless a worker met an error after it had released the    *)
(* run: such a disturbed run may fail whatever it was before, and a failed *)
(* one may go on.                                                          *)
(***************************************************************************)
CONSTANT Runs

VARIABLES
    outcome,    \* "none", "active", or how a run was decided
    stored,     \* the runs whose draft is stored
    disturbed   \* the runs a worker may still fail after it released them

Init ==
    /\ outcome = [r \in Runs |-> "none"]
    /\ stored = {}
    /\ disturbed = {}

Open(r) ==
    outcome[r] = "active" \/ (r \in disturbed /\ outcome[r] = "failed")

Queue(r) ==
    /\ outcome[r] = "none"
    /\ outcome' = [outcome EXCEPT ![r] = "active"]
    /\ UNCHANGED <<stored, disturbed>>

StoreDraft(r) ==
    /\ Open(r) /\ r \notin stored
    /\ stored' = stored \cup {r}
    /\ UNCHANGED <<outcome, disturbed>>

Decide(r, how) ==
    /\ Open(r)
    /\ how = "ready" => r \in stored
    /\ outcome' = [outcome EXCEPT ![r] = how]
    /\ UNCHANGED <<stored, disturbed>>

Disturb(r) ==
    /\ outcome[r] # "none"
    /\ disturbed' = disturbed \cup {r}
    /\ UNCHANGED <<outcome, stored>>

\* An error of the worker that had released the run comes to light.
Undo(r) ==
    /\ r \in disturbed
    /\ outcome' = [outcome EXCEPT ![r] = "failed"]
    /\ UNCHANGED <<stored, disturbed>>

\* Another worker, at work on the run when it was failed, goes on.
GoOn(r) ==
    /\ r \in disturbed /\ outcome[r] = "failed"
    /\ outcome' = [outcome EXCEPT ![r] = "active"]
    /\ UNCHANGED <<stored, disturbed>>

Next == \E r \in Runs :
    \/ Queue(r) \/ StoreDraft(r) \/ Disturb(r) \/ Undo(r) \/ GoOn(r)
    \/ \E how \in {"ready", "failed", "cancelled"} : Decide(r, how)

Spec == Init /\ [][Next]_<<outcome, stored, disturbed>>
=============================================================================
