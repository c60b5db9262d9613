---------------------------- MODULE CaseWorkflow ----------------------------
(***************************************************************************)
(* What a reconciliation case promises, without requests, revisions or     *)
(* transactions: every step is decided by the case as it is at that        *)
(* instant.  A reviewer takes an unassigned case, resolves its items and   *)
(* submits it in the direction its resolutions call for; an administrator  *)
(* decides it in that direction or returns it; a decided case is final.    *)
(***************************************************************************)
CONSTANTS Cases, Items, Reviewers, Admins, Null

VARIABLE case       \* the case of a reconciliation

Resolutions == {"business_exception", "document_data_error", "matching_error",
                "waiting_for_documents"}

\* The decision the resolutions of all items call for.
AllExceptions(items) == \A i \in DOMAIN items : items[i] = "business_exception"
SomeError(items) ==
    /\ \A i \in DOMAIN items : items[i] \notin {Null, "waiting_for_documents"}
    /\ \E i \in DOMAIN items : items[i] # "business_exception"
CallsFor(target, items) ==
    IF target \in {"pending_approval", "approved"} THEN AllExceptions(items) ELSE SomeError(items)

Is(c, status)      == case[c].status = status
Become(c, changed) == case' = [case EXCEPT ![c] = changed]

Init == case = [c \in Cases |->
            [status |-> "none", assignee |-> Null, items |-> [i \in {} |-> Null]]]

Open(c) ==
    /\ Is(c, "none")
    /\ \E S \in (SUBSET Items) \ {{}} :
          Become(c, [status |-> "unassigned", assignee |-> Null, items |-> [i \in S |-> Null]])

Take(c, u) ==
    /\ Is(c, "unassigned")
    /\ Become(c, [status |-> "in_progress", assignee |-> u, items |-> case[c].items])

HandOver(c, u) ==
    /\ \E status \in {"in_progress", "pending_approval", "pending_void"} : Is(c, status)
    /\ Become(c, [case[c] EXCEPT !.assignee = u])

Resolve(c, i, resolution) ==
    /\ Is(c, "in_progress") /\ i \in DOMAIN case[c].items
    /\ Become(c, [case[c] EXCEPT !.items[i] = resolution])

Submit(c, target) ==
    /\ Is(c, "in_progress") /\ CallsFor(target, case[c].items)
    /\ Become(c, [case[c] EXCEPT !.status = target])

Decide(c, from, target) ==
    /\ Is(c, from) /\ CallsFor(target, case[c].items)
    /\ Become(c, [case[c] EXCEPT !.status = target])

Return(c) ==
    /\ \E status \in {"pending_approval", "pending_void"} : Is(c, status)
    /\ Become(c, [case[c] EXCEPT !.status = "in_progress"])

Next == \E c \in Cases :
    \/ Open(c)
    \/ \E u \in Reviewers : Take(c, u) \/ HandOver(c, u)
    \/ \E i \in Items, resolution \in Resolutions : Resolve(c, i, resolution)
    \/ Submit(c, "pending_approval") \/ Submit(c, "pending_void")
    \/ Decide(c, "pending_approval", "approved") \/ Decide(c, "pending_void", "voided")
    \/ Return(c)

Spec == Init /\ [][Next]_case
=============================================================================
