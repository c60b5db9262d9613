-------------------------- MODULE ReceivingClaims --------------------------
(***************************************************************************)
(* What the confirmations of a scope promise, without previews, revisions  *)
(* or workers: a receiving record is held by at most one invoice, an       *)
(* invoice takes all the records it confirms in one step and only while    *)
(* they are free, holds them as long as it is completed, and gives them    *)
(* all back in one step when it is reopened.  Workspace implements this    *)
(* specification (WorkspaceProperties, WorkspaceProofs).                   *)
(***************************************************************************)
CONSTANTS
    Invoices,   \* the invoices that may take records
    Notes,      \* the receiving records
    Nobody      \* the holder of a free record

VARIABLES
    holder,     \* the invoice that holds a record, or Nobody
    closed      \* the completed invoices

Init ==
    /\ holder = [n \in Notes |-> Nobody]
    /\ closed = {}

Take(i, wanted) ==
    /\ i \notin closed /\ wanted # {}
    /\ \A n \in wanted : holder[n] = Nobody
    /\ holder' = [n \in Notes |-> IF n \in wanted THEN i ELSE holder[n]]
    /\ closed' = closed \cup {i}

Release(i) ==
    /\ i \in closed
    /\ holder' = [n \in Notes |-> IF holder[n] = i THEN Nobody ELSE holder[n]]
    /\ closed' = closed \ {i}

Next ==
    \/ \E i \in Invoices : \E wanted \in SUBSET Notes : Take(i, wanted)
    \/ \E i \in Invoices : Release(i)

Spec == Init /\ [][Next]_<<holder, closed>>
=============================================================================
