------------------------------ MODULE MCReview ------------------------------
(***************************************************************************)
(* A small instance of review, import and reconciliation.                  *)
(***************************************************************************)
EXTENDS ReviewProperties, TLC

MCMachineType == [t \in Tasks |-> "invoice"]
MCMachineBody == [t \in Tasks |-> 1]
Names == Permutations(Requests) \cup Permutations(Suppliers)
=============================================================================
