------------------------------ MODULE MCCases ------------------------------
(***************************************************************************)
(* A small instance of the legacy cases.                                   *)
(***************************************************************************)
EXTENDS CaseProperties, TLC

Names == Permutations(Reviewers \ Inactive) \cup Permutations(Requests)
=============================================================================
