---------------------------- MODULE MCExtraction ----------------------------
(***************************************************************************)
(* The extraction pipeline with interchangeable workers, for safety.       *)
(***************************************************************************)
EXTENDS ExtractionProperties, TLC

Symmetry == Permutations(Workers)
=============================================================================
