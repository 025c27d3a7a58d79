----------------------------- MODULE MCWorkflow -----------------------------
(* Instance of Workflow for TLC.  Requests are interchangeable, so the safety *)
(* runs use their permutations as symmetry.                                   *)
EXTENDS Workflow, TLC

RequestSymmetry == Permutations(Requests)
=============================================================================
