------------------------------ MODULE MCEffort ------------------------------
(* TLC instance of Effort. *)
EXTENDS Effort, TLC

TargetSymmetry == Permutations(Targets)
=============================================================================
