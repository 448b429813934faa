---------------------------- MODULE MCJobRunner ----------------------------
(***************************************************************************)
(* Instances of JobRunner for TLC.                                         *)
(***************************************************************************)
EXTENDS JobRunner, TLC

JobSymmetry == Permutations(Job)
=============================================================================
