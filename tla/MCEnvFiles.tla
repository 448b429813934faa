------------------------------ MODULE MCEnvFiles ------------------------------
(***************************************************************************)
(* Instances of EnvFiles for TLC.                                          *)
(***************************************************************************)
EXTENDS EnvFiles, TLC

JobSymmetry == Permutations(Job)
=============================================================================
