------------------------------- MODULE MCDialogs -------------------------------
(***************************************************************************)
(* Instances of Dialogs for TLC.                                           *)
(***************************************************************************)
EXTENDS Dialogs, TLC

JobSymmetry == Permutations(Job)
=============================================================================
