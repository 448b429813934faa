--------------------------- MODULE MCComposeProject ---------------------------
(***************************************************************************)
(* Instances of ComposeProject for TLC.                                    *)
(***************************************************************************)
EXTENDS ComposeProject, TLC

ServiceSymmetry == Permutations(Service \ Provider)
=============================================================================
