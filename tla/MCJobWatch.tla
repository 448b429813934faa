------------------------------ MODULE MCJobWatch ------------------------------
(***************************************************************************)
(* Instances of JobWatch for TLC.                                          *)
(***************************************************************************)
EXTENDS JobWatch
=============================================================================
