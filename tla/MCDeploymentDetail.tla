-------------------------- MODULE MCDeploymentDetail --------------------------
(***************************************************************************)
(* Instances of DeploymentDetail for TLC.                                  *)
(***************************************************************************)
EXTENDS DeploymentDetail
=============================================================================
