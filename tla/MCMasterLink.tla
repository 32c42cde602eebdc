---------------------------- MODULE MCMasterLink ----------------------------
(* Instances of MasterLink for TLC. *)
EXTENDS MasterLink
=============================================================================
