-------------------------- MODULE MCConnectionLoop --------------------------
(* Instances of ConnectionLoop for TLC. *)
EXTENDS ConnectionLoop
=============================================================================
