----------------------------- MODULE MCKeyspace -----------------------------
(* Instances of Keyspace for TLC. *)
EXTENDS Keyspace
=============================================================================
