---------------------------- MODULE MCDispatcher ----------------------------
(* Instances of Dispatcher for TLC. *)
EXTENDS Dispatcher, TLC

\* Connections and channels are interchangeable.
MCSymmetry == Permutations(Conns) \cup Permutations(Channels)
=============================================================================
