------------------------- MODULE MCBlockingManager -------------------------
(* Instances of BlockingManager for TLC. *)
EXTENDS BlockingManager

CONSTANTS k1, k2

\* One key or both; the other orders are these with the keys renamed.
MCKeyLists == {<<k1>>, <<k1, k2>>}

\* Elements, calls and connections are interchangeable.
MCSymmetry == Permutations(Elements) \cup Permutations(Calls) \cup Permutations(Conns)
=============================================================================
