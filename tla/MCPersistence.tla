--------------------------- MODULE MCPersistence ---------------------------
(* Instances of Persistence for TLC. *)
EXTENDS Persistence

CONSTANTS k1, k2, long

\* A long key has as many bytes as are refused, other keys and texts have one.
MCSize == [x \in Keys \cup Texts |-> IF x = long THEN LengthLimit ELSE 1]

\* The keys that are not long are interchangeable.
MCSymmetry == Permutations({k1, k2})
=============================================================================
