----------------------------- MODULE MCStreams -----------------------------
(* Instances of Streams for TLC. *)
EXTENDS Streams

CONSTANTS s1, s2

\* Identifiers of one and two digits, in full, in part, or left to the server.
MCRequests == {<<9, 1>>, <<10, Star>>, <<Star, Star>>}

\* One stream or both, behind an identifier or behind the last entry; not
\* behind the last entries of both, which multiplies the states.
MCXreads ==
  {[k \in keys |-> IF k = last THEN Dollar ELSE <<9, 1>>] :
     keys \in {{s1}, {s2}, {s1, s2}}, last \in {s1, s2, None}}

MCClock == {10, 11}

MCSymmetry == Permutations(Readers) \cup Permutations(Keys)
=============================================================================
