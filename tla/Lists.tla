------------------------------- MODULE Lists -------------------------------
(***************************************************************************)
(* What the modules of this project use of JavaScript's arrays and Maps,   *)
(* defined so that it can be reasoned about.                               *)
(***************************************************************************)
EXTENDS Integers, Sequences

\* The members of S among the first i of s, for each i, in their order.
Kept(s, S) ==
  LET kept[i \in 0..Len(s)] ==
        IF i = 0 THEN << >>
        ELSE IF s[i] \in S THEN Append(kept[i - 1], s[i])
        ELSE kept[i - 1]
  IN  kept

\* What a filter that lets the members of S pass leaves of s.
Only(s, S) == Kept(s, S)[Len(s)]
=============================================================================
