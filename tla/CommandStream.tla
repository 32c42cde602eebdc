--------------------------- MODULE CommandStream ---------------------------
(***************************************************************************)
(* What a master expects of a replica that is attached: it executes every  *)
(* propagated command once, in order, and answers each GETACK with the     *)
(* bytes of the commands in front of it, that GETACK not included.         *)
(* Replication abstracts the link between a master and its replica to      *)
(* this.                                                                   *)
(***************************************************************************)
EXTENDS Integers, Sequences

CONSTANT Commands  \* what may be propagated: records with a kind and a length (len)

VARIABLES
  pending, \* commands propagated and not executed
  offset,  \* bytes of the commands executed
  acks     \* the offsets answered

vars == <<pending, offset, acks>>

Init == pending = << >> /\ offset = 0 /\ acks = << >>

Propagate(c) ==
  /\ pending' = Append(pending, c)
  /\ UNCHANGED <<offset, acks>>

Execute ==
  /\ pending # << >>
  /\ acks' = IF Head(pending).kind = "getack" THEN Append(acks, offset) ELSE acks
  /\ offset' = offset + Head(pending).len
  /\ pending' = Tail(pending)

Next == (\E c \in Commands : Propagate(c)) \/ Execute

Spec == Init /\ [][Next]_vars
=============================================================================
