---------------------------- MODULE RequestReply ----------------------------
(***************************************************************************)
(* What a client expects of a DIY-Redis connection: every command it sends *)
(* is executed once and answered once, in the order it was sent.           *)
(***************************************************************************)
EXTENDS Integers

CONSTANT MaxSent  \* bound on the commands a client sends

VARIABLES
  asked,    \* number of commands sent
  executed, \* number of commands executed
  answered  \* number of commands answered

vars == <<asked, executed, answered>>

Init == asked = 0 /\ executed = 0 /\ answered = 0

Ask ==
  /\ asked < MaxSent
  /\ asked' = asked + 1
  /\ UNCHANGED <<executed, answered>>

\* The next command is executed once all before it were answered.
Execute ==
  /\ executed < asked
  /\ answered = executed
  /\ executed' = executed + 1
  /\ UNCHANGED <<asked, answered>>

\* A command that has to wait is answered some time after it was executed.
Reply ==
  /\ answered < executed
  /\ answered' = answered + 1
  /\ UNCHANGED <<asked, executed>>

\* Most commands are answered where they are executed.
ExecuteAndReply ==
  /\ executed < asked
  /\ answered = executed
  /\ executed' = executed + 1
  /\ answered' = answered + 1
  /\ UNCHANGED asked

Next == Ask \/ Execute \/ Reply \/ ExecuteAndReply

Spec == Init /\ [][Next]_vars
=============================================================================
