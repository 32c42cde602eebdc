--------------------------- MODULE ConnectionLoop ---------------------------
(***************************************************************************)
(* The data handler of one client connection (handleConnection in          *)
(* Server.ts) and the framing it relies on (parseNextCommand in            *)
(* DataParser.ts).                                                         *)
(*                                                                         *)
(* The client's stream is a sequence of commands, each of some length in   *)
(* bytes, and the network cuts it anywhere.  The handler appends what      *)
(* arrived to the connection's buffer and then parses, dispatches and      *)
(* slices off one command after the other.  It is an async function: while *)
(* it awaits a command that blocks, data that arrives starts it again, on  *)
(* the same buffer, and both activations go on when their command answers. *)
(*                                                                         *)
(* The buffer is the part of the stream from byte start to byte received.  *)
(* A buffer that begins inside a command begins with another byte than '*' *)
(* (the arguments hold no '*').                                            *)
(***************************************************************************)
EXTENDS Integers, Sequences, FiniteSets

CONSTANTS
  Kinds,      \* "plain" commands answer at once, "blocking" ones may park
  Lens,       \* the lengths in bytes a command may have
  Impatient,  \* whether the client sends on while a command may be blocked
  MaxSent,    \* bound on the commands a client sends
  MaxParked   \* bound on the activations that await one command

ASSUME ConnectionAssumption ==
  /\ Kinds \subseteq {"plain", "blocking"}
  /\ Lens \subseteq Nat \ {0}
  /\ Impatient \in BOOLEAN
  /\ MaxSent \in Nat
  /\ MaxParked \in Nat

VARIABLES
  sent,     \* the commands in the client's stream, each with the byte it ends at
  received, \* bytes of the stream that arrived
  start,    \* bytes of the stream sliced off the buffer
  running,  \* whether an activation of the handler is in its loop
  parked,   \* for each command, the activations that await its answer
  executed, \* history: the commands dispatched, by their place in the stream
  replies   \* history: the commands answered, likewise

vars == <<sent, received, start, running, parked, executed, replies>>

Places == 1..MaxSent

Init ==
  /\ sent = << >>
  /\ received = 0
  /\ start = 0
  /\ running = FALSE
  /\ parked = [i \in Places |-> 0]
  /\ executed = << >>
  /\ replies = << >>

\* Bytes in the stream so far.
Written == IF sent = << >> THEN 0 ELSE sent[Len(sent)].end

\* The client writes a command.  Unless it is impatient, it pipelines nothing
\* behind a command that may block.
Send(kind, len) ==
  /\ Len(sent) < MaxSent
  /\ Impatient \/ \A i \in DOMAIN sent : sent[i].kind = "blocking" => i <= Len(replies)
  /\ sent' = Append(sent, [kind |-> kind, len |-> len, end |-> Written + len])
  /\ UNCHANGED <<received, start, running, parked, executed, replies>>

\* A "data" event: bytes arrive and an activation of the handler starts.
\* Activations that await a command go on only when no other is in its loop.
Arrive(n) ==
  /\ ~ running
  /\ received + n <= Written
  /\ received' = received + n
  /\ running' = TRUE
  /\ UNCHANGED <<sent, start, parked, executed, replies>>

\* parseNextCommand: the command the buffer begins with, once it is complete.
Heads ==
  {i \in DOMAIN sent : sent[i].end - sent[i].len = start /\ sent[i].end <= received}

\* Mutant: the whole buffer is dropped.
SliceAll(i) == received

\* Mutant: the last line end is counted twice.
SlicePastEnd(i) == start + sent[i].len + 1

\* Mutant: nothing is sliced off.
SliceNothing(i) == start

\* slice(bytesConsumed), which stops at the end of the buffer.
Slice(i) ==
  IF start + sent[i].len <= received THEN start + sent[i].len ELSE received

\* The buffer holds no complete command: the activation ends.
Stop ==
  /\ running
  /\ Heads = {}
  /\ running' = FALSE
  /\ UNCHANGED <<sent, received, start, parked, executed, replies>>

\* A command is dispatched and answers: its answer is written and its bytes
\* are sliced off.  A blocking command may find what it asks for at once.
Answer(i) ==
  /\ running
  /\ i \in Heads
  /\ executed' = Append(executed, i)
  /\ replies' = Append(replies, i)
  /\ start' = Slice(i)
  /\ UNCHANGED <<sent, received, running, parked>>

\* A blocking command is dispatched and parks: the activation is suspended
\* and the bytes of the command stay in the buffer.
Park(i) ==
  /\ running
  /\ i \in Heads
  /\ sent[i].kind = "blocking"
  /\ parked[i] < MaxParked
  /\ executed' = Append(executed, i)
  /\ parked' = [parked EXCEPT ![i] = @ + 1]
  /\ running' = FALSE
  /\ UNCHANGED <<sent, received, start, replies>>

\* Mutant: the bytes of a command that blocked stay in the buffer.
ResumeUnsliced(i) ==
  /\ ~ running
  /\ parked[i] > 0
  /\ parked' = [parked EXCEPT ![i] = @ - 1]
  /\ replies' = Append(replies, i)
  /\ running' = TRUE
  /\ UNCHANGED <<sent, received, start, executed>>

\* The answer of a parked command: an activation that awaits it writes the
\* answer, slices and goes on with its loop.
Resume(i) ==
  /\ ~ running
  /\ parked[i] > 0
  /\ parked' = [parked EXCEPT ![i] = @ - 1]
  /\ replies' = Append(replies, i)
  /\ start' = Slice(i)
  /\ running' = TRUE
  /\ UNCHANGED <<sent, received, executed>>

Next ==
  \/ \E kind \in Kinds, len \in Lens : Send(kind, len)
  \/ \E n \in 1..(Written - received) : Arrive(n)
  \/ Stop
  \/ \E i \in DOMAIN sent : Answer(i) \/ Park(i) \/ Resume(i)

Spec == Init /\ [][Next]_vars

\* The network delivers what was written, and Node runs the loop of an
\* activation until it is suspended.  Nothing obliges a blocking command to
\* be answered.
FairSpec ==
  /\ Spec
  /\ WF_vars(\E n \in 1..(Written - received) : Arrive(n))
  /\ WF_vars(Stop \/ \E i \in DOMAIN sent : Answer(i))

-----------------------------------------------------------------------------
(* Properties.                                                             *)

\* Type correctness of the connection.
TypeOK ==
  /\ sent \in Seq([kind : Kinds, len : Lens, end : Nat])
  /\ received \in Nat
  /\ start \in 0..received
  /\ running \in BOOLEAN
  /\ parked \in [Places -> 0..MaxParked]
  /\ executed \in Seq(Places)
  /\ replies \in Seq(Places)

\* Commands are executed, and answered, in the order they were sent, each once.
InStreamOrder ==
  /\ \A n \in DOMAIN executed : executed[n] = n
  /\ \A n \in DOMAIN replies : replies[n] = n

\* No command waits for its answer in two activations of the handler.
OneActivation == \A i \in Places : parked[i] <= 1

\* The connection does what its client expects: it implements RequestReply.
Client == INSTANCE RequestReply WITH
  asked <- Len(sent), executed <- Len(executed), answered <- Len(replies)

ImplementsRequestReply == Client!Spec

\* Every command is answered, however it was cut, unless one is blocked.
EveryCommandAnswered ==
  \A n \in Places :
    (Len(sent) >= n) ~> (Len(replies) >= n \/ \E i \in Places : parked[i] > 0)

\* README.md:47 says "After receiving a command through redis-cli, the server
\* parses it and sends a proper" RESP response: one response for each
\* command, no more.
OneResponse ==
  \A m, n \in DOMAIN replies : replies[m] = replies[n] => m = n
=============================================================================
