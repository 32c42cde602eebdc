----------------------------- MODULE MasterLink -----------------------------
(***************************************************************************)
(* The connection of a replica to its master: the handshake, the RDB file  *)
(* and the propagated commands (replication/MasterConnectionHandler.ts,    *)
(* handshake.ts), with the master's answers to the handshake (PING,        *)
(* REPLCONF, PsyncCommand.ts).                                             *)
(*                                                                         *)
(* The master writes messages, each of some length in bytes, and the       *)
(* network cuts their stream anywhere.  The replica appends what arrives   *)
(* to its buffer, which is the part of the stream from byte start to byte  *)
(* received, and consumes one message after the other until none is        *)
(* complete.  Nothing of the replica runs between the turns of that loop   *)
(* (onData is synchronous), so that the turns are steps and no data        *)
(* arrives while it runs.  What a message is read as depends on the state  *)
(* of the handler only.                                                    *)
(***************************************************************************)
EXTENDS Integers, Sequences

CONSTANTS
  WriteLengths, \* the lengths in bytes a propagated write may have
  GetAckLength, \* the length of REPLCONF GETACK *
  ReplyLength,  \* the length of an answer to the handshake
  RdbLength,    \* the length of the RDB file with its header
  MaxCommands   \* bound on the commands the master propagates

ASSUME LinkAssumption ==
  /\ WriteLengths \subseteq Nat \ {0}
  /\ GetAckLength \in Nat \ {0}
  /\ ReplyLength \in Nat \ {0}
  /\ RdbLength \in Nat \ {0}
  /\ MaxCommands \in Nat

VARIABLES
  requests,         \* what the replica wrote that the master has not executed
  stream,           \* what the master wrote, each message with the byte it ends at
  attached,         \* whether the master has listed the replica
  received,         \* bytes of the stream that arrived
  start,            \* bytes of the stream sliced off the buffer
  running,          \* whether onData is in its loop
  handshakeStep,    \* how many answers of the handshake were taken
  rdbFileExpected,  \* whether the RDB file is next
  processingOffset, \* bytes of propagated commands processed
  executed,         \* history: the writes emitted to the dispatcher, by their place
  acks              \* the offsets written to the master

handlerVars == <<start, handshakeStep, rdbFileExpected, processingOffset, executed, acks>>
vars == <<requests, stream, attached, received, running, handlerVars>>

Kinds == {"PONG", "OK", "FULLRESYNC", "RDB", "write", "getack"}
Commands ==
  [kind : {"write"}, len : WriteLengths] \cup [kind : {"getack"}, len : {GetAckLength}]

\* The messages in front of the first command.
Preamble == 5

Init ==
  /\ requests = <<"PING">>
  /\ stream = << >>
  /\ attached = FALSE
  /\ received = 0
  /\ start = 0
  /\ running = FALSE
  /\ handshakeStep = 0
  /\ rdbFileExpected = FALSE
  /\ processingOffset = 0
  /\ executed = << >>
  /\ acks = << >>

-----------------------------------------------------------------------------
(* The master.                                                             *)

\* Bytes in the stream so far.
Written == IF stream = << >> THEN 0 ELSE stream[Len(stream)].end

\* The stream with one more message.
Wrote(kind, length) ==
  Append(stream, [kind |-> kind, len |-> length, end |-> Written + length])

\* PING and REPLCONF are answered with a line each.
MasterReplies ==
  /\ requests # << >>
  /\ Head(requests) # "PSYNC"
  /\ stream' = Wrote(IF Head(requests) = "PING" THEN "PONG" ELSE "OK", ReplyLength)
  /\ requests' = Tail(requests)
  /\ UNCHANGED <<attached, received, running, handlerVars>>

\* Mutant: the file of an empty keyspace is left out.
MasterPsyncNoFile ==
  /\ requests # << >>
  /\ Head(requests) = "PSYNC"
  /\ stream' = Wrote("FULLRESYNC", ReplyLength)
  /\ attached' = TRUE
  /\ requests' = Tail(requests)
  /\ UNCHANGED <<received, running, handlerVars>>

\* PSYNC: the answer, the RDB file, and the replica is listed.
MasterPsync ==
  /\ requests # << >>
  /\ Head(requests) = "PSYNC"
  /\ stream' = Append(Wrote("FULLRESYNC", ReplyLength),
                      [kind |-> "RDB", len |-> RdbLength,
                       end |-> Written + ReplyLength + RdbLength])
  /\ attached' = TRUE
  /\ requests' = Tail(requests)
  /\ UNCHANGED <<received, running, handlerVars>>

\* A write or a GETACK is written to the replicas that are listed.
Propagate(c) ==
  /\ attached
  /\ Len(stream) < Preamble + MaxCommands
  /\ stream' = Wrote(c.kind, c.len)
  /\ UNCHANGED <<requests, attached, received, running, handlerVars>>

-----------------------------------------------------------------------------
(* The replica.                                                            *)

\* A "data" event: bytes arrive, and the loop begins.
Arrive(n) ==
  /\ ~ running
  /\ received + n <= Written
  /\ received' = received + n
  /\ running' = TRUE
  /\ UNCHANGED <<requests, stream, attached, handlerVars>>

\* The message the buffer begins with, once it is complete.
Heads ==
  {i \in DOMAIN stream :
     stream[i].end - stream[i].len = start /\ stream[i].end <= received}

\* The answer each step of the handshake waits for, and what it then sends.
Awaited == <<"PONG", "OK", "OK", "FULLRESYNC">>
Answer == <<<<"REPLCONF">>, <<"REPLCONF">>, <<"PSYNC">>, << >>>>

\* Mutant: the port and the capabilities are sent at once.
HandshakeLinePipelined(i) ==
  /\ running /\ handshakeStep < 4
  /\ i \in Heads
  /\ start' = stream[i].end
  /\ IF stream[i].kind = Awaited[handshakeStep + 1]
     THEN /\ handshakeStep' = handshakeStep + 1
          /\ requests' = requests \o
               (IF handshakeStep = 0 THEN <<"REPLCONF", "REPLCONF">>
                ELSE Answer[handshakeStep + 1])
          /\ rdbFileExpected' = (handshakeStep' = 4)
     ELSE UNCHANGED <<handshakeStep, requests, rdbFileExpected>>
  /\ UNCHANGED <<stream, attached, received, running, processingOffset, executed, acks>>

\* Until the handshake is done, a line that is not the answer awaited is
\* sliced off and ignored.
HandshakeLine(i) ==
  /\ running /\ handshakeStep < 4
  /\ i \in Heads
  /\ start' = stream[i].end
  /\ IF stream[i].kind = Awaited[handshakeStep + 1]
     THEN /\ handshakeStep' = handshakeStep + 1
          /\ requests' = requests \o Answer[handshakeStep + 1]
          /\ rdbFileExpected' = (handshakeStep' = 4)
     ELSE UNCHANGED <<handshakeStep, requests, rdbFileExpected>>
  /\ UNCHANGED <<stream, attached, received, running, processingOffset, executed, acks>>

\* The RDB file is skipped as a whole; anything else where it should be
\* empties the buffer.
RdbFile(i) ==
  /\ running /\ handshakeStep = 4 /\ rdbFileExpected
  /\ i \in Heads
  /\ IF stream[i].kind = "RDB"
     THEN start' = stream[i].end /\ rdbFileExpected' = FALSE
     ELSE start' = received /\ UNCHANGED rdbFileExpected
  /\ UNCHANGED <<requests, stream, attached, received, running, handshakeStep,
                 processingOffset, executed, acks>>

\* Mutant: a GETACK is not counted.
CountedWrites(i) == IF stream[i].kind = "getack" THEN 0 ELSE stream[i].len

\* What a command adds to the offset.
Counted(i) == stream[i].len

\* The offset a GETACK is answered with.
AckOffset(i) == processingOffset

\* A propagated command: a write is handed to the dispatcher, which has
\* executed it when it returns; a GETACK is answered.
PropagatedCommand(i) ==
  /\ running /\ handshakeStep = 4 /\ ~ rdbFileExpected
  /\ i \in Heads
  /\ stream[i].kind \in {"write", "getack"}
  /\ start' = stream[i].end
  /\ processingOffset' = processingOffset + Counted(i)
  /\ IF stream[i].kind = "getack"
     THEN acks' = Append(acks, AckOffset(i)) /\ UNCHANGED executed
     ELSE executed' = Append(executed, i) /\ UNCHANGED acks
  /\ UNCHANGED <<requests, stream, attached, received, running, handshakeStep,
                 rdbFileExpected>>

\* No message is complete, or it does not begin with '*': the loop ends.
Stop ==
  /\ running
  /\ \A i \in Heads : /\ handshakeStep = 4 /\ ~ rdbFileExpected
                      /\ stream[i].kind \notin {"write", "getack"}
  /\ running' = FALSE
  /\ UNCHANGED <<requests, stream, attached, received, handlerVars>>

Master == MasterReplies \/ MasterPsync
Turn == Stop \/ \E i \in DOMAIN stream : HandshakeLine(i) \/ RdbFile(i) \/ PropagatedCommand(i)

Next ==
  \/ Master
  \/ \E c \in Commands : Propagate(c)
  \/ \E n \in 1..(Written - received) : Arrive(n)
  \/ Turn

Spec == Init /\ [][Next]_vars

\* The master answers what it was sent, the network delivers, and Node runs
\* the loop to its end.  Nothing obliges the master to propagate.
FairSpec ==
  /\ Spec
  /\ WF_vars(Master)
  /\ WF_vars(\E n \in 1..(Written - received) : Arrive(n))
  /\ WF_vars(Turn)

-----------------------------------------------------------------------------
(* Properties.                                                             *)

\* Whatever the network does, each message is read as what it was written
\* as: an answer in the step of the handshake that waits for it, the RDB
\* file as a file, a command as a command.
ReadAsWritten ==
  \A i \in DOMAIN stream : stream[i].end - stream[i].len = start =>
    stream[i].kind \in
      IF handshakeStep < 4 THEN {Awaited[handshakeStep + 1]}
      ELSE IF rdbFileExpected THEN {"RDB"}
      ELSE {"write", "getack"}

\* The commands processed so far, and those the master wrote that were not.
Processed == Len(executed) + Len(acks)

Unprocessed ==
  [n \in 1..(Len(stream) - Preamble - Processed) |->
     LET m == stream[Preamble + Processed + n]
     IN  [kind |-> m.kind, len |-> m.len]]

\* The link is to the master what CommandStream says, from the moment the
\* master lists the replica: what Replication assumes of it.
AsStream == INSTANCE CommandStream WITH pending <- Unprocessed, offset <- processingOffset

ImplementsCommandStream == AsStream!Spec

\* Every propagated command is executed, although its handshake, the RDB file
\* and the commands themselves are cut anywhere.
EveryCommandProcessed ==
  \A n \in 1..MaxCommands : (Len(stream) >= Preamble + n) ~> (Processed >= n)
=============================================================================
