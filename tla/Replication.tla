---------------------------- MODULE Replication ----------------------------
(***************************************************************************)
(* The replication stream of a DIY-Redis master: propagate, PSYNC, GETACK, *)
(* the replicas' byte offsets and ACKs, and WAIT (ReplicationManager.ts,   *)
(* PsyncCommand.ts, WaitCommand.ts, and the propagated-command half of     *)
(* MasterConnectionHandler.ts).                                            *)
(*                                                                         *)
(* A member of Replicas is one PSYNC connection.  Its two directions are   *)
(* FIFO channels.  How TCP cuts them into chunks is left out: the replica  *)
(* acts on whole commands only.  The contents of a write do not matter     *)
(* here, its length does.  A write's number n is its place among the       *)
(* propagated writes.                                                      *)
(***************************************************************************)
EXTENDS Integers, Sequences, FiniteSets

CONSTANTS
  Replicas,   \* the connections that may send PSYNC
  Waits,      \* identities of WAIT calls
  WriteLens,  \* the lengths in bytes a propagated write may have
  GetAckLen,  \* the length of REPLCONF GETACK *
  MaxWrites   \* bound on the writes clients make

ASSUME ReplicationAssumption ==
  /\ IsFiniteSet(Replicas)
  /\ WriteLens \subseteq Nat \ {0}
  /\ GetAckLen \in Nat \ {0}
  /\ MaxWrites \in Nat

VARIABLES
  replicas,           \* serverInfo.replicas: connections whose PSYNC was served
  connected,          \* those whose socket is still open
  master_repl_offset, \* bytes of the writes propagated
  toReplica,          \* commands in flight to each replica
  toMaster,           \* ACKs in flight from each replica
  processingOffset,   \* bytes each replica has processed
  waitStatus,         \* of each WAIT: "idle", "waiting" or "done"
  requiredReplicas,   \* the argument of each WAIT
  masterOffset,       \* the offset each WAIT compares ACKs with
  ackCount,           \* the ACKs each WAIT counted
  \* history
  writes,             \* writes clients made
  propagated,         \* writes propagated
  joinedAt,           \* propagated when each replica joined
  offsetAtJoin,       \* master_repl_offset when each replica joined
  applied,            \* number of the last write each replica executed
  getAckBytes,        \* bytes of the GETACKs sent to each replica
  due,                \* propagated when each WAIT was called
  quiet,              \* WAITs that shared no GETACK or ACK with another WAIT
  counted,            \* replicas whose ACKs each WAIT counted
  caughtUp            \* replicas an ACK of which, sent when they had executed
                      \* all that was due, reached each WAIT

masterVars == <<replicas, connected, master_repl_offset>>
linkVars == <<toReplica, toMaster, processingOffset>>
waitVars == <<waitStatus, requiredReplicas, masterOffset, ackCount>>
waitHistory == <<due, quiet, counted, caughtUp>>
joinHistory == <<joinedAt, offsetAtJoin>>
vars == <<masterVars, linkVars, waitVars, writes, propagated, joinHistory,
          applied, getAckBytes, waitHistory>>

\* A command in flight: its length, the number of the write (0 for a GETACK)
\* and, as history, the place in the replica's stream where it ends.
Command == [kind : {"write", "getack"}, len : Nat, n : Nat, end : Nat]
Ack == [offset : Nat, upTo : Nat]

Init ==
  /\ replicas = {}
  /\ connected = {}
  /\ master_repl_offset = 0
  /\ toReplica = [r \in Replicas |-> << >>]
  /\ toMaster = [r \in Replicas |-> << >>]
  /\ processingOffset = [r \in Replicas |-> 0]
  /\ waitStatus = [w \in Waits |-> "idle"]
  /\ requiredReplicas = [w \in Waits |-> 0]
  /\ masterOffset = [w \in Waits |-> 0]
  /\ ackCount = [w \in Waits |-> 0]
  /\ writes = 0
  /\ propagated = 0
  /\ joinedAt = [r \in Replicas |-> 0]
  /\ offsetAtJoin = [r \in Replicas |-> 0]
  /\ applied = [r \in Replicas |-> 0]
  /\ getAckBytes = [r \in Replicas |-> 0]
  /\ due = [w \in Waits |-> 0]
  /\ quiet = [w \in Waits |-> FALSE]
  /\ counted = [w \in Waits |-> {}]
  /\ caughtUp = [w \in Waits |-> {}]

-----------------------------------------------------------------------------
\* Where the stream of replica r ends: the writes propagated since it joined
\* and the GETACKs, which the master's own offset leaves out.
StreamEnd(r) == master_repl_offset - offsetAtJoin[r] + getAckBytes[r]

\* What is in flight after a command was written to every socket that is
\* open; a closed socket drops what is written to it.
SendAll(kind, len, n) ==
  [r \in Replicas |->
     IF r \in connected
     THEN Append(toReplica[r], [kind |-> kind, len |-> len, n |-> n, end |-> StreamEnd(r) + len])
     ELSE toReplica[r]]

\* PSYNC: the replica is told to start from offset 0 with an empty RDB,
\* whatever the master's offset and keyspace, and joins the list.
Psync(r) ==
  /\ r \notin replicas
  /\ replicas' = replicas \cup {r}
  /\ connected' = connected \cup {r}
  /\ joinedAt' = [joinedAt EXCEPT ![r] = propagated]
  /\ offsetAtJoin' = [offsetAtJoin EXCEPT ![r] = master_repl_offset]
  /\ applied' = [applied EXCEPT ![r] = propagated]
  /\ UNCHANGED <<master_repl_offset, linkVars, waitVars, writes, propagated,
                 getAckBytes, waitHistory>>

\* Mutant: the replica leaves the list, but its socket is still written to.
DisconnectListOnly(r) ==
  /\ r \in connected
  /\ replicas' = replicas \ {r}
  /\ UNCHANGED <<connected, master_repl_offset, linkVars, waitVars, writes, propagated,
                 joinHistory, applied, getAckBytes, waitHistory>>

\* The socket of a replica closes.  Nothing takes it off the list.  Commands
\* in flight are lost; ACKs in flight arrive or are lost with it.
Disconnect(r) ==
  /\ r \in connected
  /\ connected' = connected \ {r}
  /\ toReplica' = [toReplica EXCEPT ![r] = << >>]
  /\ \/ UNCHANGED toMaster
     \/ toMaster' = [toMaster EXCEPT ![r] = << >>]
  /\ UNCHANGED <<replicas, master_repl_offset, processingOffset, waitVars, writes,
                 propagated, joinHistory, applied, getAckBytes, waitHistory>>

\* Mutant: the offset grows by the length of the command for each replica.
PropagatePerReplica(len) ==
  IF replicas = {}
  THEN UNCHANGED <<toReplica, master_repl_offset, propagated>>
  ELSE /\ toReplica' = SendAll("write", len, propagated + 1)
       /\ master_repl_offset' = master_repl_offset + len * Cardinality(replicas)
       /\ propagated' = propagated + 1

\* propagate: with no replica on the list it does nothing at all.
Propagate(len) ==
  IF replicas = {}
  THEN UNCHANGED <<toReplica, master_repl_offset, propagated>>
  ELSE /\ toReplica' = SendAll("write", len, propagated + 1)
       /\ master_repl_offset' = master_repl_offset + len
       /\ propagated' = propagated + 1

\* A client's write command has been executed and is propagated.
Write(len) ==
  /\ writes < MaxWrites
  /\ writes' = writes + 1
  /\ Propagate(len)
  /\ UNCHANGED <<replicas, connected, toMaster, processingOffset, waitVars,
                 joinHistory, applied, getAckBytes, waitHistory>>

\* The next propagated write reaches replica r, which executes it.
ReplicaWrite(r) ==
  /\ r \in connected
  /\ toReplica[r] # << >>
  /\ LET m == Head(toReplica[r])
     IN  /\ m.kind = "write"
         /\ processingOffset' = [processingOffset EXCEPT ![r] = @ + m.len]
         /\ applied' = [applied EXCEPT ![r] = m.n]
  /\ toReplica' = [toReplica EXCEPT ![r] = Tail(@)]
  /\ UNCHANGED <<masterVars, toMaster, waitVars, writes, propagated, joinHistory,
                 getAckBytes, waitHistory>>

\* Mutant: the bytes of the GETACK are counted before it is answered.
ReplicaGetAckCounted(r) ==
  /\ r \in connected
  /\ toReplica[r] # << >>
  /\ LET m == Head(toReplica[r])
     IN  /\ m.kind = "getack"
         /\ toMaster' = [toMaster EXCEPT ![r] =
                           Append(@, [offset |-> processingOffset[r] + m.len, upTo |-> applied[r]])]
         /\ processingOffset' = [processingOffset EXCEPT ![r] = @ + m.len]
  /\ toReplica' = [toReplica EXCEPT ![r] = Tail(@)]
  /\ UNCHANGED <<masterVars, waitVars, writes, propagated, joinHistory, applied,
                 getAckBytes, waitHistory>>

\* REPLCONF GETACK reaches replica r: the ACK reports the offset before the
\* GETACK itself, whose bytes are counted after.
ReplicaGetAck(r) ==
  /\ r \in connected
  /\ toReplica[r] # << >>
  /\ LET m == Head(toReplica[r])
     IN  /\ m.kind = "getack"
         /\ toMaster' = [toMaster EXCEPT ![r] =
                           Append(@, [offset |-> processingOffset[r], upTo |-> applied[r]])]
         /\ processingOffset' = [processingOffset EXCEPT ![r] = @ + m.len]
  /\ toReplica' = [toReplica EXCEPT ![r] = Tail(@)]
  /\ UNCHANGED <<masterVars, waitVars, writes, propagated, joinHistory, applied,
                 getAckBytes, waitHistory>>

-----------------------------------------------------------------------------
\* WAIT n: it answers at once with the length of the list when that is 0 or
\* when the master's offset is 0.
WaitNow(w, n) ==
  /\ waitStatus[w] = "idle"
  /\ replicas = {} \/ master_repl_offset = 0
  /\ waitStatus' = [waitStatus EXCEPT ![w] = "done"]
  /\ requiredReplicas' = [requiredReplicas EXCEPT ![w] = n]
  /\ ackCount' = [ackCount EXCEPT ![w] = Cardinality(replicas)]
  /\ due' = [due EXCEPT ![w] = propagated]
  /\ UNCHANGED <<masterVars, linkVars, masterOffset, writes, propagated, joinHistory,
                 applied, getAckBytes, quiet, counted, caughtUp>>

\* No WAIT is listening, and no GETACK or ACK of an earlier one is in flight.
NothingAsked ==
  /\ \A v \in Waits : waitStatus[v] # "waiting"
  /\ \A r \in Replicas : /\ toMaster[r] = << >>
                         /\ \A i \in DOMAIN toReplica[r] : toReplica[r][i].kind = "write"

\* Otherwise it asks every replica for an ACK and starts to listen.
WaitBlock(w, n) ==
  /\ waitStatus[w] = "idle"
  /\ replicas # {} /\ master_repl_offset # 0
  /\ waitStatus' = [waitStatus EXCEPT ![w] = "waiting"]
  /\ requiredReplicas' = [requiredReplicas EXCEPT ![w] = n]
  /\ masterOffset' = [masterOffset EXCEPT ![w] = master_repl_offset]
  /\ toReplica' = SendAll("getack", GetAckLen, 0)
  /\ getAckBytes' = [r \in Replicas |->
                       IF r \in connected THEN getAckBytes[r] + GetAckLen ELSE getAckBytes[r]]
  /\ due' = [due EXCEPT ![w] = propagated]
  /\ quiet' = [v \in Waits |-> IF v = w THEN NothingAsked
                               ELSE quiet[v] /\ waitStatus[v] # "waiting"]
  /\ UNCHANGED <<masterVars, toMaster, processingOffset, ackCount, writes, propagated,
                 joinHistory, applied, counted, caughtUp>>

\* Mutant: offset > masterOffset.
CountsOnlyBeyond(w, ack) == waitStatus[w] = "waiting" /\ ack.offset > masterOffset[w]

\* Mutant: every ACK counts, whatever offset it reports.
CountsAny(w, ack) == waitStatus[w] = "waiting"

\* Mutant: the listener of a WAIT that answered is not removed.
CountsAfterDone(w, ack) == waitStatus[w] # "idle" /\ ack.offset >= masterOffset[w]

\* WAIT w is listening and this ACK has reached the offset it waits for.
Counts(w, ack) == waitStatus[w] = "waiting" /\ ack.offset >= masterOffset[w]

\* An ACK from replica r reaches the master: every WAIT that listens counts
\* it, and one that has counted enough ACKs answers.  Who sent the ACK is
\* not looked at.
ReceiveAck(r) ==
  /\ toMaster[r] # << >>
  /\ LET ack == Head(toMaster[r])
     IN  /\ ackCount' = [w \in Waits |-> IF Counts(w, ack) THEN ackCount[w] + 1 ELSE ackCount[w]]
         /\ waitStatus' = [w \in Waits |->
                             IF Counts(w, ack) /\ ackCount[w] + 1 >= requiredReplicas[w]
                             THEN "done" ELSE waitStatus[w]]
         /\ counted' = [w \in Waits |-> IF Counts(w, ack) THEN counted[w] \cup {r} ELSE counted[w]]
         /\ caughtUp' = [w \in Waits |->
                           IF waitStatus[w] = "waiting" /\ ack.upTo >= due[w]
                           THEN caughtUp[w] \cup {r} ELSE caughtUp[w]]
  /\ toMaster' = [toMaster EXCEPT ![r] = Tail(@)]
  /\ UNCHANGED <<masterVars, toReplica, processingOffset, requiredReplicas, masterOffset,
                 writes, propagated, joinHistory, applied, getAckBytes, due, quiet>>

\* Mutant: the first ACK that counts clears the timer.
WaitTimeoutIfNoAck(w) ==
  /\ waitStatus[w] = "waiting"
  /\ ackCount[w] = 0
  /\ waitStatus' = [waitStatus EXCEPT ![w] = "done"]
  /\ UNCHANGED <<masterVars, linkVars, requiredReplicas, masterOffset, ackCount, writes,
                 propagated, joinHistory, applied, getAckBytes, waitHistory>>

\* The timer of a WAIT fires: it answers with the ACKs counted so far.
WaitTimeout(w) ==
  /\ waitStatus[w] = "waiting"
  /\ waitStatus' = [waitStatus EXCEPT ![w] = "done"]
  /\ UNCHANGED <<masterVars, linkVars, requiredReplicas, masterOffset, ackCount, writes,
                 propagated, joinHistory, applied, getAckBytes, waitHistory>>

Next ==
  \/ \E r \in Replicas : Psync(r) \/ Disconnect(r)
  \/ \E len \in WriteLens : Write(len)
  \/ \E r \in Replicas : ReplicaWrite(r) \/ ReplicaGetAck(r) \/ ReceiveAck(r)
  \/ \E w \in Waits, n \in 0..Cardinality(Replicas) : WaitNow(w, n) \/ WaitBlock(w, n)
  \/ \E w \in Waits : WaitTimeout(w)

Spec == Init /\ [][Next]_vars

\* Every WAIT that blocks arms a timer, and Node runs the timers that are due.
FairSpec == Spec /\ \A w \in Waits : WF_vars(WaitTimeout(w))

-----------------------------------------------------------------------------
(* Properties.                                                             *)

\* Type correctness of the replication state and of its history.
TypeOK ==
  /\ replicas \subseteq Replicas
  /\ connected \subseteq replicas
  /\ master_repl_offset \in Nat
  /\ toReplica \in [Replicas -> Seq(Command)]
  /\ toMaster \in [Replicas -> Seq(Ack)]
  /\ processingOffset \in [Replicas -> Nat]
  /\ waitStatus \in [Waits -> {"idle", "waiting", "done"}]
  /\ requiredReplicas \in [Waits -> Nat]
  /\ masterOffset \in [Waits -> Nat]
  /\ ackCount \in [Waits -> Nat]
  /\ writes \in Nat
  /\ propagated \in Nat
  /\ joinedAt \in [Replicas -> Nat]
  /\ offsetAtJoin \in [Replicas -> Nat]
  /\ applied \in [Replicas -> Nat]
  /\ getAckBytes \in [Replicas -> Nat]
  /\ due \in [Waits -> Nat]
  /\ quiet \in [Waits -> BOOLEAN]
  /\ counted \in [Waits -> SUBSET Replicas]
  /\ caughtUp \in [Waits -> SUBSET Replicas]

\* Replica r executed every write up to number n, from the first one on.
HoldsAll(r, n) == r \in replicas /\ joinedAt[r] = 0 /\ applied[r] >= n

\* The two offsets account for every byte: what a connected replica has
\* processed, and the commands in flight to it one after the other, make up
\* what the master propagated since it joined and the GETACKs it was sent.
StreamAccounted ==
  \A r \in connected :
    LET q == toReplica[r]
    IN  /\ q = << >> => processingOffset[r] = StreamEnd(r)
        /\ \A i \in DOMAIN q :
             /\ q[i].end - q[i].len = IF i = 1 THEN processingOffset[r] ELSE q[i - 1].end
             /\ i = Len(q) => q[i].end = StreamEnd(r)

\* WAIT w was called, and no other so far.
OnlyWait(w) == waitStatus[w] # "idle" /\ \A v \in Waits \ {w} : waitStatus[v] = "idle"

\* A WAIT that is the only one made never counts more replicas than hold
\* every write propagated before it: a replica that joined late, with the
\* empty RDB, is not counted for writes it was never sent.
WaitCountsHolders ==
  \A w \in Waits : OnlyWait(w) =>
    ackCount[w] <= Cardinality({r \in Replicas : HoldsAll(r, due[w])})

\* A WAIT that shares no GETACK or ACK with another counts each replica once,
\* and only when it executed all it was sent before the WAIT, although the
\* offsets of the replicas run ahead by the GETACKs of earlier WAITs.
QuietWaitCountsDistinct ==
  \A w \in Waits : quiet[w] =>
    /\ ackCount[w] = Cardinality(counted[w])
    /\ \A r \in counted[w] : applied[r] >= due[w]

\* No WAIT, however many run at once, misses a replica that joined before
\* the first propagated write and acknowledged all that was due in time.
EarlyReplicaCounted ==
  \A w \in Waits : waitStatus[w] # "idle" =>
    ackCount[w] >= Cardinality({r \in caughtUp[w] : offsetAtJoin[r] = 0})

\* A WAIT returns, whatever happens to the replicas it asked.
WaitReturns == \A w \in Waits : waitStatus[w] = "waiting" ~> waitStatus[w] = "done"

\* WaitCommand.ts:36 says it resolves "if the required number of replicas
\* acknowledged": the ACKs that made a WAIT answer came from that many.
AcknowledgedByRequired ==
  \A w \in Waits : waitStatus[w] = "done" /\ masterOffset[w] > 0
                     /\ ackCount[w] >= requiredReplicas[w] =>
    Cardinality(counted[w]) >= requiredReplicas[w]

\* What goes over the link of replica r, without the history: the commands
\* that were written to it and the offsets it answered.
Pending(r) ==
  [i \in DOMAIN toReplica[r] |-> [kind |-> toReplica[r][i].kind, len |-> toReplica[r][i].len]]
Answered(r) == [i \in DOMAIN toMaster[r] |-> toMaster[r][i].offset]

Link(r) == INSTANCE CommandStream WITH
  Commands <- [kind : {"write"}, len : WriteLens] \cup [kind : {"getack"}, len : {GetAckLen}],
  pending <- Pending(r), offset <- processingOffset[r], acks <- Answered(r)

\* The master takes the first ACK off the link.
AckArrives(r) ==
  /\ Answered(r) # << >>
  /\ Answered(r)' = Tail(Answered(r))
  /\ UNCHANGED <<Pending(r), processingOffset[r]>>

\* The socket closes: what the replica has not executed is lost, and the
\* ACKs under way may be.
LinkCloses(r) ==
  /\ r \in connected /\ r \notin connected'
  /\ Pending(r)' = << >>
  /\ Answered(r)' \in {Answered(r), << >>}
  /\ UNCHANGED processingOffset[r]

\* Until its socket closes, the link of every replica is what CommandStream
\* says and MasterLink implements: whoever writes, waits, joins or leaves,
\* commands are executed once, in order, and answered by the bytes in front.
LinksImplementCommandStream ==
  /\ \A r \in Replicas : Link(r)!Init
  /\ [][\A r \in Replicas :
          [Link(r)!Next \/ AckArrives(r) \/ LinkCloses(r)]_(Link(r)!vars)]_vars
=============================================================================
