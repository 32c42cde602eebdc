-------------------------- MODULE ReplicationProofs --------------------------
(***************************************************************************)
(* What the master's stream and WAIT promise, for every number of          *)
(* replicas, WAITs and writes, and for all lengths of the commands.        *)
(***************************************************************************)
EXTENDS Replication, FiniteSetTheorems, SequenceTheorems, TLAPS

\* Commands that lie in the stream one after the other, between two places.
Chain(q, from, to) ==
  /\ q = << >> => from = to
  /\ \A i \in DOMAIN q :
       /\ q[i].end - q[i].len = IF i = 1 THEN from ELSE q[i - 1].end
       /\ i = Len(q) => q[i].end = to

\* Connections that did not send PSYNC have no stream.
NotJoined ==
  \A r \in Replicas \ replicas :
    processingOffset[r] = 0 /\ getAckBytes[r] = 0 /\ toMaster[r] = << >>

\* Nothing is in flight to a closed socket.
ClosedLinksEmpty == \A r \in Replicas \ connected : toReplica[r] = << >>

\* A replica joins at an offset the master has reached.
JoinsArePast == \A r \in Replicas : offsetAtJoin[r] <= master_repl_offset

\* The inductive invariant of the stream.
StreamInv == TypeOK /\ NotJoined /\ ClosedLinksEmpty /\ JoinsArePast /\ StreamAccounted

-----------------------------------------------------------------------------
(* Queues.                                                                 *)

\* What taking the first member of a queue leaves.
LEMMA QueueTail ==
  ASSUME NEW S, NEW q \in Seq(S), q # << >>
  PROVE  /\ Head(q) = q[1] /\ q[1] \in S /\ 1 \in DOMAIN q
         /\ Tail(q) \in Seq(S)
         /\ Len(q) \in Nat \ {0} /\ DOMAIN q = 1..Len(q)
         /\ Len(Tail(q)) = Len(q) - 1 /\ DOMAIN Tail(q) = 1..(Len(q) - 1)
         /\ \A i \in DOMAIN Tail(q) : i + 1 \in DOMAIN q /\ Tail(q)[i] = q[i + 1]
         /\ \A i \in DOMAIN q : i # 1 => i - 1 \in DOMAIN Tail(q) /\ Tail(q)[i - 1] = q[i]
BY HeadTailProperties, EmptySeq, LenProperties

\* What appending to a queue makes.
LEMMA QueueAppend ==
  ASSUME NEW S, NEW q \in Seq(S), NEW m \in S
  PROVE  /\ Append(q, m) \in Seq(S) /\ Append(q, m) # << >>
         /\ Len(q) \in Nat /\ DOMAIN q = 1..Len(q)
         /\ Len(Append(q, m)) = Len(q) + 1 /\ DOMAIN Append(q, m) = 1..(Len(q) + 1)
         /\ \A i \in DOMAIN q : i \in DOMAIN Append(q, m) /\ Append(q, m)[i] = q[i]
         /\ Append(q, m)[Len(q) + 1] = m
         /\ \A i \in DOMAIN Append(q, m) : i \in DOMAIN q \/ i = Len(q) + 1
<1>1. Append(q, m) \in Seq(S) /\ Len(Append(q, m)) = Len(q) + 1 /\ Len(q) \in Nat /\ DOMAIN q = 1..Len(q)
  BY AppendProperties, LenProperties
<1>2. DOMAIN Append(q, m) = 1..(Len(q) + 1)
  BY <1>1, LenProperties
<1> QED
  BY <1>1, <1>2, AppendProperties

\* The first command of a chain begins where the chain does.
LEMMA ChainTail ==
  ASSUME NEW q \in Seq(Command), q # << >>, NEW from \in Nat, NEW to \in Nat, Chain(q, from, to)
  PROVE  from + q[1].len = q[1].end /\ Chain(Tail(q), q[1].end, to)
<1>1. q[1].end - q[1].len = from /\ q[1].end \in Nat /\ q[1].len \in Nat
  <2>1. q[1] \in Command /\ 1 \in DOMAIN q
    BY QueueTail
  <2>2. q[1].end - q[1].len = from
    BY <2>1 DEF Chain
  <2> QED
    BY <2>1, <2>2 DEF Command
<1>2. Tail(q) = << >> => q[1].end = to
  <2>1. Tail(q) = << >> => Len(q) = 1
    <3>1. Tail(q) = << >> => Len(Tail(q)) = 0
      BY EmptySeq
    <3> QED
      BY <3>1, QueueTail
  <2> QED
    BY <2>1, QueueTail DEF Chain
<1>3. ASSUME NEW i \in DOMAIN Tail(q)
      PROVE  /\ Tail(q)[i].end - Tail(q)[i].len = IF i = 1 THEN q[1].end ELSE Tail(q)[i - 1].end
             /\ i = Len(Tail(q)) => Tail(q)[i].end = to
  <2>1. i + 1 \in DOMAIN q /\ Tail(q)[i] = q[i + 1] /\ i \in Nat \ {0}
    BY QueueTail
  <2>2. q[i + 1].end - q[i + 1].len = q[i].end
    BY <2>1 DEF Chain
  <2>3. i # 1 => Tail(q)[i - 1] = q[i]
    <3>1. i # 1 => i \in DOMAIN q
      BY QueueTail
    <3> QED
      BY <3>1, QueueTail
  <2>4. i = Len(Tail(q)) => i + 1 = Len(q)
    BY QueueTail
  <2> QED
    BY <2>1, <2>2, <2>3, <2>4 DEF Chain
<1>4. Chain(Tail(q), q[1].end, to)
  BY <1>2, <1>3 DEF Chain
<1> QED
  BY <1>1, <1>4

\* A chain goes on with a command that begins where it ended.
LEMMA ChainAppend ==
  ASSUME NEW q \in Seq(Command), NEW m \in Command, NEW from \in Nat, NEW to \in Nat,
         Chain(q, from, to), m.end = to + m.len
  PROVE  Chain(Append(q, m), from, m.end)
<1> DEFINE p == Append(q, m)
<1>1. m.end - m.len = to
  BY DEF Command
<1>2. ASSUME NEW i \in DOMAIN p, i \in DOMAIN q
      PROVE  /\ p[i].end - p[i].len = IF i = 1 THEN from ELSE p[i - 1].end
             /\ i = Len(p) => p[i].end = m.end
  <2>1. i # 1 => i - 1 \in DOMAIN q
    BY <1>2, QueueAppend
  <2> QED
    BY <1>2, <2>1, QueueAppend DEF Chain
<1>3. ASSUME NEW i \in DOMAIN p, i = Len(q) + 1
      PROVE  p[i].end - p[i].len = IF i = 1 THEN from ELSE p[i - 1].end
  <2>1. p[i] = m
    BY <1>3, QueueAppend
  <2>2. CASE Len(q) = 0
    BY <1>1, <1>3, <2>1, <2>2, EmptySeq DEF Chain
  <2>3. CASE Len(q) # 0
    <3>1. Len(q) \in DOMAIN q
      BY <2>3, QueueAppend
    <3>2. i - 1 = Len(q) /\ i # 1
      BY <1>3, <2>3, QueueAppend
    <3> QED
      BY <1>1, <2>1, <3>1, <3>2, QueueAppend DEF Chain
  <2> QED
    BY <2>2, <2>3
<1>4. ASSUME NEW i \in DOMAIN p, i = Len(q) + 1
      PROVE  p[i].end = m.end
  BY <1>4, QueueAppend
<1> QED
  BY <1>2, <1>3, <1>4, QueueAppend DEF Chain

-----------------------------------------------------------------------------
(* The stream.                                                             *)

\* Streams end at a place, and StreamAccounted is about chains.
LEMMA StreamFacts ==
  ASSUME StreamInv
  PROVE  /\ \A r \in Replicas : StreamEnd(r) \in Nat
         /\ \A r \in connected : Chain(toReplica[r], processingOffset[r], StreamEnd(r))
<1>1. ASSUME NEW r \in Replicas
      PROVE  StreamEnd(r) \in Nat
  <2>1. /\ master_repl_offset \in Nat /\ offsetAtJoin[r] \in Nat /\ getAckBytes[r] \in Nat
        /\ offsetAtJoin[r] <= master_repl_offset
    BY DEF StreamInv, TypeOK, JoinsArePast
  <2> QED
    BY <2>1 DEF StreamEnd
<1>2. \A r \in connected : Chain(toReplica[r], processingOffset[r], StreamEnd(r))
  BY DEF StreamInv, StreamAccounted, Chain
<1> QED
  BY <1>1, <1>2

\* The converse, for the next state.
LEMMA ChainsAccount ==
  ASSUME \A r \in connected' : Chain(toReplica[r]', processingOffset[r]', StreamEnd(r)')
  PROVE  StreamAccounted'
BY DEF StreamAccounted, Chain

\* What is in flight after a command was sent to all.
LEMMA SendAllEffect ==
  ASSUME StreamInv, NEW kind \in {"write", "getack"}, NEW len \in Nat, NEW n \in Nat
  PROVE  /\ SendAll(kind, len, n) \in [Replicas -> Seq(Command)]
         /\ \A r \in Replicas \ connected : SendAll(kind, len, n)[r] = toReplica[r]
         /\ \A r \in connected : Chain(SendAll(kind, len, n)[r], processingOffset[r], StreamEnd(r) + len)
         /\ \A r \in connected :
              LET m == [kind |-> kind, len |-> len, n |-> n, end |-> StreamEnd(r) + len]
              IN  m \in Command /\ SendAll(kind, len, n)[r] = Append(toReplica[r], m)
<1>1. connected \subseteq Replicas /\ toReplica \in [Replicas -> Seq(Command)]
      /\ processingOffset \in [Replicas -> Nat]
  BY DEF StreamInv, TypeOK
<1> DEFINE m(r) == [kind |-> kind, len |-> len, n |-> n, end |-> StreamEnd(r) + len]
<1>2. ASSUME NEW r \in connected
      PROVE  /\ m(r) \in Command
             /\ SendAll(kind, len, n)[r] = Append(toReplica[r], m(r))
             /\ SendAll(kind, len, n)[r] \in Seq(Command)
             /\ Chain(SendAll(kind, len, n)[r], processingOffset[r], StreamEnd(r) + len)
  <2>1. r \in Replicas /\ StreamEnd(r) \in Nat
    BY <1>1, StreamFacts
  <2>2. m(r) \in Command
    BY <2>1 DEF Command
  <2>3. SendAll(kind, len, n)[r] = Append(toReplica[r], m(r))
    BY <2>1 DEF SendAll
  <2>4. toReplica[r] \in Seq(Command) /\ processingOffset[r] \in Nat
    BY <1>1, <2>1
  <2>5. Append(toReplica[r], m(r)) \in Seq(Command)
    BY <2>2, <2>4, AppendProperties
  <2>6. Chain(toReplica[r], processingOffset[r], StreamEnd(r))
    BY StreamFacts
  <2>7. m(r).end = StreamEnd(r) + m(r).len /\ m(r).end = StreamEnd(r) + len
    OBVIOUS
  <2> HIDE DEF m
  <2>8. Chain(Append(toReplica[r], m(r)), processingOffset[r], m(r).end)
    BY <2>1, <2>2, <2>4, <2>6, <2>7, ChainAppend
  <2> QED
    BY <2>2, <2>3, <2>5, <2>7, <2>8
<1>3. ASSUME NEW r \in Replicas \ connected
      PROVE  SendAll(kind, len, n)[r] = toReplica[r]
  BY DEF SendAll
<1>4. SendAll(kind, len, n) \in [Replicas -> Seq(Command)]
  <2>1. \A r \in Replicas : SendAll(kind, len, n)[r] \in Seq(Command)
    BY <1>1, <1>2, <1>3
  <2>2. SendAll(kind, len, n) = [r \in Replicas |-> SendAll(kind, len, n)[r]]
    BY DEF SendAll
  <2> QED
    BY <2>1, <2>2
<1> QED
  BY <1>2, <1>3, <1>4

LEMMA StreamInit == Init => StreamInv
<1> SUFFICES ASSUME Init PROVE StreamInv
  OBVIOUS
<1> USE DEF Init
<1>1. TypeOK
  <2>1. << >> \in Seq(Command) /\ << >> \in Seq(Ack)
    BY EmptySeq
  <2> QED
    BY <2>1 DEF TypeOK
<1>2. NotJoined /\ ClosedLinksEmpty /\ JoinsArePast /\ StreamAccounted
  BY DEF NotJoined, ClosedLinksEmpty, JoinsArePast, StreamAccounted
<1> QED
  BY <1>1, <1>2 DEF StreamInv

\* A replica that joins begins an empty stream at offset 0.
LEMMA PsyncStream ==
  ASSUME StreamInv, NEW r \in Replicas, Psync(r)
  PROVE  StreamInv'
<1> USE DEF Psync, linkVars, waitVars, waitHistory
<1>1. TypeOK'
  BY DEF StreamInv, TypeOK
<1>2. NotJoined' /\ ClosedLinksEmpty'
  BY DEF StreamInv, NotJoined, ClosedLinksEmpty
<1>3. JoinsArePast'
  BY DEF StreamInv, TypeOK, JoinsArePast
<1>4. ASSUME NEW s \in connected'
      PROVE  Chain(toReplica[s]', processingOffset[s]', StreamEnd(s)')
  <2>1. CASE s = r
    <3>1. toReplica[r]' = << >>
      BY DEF StreamInv, TypeOK, ClosedLinksEmpty
    <3>2. processingOffset[r]' = 0 /\ getAckBytes[r]' = 0
      BY DEF StreamInv, NotJoined
    <3>3. StreamEnd(r)' = 0
      BY <3>2 DEF StreamInv, TypeOK, StreamEnd
    <3> QED
      BY <2>1, <3>1, <3>2, <3>3 DEF Chain
  <2>2. CASE s # r
    <3>1. s \in connected /\ StreamEnd(s)' = StreamEnd(s)
      BY <2>2 DEF StreamInv, TypeOK, StreamEnd
    <3> QED
      BY <3>1, StreamFacts
  <2> QED
    BY <2>1, <2>2
<1> QED
  BY <1>1, <1>2, <1>3, <1>4, ChainsAccount DEF StreamInv

LEMMA DisconnectStream ==
  ASSUME StreamInv, NEW r \in Replicas, Disconnect(r)
  PROVE  StreamInv'
<1> USE DEF Disconnect, waitVars, waitHistory, joinHistory
<1>end. << >> \in Seq(Command) /\ << >> \in Seq(Ack)
  BY EmptySeq
<1>1. TypeOK'
  BY <1>end DEF StreamInv, TypeOK
<1>2. NotJoined' /\ ClosedLinksEmpty' /\ JoinsArePast'
  BY DEF StreamInv, TypeOK, NotJoined, ClosedLinksEmpty, JoinsArePast
<1>3. ASSUME NEW s \in connected'
      PROVE  Chain(toReplica[s]', processingOffset[s]', StreamEnd(s)')
  <2>1. s \in connected /\ s # r /\ s \in Replicas
    BY DEF StreamInv, TypeOK
  <2>2. toReplica[s]' = toReplica[s] /\ processingOffset[s]' = processingOffset[s]
        /\ StreamEnd(s)' = StreamEnd(s)
    BY <2>1 DEF StreamInv, TypeOK, StreamEnd
  <2> QED
    BY <2>1, <2>2, StreamFacts
<1> QED
  BY <1>1, <1>2, <1>3, ChainsAccount DEF StreamInv

\* A write goes to the end of every open stream, and the ends move with the
\* master's offset.
LEMMA WriteStream ==
  ASSUME StreamInv, NEW len \in WriteLens, Write(len)
  PROVE  StreamInv'
<1> USE DEF Write, waitVars, waitHistory, joinHistory
<1>end. len \in Nat /\ propagated \in Nat /\ connected \subseteq replicas
  BY ReplicationAssumption DEF StreamInv, TypeOK
<1>1. CASE replicas = {}
  <2>1. UNCHANGED <<toReplica, master_repl_offset, propagated>>
    BY <1>1 DEF Propagate
  <2>2. TypeOK' /\ NotJoined' /\ ClosedLinksEmpty' /\ JoinsArePast'
    BY <2>1 DEF StreamInv, TypeOK, NotJoined, ClosedLinksEmpty, JoinsArePast
  <2>3. StreamAccounted'
    BY <1>end, <1>1, ChainsAccount
  <2> QED
    BY <2>2, <2>3 DEF StreamInv
<1>2. CASE replicas # {}
  <2>1. /\ toReplica' = SendAll("write", len, propagated + 1)
        /\ master_repl_offset' = master_repl_offset + len
        /\ propagated' = propagated + 1
    BY <1>2 DEF Propagate
  <2>2. /\ toReplica' \in [Replicas -> Seq(Command)]
        /\ \A s \in Replicas \ connected : toReplica'[s] = toReplica[s]
        /\ \A s \in connected : Chain(toReplica'[s], processingOffset[s], StreamEnd(s) + len)
    <3>1. propagated + 1 \in Nat /\ "write" \in {"write", "getack"}
      BY <1>end
    <3> QED
      BY <1>end, <2>1, <3>1, SendAllEffect
  <2>3. TypeOK'
    BY <1>end, <2>1, <2>2 DEF StreamInv, TypeOK
  <2>4. NotJoined' /\ JoinsArePast'
    BY <1>end, <2>1 DEF StreamInv, TypeOK, NotJoined, JoinsArePast
  <2>5. ClosedLinksEmpty'
    BY <2>2 DEF StreamInv, ClosedLinksEmpty
  <2>6. ASSUME NEW s \in connected'
        PROVE  Chain(toReplica[s]', processingOffset[s]', StreamEnd(s)')
    <3>1. s \in connected /\ s \in Replicas
      BY DEF StreamInv, TypeOK
    <3>2. StreamEnd(s)' = StreamEnd(s) + len
      BY <1>end, <2>1, <3>1 DEF StreamInv, TypeOK, StreamEnd
    <3> QED
      BY <2>2, <3>1, <3>2
  <2> QED
    BY <2>3, <2>4, <2>5, <2>6, ChainsAccount DEF StreamInv
<1> QED
  BY <1>1, <1>2

\* A replica that takes the next command off its stream moves its offset to
\* the end of that command.
LEMMA TakeStream ==
  ASSUME StreamInv, NEW r \in Replicas, r \in connected, toReplica[r] # << >>,
         processingOffset' = [processingOffset EXCEPT ![r] = @ + Head(toReplica[r]).len],
         toReplica' = [toReplica EXCEPT ![r] = Tail(@)],
         UNCHANGED <<masterVars, offsetAtJoin, getAckBytes>>
  PROVE  /\ toReplica' \in [Replicas -> Seq(Command)]
         /\ processingOffset' \in [Replicas -> Nat]
         /\ processingOffset'[r] = toReplica[r][1].end
         /\ \A s \in connected' : Chain(toReplica[s]', processingOffset[s]', StreamEnd(s)')
<1> DEFINE q == toReplica[r]
<1>1. /\ q \in Seq(Command) /\ q # << >> /\ processingOffset[r] \in Nat /\ StreamEnd(r) \in Nat
      /\ Chain(q, processingOffset[r], StreamEnd(r))
  BY StreamFacts DEF StreamInv, TypeOK
<1>2. /\ Head(q) = q[1] /\ q[1] \in Command /\ Tail(q) \in Seq(Command)
  BY <1>1, QueueTail
<1>3. /\ processingOffset[r] + q[1].len = q[1].end
      /\ Chain(Tail(q), q[1].end, StreamEnd(r))
  <2> HIDE DEF q
  <2> QED
    BY <1>1, ChainTail
<1>4. q[1].len \in Nat /\ q[1].end \in Nat
  BY <1>2 DEF Command
<1>5. processingOffset'[r] = q[1].end /\ toReplica'[r] = Tail(q)
  BY <1>2, <1>3 DEF StreamInv, TypeOK
<1>6. processingOffset' \in [Replicas -> Nat] /\ toReplica' \in [Replicas -> Seq(Command)]
  BY <1>2, <1>4 DEF StreamInv, TypeOK
<1>7. ASSUME NEW s \in connected'
      PROVE  Chain(toReplica[s]', processingOffset[s]', StreamEnd(s)')
  <2>1. s \in connected /\ s \in Replicas /\ StreamEnd(s)' = StreamEnd(s)
    BY DEF StreamInv, TypeOK, masterVars, StreamEnd
  <2>2. CASE s = r
    BY <1>3, <1>5, <2>1, <2>2
  <2>3. CASE s # r
    BY <2>1, <2>3, StreamFacts DEF StreamInv, TypeOK
  <2> QED
    BY <2>2, <2>3
<1> QED
  BY <1>5, <1>6, <1>7

LEMMA ReplicaWriteStream ==
  ASSUME StreamInv, NEW r \in Replicas, ReplicaWrite(r)
  PROVE  StreamInv'
<1>1. /\ r \in connected /\ toReplica[r] # << >>
      /\ processingOffset' = [processingOffset EXCEPT ![r] = @ + Head(toReplica[r]).len]
      /\ toReplica' = [toReplica EXCEPT ![r] = Tail(@)]
      /\ applied' = [applied EXCEPT ![r] = Head(toReplica[r]).n]
      /\ UNCHANGED <<masterVars, toMaster, waitVars, writes, propagated, joinHistory,
                     getAckBytes, waitHistory>>
  BY DEF ReplicaWrite
<1>2. /\ toReplica' \in [Replicas -> Seq(Command)]
      /\ processingOffset' \in [Replicas -> Nat]
      /\ \A s \in connected' : Chain(toReplica[s]', processingOffset[s]', StreamEnd(s)')
  BY <1>1, TakeStream DEF joinHistory
<1>3. Head(toReplica[r]).n \in Nat
  <2>1. toReplica[r] \in Seq(Command)
    BY DEF StreamInv, TypeOK
  <2>2. Head(toReplica[r]) \in Command
    BY <1>1, <2>1, QueueTail
  <2> QED
    BY <2>2 DEF Command
<1> USE DEF masterVars, waitVars, joinHistory, waitHistory
<1>4. TypeOK'
  BY <1>1, <1>2, <1>3 DEF StreamInv, TypeOK
<1>5. NotJoined' /\ ClosedLinksEmpty' /\ JoinsArePast'
  BY <1>1 DEF StreamInv, TypeOK, NotJoined, ClosedLinksEmpty, JoinsArePast
<1> QED
  BY <1>2, <1>4, <1>5, ChainsAccount DEF StreamInv

LEMMA ReplicaGetAckStream ==
  ASSUME StreamInv, NEW r \in Replicas, ReplicaGetAck(r)
  PROVE  StreamInv'
<1> DEFINE ack == [offset |-> processingOffset[r], upTo |-> applied[r]]
<1>1. /\ r \in connected /\ toReplica[r] # << >>
      /\ processingOffset' = [processingOffset EXCEPT ![r] = @ + Head(toReplica[r]).len]
      /\ toReplica' = [toReplica EXCEPT ![r] = Tail(@)]
      /\ toMaster' = [toMaster EXCEPT ![r] = Append(@, ack)]
      /\ UNCHANGED <<masterVars, waitVars, writes, propagated, joinHistory, applied,
                     getAckBytes, waitHistory>>
  BY DEF ReplicaGetAck
<1>2. /\ toReplica' \in [Replicas -> Seq(Command)]
      /\ processingOffset' \in [Replicas -> Nat]
      /\ \A s \in connected' : Chain(toReplica[s]', processingOffset[s]', StreamEnd(s)')
  BY <1>1, TakeStream DEF joinHistory
<1>3. Append(toMaster[r], ack) \in Seq(Ack)
  <2>1. ack \in Ack /\ toMaster[r] \in Seq(Ack)
    BY DEF StreamInv, TypeOK, Ack
  <2> QED
    BY <2>1, AppendProperties
<1> HIDE DEF ack
<1> USE DEF masterVars, waitVars, joinHistory, waitHistory
<1>4. TypeOK'
  BY <1>1, <1>2, <1>3 DEF StreamInv, TypeOK
<1>5. NotJoined' /\ ClosedLinksEmpty' /\ JoinsArePast'
  BY <1>1 DEF StreamInv, TypeOK, NotJoined, ClosedLinksEmpty, JoinsArePast
<1> QED
  BY <1>2, <1>4, <1>5, ChainsAccount DEF StreamInv

\* Steps that leave the streams alone.
LEMMA OtherStream ==
  ASSUME StreamInv, TypeOK', NotJoined',
         UNCHANGED <<masterVars, toReplica, processingOffset, joinHistory, getAckBytes>>
  PROVE  StreamInv'
BY DEF masterVars, joinHistory, StreamInv, ClosedLinksEmpty, JoinsArePast, StreamAccounted, StreamEnd

LEMMA WaitNowStream ==
  ASSUME StreamInv, NEW w \in Waits, NEW n \in 0..Cardinality(Replicas), WaitNow(w, n)
  PROVE  StreamInv'
<1> USE DEF WaitNow, masterVars, linkVars, joinHistory
<1>1. Cardinality(replicas) \in Nat
  BY ReplicationAssumption, FS_Subset, FS_CardinalityType DEF StreamInv, TypeOK
<1>2. TypeOK'
  BY <1>1 DEF StreamInv, TypeOK
<1>3. NotJoined'
  BY DEF StreamInv, NotJoined
<1> QED
  BY <1>2, <1>3, OtherStream

\* A WAIT that blocks sends a GETACK: the ends of the open streams move, the
\* master's offset does not.
LEMMA WaitBlockStream ==
  ASSUME StreamInv, NEW w \in Waits, NEW n \in 0..Cardinality(Replicas), WaitBlock(w, n)
  PROVE  StreamInv'
<1> USE DEF masterVars, joinHistory
<1>1. /\ requiredReplicas' = [requiredReplicas EXCEPT ![w] = n]
      /\ waitStatus' = [waitStatus EXCEPT ![w] = "waiting"]
      /\ masterOffset' = [masterOffset EXCEPT ![w] = master_repl_offset]
      /\ due' = [due EXCEPT ![w] = propagated]
      /\ toReplica' = SendAll("getack", GetAckLen, 0)
      /\ getAckBytes' = [r \in Replicas |->
                            IF r \in connected THEN getAckBytes[r] + GetAckLen ELSE getAckBytes[r]]
      /\ UNCHANGED <<masterVars, toMaster, processingOffset, ackCount, writes, propagated,
                     joinHistory, applied, counted, caughtUp>>
  BY DEF WaitBlock
<1>2. GetAckLen \in Nat /\ connected \subseteq replicas /\ replicas \subseteq Replicas
  BY ReplicationAssumption DEF StreamInv, TypeOK
<1>3. /\ toReplica' \in [Replicas -> Seq(Command)]
      /\ \A s \in Replicas \ connected : toReplica'[s] = toReplica[s]
      /\ \A s \in connected : Chain(toReplica'[s], processingOffset[s], StreamEnd(s) + GetAckLen)
  <2>1. 0 \in Nat /\ "getack" \in {"write", "getack"}
    OBVIOUS
  <2> QED
    BY <1>1, <1>2, <2>1, SendAllEffect
<1>4. getAckBytes' \in [Replicas -> Nat]
  <2>1. getAckBytes \in [Replicas -> Nat]
    BY DEF StreamInv, TypeOK
  <2> QED
    BY <1>1, <1>2, <2>1
<1>5. quiet' \in [Waits -> BOOLEAN]
  BY DEF WaitBlock, NothingAsked, StreamInv, TypeOK
<1>6. n \in Nat
  BY ReplicationAssumption, FS_CardinalityType
<1>7. TypeOK'
  <2>1. TypeOK
    BY DEF StreamInv
  <2> QED
    BY <1>1, <1>3, <1>4, <1>5, <1>6, <2>1 DEF TypeOK
<1>8. NotJoined' /\ JoinsArePast'
  BY <1>1, <1>2 DEF StreamInv, TypeOK, NotJoined, JoinsArePast
<1>9. ClosedLinksEmpty'
  BY <1>1, <1>3 DEF StreamInv, ClosedLinksEmpty
<1>10. ASSUME NEW s \in connected'
      PROVE  Chain(toReplica[s]', processingOffset[s]', StreamEnd(s)')
  <2>1. s \in connected /\ s \in Replicas
    BY <1>1, <1>2
  <2>2. /\ getAckBytes[s] \in Nat /\ getAckBytes'[s] = getAckBytes[s] + GetAckLen
        /\ master_repl_offset \in Nat /\ offsetAtJoin[s] \in Nat
    BY <1>1, <2>1 DEF StreamInv, TypeOK
  <2>3. StreamEnd(s)' = StreamEnd(s) + GetAckLen
    BY <1>1, <1>2, <2>2 DEF StreamEnd
  <2> QED
    BY <1>1, <1>3, <2>1, <2>3
<1> QED
  BY <1>7, <1>8, <1>9, <1>10, ChainsAccount DEF StreamInv

LEMMA ReceiveAckStream ==
  ASSUME StreamInv, NEW r \in Replicas, ReceiveAck(r)
  PROVE  StreamInv'
<1> USE DEF masterVars, joinHistory
<1>1. toMaster[r] \in Seq(Ack) /\ toMaster[r] # << >> /\ toMaster' = [toMaster EXCEPT ![r] = Tail(@)]
  BY DEF StreamInv, TypeOK, ReceiveAck
<1>2. Tail(toMaster[r]) \in Seq(Ack)
  BY <1>1, QueueTail
<1>3. toMaster' \in [Replicas -> Seq(Ack)]
  BY <1>1, <1>2 DEF StreamInv, TypeOK
<1>4. /\ ackCount' \in [Waits -> Nat]
      /\ waitStatus' \in [Waits -> {"idle", "waiting", "done"}]
      /\ counted' \in [Waits -> SUBSET Replicas]
      /\ caughtUp' \in [Waits -> SUBSET Replicas]
  BY DEF StreamInv, TypeOK, ReceiveAck
<1>5. TypeOK'
  BY <1>3, <1>4 DEF StreamInv, TypeOK, ReceiveAck
<1>6. NotJoined'
  BY <1>1 DEF StreamInv, TypeOK, NotJoined, ReceiveAck
<1> QED
  BY <1>5, <1>6, OtherStream DEF ReceiveAck

LEMMA WaitTimeoutStream ==
  ASSUME StreamInv, NEW w \in Waits, WaitTimeout(w)
  PROVE  StreamInv'
<1> USE DEF WaitTimeout, masterVars, linkVars, joinHistory, waitHistory
<1>1. TypeOK'
  BY DEF StreamInv, TypeOK
<1>2. NotJoined'
  BY DEF StreamInv, NotJoined
<1> QED
  BY <1>1, <1>2, OtherStream

LEMMA StreamNext == StreamInv /\ [Next]_vars => StreamInv'
<1> SUFFICES ASSUME StreamInv, [Next]_vars PROVE StreamInv'
  OBVIOUS
<1>1. CASE UNCHANGED vars
  BY <1>1 DEF vars, masterVars, linkVars, waitVars, joinHistory, waitHistory, StreamInv, TypeOK,
     NotJoined, ClosedLinksEmpty, JoinsArePast, StreamAccounted, StreamEnd
<1>2. CASE Next
  BY <1>2, PsyncStream, DisconnectStream, WriteStream, ReplicaWriteStream, ReplicaGetAckStream,
     ReceiveAckStream, WaitNowStream, WaitBlockStream, WaitTimeoutStream DEF Next
<1> QED
  BY <1>1, <1>2

\* The state of the replication keeps its type.
THEOREM TypeCorrect == Spec => []TypeOK
<1>1. StreamInv => TypeOK
  BY DEF StreamInv
<1> QED
  BY <1>1, StreamInit, StreamNext, PTL DEF Spec

\* The offsets of the master and of the replicas account for every byte of
\* the stream: propagate, PSYNC, GETACK and the replica's handler agree.
THEOREM OffsetsAccount == Spec => []StreamAccounted
<1>1. StreamInv => StreamAccounted
  BY DEF StreamInv
<1> QED
  BY <1>1, StreamInit, StreamNext, PTL DEF Spec

-----------------------------------------------------------------------------
(* What a WAIT may count, for every number of replicas, WAITs and writes.  *)


\* What is known of writes, in flight, executed or acknowledged, is not
\* ahead of the master.
NumbersArePast ==
  /\ \A r \in Replicas : joinedAt[r] <= propagated /\ applied[r] <= propagated
  /\ \A r \in Replicas : \A i \in DOMAIN toReplica[r] : toReplica[r][i].n <= propagated
  /\ \A r \in Replicas : \A i \in DOMAIN toMaster[r] : toMaster[r][i].upTo <= propagated
  /\ \A w \in Waits : due[w] <= propagated /\ masterOffset[w] <= master_repl_offset
  /\ master_repl_offset = 0 => propagated = 0

\* An offset o of replica r, at which it has executed write n: it has the
\* bytes of all writes if n is the last of them, and those WAIT w asks for if
\* n is the last that is due.
Reached(r, n, o) ==
  /\ n >= propagated => o + offsetAtJoin[r] >= master_repl_offset
  /\ \A w \in Waits : waitStatus[w] # "idle" /\ n >= due[w] => o + offsetAtJoin[r] >= masterOffset[w]

\* The offsets of a replica never fall behind the writes it executed.
OffsetsKeepUp ==
  \A r \in replicas :
    /\ Reached(r, applied[r], processingOffset[r])
    /\ \A i \in DOMAIN toReplica[r] :
         toReplica[r][i].kind = "write" => Reached(r, toReplica[r][i].n, toReplica[r][i].end)
    /\ \A i \in DOMAIN toMaster[r] : Reached(r, toMaster[r][i].upTo, toMaster[r][i].offset)

\* A WAIT hears from replicas only, and nothing before it is called.
WaitsHearReplicas ==
  \A w \in Waits :
    /\ counted[w] \subseteq replicas /\ caughtUp[w] \subseteq replicas
    /\ waitStatus[w] = "idle" => /\ ackCount[w] = 0 /\ counted[w] = {} /\ caughtUp[w] = {}
                                 /\ ~ quiet[w] /\ masterOffset[w] = 0
    /\ masterOffset[w] = 0 => waitStatus[w] # "waiting"

\* The inductive invariant behind EarlyReplicaCounted.
OffsetInv == NumbersArePast /\ OffsetsKeepUp /\ WaitsHearReplicas /\ EarlyReplicaCounted

\* The writes in a queue are those after number a, up to number p, in order.
WritesBetween(q, a, p) ==
  /\ \A n \in (a + 1)..p : \E j \in DOMAIN q : q[j].kind = "write" /\ q[j].n = n
  /\ \A j \in DOMAIN q : q[j].kind = "write" => q[j].n > a
  /\ \A i, j \in DOMAIN q : i < j /\ q[i].kind = "write" /\ q[j].kind = "write" => q[i].n < q[j].n

\* The writes in flight to an open socket are those the replica has not
\* executed.
WritesInFlight == \A r \in connected : WritesBetween(toReplica[r], applied[r], propagated)

\* Of the commands in q and the ACKs in acks at most one is a GETACK or an
\* ACK, none if replica r is in hit.  The writes up to number d that are
\* after a lie before the GETACK, and the ACK tells of them.
OneAck(r, q, acks, a, d, hit) ==
  /\ \A i, j \in DOMAIN q : q[i].kind = "getack" /\ q[j].kind = "getack" => i = j
  /\ \A i \in DOMAIN q : q[i].kind = "getack" =>
       /\ acks = << >> /\ r \notin hit
       /\ \A n \in (a + 1)..d : \E j \in DOMAIN q : j < i /\ q[j].kind = "write" /\ q[j].n = n
  /\ \A i \in DOMAIN acks : i = 1 /\ r \notin hit /\ acks[i].upTo >= d

\* While a quiet WAIT waits, each replica was asked once and answers once.
QuietLinks ==
  \A w \in Waits, r \in Replicas : quiet[w] /\ waitStatus[w] = "waiting" =>
    OneAck(r, toReplica[r], toMaster[r], applied[r], due[w], counted[w])

\* No ACK tells of a write that the replica has not executed.
AcksArePast ==
  \A r \in Replicas : \A i \in DOMAIN toMaster[r] : toMaster[r][i].upTo <= applied[r]

\* The inductive invariant behind QuietWaitCountsDistinct.
QuietInv == WritesInFlight /\ AcksArePast /\ QuietLinks /\ QuietWaitCountsDistinct

\* Before the first WAIT no ACK was asked for.
NothingAskedYet ==
  (\A w \in Waits : waitStatus[w] = "idle") =>
    /\ NothingAsked
    /\ \A r \in Replicas : getAckBytes[r] = 0

\* The first WAIT that asks is quiet, and asks for ACKs at its own offset.
FirstWaitExact ==
  \A w \in Waits : OnlyWait(w) /\ masterOffset[w] # 0 =>
    /\ quiet[w]
    /\ \A r \in Replicas :
         /\ \A i \in DOMAIN toReplica[r] : toReplica[r][i].kind = "getack" =>
              toReplica[r][i].end - toReplica[r][i].len + offsetAtJoin[r] = masterOffset[w]
         /\ \A i \in DOMAIN toMaster[r] : toMaster[r][i].offset + offsetAtJoin[r] = masterOffset[w]
    /\ \A r \in counted[w] : offsetAtJoin[r] = 0

\* A first WAIT that did not ask counted the replicas on the list, before
\* there was a write.
FirstWaitNow ==
  \A w \in Waits : OnlyWait(w) /\ masterOffset[w] = 0 =>
    \E s \in SUBSET replicas : /\ ackCount[w] = Cardinality(s)
                               /\ \A r \in s : joinedAt[r] = 0 /\ due[w] = 0

\* A replica that joined at offset 0 misses no write.
JoinedFirst == \A r \in Replicas : offsetAtJoin[r] = 0 => joinedAt[r] = 0

\* The inductive invariant behind WaitCountsHolders.
FirstInv == NothingAskedYet /\ FirstWaitExact /\ FirstWaitNow /\ JoinedFirst

-----------------------------------------------------------------------------
(* Queues and offsets.                                                     *)

\* A queue that holds nothing another does not.
Within(p, q) == \A i \in DOMAIN p : \E j \in DOMAIN q : p[i] = q[j]

LEMMA TailWithin ==
  ASSUME NEW S, NEW q \in Seq(S), q # << >>
  PROVE  Within(Tail(q), q)
BY QueueTail DEF Within

\* Reached, of the next state.
ReachedNext(r, n, o) ==
  /\ n >= propagated' => o + offsetAtJoin'[r] >= master_repl_offset'
  /\ \A w \in Waits :
       waitStatus'[w] # "idle" /\ n >= due'[w] => o + offsetAtJoin'[r] >= masterOffset'[w]

LEMMA OffsetsNext ==
  ASSUME \A r \in replicas' :
           /\ ReachedNext(r, applied'[r], processingOffset'[r])
           /\ \A i \in DOMAIN toReplica'[r] :
                toReplica'[r][i].kind = "write" => ReachedNext(r, toReplica'[r][i].n, toReplica'[r][i].end)
           /\ \A i \in DOMAIN toMaster'[r] : ReachedNext(r, toMaster'[r][i].upTo, toMaster'[r][i].offset)
  PROVE  OffsetsKeepUp'
BY DEF OffsetsKeepUp, Reached, ReachedNext

\* What the queues hold.
LEMMA InFlight ==
  ASSUME StreamInv, NEW r \in Replicas
  PROVE  /\ toReplica[r] \in Seq(Command) /\ toMaster[r] \in Seq(Ack)
         /\ applied[r] \in Nat /\ processingOffset[r] \in Nat
         /\ \A i \in DOMAIN toReplica[r] : toReplica[r][i] \in Command
         /\ \A i \in DOMAIN toReplica[r] :
              toReplica[r][i].n \in Nat /\ toReplica[r][i].end \in Nat /\ toReplica[r][i].len \in Nat
         /\ \A i \in DOMAIN toMaster[r] : toMaster[r][i].upTo \in Nat /\ toMaster[r][i].offset \in Nat
<1>1. /\ toReplica[r] \in Seq(Command) /\ toMaster[r] \in Seq(Ack)
      /\ applied[r] \in Nat /\ processingOffset[r] \in Nat
  BY DEF StreamInv, TypeOK
<1>2. /\ \A i \in DOMAIN toReplica[r] : toReplica[r][i] \in Command
      /\ \A i \in DOMAIN toMaster[r] : toMaster[r][i] \in Ack
  BY <1>1, LenProperties, ElementOfSeq
<1> QED
  BY <1>1, <1>2 DEF Command, Ack

\* A step that only takes out of queues, and keeps what was reached reached,
\* keeps the offsets up.
LEMMA OffsetsKept ==
  ASSUME StreamInv, NumbersArePast, OffsetsKeepUp, replicas' = replicas,
         applied' = applied, processingOffset' = processingOffset,
         \A r \in Replicas : Within(toReplica'[r], toReplica[r]) /\ Within(toMaster'[r], toMaster[r]),
         \A r \in replicas, n, o \in Nat : n <= propagated /\ Reached(r, n, o) => ReachedNext(r, n, o)
  PROVE  OffsetsKeepUp'
<1>1. ASSUME NEW r \in replicas
      PROVE  /\ ReachedNext(r, applied'[r], processingOffset'[r])
             /\ \A i \in DOMAIN toReplica'[r] :
                  toReplica'[r][i].kind = "write" => ReachedNext(r, toReplica'[r][i].n, toReplica'[r][i].end)
             /\ \A i \in DOMAIN toMaster'[r] : ReachedNext(r, toMaster'[r][i].upTo, toMaster'[r][i].offset)
  <2>1. r \in Replicas
    BY DEF StreamInv, TypeOK
  <2>2. ReachedNext(r, applied'[r], processingOffset'[r])
    BY <2>1, InFlight DEF NumbersArePast, OffsetsKeepUp
  <2>3. ASSUME NEW i \in DOMAIN toReplica'[r], toReplica'[r][i].kind = "write"
        PROVE  ReachedNext(r, toReplica'[r][i].n, toReplica'[r][i].end)
    <3>1. PICK j \in DOMAIN toReplica[r] : toReplica'[r][i] = toReplica[r][j]
      BY <2>1 DEF Within
    <3>2. /\ toReplica[r][j].n \in Nat /\ toReplica[r][j].end \in Nat /\ toReplica[r][j].n <= propagated
          /\ Reached(r, toReplica[r][j].n, toReplica[r][j].end)
      BY <2>1, <2>3, <3>1, InFlight DEF NumbersArePast, OffsetsKeepUp
    <3> QED
      BY <3>1, <3>2
  <2>4. ASSUME NEW i \in DOMAIN toMaster'[r]
        PROVE  ReachedNext(r, toMaster'[r][i].upTo, toMaster'[r][i].offset)
    <3>1. PICK j \in DOMAIN toMaster[r] : toMaster'[r][i] = toMaster[r][j]
      BY <2>1 DEF Within
    <3>2. /\ toMaster[r][j].upTo \in Nat /\ toMaster[r][j].offset \in Nat
          /\ toMaster[r][j].upTo <= propagated
          /\ Reached(r, toMaster[r][j].upTo, toMaster[r][j].offset)
      BY <2>1, InFlight DEF OffsetsKeepUp, NumbersArePast
    <3> QED
      BY <3>1, <3>2
  <2> QED
    BY <2>2, <2>3, <2>4
<1> QED
  BY <1>1, OffsetsNext

\* What a step does to the numbers when it only takes out of queues.
LEMMA NumbersKept ==
  ASSUME StreamInv, NumbersArePast, UNCHANGED <<applied, joinedAt, propagated, master_repl_offset, due, masterOffset>>,
         \A r \in Replicas : Within(toReplica'[r], toReplica[r]) /\ Within(toMaster'[r], toMaster[r])
  PROVE  NumbersArePast'
<1>1. ASSUME NEW r \in Replicas
      PROVE  /\ \A i \in DOMAIN toReplica'[r] : toReplica'[r][i].n <= propagated
             /\ \A i \in DOMAIN toMaster'[r] : toMaster'[r][i].upTo <= propagated
  BY DEF NumbersArePast, Within
<1> QED
  BY <1>1 DEF NumbersArePast

\* What a GETACK adds to the queues.
LEMMA GetAckSent ==
  ASSUME StreamInv, toReplica' = SendAll("getack", GetAckLen, 0), NEW r \in Replicas
  PROVE  /\ Len(toReplica[r]) \in Nat /\ DOMAIN toReplica[r] = 1..Len(toReplica[r])
         /\ \A i \in DOMAIN toReplica[r] : i \in DOMAIN toReplica'[r] /\ toReplica'[r][i] = toReplica[r][i]
         /\ \A i \in DOMAIN toReplica'[r] :
              \/ i \in DOMAIN toReplica[r] /\ toReplica'[r][i] = toReplica[r][i]
              \/ /\ r \in connected /\ i = Len(toReplica[r]) + 1
                 /\ toReplica'[r][i].kind = "getack" /\ toReplica'[r][i].n = 0
                 /\ toReplica'[r][i].len = GetAckLen
                 /\ toReplica'[r][i].end = StreamEnd(r) + GetAckLen
<1>1. toReplica[r] \in Seq(Command)
  BY DEF StreamInv, TypeOK
<1>2. CASE r \in connected
  <2> DEFINE m == [kind |-> "getack", len |-> GetAckLen, n |-> 0, end |-> StreamEnd(r) + GetAckLen]
  <2>1. m \in Command /\ toReplica'[r] = Append(toReplica[r], m)
    <3>1. 0 \in Nat /\ "getack" \in {"write", "getack"} /\ GetAckLen \in Nat
      BY ReplicationAssumption
    <3> QED
      BY <1>2, <3>1, SendAllEffect
  <2>2. m.kind = "getack" /\ m.n = 0 /\ m.len = GetAckLen /\ m.end = StreamEnd(r) + GetAckLen
    OBVIOUS
  <2> HIDE DEF m
  <2> QED
    BY <1>1, <1>2, <2>1, <2>2, QueueAppend
<1>3. CASE r \notin connected
  <2>1. toReplica'[r] = toReplica[r]
    BY <1>3 DEF SendAll
  <2> QED
    BY <1>1, <2>1, LenProperties
<1> QED
  BY <1>2, <1>3

-----------------------------------------------------------------------------
(* No early replica is missed.                                             *)

LEMMA OffsetInit == Init => OffsetInv
<1> SUFFICES ASSUME Init PROVE OffsetInv
  OBVIOUS
<1> USE DEF Init
<1>1. NumbersArePast /\ OffsetsKeepUp /\ WaitsHearReplicas
  BY DEF NumbersArePast, OffsetsKeepUp, WaitsHearReplicas
<1>2. EarlyReplicaCounted
  BY DEF EarlyReplicaCounted
<1> QED
  BY <1>1, <1>2 DEF OffsetInv

\* Steps that no WAIT hears of.
LEMMA Unheard ==
  ASSUME WaitsHearReplicas, EarlyReplicaCounted, replicas \subseteq replicas',
         UNCHANGED <<waitVars, waitHistory>>,
         \A r \in replicas : offsetAtJoin'[r] = offsetAtJoin[r]
  PROVE  WaitsHearReplicas' /\ EarlyReplicaCounted'
<1> USE DEF waitVars, waitHistory
<1>1. WaitsHearReplicas'
  BY DEF WaitsHearReplicas
<1>2. ASSUME NEW w \in Waits
      PROVE  {r \in caughtUp[w] : offsetAtJoin'[r] = 0} = {r \in caughtUp[w] : offsetAtJoin[r] = 0}
  BY DEF WaitsHearReplicas
<1>3. EarlyReplicaCounted'
  BY <1>2 DEF EarlyReplicaCounted
<1> QED
  BY <1>1, <1>3

LEMMA PsyncOffsets ==
  ASSUME StreamInv, OffsetInv, NEW r \in Replicas, Psync(r)
  PROVE  OffsetInv'
<1> USE DEF OffsetInv
<1>1. /\ r \notin replicas /\ replicas' = replicas \cup {r} /\ connected' = connected \cup {r}
      /\ joinedAt' = [joinedAt EXCEPT ![r] = propagated]
      /\ offsetAtJoin' = [offsetAtJoin EXCEPT ![r] = master_repl_offset]
      /\ applied' = [applied EXCEPT ![r] = propagated]
      /\ UNCHANGED <<master_repl_offset, toReplica, toMaster, processingOffset, propagated>>
      /\ UNCHANGED <<waitVars, waitHistory>>
  BY DEF Psync, linkVars
<1>2. /\ joinedAt \in [Replicas -> Nat] /\ offsetAtJoin \in [Replicas -> Nat]
      /\ applied \in [Replicas -> Nat] /\ propagated \in Nat /\ master_repl_offset \in Nat
      /\ replicas \subseteq Replicas /\ masterOffset \in [Waits -> Nat]
  BY DEF StreamInv, TypeOK
<1>3. toReplica[r] = << >> /\ toMaster[r] = << >> /\ processingOffset[r] = 0
  BY <1>1 DEF StreamInv, TypeOK, NotJoined, ClosedLinksEmpty
<1>4. NumbersArePast'
  BY <1>1, <1>2, <1>3 DEF NumbersArePast, waitVars, waitHistory
<1>5. OffsetsKeepUp'
  <2>1. ReachedNext(r, applied'[r], processingOffset'[r])
    BY <1>1, <1>2, <1>3 DEF ReachedNext, NumbersArePast, waitVars, waitHistory
  <2>2. ASSUME NEW s \in replicas
        PROVE  /\ s \in Replicas /\ offsetAtJoin'[s] = offsetAtJoin[s] /\ applied'[s] = applied[s]
               /\ \A n, o \in Nat : Reached(s, n, o) => ReachedNext(s, n, o)
    BY <1>1, <1>2 DEF Reached, ReachedNext, waitVars, waitHistory
  <2>3. ASSUME NEW s \in replicas
        PROVE  /\ ReachedNext(s, applied'[s], processingOffset'[s])
               /\ \A i \in DOMAIN toReplica'[s] :
                    toReplica'[s][i].kind = "write" => ReachedNext(s, toReplica'[s][i].n, toReplica'[s][i].end)
               /\ \A i \in DOMAIN toMaster'[s] : ReachedNext(s, toMaster'[s][i].upTo, toMaster'[s][i].offset)
    BY <1>1, <2>2, InFlight DEF OffsetsKeepUp
  <2> QED
    BY <1>1, <1>3, <2>1, <2>3, OffsetsNext
<1>6. WaitsHearReplicas' /\ EarlyReplicaCounted'
  BY <1>1, <1>2, Unheard
<1> QED
  BY <1>4, <1>5, <1>6

LEMMA DisconnectOffsets ==
  ASSUME StreamInv, OffsetInv, NEW r \in Replicas, Disconnect(r)
  PROVE  OffsetInv'
<1> USE DEF OffsetInv
<1>1. /\ UNCHANGED <<replicas, master_repl_offset, processingOffset, propagated, applied>>
      /\ UNCHANGED <<joinedAt, offsetAtJoin>> /\ UNCHANGED <<waitVars, waitHistory>>
  BY DEF Disconnect, joinHistory
<1>2. ASSUME NEW s \in Replicas
      PROVE  Within(toReplica'[s], toReplica[s]) /\ Within(toMaster'[s], toMaster[s])
  <2>1. toReplica'[s] = toReplica[s] \/ toReplica'[s] = << >>
    BY DEF Disconnect, StreamInv, TypeOK
  <2>2. toMaster'[s] = toMaster[s] \/ toMaster'[s] = << >>
    BY DEF Disconnect, StreamInv, TypeOK
  <2> QED
    BY <2>1, <2>2 DEF Within
<1>3. \A s \in replicas, n, o \in Nat : Reached(s, n, o) => ReachedNext(s, n, o)
  BY <1>1 DEF Reached, ReachedNext, waitVars, waitHistory
<1>4. NumbersArePast'
  BY <1>1, <1>2, NumbersKept DEF waitVars, waitHistory
<1>5. OffsetsKeepUp'
  BY <1>1, <1>2, <1>3, OffsetsKept
<1>6. WaitsHearReplicas' /\ EarlyReplicaCounted'
  BY <1>1, Unheard
<1> QED
  BY <1>4, <1>5, <1>6

\* A write takes the number after all that are known, and ends beyond the
\* master's new offset.
LEMMA WriteOffsets ==
  ASSUME StreamInv, OffsetInv, NEW len \in WriteLens, Write(len)
  PROVE  OffsetInv'
<1> USE DEF OffsetInv
<1>1. /\ UNCHANGED <<replicas, connected, toMaster, processingOffset, applied>>
      /\ UNCHANGED <<joinedAt, offsetAtJoin>> /\ UNCHANGED <<waitVars, waitHistory>>
      /\ Propagate(len)
  BY DEF Write, joinHistory
<1>2. /\ len \in Nat /\ len > 0 /\ propagated \in Nat /\ master_repl_offset \in Nat
      /\ connected \subseteq replicas /\ replicas \subseteq Replicas
      /\ offsetAtJoin \in [Replicas -> Nat] /\ getAckBytes \in [Replicas -> Nat]
      /\ masterOffset \in [Waits -> Nat] /\ due \in [Waits -> Nat]
  BY ReplicationAssumption DEF StreamInv, TypeOK
<1>3. WaitsHearReplicas' /\ EarlyReplicaCounted'
  BY <1>1, Unheard
<1>4. CASE replicas = {}
  <2>1. UNCHANGED <<toReplica, master_repl_offset, propagated>>
    BY <1>1, <1>4 DEF Propagate
  <2>2. NumbersArePast'
    BY <1>1, <2>1 DEF NumbersArePast, waitVars, waitHistory
  <2>3. OffsetsKeepUp'
    BY <1>1, <1>4 DEF OffsetsKeepUp
  <2> QED
    BY <1>3, <2>2, <2>3
<1>5. CASE replicas # {}
  <2>1. /\ toReplica' = SendAll("write", len, propagated + 1)
        /\ master_repl_offset' = master_repl_offset + len
        /\ propagated' = propagated + 1
    BY <1>1, <1>5 DEF Propagate
  <2>2. ASSUME NEW s \in Replicas, NEW i \in DOMAIN toReplica'[s]
        PROVE  \/ i \in DOMAIN toReplica[s] /\ toReplica'[s][i] = toReplica[s][i]
               \/ /\ s \in connected
                  /\ toReplica'[s][i].n = propagated + 1
                  /\ toReplica'[s][i].end = StreamEnd(s) + len
    <3>1. CASE s \in connected
      <4> DEFINE m == [kind |-> "write", len |-> len, n |-> propagated + 1, end |-> StreamEnd(s) + len]
      <4>1. m \in Command /\ toReplica'[s] = Append(toReplica[s], m)
        <5>1. propagated + 1 \in Nat /\ "write" \in {"write", "getack"}
          BY <1>2
        <5> QED
          BY <1>2, <2>1, <3>1, <5>1, SendAllEffect
      <4>2. m.n = propagated + 1 /\ m.end = StreamEnd(s) + len
        OBVIOUS
      <4>3. toReplica[s] \in Seq(Command)
        BY DEF StreamInv, TypeOK
      <4> HIDE DEF m
      <4> QED
        BY <2>2, <3>1, <4>1, <4>2, <4>3, QueueAppend
    <3>2. CASE s \notin connected
      BY <2>1, <2>2, <3>2 DEF SendAll
    <3> QED
      BY <3>1, <3>2
  <2>3. NumbersArePast'
    <3>1. ASSUME NEW s \in Replicas, NEW i \in DOMAIN toReplica'[s]
          PROVE  toReplica'[s][i].n <= propagated'
      <4>1. CASE i \in DOMAIN toReplica[s] /\ toReplica'[s][i] = toReplica[s][i]
        <5>1. toReplica[s][i].n \in Nat /\ toReplica[s][i].n <= propagated
          BY <4>1, InFlight DEF NumbersArePast
        <5> QED
          BY <1>2, <2>1, <4>1, <5>1
      <4>2. CASE toReplica'[s][i].n = propagated + 1
        BY <1>2, <2>1, <4>2
      <4> QED
        BY <2>2, <4>1, <4>2
    <3>2. ASSUME NEW s \in Replicas, NEW i \in DOMAIN toMaster'[s]
          PROVE  toMaster'[s][i].upTo <= propagated'
      <4>1. toMaster[s][i].upTo \in Nat /\ toMaster[s][i].upTo <= propagated
        BY <1>1, <3>2, InFlight DEF NumbersArePast
      <4> QED
        BY <1>1, <1>2, <2>1, <4>1
    <3>3. \A s \in Replicas : joinedAt[s] \in Nat /\ applied[s] \in Nat
      BY DEF StreamInv, TypeOK
    <3> QED
      BY <1>1, <1>2, <2>1, <3>1, <3>2, <3>3 DEF NumbersArePast, waitVars, waitHistory
  <2>4. \A s \in replicas, n, o \in Nat : n <= propagated /\ Reached(s, n, o) => ReachedNext(s, n, o)
    BY <1>1, <1>2, <2>1 DEF Reached, ReachedNext, waitVars, waitHistory
  <2>5. ASSUME NEW s \in connected
        PROVE  ReachedNext(s, propagated + 1, StreamEnd(s) + len)
    <3>1. /\ StreamEnd(s) = master_repl_offset - offsetAtJoin[s] + getAckBytes[s]
          /\ offsetAtJoin[s] \in Nat /\ getAckBytes[s] \in Nat
      BY <1>2 DEF StreamEnd
    <3>2. StreamEnd(s) + len + offsetAtJoin'[s] >= master_repl_offset + len
      BY <1>1, <1>2, <3>1
    <3>3. ASSUME NEW w \in Waits
          PROVE  StreamEnd(s) + len + offsetAtJoin'[s] >= masterOffset'[w]
      <4>1. masterOffset'[w] = masterOffset[w] /\ masterOffset[w] <= master_repl_offset /\ masterOffset[w] \in Nat
        BY <1>1, <1>2 DEF NumbersArePast, waitVars
      <4>2. offsetAtJoin'[s] = offsetAtJoin[s]
        BY <1>1
      <4> QED
        BY <1>2, <3>1, <4>1, <4>2
    <3> QED
      BY <2>1, <3>2, <3>3 DEF ReachedNext
  <2>6. ASSUME NEW s \in replicas
        PROVE  /\ ReachedNext(s, applied'[s], processingOffset'[s])
               /\ \A i \in DOMAIN toReplica'[s] :
                    toReplica'[s][i].kind = "write" => ReachedNext(s, toReplica'[s][i].n, toReplica'[s][i].end)
               /\ \A i \in DOMAIN toMaster'[s] : ReachedNext(s, toMaster'[s][i].upTo, toMaster'[s][i].offset)
    <3>1. s \in Replicas
      BY <1>2
    <3>2. ReachedNext(s, applied'[s], processingOffset'[s])
      BY <1>1, <2>4, <3>1, InFlight DEF OffsetsKeepUp, NumbersArePast
    <3>3. ASSUME NEW i \in DOMAIN toReplica'[s], toReplica'[s][i].kind = "write"
          PROVE  ReachedNext(s, toReplica'[s][i].n, toReplica'[s][i].end)
      <4>1. CASE i \in DOMAIN toReplica[s] /\ toReplica'[s][i] = toReplica[s][i]
        BY <2>4, <3>1, <3>3, <4>1, InFlight DEF OffsetsKeepUp, NumbersArePast
      <4>2. CASE /\ s \in connected
                 /\ toReplica'[s][i].n = propagated + 1
                 /\ toReplica'[s][i].end = StreamEnd(s) + len
        BY <2>5, <4>2
      <4> QED
        BY <2>2, <3>1, <4>1, <4>2
    <3>4. ASSUME NEW i \in DOMAIN toMaster'[s]
          PROVE  ReachedNext(s, toMaster'[s][i].upTo, toMaster'[s][i].offset)
      <4>1. /\ toMaster[s][i].upTo \in Nat /\ toMaster[s][i].offset \in Nat
            /\ toMaster[s][i].upTo <= propagated
            /\ Reached(s, toMaster[s][i].upTo, toMaster[s][i].offset)
        BY <1>1, <3>1, <3>4, InFlight DEF OffsetsKeepUp, NumbersArePast
      <4> QED
        BY <1>1, <2>4, <4>1
    <3> QED
      BY <3>2, <3>3, <3>4
  <2>7. OffsetsKeepUp'
    BY <1>1, <2>6, OffsetsNext
  <2> QED
    BY <1>3, <2>3, <2>7
<1> QED
  BY <1>4, <1>5

\* What a replica does with the next command of its stream.
LEMMA TakeOffsets ==
  ASSUME StreamInv, NEW r \in Replicas, r \in connected, toReplica[r] # << >>,
         toReplica' = [toReplica EXCEPT ![r] = Tail(@)]
  PROVE  /\ \A s \in Replicas : Within(toReplica'[s], toReplica[s])
         /\ Head(toReplica[r]) = toReplica[r][1] /\ 1 \in DOMAIN toReplica[r]
<1>1. toReplica[r] \in Seq(Command) /\ toReplica \in [Replicas -> Seq(Command)]
  BY DEF StreamInv, TypeOK
<1>2. Within(toReplica'[r], toReplica[r])
  BY <1>1, TailWithin
<1>3. \A s \in Replicas : s # r => Within(toReplica'[s], toReplica[s])
  BY <1>1 DEF Within
<1> QED
  BY <1>1, <1>2, <1>3, QueueTail

LEMMA ReplicaWriteOffsets ==
  ASSUME StreamInv, OffsetInv, NEW r \in Replicas, ReplicaWrite(r)
  PROVE  OffsetInv'
<1> USE DEF OffsetInv
<1> DEFINE m == toReplica[r][1]
<1>1. /\ r \in connected /\ toReplica[r] # << >> /\ Head(toReplica[r]).kind = "write"
      /\ processingOffset' = [processingOffset EXCEPT ![r] = @ + Head(toReplica[r]).len]
      /\ toReplica' = [toReplica EXCEPT ![r] = Tail(@)]
      /\ applied' = [applied EXCEPT ![r] = Head(toReplica[r]).n]
      /\ UNCHANGED <<replicas, connected, master_repl_offset, toMaster, propagated, getAckBytes>>
      /\ UNCHANGED <<joinedAt, offsetAtJoin>> /\ UNCHANGED <<waitVars, waitHistory>>
  BY DEF ReplicaWrite, masterVars, joinHistory
<1>2. /\ \A s \in Replicas : Within(toReplica'[s], toReplica[s])
      /\ Head(toReplica[r]) = m /\ 1 \in DOMAIN toReplica[r]
  BY <1>1, TakeOffsets
<1>3. /\ processingOffset'[r] = m.end /\ applied'[r] = m.n
      /\ \A s \in Replicas : s # r => processingOffset'[s] = processingOffset[s] /\ applied'[s] = applied[s]
  <2>1. processingOffset'[r] = m.end
    BY <1>1, TakeStream DEF masterVars
  <2> QED
    BY <1>1, <1>2, <2>1 DEF StreamInv, TypeOK
<1>4. m.n \in Nat /\ m.end \in Nat /\ m.n <= propagated /\ m.kind = "write"
  BY <1>1, <1>2, InFlight DEF NumbersArePast
<1>5. \A s \in replicas, n, o \in Nat : Reached(s, n, o) => ReachedNext(s, n, o)
  BY <1>1 DEF Reached, ReachedNext, waitVars, waitHistory
<1>6. r \in replicas /\ replicas \subseteq Replicas
  BY <1>1 DEF StreamInv, TypeOK
<1>7. ReachedNext(r, m.n, m.end)
  BY <1>2, <1>4, <1>5, <1>6 DEF OffsetsKeepUp
<1> HIDE DEF m
<1>8. NumbersArePast'
  <2>1. ASSUME NEW s \in Replicas
        PROVE  /\ applied'[s] <= propagated
               /\ \A i \in DOMAIN toReplica'[s] : toReplica'[s][i].n <= propagated
    BY <1>2, <1>3, <1>4 DEF NumbersArePast, Within
  <2> QED
    BY <1>1, <2>1 DEF NumbersArePast, waitVars, waitHistory
<1>9. OffsetsKeepUp'
  <2>1. ASSUME NEW s \in replicas
        PROVE  /\ ReachedNext(s, applied'[s], processingOffset'[s])
               /\ \A i \in DOMAIN toReplica'[s] :
                    toReplica'[s][i].kind = "write" => ReachedNext(s, toReplica'[s][i].n, toReplica'[s][i].end)
               /\ \A i \in DOMAIN toMaster'[s] : ReachedNext(s, toMaster'[s][i].upTo, toMaster'[s][i].offset)
    <3>1. ReachedNext(s, applied'[s], processingOffset'[s])
      <4>1. CASE s = r
        BY <1>3, <1>7, <4>1
      <4>2. CASE s # r
        BY <1>3, <1>5, <1>6, <4>2, InFlight DEF OffsetsKeepUp
      <4> QED
        BY <4>1, <4>2
    <3>2. ASSUME NEW i \in DOMAIN toReplica'[s], toReplica'[s][i].kind = "write"
          PROVE  ReachedNext(s, toReplica'[s][i].n, toReplica'[s][i].end)
      <4>1. PICK j \in DOMAIN toReplica[s] : toReplica'[s][i] = toReplica[s][j]
        BY <1>2, <1>6 DEF Within
      <4> QED
        BY <1>5, <1>6, <3>2, <4>1, InFlight DEF OffsetsKeepUp
    <3>3. ASSUME NEW i \in DOMAIN toMaster'[s]
          PROVE  ReachedNext(s, toMaster'[s][i].upTo, toMaster'[s][i].offset)
      BY <1>1, <1>5, <1>6, InFlight DEF OffsetsKeepUp
    <3> QED
      BY <3>1, <3>2, <3>3
  <2> QED
    BY <1>1, <2>1, OffsetsNext
<1>10. WaitsHearReplicas' /\ EarlyReplicaCounted'
  BY <1>1, Unheard
<1> QED
  BY <1>8, <1>9, <1>10

\* The ACK reports an offset the replica has reached, and the GETACK's bytes
\* only move it on.
LEMMA ReplicaGetAckOffsets ==
  ASSUME StreamInv, OffsetInv, NEW r \in Replicas, ReplicaGetAck(r)
  PROVE  OffsetInv'
<1> USE DEF OffsetInv
<1> DEFINE ack == [offset |-> processingOffset[r], upTo |-> applied[r]]
<1>1. /\ r \in connected /\ toReplica[r] # << >>
      /\ processingOffset' = [processingOffset EXCEPT ![r] = @ + Head(toReplica[r]).len]
      /\ toReplica' = [toReplica EXCEPT ![r] = Tail(@)]
      /\ toMaster' = [toMaster EXCEPT ![r] = Append(@, ack)]
      /\ UNCHANGED <<replicas, master_repl_offset, propagated, applied>>
      /\ UNCHANGED <<joinedAt, offsetAtJoin>> /\ UNCHANGED <<waitVars, waitHistory>>
  BY DEF ReplicaGetAck, masterVars, joinHistory
<1>2. /\ \A s \in Replicas : Within(toReplica'[s], toReplica[s])
      /\ Head(toReplica[r]) = toReplica[r][1] /\ 1 \in DOMAIN toReplica[r]
  BY <1>1, TakeOffsets
<1>3. \A s \in Replicas : /\ processingOffset'[s] \in Nat /\ processingOffset[s] \in Nat
                          /\ processingOffset'[s] >= processingOffset[s]
  <2>1. Head(toReplica[r]).len \in Nat /\ processingOffset \in [Replicas -> Nat]
    BY <1>2, InFlight DEF StreamInv, TypeOK
  <2> QED
    BY <1>1, <2>1
<1>4. r \in replicas /\ replicas \subseteq Replicas /\ offsetAtJoin \in [Replicas -> Nat]
      /\ masterOffset \in [Waits -> Nat] /\ master_repl_offset \in Nat
  BY <1>1 DEF StreamInv, TypeOK
<1>5. \A s \in replicas, n, o \in Nat : Reached(s, n, o) => ReachedNext(s, n, o)
  BY <1>1 DEF Reached, ReachedNext, waitVars, waitHistory
<1>6. ASSUME NEW s \in Replicas, NEW i \in DOMAIN toMaster'[s]
      PROVE  \/ i \in DOMAIN toMaster[s] /\ toMaster'[s][i] = toMaster[s][i]
             \/ s = r /\ toMaster'[s][i].offset = processingOffset[r] /\ toMaster'[s][i].upTo = applied[r]
  <2>1. CASE s = r
    <3>1. ack \in Ack /\ toMaster[r] \in Seq(Ack) /\ toMaster'[r] = Append(toMaster[r], ack)
      BY <1>1, InFlight DEF Ack, StreamInv, TypeOK
    <3>2. ack.offset = processingOffset[r] /\ ack.upTo = applied[r]
      OBVIOUS
    <3> HIDE DEF ack
    <3> QED
      BY <1>6, <2>1, <3>1, <3>2, QueueAppend
  <2>2. CASE s # r
    BY <1>1, <1>6, <2>2 DEF StreamInv, TypeOK
  <2> QED
    BY <2>1, <2>2
<1> HIDE DEF ack
<1>7. NumbersArePast'
  <2>1. ASSUME NEW s \in Replicas
        PROVE  /\ \A i \in DOMAIN toReplica'[s] : toReplica'[s][i].n <= propagated
               /\ \A i \in DOMAIN toMaster'[s] : toMaster'[s][i].upTo <= propagated
    BY <1>2, <1>6 DEF NumbersArePast, Within
  <2> QED
    BY <1>1, <2>1 DEF NumbersArePast, waitVars, waitHistory
<1>8. OffsetsKeepUp'
  <2>1. ASSUME NEW s \in replicas
        PROVE  /\ ReachedNext(s, applied'[s], processingOffset'[s])
               /\ \A i \in DOMAIN toReplica'[s] :
                    toReplica'[s][i].kind = "write" => ReachedNext(s, toReplica'[s][i].n, toReplica'[s][i].end)
               /\ \A i \in DOMAIN toMaster'[s] : ReachedNext(s, toMaster'[s][i].upTo, toMaster'[s][i].offset)
    <3>1. ReachedNext(s, applied[s], processingOffset[s])
      BY <1>4, <1>5, InFlight DEF OffsetsKeepUp
    <3>2. ReachedNext(s, applied'[s], processingOffset'[s])
      <4>1. processingOffset'[s] + offsetAtJoin'[s] >= processingOffset[s] + offsetAtJoin'[s]
        BY <1>1, <1>3, <1>4
      <4>2. /\ processingOffset[s] \in Nat /\ processingOffset'[s] \in Nat /\ offsetAtJoin'[s] \in Nat
            /\ master_repl_offset' \in Nat /\ masterOffset' \in [Waits -> Nat]
        BY <1>1, <1>3, <1>4 DEF waitVars
      <4> QED
        BY <1>1, <3>1, <4>1, <4>2 DEF ReachedNext
    <3>3. ASSUME NEW i \in DOMAIN toReplica'[s], toReplica'[s][i].kind = "write"
          PROVE  ReachedNext(s, toReplica'[s][i].n, toReplica'[s][i].end)
      <4>1. PICK j \in DOMAIN toReplica[s] : toReplica'[s][i] = toReplica[s][j]
        BY <1>2, <1>4 DEF Within
      <4> QED
        BY <1>4, <1>5, <3>3, <4>1, InFlight DEF OffsetsKeepUp
    <3>4. ASSUME NEW i \in DOMAIN toMaster'[s]
          PROVE  ReachedNext(s, toMaster'[s][i].upTo, toMaster'[s][i].offset)
      <4>1. CASE i \in DOMAIN toMaster[s] /\ toMaster'[s][i] = toMaster[s][i]
        BY <1>4, <1>5, <4>1, InFlight DEF OffsetsKeepUp
      <4>2. CASE /\ s = r /\ toMaster'[s][i].offset = processingOffset[r]
                 /\ toMaster'[s][i].upTo = applied[r]
        BY <3>1, <4>2
      <4> QED
        BY <1>4, <1>6, <4>1, <4>2
    <3> QED
      BY <3>2, <3>3, <3>4
  <2> QED
    BY <1>1, <2>1, OffsetsNext
<1>9. WaitsHearReplicas' /\ EarlyReplicaCounted'
  BY <1>1, Unheard
<1> QED
  BY <1>7, <1>8, <1>9

LEMMA WaitNowOffsets ==
  ASSUME StreamInv, OffsetInv, NEW w \in Waits, NEW k \in 0..Cardinality(Replicas), WaitNow(w, k)
  PROVE  OffsetInv'
<1> USE DEF OffsetInv
<1>1. /\ waitStatus[w] = "idle" /\ waitStatus' = [waitStatus EXCEPT ![w] = "done"]
      /\ ackCount' = [ackCount EXCEPT ![w] = Cardinality(replicas)]
      /\ due' = [due EXCEPT ![w] = propagated]
      /\ UNCHANGED <<replicas, master_repl_offset, toReplica, toMaster, processingOffset>>
      /\ UNCHANGED <<masterOffset, propagated, joinedAt, offsetAtJoin, applied>>
      /\ UNCHANGED <<quiet, counted, caughtUp>>
  BY DEF WaitNow, masterVars, linkVars, joinHistory
<1>2. /\ waitStatus \in [Waits -> {"idle", "waiting", "done"}] /\ due \in [Waits -> Nat]
      /\ propagated \in Nat /\ replicas \subseteq Replicas /\ offsetAtJoin \in [Replicas -> Nat]
      /\ masterOffset \in [Waits -> Nat] /\ ackCount \in [Waits -> Nat] /\ quiet \in [Waits -> BOOLEAN]
  BY DEF StreamInv, TypeOK
<1>3. masterOffset[w] = 0 /\ caughtUp[w] = {} /\ counted[w] = {}
  BY <1>1 DEF WaitsHearReplicas
<1>4. NumbersArePast'
  BY <1>1, <1>2 DEF NumbersArePast
<1>5. \A s \in replicas, n, o \in Nat : Reached(s, n, o) => ReachedNext(s, n, o)
  BY <1>1, <1>2, <1>3 DEF Reached, ReachedNext
<1>6. OffsetsKeepUp'
  BY <1>1, <1>5, OffsetsKept DEF Within
<1>7. WaitsHearReplicas'
  BY <1>1, <1>2, <1>3 DEF WaitsHearReplicas
<1>8. Cardinality(replicas) \in Nat
  BY <1>2, ReplicationAssumption, FS_Subset, FS_CardinalityType
<1>9. EarlyReplicaCounted'
  <2>1. ASSUME NEW v \in Waits, waitStatus'[v] # "idle"
        PROVE  ackCount'[v] >= Cardinality({r \in caughtUp'[v] : offsetAtJoin'[r] = 0})
    <3>1. CASE v = w
      <4>1. {r \in caughtUp'[v] : offsetAtJoin'[r] = 0} = {}
        BY <1>1, <1>3, <3>1
      <4>2. ackCount'[v] = Cardinality(replicas)
        BY <1>1, <1>2, <3>1
      <4>3. Cardinality({r \in caughtUp'[v] : offsetAtJoin'[r] = 0}) = 0
        BY <4>1, FS_EmptySet
      <4> QED
        BY <1>8, <4>2, <4>3
    <3>2. CASE v # w
      BY <1>1, <1>2, <2>1, <3>2 DEF EarlyReplicaCounted
    <3> QED
      BY <3>1, <3>2
  <2> QED
    BY <2>1 DEF EarlyReplicaCounted
<1> QED
  BY <1>4, <1>6, <1>7, <1>9

\* A WAIT asks for the master's offset, which a replica that executed the
\* last write has reached.
LEMMA WaitBlockOffsets ==
  ASSUME StreamInv, OffsetInv, NEW w \in Waits, NEW k \in 0..Cardinality(Replicas), WaitBlock(w, k)
  PROVE  OffsetInv'
<1> USE DEF OffsetInv
<1>1. /\ waitStatus[w] = "idle" /\ waitStatus' = [waitStatus EXCEPT ![w] = "waiting"]
      /\ master_repl_offset # 0
      /\ masterOffset' = [masterOffset EXCEPT ![w] = master_repl_offset]
      /\ due' = [due EXCEPT ![w] = propagated]
      /\ toReplica' = SendAll("getack", GetAckLen, 0)
      /\ UNCHANGED <<replicas, master_repl_offset, toMaster, processingOffset>>
      /\ UNCHANGED <<ackCount, propagated, joinedAt, offsetAtJoin, applied>>
      /\ UNCHANGED <<counted, caughtUp>>
      /\ quiet' = [v \in Waits |-> IF v = w THEN NothingAsked ELSE quiet[v] /\ waitStatus[v] # "waiting"]
  BY DEF WaitBlock, masterVars, joinHistory
<1>2. /\ waitStatus \in [Waits -> {"idle", "waiting", "done"}] /\ due \in [Waits -> Nat]
      /\ propagated \in Nat /\ replicas \subseteq Replicas /\ offsetAtJoin \in [Replicas -> Nat]
      /\ masterOffset \in [Waits -> Nat] /\ ackCount \in [Waits -> Nat] /\ master_repl_offset \in Nat
      /\ GetAckLen \in Nat
  BY ReplicationAssumption DEF StreamInv, TypeOK
<1>3. caughtUp[w] = {} /\ counted[w] = {} /\ ackCount[w] = 0
  BY <1>1 DEF WaitsHearReplicas
<1>4. ASSUME NEW s \in Replicas, NEW i \in DOMAIN toReplica'[s]
      PROVE  \/ i \in DOMAIN toReplica[s] /\ toReplica'[s][i] = toReplica[s][i]
             \/ toReplica'[s][i].kind = "getack" /\ toReplica'[s][i].n = 0
  BY <1>1, <1>4, GetAckSent
<1>5. NumbersArePast'
  <2>1. ASSUME NEW s \in Replicas, NEW i \in DOMAIN toReplica'[s]
        PROVE  toReplica'[s][i].n <= propagated
    BY <1>2, <1>4 DEF NumbersArePast
  <2> QED
    BY <1>1, <1>2, <2>1 DEF NumbersArePast
<1>6. \A s \in replicas, n, o \in Nat : Reached(s, n, o) => ReachedNext(s, n, o)
  BY <1>1, <1>2 DEF Reached, ReachedNext
<1>7. OffsetsKeepUp'
  <2>1. ASSUME NEW s \in replicas
        PROVE  /\ ReachedNext(s, applied'[s], processingOffset'[s])
               /\ \A i \in DOMAIN toReplica'[s] :
                    toReplica'[s][i].kind = "write" => ReachedNext(s, toReplica'[s][i].n, toReplica'[s][i].end)
               /\ \A i \in DOMAIN toMaster'[s] : ReachedNext(s, toMaster'[s][i].upTo, toMaster'[s][i].offset)
    <3>1. s \in Replicas
      BY <1>2
    <3>2. ASSUME NEW i \in DOMAIN toReplica'[s], toReplica'[s][i].kind = "write"
          PROVE  ReachedNext(s, toReplica'[s][i].n, toReplica'[s][i].end)
      <4>1. i \in DOMAIN toReplica[s] /\ toReplica'[s][i] = toReplica[s][i]
        BY <1>4, <3>1, <3>2
      <4> QED
        BY <1>6, <3>1, <3>2, <4>1, InFlight DEF OffsetsKeepUp
    <3> QED
      BY <1>1, <1>6, <3>1, <3>2, InFlight DEF OffsetsKeepUp
  <2> QED
    BY <1>1, <2>1, OffsetsNext
<1>8. WaitsHearReplicas'
  BY <1>1, <1>2, <1>3 DEF WaitsHearReplicas
<1>9. EarlyReplicaCounted'
  <2>1. ASSUME NEW v \in Waits, waitStatus'[v] # "idle"
        PROVE  ackCount'[v] >= Cardinality({r \in caughtUp'[v] : offsetAtJoin'[r] = 0})
    <3>1. CASE v = w
      <4>1. {r \in caughtUp'[v] : offsetAtJoin'[r] = 0} = {}
        BY <1>1, <1>3, <3>1
      <4>2. Cardinality({r \in caughtUp'[v] : offsetAtJoin'[r] = 0}) = 0
        BY <4>1, FS_EmptySet
      <4>3. ackCount'[v] = 0
        BY <1>1, <1>3, <3>1
      <4> QED
        BY <4>2, <4>3
    <3>2. CASE v # w
      BY <1>1, <1>2, <2>1, <3>2 DEF EarlyReplicaCounted
    <3> QED
      BY <3>1, <3>2
  <2> QED
    BY <2>1 DEF EarlyReplicaCounted
<1> QED
  BY <1>5, <1>7, <1>8, <1>9

\* An early replica's ACK that tells of all that is due also has the offset:
\* the WAIT counts it.
LEMMA ReceiveAckOffsets ==
  ASSUME StreamInv, OffsetInv, NEW r \in Replicas, ReceiveAck(r)
  PROVE  OffsetInv'
<1> USE DEF OffsetInv
<1> DEFINE ack == toMaster[r][1]
<1>end. /\ waitStatus \in [Waits -> {"idle", "waiting", "done"}]
      /\ ackCount \in [Waits -> Nat] /\ counted \in [Waits -> SUBSET Replicas]
      /\ caughtUp \in [Waits -> SUBSET Replicas] /\ toMaster \in [Replicas -> Seq(Ack)]
      /\ replicas \subseteq Replicas /\ offsetAtJoin \in [Replicas -> Nat]
      /\ masterOffset \in [Waits -> Nat]
  BY DEF StreamInv, TypeOK
<1>1. /\ toMaster[r] # << >> /\ toMaster' = [toMaster EXCEPT ![r] = Tail(@)]
      /\ Head(toMaster[r]) = ack /\ 1 \in DOMAIN toMaster[r]
  BY <1>end, QueueTail DEF ReceiveAck
<1>2. /\ ackCount' = [w \in Waits |-> IF Counts(w, ack) THEN ackCount[w] + 1 ELSE ackCount[w]]
      /\ waitStatus' = [w \in Waits |->
                          IF Counts(w, ack) /\ ackCount[w] + 1 >= requiredReplicas[w]
                          THEN "done" ELSE waitStatus[w]]
      /\ counted' = [w \in Waits |-> IF Counts(w, ack) THEN counted[w] \cup {r} ELSE counted[w]]
      /\ caughtUp' = [w \in Waits |->
                        IF waitStatus[w] = "waiting" /\ ack.upTo >= due[w]
                        THEN caughtUp[w] \cup {r} ELSE caughtUp[w]]
      /\ UNCHANGED <<replicas, master_repl_offset, toReplica, processingOffset, masterOffset>>
      /\ UNCHANGED <<propagated, joinedAt, offsetAtJoin, applied, due, quiet>>
  BY <1>1 DEF ReceiveAck, masterVars, joinHistory
<1>3. \A s \in Replicas : Within(toReplica'[s], toReplica[s]) /\ Within(toMaster'[s], toMaster[s])
  <2>1. Within(toMaster'[r], toMaster[r])
    BY <1>end, <1>1, TailWithin
  <2>2. \A s \in Replicas : s # r => toMaster'[s] = toMaster[s]
    BY <1>end, <1>1
  <2> QED
    BY <1>2, <2>1, <2>2 DEF Within
<1>4. r \in replicas /\ ack.upTo \in Nat /\ ack.offset \in Nat /\ Reached(r, ack.upTo, ack.offset)
  <2>1. r \in replicas
    BY <1>1 DEF StreamInv, NotJoined
  <2> QED
    BY <1>1, <2>1, InFlight DEF OffsetsKeepUp
<1> HIDE DEF ack
<1>5. ASSUME NEW w \in Waits
      PROVE  /\ waitStatus'[w] = "idle" <=> waitStatus[w] = "idle"
             /\ waitStatus'[w] = "waiting" => waitStatus[w] = "waiting"
             /\ waitStatus[w] = "idle" => ~ Counts(w, ack)
  BY <1>end, <1>2 DEF Counts
<1>6. NumbersArePast'
  BY <1>2, <1>3, NumbersKept
<1>7. \A s \in replicas, n, o \in Nat : Reached(s, n, o) => ReachedNext(s, n, o)
  BY <1>2, <1>5 DEF Reached, ReachedNext
<1>8. OffsetsKeepUp'
  BY <1>2, <1>3, <1>7, OffsetsKept
<1>9. WaitsHearReplicas'
  <2>1. ASSUME NEW w \in Waits
        PROVE  /\ counted'[w] \subseteq replicas /\ caughtUp'[w] \subseteq replicas
               /\ waitStatus'[w] = "idle" => /\ ackCount'[w] = 0 /\ counted'[w] = {} /\ caughtUp'[w] = {}
                                             /\ ~ quiet[w] /\ masterOffset[w] = 0
               /\ masterOffset[w] = 0 => waitStatus'[w] # "waiting"
    BY <1>2, <1>4, <1>5 DEF WaitsHearReplicas
  <2> QED
    BY <1>2, <2>1 DEF WaitsHearReplicas
<1>10. EarlyReplicaCounted'
  <2> DEFINE Early(s) == {q \in s : offsetAtJoin[q] = 0}
  <2>1. ASSUME NEW w \in Waits, waitStatus'[w] # "idle"
        PROVE  ackCount'[w] >= Cardinality(Early(caughtUp'[w]))
    <3>1. ackCount[w] >= Cardinality(Early(caughtUp[w])) /\ ackCount[w] \in Nat
      BY <1>end, <1>5, <2>1 DEF EarlyReplicaCounted
    <3>2. IsFiniteSet(Early(caughtUp[w])) /\ Cardinality(Early(caughtUp[w])) \in Nat
      <4>1. Early(caughtUp[w]) \subseteq Replicas
        BY <1>end
      <4> QED
        BY <4>1, ReplicationAssumption, FS_Subset, FS_CardinalityType
    <3>3. CASE offsetAtJoin[r] = 0 /\ waitStatus[w] = "waiting" /\ ack.upTo >= due[w]
      <4>1. Counts(w, ack)
        <5>1. waitStatus[w] # "idle"
          BY <3>3
        <5>2. ack.offset + offsetAtJoin[r] >= masterOffset[w]
          BY <1>4, <3>3, <5>1 DEF Reached
        <5>3. ack.offset >= masterOffset[w]
          BY <1>end, <1>4, <3>3, <5>2
        <5> QED
          BY <3>3, <5>3 DEF Counts
      <4>2. ackCount'[w] = ackCount[w] + 1
        BY <1>2, <4>1
      <4>3. Early(caughtUp'[w]) = Early(caughtUp[w]) \cup {r}
        BY <1>2, <3>3
      <4>4. Cardinality(Early(caughtUp'[w])) <= Cardinality(Early(caughtUp[w])) + 1
        <5> HIDE DEF Early
        <5> QED
          BY <3>2, <4>3, FS_AddElement
      <4> HIDE DEF Early
      <4>5. Cardinality(Early(caughtUp'[w])) \in Nat
        BY <3>2, <4>3, FS_AddElement, FS_CardinalityType
      <4> QED
        BY <3>1, <3>2, <4>2, <4>4, <4>5
    <3>4. CASE ~ (offsetAtJoin[r] = 0 /\ waitStatus[w] = "waiting" /\ ack.upTo >= due[w])
      <4>1. Early(caughtUp'[w]) = Early(caughtUp[w])
        BY <1>2, <3>4
      <4>2. ackCount'[w] >= ackCount[w] /\ ackCount'[w] \in Nat
        BY <1>2, <3>1
      <4> HIDE DEF Early
      <4> QED
        BY <3>1, <3>2, <4>1, <4>2
    <3> QED
      BY <3>3, <3>4
  <2> QED
    BY <1>2, <2>1 DEF EarlyReplicaCounted
<1> QED
  BY <1>6, <1>8, <1>9, <1>10

LEMMA WaitTimeoutOffsets ==
  ASSUME StreamInv, OffsetInv, NEW w \in Waits, WaitTimeout(w)
  PROVE  OffsetInv'
<1> USE DEF OffsetInv
<1>1. /\ waitStatus[w] = "waiting" /\ waitStatus' = [waitStatus EXCEPT ![w] = "done"]
      /\ UNCHANGED <<replicas, master_repl_offset, toReplica, toMaster, processingOffset>>
      /\ UNCHANGED <<masterOffset, ackCount, propagated, joinedAt, offsetAtJoin, applied>>
      /\ UNCHANGED <<due, quiet, counted, caughtUp>>
  BY DEF WaitTimeout, masterVars, linkVars, joinHistory, waitHistory
<1>2. waitStatus \in [Waits -> {"idle", "waiting", "done"}]
  BY DEF StreamInv, TypeOK
<1>3. NumbersArePast'
  BY <1>1 DEF NumbersArePast
<1>4. \A s \in replicas, n, o \in Nat : Reached(s, n, o) => ReachedNext(s, n, o)
  BY <1>1, <1>2 DEF Reached, ReachedNext
<1>5. OffsetsKeepUp'
  BY <1>1, <1>4, OffsetsKept DEF Within
<1>6. WaitsHearReplicas' /\ EarlyReplicaCounted'
  BY <1>1, <1>2 DEF WaitsHearReplicas, EarlyReplicaCounted
<1> QED
  BY <1>3, <1>5, <1>6

LEMMA OffsetNext == StreamInv /\ OffsetInv /\ [Next]_vars => OffsetInv'
<1> SUFFICES ASSUME StreamInv, OffsetInv, [Next]_vars PROVE OffsetInv'
  OBVIOUS
<1>1. CASE UNCHANGED vars
  BY <1>1 DEF vars, masterVars, linkVars, waitVars, joinHistory, waitHistory, OffsetInv,
     NumbersArePast, OffsetsKeepUp, Reached, WaitsHearReplicas, EarlyReplicaCounted
<1>2. CASE Next
  BY <1>2, PsyncOffsets, DisconnectOffsets, WriteOffsets, ReplicaWriteOffsets, ReplicaGetAckOffsets,
     ReceiveAckOffsets, WaitNowOffsets, WaitBlockOffsets, WaitTimeoutOffsets DEF Next
<1> QED
  BY <1>1, <1>2

\* The offsets WAIT compares never leave out a replica that joined before
\* the first write: every ACK it sends when it has executed all that was due
\* is counted by every WAIT that listens.
THEOREM EarlyReplicaIsCounted == Spec => []EarlyReplicaCounted
<1>1. Init => StreamInv /\ OffsetInv
  BY StreamInit, OffsetInit
<1>2. StreamInv /\ OffsetInv /\ [Next]_vars => (StreamInv /\ OffsetInv)'
  BY StreamNext, OffsetNext
<1>3. OffsetInv => EarlyReplicaCounted
  BY DEF OffsetInv
<1> QED
  BY <1>1, <1>2, <1>3, PTL DEF Spec

-----------------------------------------------------------------------------
(* A quiet WAIT counts each replica once.                                  *)

LEMMA WritesTail ==
  ASSUME NEW q \in Seq(Command), q # << >>, NEW a \in Nat, NEW p \in Nat, WritesBetween(q, a, p)
  PROVE  /\ q[1].kind = "write" => q[1].n > a /\ WritesBetween(Tail(q), q[1].n, p)
         /\ q[1].kind = "getack" => WritesBetween(Tail(q), a, p)
<1>1. /\ 1 \in DOMAIN q /\ q[1] \in Command
      /\ Len(q) \in Nat \ {0} /\ DOMAIN q = 1..Len(q) /\ DOMAIN Tail(q) = 1..(Len(q) - 1)
      /\ \A i \in DOMAIN Tail(q) : i + 1 \in DOMAIN q /\ Tail(q)[i] = q[i + 1]
      /\ \A i \in DOMAIN q : i # 1 => i - 1 \in DOMAIN Tail(q) /\ Tail(q)[i - 1] = q[i]
  BY QueueTail
<1>2. q[1].n \in Nat
  BY <1>1 DEF Command
<1>3. ASSUME NEW i \in DOMAIN Tail(q), NEW j \in DOMAIN Tail(q), i < j,
             Tail(q)[i].kind = "write", Tail(q)[j].kind = "write"
      PROVE  Tail(q)[i].n < Tail(q)[j].n
  <2>1. i + 1 \in DOMAIN q /\ j + 1 \in DOMAIN q /\ i + 1 < j + 1
    BY <1>1, <1>3
  <2> QED
    BY <1>1, <1>3, <2>1 DEF WritesBetween
<1>4. CASE q[1].kind = "write"
  <2>1. q[1].n > a
    BY <1>1, <1>4 DEF WritesBetween
  <2>2. ASSUME NEW n \in (q[1].n + 1)..p
        PROVE  \E j \in DOMAIN Tail(q) : Tail(q)[j].kind = "write" /\ Tail(q)[j].n = n
    <3>1. n \in (a + 1)..p /\ n # q[1].n
      BY <1>2, <2>1
    <3>2. PICK j \in DOMAIN q : q[j].kind = "write" /\ q[j].n = n
      BY <3>1 DEF WritesBetween
    <3>3. j - 1 \in DOMAIN Tail(q) /\ Tail(q)[j - 1] = q[j]
      BY <1>1, <3>1, <3>2
    <3> QED
      BY <3>2, <3>3
  <2>3. ASSUME NEW j \in DOMAIN Tail(q), Tail(q)[j].kind = "write"
        PROVE  Tail(q)[j].n > q[1].n
    <3>1. j + 1 \in DOMAIN q /\ 1 < j + 1 /\ Tail(q)[j] = q[j + 1]
      BY <1>1
    <3>2. q[1].n < q[j + 1].n
      BY <1>1, <1>4, <2>3, <3>1 DEF WritesBetween
    <3>3. q[j + 1].n \in Nat
      <4>1. q[j + 1] \in Command
        BY <1>1, <3>1, ElementOfSeq
      <4> QED
        BY <4>1 DEF Command
    <3> QED
      BY <1>2, <3>1, <3>2, <3>3
  <2> QED
    BY <1>3, <1>4, <2>1, <2>2, <2>3 DEF WritesBetween
<1>5. CASE q[1].kind = "getack"
  <2>1. ASSUME NEW n \in (a + 1)..p
        PROVE  \E j \in DOMAIN Tail(q) : Tail(q)[j].kind = "write" /\ Tail(q)[j].n = n
    <3>1. PICK j \in DOMAIN q : q[j].kind = "write" /\ q[j].n = n
      BY DEF WritesBetween
    <3>2. j - 1 \in DOMAIN Tail(q) /\ Tail(q)[j - 1] = q[j]
      BY <1>1, <1>5, <3>1
    <3> QED
      BY <3>1, <3>2
  <2>2. \A j \in DOMAIN Tail(q) : Tail(q)[j].kind = "write" => Tail(q)[j].n > a
    BY <1>1 DEF WritesBetween
  <2> QED
    BY <1>3, <1>5, <2>1, <2>2 DEF WritesBetween
<1> QED
  BY <1>4, <1>5

LEMMA WritesAppend ==
  ASSUME NEW q \in Seq(Command), NEW m \in Command, NEW a \in Nat, NEW p \in Nat, a <= p,
         WritesBetween(q, a, p), \A i \in DOMAIN q : q[i].n <= p
  PROVE  /\ m.kind = "write" /\ m.n = p + 1 => WritesBetween(Append(q, m), a, p + 1)
         /\ m.kind = "getack" => WritesBetween(Append(q, m), a, p)
<1> DEFINE b == Append(q, m)
<1>1. /\ Len(q) \in Nat /\ DOMAIN q = 1..Len(q) /\ DOMAIN b = 1..(Len(q) + 1)
      /\ \A i \in DOMAIN q : i \in DOMAIN b /\ b[i] = q[i]
      /\ b[Len(q) + 1] = m
      /\ \A i \in DOMAIN b : i \in DOMAIN q \/ i = Len(q) + 1
  BY QueueAppend
<1>2. \A i \in DOMAIN q : q[i].n \in Nat
  <2>1. \A i \in DOMAIN q : q[i] \in Command
    BY <1>1, ElementOfSeq
  <2> QED
    BY <2>1 DEF Command
<1> HIDE DEF b
<1>3. ASSUME m.kind = "write", m.n = p + 1
      PROVE  WritesBetween(b, a, p + 1)
  <2>1. ASSUME NEW n \in (a + 1)..(p + 1)
        PROVE  \E j \in DOMAIN b : b[j].kind = "write" /\ b[j].n = n
    <3>1. CASE n = p + 1
      BY <1>1, <1>3, <3>1
    <3>2. CASE n # p + 1
      <4>1. n \in (a + 1)..p
        BY <3>2
      <4>2. PICK j \in DOMAIN q : q[j].kind = "write" /\ q[j].n = n
        BY <4>1 DEF WritesBetween
      <4> QED
        BY <1>1, <4>2
    <3> QED
      BY <3>1, <3>2
  <2>2. ASSUME NEW j \in DOMAIN b, b[j].kind = "write"
        PROVE  b[j].n > a
    BY <1>1, <1>3, <2>2 DEF WritesBetween
  <2>3. ASSUME NEW i \in DOMAIN b, NEW j \in DOMAIN b, i < j, b[i].kind = "write", b[j].kind = "write"
        PROVE  b[i].n < b[j].n
    <3>1. i \in DOMAIN q
      BY <1>1, <2>3
    <3>2. CASE j \in DOMAIN q
      BY <1>1, <2>3, <3>1, <3>2 DEF WritesBetween
    <3>3. CASE j = Len(q) + 1
      <4>1. b[j].n = p + 1 /\ b[i].n <= p /\ b[i].n \in Nat
        BY <1>1, <1>2, <1>3, <3>1, <3>3
      <4> QED
        BY <4>1
    <3> QED
      BY <1>1, <3>2, <3>3
  <2> QED
    BY <2>1, <2>2, <2>3 DEF WritesBetween
<1>4. ASSUME m.kind = "getack"
      PROVE  WritesBetween(b, a, p)
  <2>1. \A j \in DOMAIN b : b[j].kind = "write" => j \in DOMAIN q /\ b[j] = q[j]
    BY <1>1, <1>4
  <2>2. ASSUME NEW n \in (a + 1)..p
        PROVE  \E j \in DOMAIN b : b[j].kind = "write" /\ b[j].n = n
    <3>1. PICK j \in DOMAIN q : q[j].kind = "write" /\ q[j].n = n
      BY DEF WritesBetween
    <3> QED
      BY <1>1, <3>1
  <2>3. /\ \A j \in DOMAIN b : b[j].kind = "write" => b[j].n > a
        /\ \A i, j \in DOMAIN b : i < j /\ b[i].kind = "write" /\ b[j].kind = "write" => b[i].n < b[j].n
    BY <2>1 DEF WritesBetween
  <2> QED
    BY <2>2, <2>3 DEF WritesBetween
<1> QED
  BY <1>3, <1>4 DEF b

LEMMA OneAckTail ==
  ASSUME NEW q \in Seq(Command), q # << >>, NEW acks, NEW a \in Nat, NEW d \in Nat,
         NEW r, NEW hit, OneAck(r, q, acks, a, d, hit)
  PROVE  /\ q[1].kind = "write" /\ q[1].n > a => OneAck(r, Tail(q), acks, q[1].n, d, hit)
         /\ q[1].kind = "getack" =>
              /\ acks = << >> /\ r \notin hit /\ a >= d
              /\ \A i \in DOMAIN Tail(q) : Tail(q)[i].kind # "getack"
<1>1. /\ 1 \in DOMAIN q /\ q[1] \in Command
      /\ Len(q) \in Nat \ {0} /\ DOMAIN q = 1..Len(q) /\ DOMAIN Tail(q) = 1..(Len(q) - 1)
      /\ \A i \in DOMAIN Tail(q) : i + 1 \in DOMAIN q /\ Tail(q)[i] = q[i + 1]
      /\ \A i \in DOMAIN q : i # 1 => i - 1 \in DOMAIN Tail(q) /\ Tail(q)[i - 1] = q[i]
  BY QueueTail
<1>2. q[1].n \in Nat
  BY <1>1 DEF Command
<1>3. ASSUME q[1].kind = "write", q[1].n > a
      PROVE  OneAck(r, Tail(q), acks, q[1].n, d, hit)
  <2>1. ASSUME NEW i \in DOMAIN Tail(q), NEW j \in DOMAIN Tail(q),
               Tail(q)[i].kind = "getack", Tail(q)[j].kind = "getack"
        PROVE  i = j
    <3>1. i + 1 \in DOMAIN q /\ j + 1 \in DOMAIN q /\ q[i + 1].kind = "getack" /\ q[j + 1].kind = "getack"
      BY <1>1, <2>1
    <3>2. i + 1 = j + 1
      BY <3>1 DEF OneAck
    <3> QED
      BY <1>1, <3>2
  <2>2. ASSUME NEW i \in DOMAIN Tail(q), Tail(q)[i].kind = "getack"
        PROVE  /\ acks = << >> /\ r \notin hit
               /\ \A n \in (q[1].n + 1)..d :
                    \E j \in DOMAIN Tail(q) : j < i /\ Tail(q)[j].kind = "write" /\ Tail(q)[j].n = n
    <3>1. i + 1 \in DOMAIN q /\ q[i + 1].kind = "getack" /\ i \in Nat
      BY <1>1, <2>2
    <3>2. ASSUME NEW n \in (q[1].n + 1)..d
          PROVE  \E j \in DOMAIN Tail(q) : j < i /\ Tail(q)[j].kind = "write" /\ Tail(q)[j].n = n
      <4>1. n \in (a + 1)..d /\ n # q[1].n
        BY <1>2, <1>3
      <4>2. PICK j \in DOMAIN q : j < i + 1 /\ q[j].kind = "write" /\ q[j].n = n
        BY <3>1, <4>1 DEF OneAck
      <4>3. j - 1 \in DOMAIN Tail(q) /\ Tail(q)[j - 1] = q[j] /\ j - 1 < i
        BY <1>1, <3>1, <4>1, <4>2
      <4> QED
        BY <4>2, <4>3
    <3> QED
      BY <3>1, <3>2 DEF OneAck
  <2>3. \A i \in DOMAIN acks : i = 1 /\ r \notin hit /\ acks[i].upTo >= d
    BY DEF OneAck
  <2> QED
    BY <2>1, <2>2, <2>3 DEF OneAck
<1>4. ASSUME q[1].kind = "getack"
      PROVE  /\ acks = << >> /\ r \notin hit /\ a >= d
             /\ \A i \in DOMAIN Tail(q) : Tail(q)[i].kind # "getack"
  <2>1. acks = << >> /\ r \notin hit
    BY <1>1, <1>4 DEF OneAck
  <2>2. a >= d
    <3>1. SUFFICES ASSUME a < d PROVE FALSE
      OBVIOUS
    <3>2. d \in (a + 1)..d
      BY <3>1
    <3>3. PICK j \in DOMAIN q : j < 1
      BY <1>1, <1>4, <3>2 DEF OneAck
    <3> QED
      BY <1>1, <3>3
  <2>3. ASSUME NEW i \in DOMAIN Tail(q), Tail(q)[i].kind = "getack"
        PROVE  FALSE
    <3>1. i + 1 \in DOMAIN q /\ q[i + 1].kind = "getack" /\ i + 1 # 1
      BY <1>1, <2>3
    <3> QED
      BY <1>1, <1>4, <3>1 DEF OneAck
  <2> QED
    BY <2>1, <2>2, <2>3
<1> QED
  BY <1>3, <1>4

\* A GETACK that is the first thing asked follows all writes that are due.
LEMMA OneAckAppend ==
  ASSUME NEW q \in Seq(Command), NEW m \in Command, NEW acks, NEW a \in Nat, NEW d \in Nat,
         NEW r, NEW hit
  PROVE  /\ m.kind = "write" /\ OneAck(r, q, acks, a, d, hit) => OneAck(r, Append(q, m), acks, a, d, hit)
         /\ /\ m.kind = "getack" /\ acks = << >> /\ r \notin hit
            /\ \A i \in DOMAIN q : q[i].kind = "write"
            /\ WritesBetween(q, a, d)
            => OneAck(r, Append(q, m), acks, a, d, hit)
<1> DEFINE b == Append(q, m)
<1>1. /\ Len(q) \in Nat /\ DOMAIN q = 1..Len(q) /\ DOMAIN b = 1..(Len(q) + 1)
      /\ \A i \in DOMAIN q : i \in DOMAIN b /\ b[i] = q[i]
      /\ b[Len(q) + 1] = m
      /\ \A i \in DOMAIN b : i \in DOMAIN q \/ i = Len(q) + 1
  BY QueueAppend
<1> HIDE DEF b
<1>2. ASSUME m.kind = "write", OneAck(r, q, acks, a, d, hit)
      PROVE  OneAck(r, b, acks, a, d, hit)
  <2>1. \A i \in DOMAIN b : b[i].kind = "getack" => i \in DOMAIN q /\ q[i].kind = "getack"
    BY <1>1, <1>2
  <2>2. ASSUME NEW i \in DOMAIN b, b[i].kind = "getack", NEW n \in (a + 1)..d
        PROVE  \E j \in DOMAIN b : j < i /\ b[j].kind = "write" /\ b[j].n = n
    <3>1. PICK j \in DOMAIN q : j < i /\ q[j].kind = "write" /\ q[j].n = n
      BY <1>2, <2>1, <2>2 DEF OneAck
    <3> QED
      BY <1>1, <3>1
  <2> QED
    BY <1>2, <2>1, <2>2 DEF OneAck
<1>3. ASSUME m.kind = "getack", acks = << >>, r \notin hit, \A i \in DOMAIN q : q[i].kind = "write",
             WritesBetween(q, a, d)
      PROVE  OneAck(r, b, acks, a, d, hit)
  <2>1. \A i \in DOMAIN b : b[i].kind = "getack" => i = Len(q) + 1
    BY <1>1, <1>3
  <2>2. ASSUME NEW n \in (a + 1)..d
        PROVE  \E j \in DOMAIN b : j < Len(q) + 1 /\ b[j].kind = "write" /\ b[j].n = n
    <3>1. PICK j \in DOMAIN q : q[j].kind = "write" /\ q[j].n = n
      BY <1>3 DEF WritesBetween
    <3> QED
      BY <1>1, <3>1
  <2>3. DOMAIN acks = {}
    BY <1>3
  <2> QED
    BY <1>3, <2>1, <2>2, <2>3 DEF OneAck
<1> QED
  BY <1>2, <1>3 DEF b

LEMMA QuietInit == Init => QuietInv
<1> SUFFICES ASSUME Init PROVE QuietInv
  OBVIOUS
<1> QED
  BY DEF Init, QuietInv, WritesInFlight, AcksArePast, QuietLinks, QuietWaitCountsDistinct

\* What is known of a replica in the types the lemmas above need.
LEMMA QuietTypes ==
  ASSUME StreamInv
  PROVE  /\ propagated \in Nat /\ connected \subseteq replicas /\ replicas \subseteq Replicas
         /\ applied \in [Replicas -> Nat] /\ due \in [Waits -> Nat]
         /\ toReplica \in [Replicas -> Seq(Command)] /\ toMaster \in [Replicas -> Seq(Ack)]
         /\ waitStatus \in [Waits -> {"idle", "waiting", "done"}] /\ quiet \in [Waits -> BOOLEAN]
         /\ ackCount \in [Waits -> Nat] /\ counted \in [Waits -> SUBSET Replicas]
         /\ \A w \in Waits : IsFiniteSet(counted[w])
<1>1. \A w \in Waits : counted[w] \subseteq Replicas
  BY DEF StreamInv, TypeOK
<1>2. \A w \in Waits : IsFiniteSet(counted[w])
  BY <1>1, ReplicationAssumption, FS_Subset
<1> QED
  BY <1>2 DEF StreamInv, TypeOK

LEMMA PsyncQuiet ==
  ASSUME StreamInv, OffsetInv, QuietInv, NEW r \in Replicas, Psync(r)
  PROVE  QuietInv'
<1> USE DEF QuietInv
<1>1. /\ r \notin replicas /\ connected' = connected \cup {r}
      /\ applied' = [applied EXCEPT ![r] = propagated]
      /\ UNCHANGED <<toReplica, toMaster, propagated, due, quiet, counted, waitStatus, ackCount>>
  BY DEF Psync, linkVars, waitVars, waitHistory
<1>2. toReplica[r] = << >> /\ toMaster[r] = << >>
  BY <1>1 DEF StreamInv, TypeOK, NotJoined, ClosedLinksEmpty
<1>3. /\ applied'[r] = propagated /\ propagated \in Nat
      /\ \A s \in Replicas : s # r => applied'[s] = applied[s]
  BY <1>1, QuietTypes
<1>4. WritesInFlight'
  <2>1. WritesBetween(<< >>, propagated, propagated)
    BY <1>3 DEF WritesBetween
  <2>2. ASSUME NEW s \in connected'
        PROVE  WritesBetween(toReplica'[s], applied'[s], propagated')
    <3>1. CASE s = r
      BY <1>1, <1>2, <1>3, <2>1, <3>1
    <3>2. CASE s # r
      BY <1>1, <1>3, <3>2, QuietTypes DEF WritesInFlight
    <3> QED
      BY <3>1, <3>2
  <2> QED
    BY <2>2 DEF WritesInFlight, WritesBetween
<1>5. AcksArePast'
  BY <1>1, <1>2, <1>3 DEF AcksArePast
<1>6. QuietLinks'
  <2>1. ASSUME NEW w \in Waits, NEW s \in Replicas, quiet'[w], waitStatus'[w] = "waiting"
        PROVE  OneAck(s, toReplica'[s], toMaster'[s], applied'[s], due'[w], counted'[w])
    <3>1. CASE s = r
      BY <1>1, <1>2, <3>1 DEF OneAck
    <3>2. CASE s # r
      BY <1>1, <1>3, <2>1, <3>2 DEF QuietLinks
    <3> QED
      BY <3>1, <3>2
  <2> QED
    BY <2>1 DEF QuietLinks, OneAck
<1>7. QuietWaitCountsDistinct'
  <2>1. \A w \in Waits : r \notin counted[w]
    BY <1>1 DEF OffsetInv, WaitsHearReplicas
  <2> QED
    BY <1>1, <1>3, <2>1, QuietTypes DEF QuietWaitCountsDistinct
<1> QED
  BY <1>4, <1>5, <1>6, <1>7

LEMMA DisconnectQuiet ==
  ASSUME StreamInv, QuietInv, NEW r \in Replicas, Disconnect(r)
  PROVE  QuietInv'
<1> USE DEF QuietInv
<1>1. /\ connected' = connected \ {r}
      /\ UNCHANGED <<applied, propagated, due, quiet, counted, waitStatus, ackCount>>
      /\ \A s \in Replicas : s # r => toReplica'[s] = toReplica[s] /\ toMaster'[s] = toMaster[s]
      /\ toReplica'[r] = << >> /\ (toMaster'[r] = toMaster[r] \/ toMaster'[r] = << >>)
  BY QuietTypes DEF Disconnect, waitVars, waitHistory
<1>2. WritesInFlight'
  <2>1. \A s \in connected' : WritesBetween(toReplica'[s], applied'[s], propagated')
    BY <1>1, QuietTypes DEF WritesInFlight
  <2> QED
    BY <2>1 DEF WritesInFlight, WritesBetween
<1>3. AcksArePast'
  BY <1>1 DEF AcksArePast
<1>4. QuietLinks'
  <2>1. ASSUME NEW w \in Waits, NEW s \in Replicas, quiet'[w], waitStatus'[w] = "waiting"
        PROVE  OneAck(s, toReplica'[s], toMaster'[s], applied'[s], due'[w], counted'[w])
    <3>1. OneAck(s, toReplica[s], toMaster[s], applied[s], due[w], counted[w])
      BY <1>1, <2>1 DEF QuietLinks
    <3>2. CASE s = r
      BY <1>1, <3>1, <3>2 DEF OneAck
    <3>3. CASE s # r
      BY <1>1, <3>1, <3>3
    <3> QED
      BY <3>2, <3>3
  <2> QED
    BY <2>1 DEF QuietLinks, OneAck
<1>5. QuietWaitCountsDistinct'
  BY <1>1 DEF QuietWaitCountsDistinct
<1> QED
  BY <1>2, <1>3, <1>4, <1>5

LEMMA WriteQuiet ==
  ASSUME StreamInv, OffsetInv, QuietInv, NEW len \in WriteLens, Write(len)
  PROVE  QuietInv'
<1> USE DEF QuietInv
<1>1. /\ UNCHANGED <<connected, replicas, toMaster, applied, due, quiet, counted, waitStatus, ackCount>>
      /\ Propagate(len)
  BY DEF Write, waitVars, waitHistory
<1>2. AcksArePast' /\ QuietWaitCountsDistinct'
  BY <1>1 DEF AcksArePast, QuietWaitCountsDistinct
<1>3. CASE replicas = {}
  <2>1. UNCHANGED <<toReplica, propagated>>
    BY <1>1, <1>3 DEF Propagate
  <2>2. WritesInFlight' /\ QuietLinks'
    BY <1>1, <2>1 DEF WritesInFlight, WritesBetween, QuietLinks, OneAck
  <2> QED
    BY <1>2, <2>2
<1>4. CASE replicas # {}
  <2>1. toReplica' = SendAll("write", len, propagated + 1) /\ propagated' = propagated + 1
    BY <1>1, <1>4 DEF Propagate
  <2> DEFINE m(s) == [kind |-> "write", len |-> len, n |-> propagated + 1, end |-> StreamEnd(s) + len]
  <2>2. /\ \A s \in connected : m(s) \in Command /\ toReplica'[s] = Append(toReplica[s], m(s))
        /\ \A s \in Replicas \ connected : toReplica'[s] = toReplica[s]
    <3>1. propagated + 1 \in Nat /\ "write" \in {"write", "getack"} /\ len \in Nat
      BY ReplicationAssumption, QuietTypes
    <3>2. ASSUME NEW s \in connected
          PROVE  m(s) \in Command /\ toReplica'[s] = Append(toReplica[s], m(s))
      BY <2>1, <3>1, SendAllEffect
    <3>3. \A s \in Replicas \ connected : toReplica'[s] = toReplica[s]
      BY <2>1, <3>1, SendAllEffect
    <3> QED
      BY <3>2, <3>3
  <2>3. \A s \in Replicas : m(s).kind = "write" /\ m(s).n = propagated + 1
    OBVIOUS
  <2> HIDE DEF m
  <2>4. WritesInFlight'
    <3>1. ASSUME NEW s \in connected'
          PROVE  WritesBetween(toReplica'[s], applied'[s], propagated')
      <4>1. /\ s \in Replicas /\ s \in connected /\ applied[s] \in Nat /\ propagated \in Nat
            /\ toReplica[s] \in Seq(Command) /\ applied[s] <= propagated
            /\ \A i \in DOMAIN toReplica[s] : toReplica[s][i].n <= propagated
        BY <1>1, QuietTypes DEF OffsetInv, NumbersArePast
      <4>2. WritesBetween(toReplica[s], applied[s], propagated)
        BY <4>1 DEF WritesInFlight
      <4>3. m(s) \in Command /\ m(s).kind = "write" /\ m(s).n = propagated + 1
        BY <2>2, <2>3, <4>1
      <4>4. WritesBetween(Append(toReplica[s], m(s)), applied[s], propagated + 1)
        BY <4>1, <4>2, <4>3, WritesAppend
      <4> QED
        BY <1>1, <2>1, <2>2, <4>1, <4>4
    <3> QED
      BY <3>1 DEF WritesInFlight, WritesBetween
  <2>5. QuietLinks'
    <3>1. ASSUME NEW w \in Waits, NEW s \in Replicas, quiet'[w], waitStatus'[w] = "waiting"
          PROVE  OneAck(s, toReplica'[s], toMaster'[s], applied'[s], due'[w], counted'[w])
      <4>1. OneAck(s, toReplica[s], toMaster[s], applied[s], due[w], counted[w])
        BY <1>1, <3>1 DEF QuietLinks
      <4>2. CASE s \in connected
        <5>1. m(s) \in Command /\ m(s).kind = "write"
          BY <2>2, <2>3, <4>2
        <5>2. toReplica[s] \in Seq(Command) /\ applied[s] \in Nat /\ due[w] \in Nat
          BY QuietTypes
        <5>3. OneAck(s, Append(toReplica[s], m(s)), toMaster[s], applied[s], due[w], counted[w])
          BY <4>1, <5>1, <5>2, OneAckAppend
        <5> QED
          BY <1>1, <2>2, <4>2, <5>3
      <4>3. CASE s \notin connected
        BY <1>1, <2>2, <4>1, <4>3
      <4> QED
        BY <4>2, <4>3
    <3> QED
      BY <3>1 DEF QuietLinks, OneAck
  <2> QED
    BY <1>2, <2>4, <2>5
<1> QED
  BY <1>3, <1>4

LEMMA ReplicaWriteQuiet ==
  ASSUME StreamInv, OffsetInv, QuietInv, NEW r \in Replicas, ReplicaWrite(r)
  PROVE  QuietInv'
<1> USE DEF QuietInv
<1> DEFINE q == toReplica[r]
<1>1. /\ r \in connected /\ q # << >> /\ Head(q).kind = "write"
      /\ applied' = [applied EXCEPT ![r] = Head(q).n]
      /\ toReplica' = [toReplica EXCEPT ![r] = Tail(@)]
      /\ UNCHANGED <<connected, toMaster, propagated, due, quiet, counted, waitStatus, ackCount>>
  BY DEF ReplicaWrite, masterVars, waitVars, waitHistory
<1>2. /\ q \in Seq(Command) /\ applied[r] \in Nat /\ propagated \in Nat
      /\ WritesBetween(q, applied[r], propagated)
  BY <1>1, QuietTypes DEF WritesInFlight
<1>3. Head(q) = q[1] /\ q[1] \in Command
  BY <1>1, <1>2, QueueTail
<1>4. /\ applied'[r] = q[1].n /\ toReplica'[r] = Tail(q)
      /\ \A s \in Replicas : s # r => applied'[s] = applied[s] /\ toReplica'[s] = toReplica[s]
  BY <1>1, <1>3, QuietTypes
<1> HIDE DEF q
<1>5. q[1].n > applied[r] /\ q[1].n \in Nat /\ WritesBetween(Tail(q), q[1].n, propagated)
  BY <1>1, <1>2, <1>3, WritesTail DEF Command
<1>6. WritesInFlight'
  <2>1. ASSUME NEW s \in connected'
        PROVE  WritesBetween(toReplica'[s], applied'[s], propagated')
    <3>1. CASE s = r
      BY <1>1, <1>4, <1>5, <3>1
    <3>2. CASE s # r
      BY <1>1, <1>4, <3>2, QuietTypes DEF WritesInFlight
    <3> QED
      BY <3>1, <3>2
  <2> QED
    BY <2>1 DEF WritesInFlight, WritesBetween
<1>7. ASSUME NEW s \in Replicas
      PROVE  applied[s] <= applied'[s] /\ applied[s] \in Nat /\ applied'[s] \in Nat
  <2>1. applied[s] \in Nat
    BY QuietTypes
  <2>2. CASE s = r
    BY <1>4, <1>5, <2>1, <2>2
  <2>3. CASE s # r
    BY <1>4, <2>1, <2>3
  <2> QED
    BY <2>2, <2>3
<1>8. AcksArePast'
  <2>1. ASSUME NEW s \in Replicas, NEW i \in DOMAIN toMaster'[s]
        PROVE  toMaster'[s][i].upTo <= applied'[s]
    <3>1. toMaster[s][i].upTo \in Nat /\ toMaster[s][i].upTo <= applied[s]
      BY <1>1, <2>1, InFlight DEF AcksArePast
    <3> QED
      BY <1>1, <1>7, <3>1
  <2> QED
    BY <2>1 DEF AcksArePast
<1>9. QuietLinks'
  <2>1. ASSUME NEW w \in Waits, NEW s \in Replicas, quiet'[w], waitStatus'[w] = "waiting"
        PROVE  OneAck(s, toReplica'[s], toMaster'[s], applied'[s], due'[w], counted'[w])
    <3>1. OneAck(s, toReplica[s], toMaster[s], applied[s], due[w], counted[w])
      BY <1>1, <2>1 DEF QuietLinks
    <3>2. CASE s = r
      <4>1. OneAck(r, q, toMaster[r], applied[r], due[w], counted[w]) /\ due[w] \in Nat
        BY <3>1, <3>2, QuietTypes DEF q
      <4>2. OneAck(r, Tail(q), toMaster[r], q[1].n, due[w], counted[w])
        BY <1>1, <1>2, <1>3, <1>5, <4>1, OneAckTail
      <4> QED
        BY <1>1, <1>4, <3>2, <4>2
    <3>3. CASE s # r
      BY <1>1, <1>4, <3>1, <3>3
    <3> QED
      BY <3>2, <3>3
  <2> QED
    BY <2>1 DEF QuietLinks, OneAck
<1>10. QuietWaitCountsDistinct'
  <2>1. ASSUME NEW w \in Waits, quiet[w], NEW s \in counted[w]
        PROVE  applied'[s] >= due[w]
    <3>1. applied[s] >= due[w] /\ s \in Replicas /\ due[w] \in Nat
      BY <2>1, QuietTypes DEF QuietWaitCountsDistinct
    <3> QED
      BY <1>7, <3>1
  <2> QED
    BY <1>1, <2>1 DEF QuietWaitCountsDistinct
<1> QED
  BY <1>6, <1>8, <1>9, <1>10

LEMMA ReplicaGetAckQuiet ==
  ASSUME StreamInv, QuietInv, NEW r \in Replicas, ReplicaGetAck(r)
  PROVE  QuietInv'
<1> USE DEF QuietInv
<1> DEFINE q == toReplica[r]
           ack == [offset |-> processingOffset[r], upTo |-> applied[r]]
<1>1. /\ r \in connected /\ q # << >> /\ Head(q).kind = "getack"
      /\ toReplica' = [toReplica EXCEPT ![r] = Tail(@)]
      /\ toMaster' = [toMaster EXCEPT ![r] = Append(@, ack)]
      /\ UNCHANGED <<connected, applied, propagated, due, quiet, counted, waitStatus, ackCount>>
  BY DEF ReplicaGetAck, masterVars, waitVars, waitHistory
<1>2. /\ q \in Seq(Command) /\ applied[r] \in Nat /\ propagated \in Nat
      /\ WritesBetween(q, applied[r], propagated)
  BY <1>1, QuietTypes DEF WritesInFlight
<1>3. Head(q) = q[1]
  BY <1>1, <1>2, QueueTail
<1>4. /\ toReplica'[r] = Tail(q) /\ toMaster'[r] = Append(toMaster[r], ack)
      /\ \A s \in Replicas : s # r => toReplica'[s] = toReplica[s] /\ toMaster'[s] = toMaster[s]
  BY <1>1, QuietTypes
<1>5. ack \in Ack /\ ack.upTo = applied[r] /\ toMaster[r] \in Seq(Ack)
  BY InFlight DEF Ack
<1> HIDE DEF q, ack
<1>6. WritesInFlight'
  <2>1. ASSUME NEW s \in connected'
        PROVE  WritesBetween(toReplica'[s], applied'[s], propagated')
    <3>1. CASE s = r
      <4>1. WritesBetween(Tail(q), applied[r], propagated)
        BY <1>1, <1>2, <1>3, WritesTail
      <4> QED
        BY <1>1, <1>4, <3>1, <4>1
    <3>2. CASE s # r
      BY <1>1, <1>4, <3>2, QuietTypes DEF WritesInFlight
    <3> QED
      BY <3>1, <3>2
  <2> QED
    BY <2>1 DEF WritesInFlight, WritesBetween
<1>7. AcksArePast'
  <2>1. ASSUME NEW s \in Replicas, NEW i \in DOMAIN toMaster'[s]
        PROVE  toMaster'[s][i].upTo <= applied[s]
    <3>1. CASE s = r
      <4>1. i \in DOMAIN Append(toMaster[r], ack)
        BY <1>4, <2>1, <3>1
      <4>2. /\ i \in DOMAIN toMaster[r] => Append(toMaster[r], ack)[i] = toMaster[r][i]
            /\ i \notin DOMAIN toMaster[r] => Append(toMaster[r], ack)[i] = ack
        BY <1>5, <4>1, QueueAppend
      <4> QED
        BY <1>2, <1>4, <1>5, <3>1, <4>2 DEF AcksArePast
    <3>2. CASE s # r
      BY <1>4, <2>1, <3>2 DEF AcksArePast
    <3> QED
      BY <3>1, <3>2
  <2> QED
    BY <1>1, <2>1 DEF AcksArePast
<1>8. QuietLinks'
  <2>1. ASSUME NEW w \in Waits, NEW s \in Replicas, quiet'[w], waitStatus'[w] = "waiting"
        PROVE  OneAck(s, toReplica'[s], toMaster'[s], applied'[s], due'[w], counted'[w])
    <3>1. OneAck(s, toReplica[s], toMaster[s], applied[s], due[w], counted[w])
      BY <1>1, <2>1 DEF QuietLinks
    <3>2. CASE s = r
      <4>1. OneAck(r, q, toMaster[r], applied[r], due[w], counted[w]) /\ due[w] \in Nat
        BY <3>1, <3>2, QuietTypes DEF q
      <4>2. /\ toMaster[r] = << >> /\ r \notin counted[w] /\ applied[r] >= due[w]
            /\ \A i \in DOMAIN Tail(q) : Tail(q)[i].kind # "getack"
        BY <1>1, <1>2, <1>3, <4>1, OneAckTail
      <4>3. /\ DOMAIN Append(toMaster[r], ack) = 1..1 /\ Append(toMaster[r], ack)[1] = ack
        <5>1. Len(toMaster[r]) = 0
          BY <4>2, EmptySeq
        <5> QED
          BY <1>5, <5>1, QueueAppend
      <4>4. OneAck(r, Tail(q), Append(toMaster[r], ack), applied[r], due[w], counted[w])
        BY <1>5, <4>2, <4>3 DEF OneAck
      <4> QED
        BY <1>1, <1>4, <3>2, <4>4
    <3>3. CASE s # r
      BY <1>1, <1>4, <3>1, <3>3
    <3> QED
      BY <3>2, <3>3
  <2> QED
    BY <2>1 DEF QuietLinks, OneAck
<1>9. QuietWaitCountsDistinct'
  BY <1>1 DEF QuietWaitCountsDistinct
<1> QED
  BY <1>6, <1>7, <1>8, <1>9

LEMMA WaitNowQuiet ==
  ASSUME StreamInv, OffsetInv, QuietInv, NEW w \in Waits, NEW k \in 0..Cardinality(Replicas), WaitNow(w, k)
  PROVE  QuietInv'
<1> USE DEF QuietInv
<1>1. /\ waitStatus[w] = "idle" /\ waitStatus' = [waitStatus EXCEPT ![w] = "done"]
      /\ ackCount' = [ackCount EXCEPT ![w] = Cardinality(replicas)]
      /\ due' = [due EXCEPT ![w] = propagated]
      /\ UNCHANGED <<connected, toReplica, toMaster, propagated, applied, quiet, counted>>
  BY DEF WaitNow, masterVars, linkVars
<1>2. ~ quiet[w]
  BY <1>1 DEF OffsetInv, WaitsHearReplicas
<1>3. \A v \in Waits : v # w => /\ waitStatus'[v] = waitStatus[v] /\ due'[v] = due[v]
                                /\ ackCount'[v] = ackCount[v]
  BY <1>1, QuietTypes
<1>4. WritesInFlight' /\ AcksArePast'
  BY <1>1 DEF WritesInFlight, WritesBetween, AcksArePast
<1>5. QuietLinks'
  <2>1. ASSUME NEW v \in Waits, NEW s \in Replicas, quiet'[v], waitStatus'[v] = "waiting"
        PROVE  OneAck(s, toReplica'[s], toMaster'[s], applied'[s], due'[v], counted'[v])
    BY <1>1, <1>2, <1>3, <2>1 DEF QuietLinks
  <2> QED
    BY <2>1 DEF QuietLinks, OneAck
<1>6. QuietWaitCountsDistinct'
  BY <1>1, <1>2, <1>3 DEF QuietWaitCountsDistinct
<1> QED
  BY <1>4, <1>5, <1>6

\* A WAIT that begins quiet is the only one with a GETACK on the way.
LEMMA WaitBlockQuiet ==
  ASSUME StreamInv, OffsetInv, QuietInv, NEW w \in Waits, NEW k \in 0..Cardinality(Replicas), WaitBlock(w, k)
  PROVE  QuietInv'
<1> USE DEF QuietInv
<1>1. /\ waitStatus[w] = "idle" /\ waitStatus' = [waitStatus EXCEPT ![w] = "waiting"]
      /\ due' = [due EXCEPT ![w] = propagated]
      /\ toReplica' = SendAll("getack", GetAckLen, 0)
      /\ quiet' = [v \in Waits |-> IF v = w THEN NothingAsked ELSE quiet[v] /\ waitStatus[v] # "waiting"]
      /\ UNCHANGED <<connected, toMaster, propagated, applied, counted, ackCount>>
  BY DEF WaitBlock, masterVars
<1>2. counted[w] = {} /\ ackCount[w] = 0
  BY <1>1 DEF OffsetInv, WaitsHearReplicas
<1>3. /\ waitStatus'[w] = "waiting" /\ due'[w] = propagated
      /\ \A v \in Waits : v # w => waitStatus'[v] = waitStatus[v] /\ due'[v] = due[v]
  BY <1>1, QuietTypes
<1>4. /\ quiet'[w] => NothingAsked
      /\ \A v \in Waits : v # w /\ quiet'[v] => quiet[v] /\ waitStatus[v] # "waiting"
  BY <1>1
<1> DEFINE m(s) == [kind |-> "getack", len |-> GetAckLen, n |-> 0, end |-> StreamEnd(s) + GetAckLen]
<1>5. ASSUME NEW s \in Replicas
      PROVE  /\ s \in connected => m(s) \in Command /\ toReplica'[s] = Append(toReplica[s], m(s))
             /\ s \notin connected => toReplica'[s] = toReplica[s]
  <2>1. 0 \in Nat /\ "getack" \in {"write", "getack"} /\ GetAckLen \in Nat
    BY ReplicationAssumption
  <2>2. CASE s \in connected
    BY <1>1, <2>1, <2>2, SendAllEffect
  <2>3. CASE s \notin connected
    BY <1>1, <2>3 DEF SendAll
  <2> QED
    BY <2>2, <2>3
<1>6. \A s \in Replicas : m(s).kind = "getack"
  OBVIOUS
<1> HIDE DEF m
<1>7. ASSUME NEW s \in connected
      PROVE  /\ s \in Replicas /\ applied[s] \in Nat /\ propagated \in Nat
             /\ toReplica[s] \in Seq(Command) /\ applied[s] <= propagated
             /\ \A i \in DOMAIN toReplica[s] : toReplica[s][i].n <= propagated
             /\ WritesBetween(toReplica[s], applied[s], propagated)
  BY QuietTypes DEF OffsetInv, NumbersArePast, WritesInFlight
<1>8. WritesInFlight'
  <2>1. ASSUME NEW s \in connected'
        PROVE  WritesBetween(toReplica'[s], applied'[s], propagated')
    <3>1. s \in connected
      BY <1>1
    <3>2. WritesBetween(Append(toReplica[s], m(s)), applied[s], propagated)
      BY <1>5, <1>6, <1>7, <3>1, WritesAppend
    <3> QED
      BY <1>1, <1>5, <1>7, <3>1, <3>2
  <2> QED
    BY <2>1 DEF WritesInFlight, WritesBetween
<1>9. AcksArePast'
  BY <1>1 DEF AcksArePast
<1>10. QuietLinks'
  <2>1. ASSUME NEW v \in Waits, NEW s \in Replicas, quiet'[v], waitStatus'[v] = "waiting"
        PROVE  OneAck(s, toReplica'[s], toMaster'[s], applied'[s], due'[v], counted'[v])
    <3>1. v = w
      BY <1>3, <1>4, <2>1
    <3>2. toMaster[s] = << >> /\ \A i \in DOMAIN toReplica[s] : toReplica[s][i].kind = "write"
      BY <1>4, <2>1, <3>1 DEF NothingAsked
    <3>3. CASE s \in connected
      <4>1. s \notin counted[w]
        BY <1>2
      <4>2. OneAck(s, Append(toReplica[s], m(s)), toMaster[s], applied[s], propagated, counted[w])
        BY <1>5, <1>6, <1>7, <3>2, <3>3, <4>1, OneAckAppend
      <4> QED
        BY <1>1, <1>3, <1>5, <3>1, <3>3, <4>2
    <3>4. CASE s \notin connected
      <4>1. toReplica'[s] = << >>
        BY <1>5, <3>4 DEF StreamInv, ClosedLinksEmpty
      <4> QED
        BY <1>1, <3>2, <4>1 DEF OneAck
    <3> QED
      BY <3>3, <3>4
  <2> QED
    BY <2>1 DEF QuietLinks, OneAck
<1>11. QuietWaitCountsDistinct'
  <2>1. ASSUME NEW v \in Waits, quiet'[v]
        PROVE  ackCount[v] = Cardinality(counted[v]) /\ \A s \in counted[v] : applied[s] >= due'[v]
    <3>1. CASE v = w
      BY <1>2, <3>1, FS_EmptySet
    <3>2. CASE v # w
      BY <1>3, <1>4, <2>1, <3>2 DEF QuietWaitCountsDistinct
    <3> QED
      BY <3>1, <3>2
  <2> QED
    BY <1>1, <2>1 DEF QuietWaitCountsDistinct
<1> QED
  BY <1>8, <1>9, <1>10, <1>11

\* The one ACK of a replica is counted, and no other is on the way.
LEMMA ReceiveAckQuiet ==
  ASSUME StreamInv, OffsetInv, QuietInv, NEW r \in Replicas, ReceiveAck(r)
  PROVE  QuietInv'
<1> USE DEF QuietInv
<1> DEFINE ack == toMaster[r][1]
<1>1. /\ toMaster[r] \in Seq(Ack) /\ toMaster[r] # << >> /\ toMaster' = [toMaster EXCEPT ![r] = Tail(@)]
      /\ Head(toMaster[r]) = ack /\ 1 \in DOMAIN toMaster[r]
  BY QuietTypes, QueueTail DEF ReceiveAck
<1>2. /\ ackCount' = [w \in Waits |-> IF Counts(w, ack) THEN ackCount[w] + 1 ELSE ackCount[w]]
      /\ waitStatus' = [w \in Waits |->
                          IF Counts(w, ack) /\ ackCount[w] + 1 >= requiredReplicas[w]
                          THEN "done" ELSE waitStatus[w]]
      /\ counted' = [w \in Waits |-> IF Counts(w, ack) THEN counted[w] \cup {r} ELSE counted[w]]
      /\ UNCHANGED <<connected, toReplica, propagated, applied, due, quiet>>
  BY <1>1 DEF ReceiveAck, masterVars
<1>3. /\ toMaster'[r] = Tail(toMaster[r])
      /\ \A s \in Replicas : s # r => toMaster'[s] = toMaster[s]
  BY <1>1, QuietTypes
<1>4. ack.upTo <= applied[r] /\ ack.upTo \in Nat /\ applied[r] \in Nat
  BY <1>1, InFlight DEF AcksArePast
<1>5. ASSUME NEW w \in Waits, waitStatus'[w] = "waiting"
      PROVE  waitStatus[w] = "waiting"
  BY <1>2, <1>5
<1>6. ASSUME NEW w \in Waits, quiet[w], waitStatus[w] = "waiting"
      PROVE  /\ Tail(toMaster[r]) = << >> /\ r \notin counted[w] /\ ack.upTo >= due[w]
             /\ \A i \in DOMAIN toReplica[r] : toReplica[r][i].kind # "getack"
  <2>1. OneAck(r, toReplica[r], toMaster[r], applied[r], due[w], counted[w])
    BY <1>6 DEF QuietLinks
  <2>2. r \notin counted[w] /\ ack.upTo >= due[w]
    BY <1>1, <2>1 DEF OneAck
  <2>3. \A i \in DOMAIN toReplica[r] : toReplica[r][i].kind # "getack"
    BY <1>1, <2>1 DEF OneAck
  <2>4. Tail(toMaster[r]) = << >>
    <3>1. Len(toMaster[r]) \in Nat \ {0} /\ DOMAIN toMaster[r] = 1..Len(toMaster[r])
      BY <1>1, QueueTail
    <3>2. Len(toMaster[r]) \in DOMAIN toMaster[r]
      BY <3>1
    <3>3. Len(toMaster[r]) = 1
      BY <2>1, <3>2 DEF OneAck
    <3>4. Tail(toMaster[r]) \in Seq(Ack) /\ Len(Tail(toMaster[r])) = 0
      BY <1>1, <3>3, QueueTail
    <3> QED
      BY <3>4, EmptySeq
  <2> QED
    BY <2>2, <2>3, <2>4
<1> HIDE DEF ack
<1>7. WritesInFlight'
  BY <1>2 DEF WritesInFlight, WritesBetween
<1>8. AcksArePast'
  <2>1. ASSUME NEW s \in Replicas, NEW i \in DOMAIN toMaster'[s]
        PROVE  toMaster'[s][i].upTo <= applied[s]
    <3>1. CASE s = r
      <4>1. i + 1 \in DOMAIN toMaster[r] /\ toMaster'[r][i] = toMaster[r][i + 1]
        <5>1. i \in DOMAIN Tail(toMaster[r])
          BY <1>3, <2>1, <3>1
        <5>2. i + 1 \in DOMAIN toMaster[r] /\ Tail(toMaster[r])[i] = toMaster[r][i + 1]
          BY <1>1, <5>1, QueueTail
        <5> QED
          BY <1>3, <5>2
      <4> QED
        BY <3>1, <4>1 DEF AcksArePast
    <3>2. CASE s # r
      BY <1>3, <2>1, <3>2 DEF AcksArePast
    <3> QED
      BY <3>1, <3>2
  <2> QED
    BY <1>2, <2>1 DEF AcksArePast
<1>9. QuietLinks'
  <2>1. ASSUME NEW w \in Waits, NEW s \in Replicas, quiet'[w], waitStatus'[w] = "waiting"
        PROVE  OneAck(s, toReplica'[s], toMaster'[s], applied'[s], due'[w], counted'[w])
    <3>1. quiet[w] /\ waitStatus[w] = "waiting"
      BY <1>2, <1>5, <2>1
    <3>2. CASE s = r
      <4>1. /\ toMaster'[r] = << >>
            /\ \A i \in DOMAIN toReplica'[r] : toReplica'[r][i].kind # "getack"
        BY <1>2, <1>3, <1>6, <3>1
      <4> QED
        BY <3>2, <4>1 DEF OneAck
    <3>3. CASE s # r
      <4>1. OneAck(s, toReplica[s], toMaster[s], applied[s], due[w], counted[w])
        BY <3>1 DEF QuietLinks
      <4>2. s \in counted'[w] <=> s \in counted[w]
        BY <1>2, <3>3
      <4>3. /\ toReplica'[s] = toReplica[s] /\ toMaster'[s] = toMaster[s]
            /\ applied'[s] = applied[s] /\ due'[w] = due[w]
        BY <1>2, <1>3, <3>3
      <4> QED
        BY <4>1, <4>2, <4>3 DEF OneAck
    <3> QED
      BY <3>2, <3>3
  <2> QED
    BY <2>1 DEF QuietLinks, OneAck
<1>10. QuietWaitCountsDistinct'
  <2>1. ASSUME NEW w \in Waits, quiet[w]
        PROVE  /\ ackCount'[w] = Cardinality(counted'[w])
               /\ \A s \in counted'[w] : applied[s] >= due[w]
    <3>1. /\ ackCount[w] = Cardinality(counted[w]) /\ ackCount[w] \in Nat /\ IsFiniteSet(counted[w])
          /\ \A s \in counted[w] : applied[s] >= due[w]
      BY <2>1, QuietTypes DEF QuietWaitCountsDistinct
    <3>2. CASE Counts(w, ack)
      <4>1. r \notin counted[w] /\ ack.upTo >= due[w]
        BY <1>6, <2>1, <3>2 DEF Counts
      <4>2. Cardinality(counted[w] \cup {r}) = Cardinality(counted[w]) + 1
        BY <3>1, <4>1, FS_AddElement
      <4>3. applied[r] >= due[w]
        <5>1. due[w] \in Nat
          BY QuietTypes
        <5> QED
          BY <1>4, <4>1, <5>1
      <4> QED
        BY <1>2, <3>1, <3>2, <4>2, <4>3
    <3>3. CASE ~ Counts(w, ack)
      BY <1>2, <3>1, <3>3
    <3> QED
      BY <3>2, <3>3
  <2> QED
    BY <1>2, <2>1 DEF QuietWaitCountsDistinct
<1> QED
  BY <1>7, <1>8, <1>9, <1>10

LEMMA WaitTimeoutQuiet ==
  ASSUME StreamInv, QuietInv, NEW w \in Waits, WaitTimeout(w)
  PROVE  QuietInv'
<1> USE DEF QuietInv
<1>1. /\ waitStatus' = [waitStatus EXCEPT ![w] = "done"]
      /\ UNCHANGED <<connected, toReplica, toMaster, propagated, applied, ackCount>>
      /\ UNCHANGED <<due, quiet, counted>>
  BY DEF WaitTimeout, masterVars, linkVars, waitHistory
<1>2. \A v \in Waits : waitStatus'[v] = "waiting" => waitStatus[v] = "waiting"
  BY <1>1, QuietTypes
<1>3. WritesInFlight' /\ AcksArePast' /\ QuietWaitCountsDistinct'
  BY <1>1 DEF WritesInFlight, WritesBetween, AcksArePast, QuietWaitCountsDistinct
<1>4. QuietLinks'
  BY <1>1, <1>2 DEF QuietLinks, OneAck
<1> QED
  BY <1>3, <1>4

LEMMA QuietNext == StreamInv /\ OffsetInv /\ QuietInv /\ [Next]_vars => QuietInv'
<1> SUFFICES ASSUME StreamInv, OffsetInv, QuietInv, [Next]_vars PROVE QuietInv'
  OBVIOUS
<1>1. CASE UNCHANGED vars
  BY <1>1 DEF vars, masterVars, linkVars, waitVars, joinHistory, waitHistory, QuietInv,
     WritesInFlight, WritesBetween, AcksArePast, QuietLinks, OneAck, QuietWaitCountsDistinct
<1>2. CASE Next
  BY <1>2, PsyncQuiet, DisconnectQuiet, WriteQuiet, ReplicaWriteQuiet, ReplicaGetAckQuiet,
     ReceiveAckQuiet, WaitNowQuiet, WaitBlockQuiet, WaitTimeoutQuiet DEF Next
<1> QED
  BY <1>1, <1>2

\* A WAIT that shares no GETACK or ACK with another counts no replica twice,
\* and none that has not executed all that was due to it, however far the
\* GETACKs of earlier WAITs have moved the replicas' offsets.
THEOREM QuietWaitIsExact == Spec => []QuietWaitCountsDistinct
<1>1. Init => StreamInv /\ OffsetInv /\ QuietInv
  BY StreamInit, OffsetInit, QuietInit
<1>2. StreamInv /\ OffsetInv /\ QuietInv /\ [Next]_vars => (StreamInv /\ OffsetInv /\ QuietInv)'
  BY StreamNext, OffsetNext, QuietNext
<1>3. QuietInv => QuietWaitCountsDistinct
  BY DEF QuietInv
<1> QED
  BY <1>1, <1>2, <1>3, PTL DEF Spec

-----------------------------------------------------------------------------
(* The only WAIT counts none but holders.                                  *)

LEMMA FirstInit == Init => FirstInv
<1> SUFFICES ASSUME Init PROVE FirstInv
  OBVIOUS
<1> QED
  BY DEF Init, FirstInv, NothingAskedYet, NothingAsked, FirstWaitExact, FirstWaitNow, JoinedFirst, OnlyWait

\* Steps that no WAIT hears of, that ask for nothing, and leave the
\* replicas' joining alone.
LEMMA FirstKept ==
  ASSUME StreamInv, FirstInv, replicas' = replicas,
         UNCHANGED <<waitVars, waitHistory>>, UNCHANGED <<joinHistory, getAckBytes>>,
         \A r \in Replicas :
           /\ \A i \in DOMAIN toReplica'[r] :
                \/ toReplica'[r][i].kind = "write"
                \/ \E j \in DOMAIN toReplica[r] : toReplica'[r][i] = toReplica[r][j]
           /\ \A i \in DOMAIN toMaster'[r] :
                \/ \E j \in DOMAIN toMaster[r] : toMaster'[r][i] = toMaster[r][j]
                \/ \E j \in DOMAIN toReplica[r] :
                     /\ toReplica[r][j].kind = "getack"
                     /\ toReplica[r][j].end - toReplica[r][j].len = toMaster'[r][i].offset
         , toMaster' \in [Replicas -> Seq(Ack)]
  PROVE  FirstInv'
<1> USE DEF waitVars, waitHistory, joinHistory, FirstInv
<1>1. \A w \in Waits : OnlyWait(w)' <=> OnlyWait(w)
  BY DEF OnlyWait
<1>2. NothingAskedYet'
  <2>1. ASSUME \A w \in Waits : waitStatus[w] = "idle", NEW r \in Replicas
        PROVE  /\ toMaster'[r] = << >> /\ getAckBytes'[r] = 0
               /\ \A i \in DOMAIN toReplica'[r] : toReplica'[r][i].kind = "write"
    <3>1. /\ toMaster[r] = << >> /\ getAckBytes[r] = 0
          /\ \A i \in DOMAIN toReplica[r] : toReplica[r][i].kind = "write"
      BY <2>1 DEF NothingAskedYet, NothingAsked
    <3>2. DOMAIN toMaster'[r] = {}
      BY <3>1
    <3>3. toMaster'[r] = << >>
      <4>1. toMaster'[r] \in Seq(Ack)
        OBVIOUS
      <4>2. Len(toMaster'[r]) = 0
        BY <3>2, <4>1, LenProperties
      <4> QED
        BY <4>1, <4>2, EmptySeq
    <3> QED
      BY <3>1, <3>3
  <2> QED
    BY <2>1 DEF NothingAskedYet, NothingAsked
<1>3. FirstWaitExact'
  <2>1. ASSUME NEW w \in Waits, OnlyWait(w), masterOffset[w] # 0, NEW r \in Replicas
        PROVE  /\ \A i \in DOMAIN toReplica'[r] : toReplica'[r][i].kind = "getack" =>
                    toReplica'[r][i].end - toReplica'[r][i].len + offsetAtJoin[r] = masterOffset[w]
               /\ \A i \in DOMAIN toMaster'[r] : toMaster'[r][i].offset + offsetAtJoin[r] = masterOffset[w]
    <3>1. /\ \A i \in DOMAIN toReplica[r] : toReplica[r][i].kind = "getack" =>
               toReplica[r][i].end - toReplica[r][i].len + offsetAtJoin[r] = masterOffset[w]
          /\ \A i \in DOMAIN toMaster[r] : toMaster[r][i].offset + offsetAtJoin[r] = masterOffset[w]
      BY <2>1 DEF FirstWaitExact
    <3> QED
      BY <3>1
  <2> QED
    BY <1>1, <2>1 DEF FirstWaitExact
<1>4. FirstWaitNow'
  BY <1>1 DEF FirstWaitNow
<1>5. JoinedFirst'
  BY DEF JoinedFirst
<1> QED
  BY <1>2, <1>3, <1>4, <1>5

LEMMA PsyncFirst ==
  ASSUME StreamInv, OffsetInv, FirstInv, NEW r \in Replicas, Psync(r)
  PROVE  FirstInv'
<1> USE DEF FirstInv, waitVars, waitHistory
<1>1. /\ r \notin replicas /\ replicas' = replicas \cup {r}
      /\ joinedAt' = [joinedAt EXCEPT ![r] = propagated]
      /\ offsetAtJoin' = [offsetAtJoin EXCEPT ![r] = master_repl_offset]
      /\ UNCHANGED <<toReplica, toMaster, getAckBytes>> /\ UNCHANGED <<waitVars, waitHistory>>
  BY DEF Psync, linkVars
<1>2. toReplica[r] = << >> /\ toMaster[r] = << >>
  BY <1>1 DEF StreamInv, TypeOK, NotJoined, ClosedLinksEmpty
<1>3. /\ joinedAt'[r] = propagated /\ offsetAtJoin'[r] = master_repl_offset
      /\ \A s \in Replicas : s # r => joinedAt'[s] = joinedAt[s] /\ offsetAtJoin'[s] = offsetAtJoin[s]
  BY <1>1 DEF StreamInv, TypeOK
<1>4. \A w \in Waits : (OnlyWait(w)' <=> OnlyWait(w)) /\ counted[w] \subseteq replicas /\ replicas \subseteq Replicas
  BY <1>1 DEF OnlyWait, OffsetInv, WaitsHearReplicas, StreamInv, TypeOK
<1>5. NothingAskedYet'
  BY <1>1 DEF NothingAskedYet, NothingAsked
<1>6. FirstWaitExact'
  <2>1. ASSUME NEW w \in Waits, OnlyWait(w), masterOffset[w] # 0
        PROVE  /\ quiet[w]
               /\ \A s \in Replicas :
                    /\ \A i \in DOMAIN toReplica[s] : toReplica[s][i].kind = "getack" =>
                         toReplica[s][i].end - toReplica[s][i].len + offsetAtJoin'[s] = masterOffset[w]
                    /\ \A i \in DOMAIN toMaster[s] : toMaster[s][i].offset + offsetAtJoin'[s] = masterOffset[w]
               /\ \A s \in counted[w] : offsetAtJoin'[s] = 0
    <3>1. quiet[w]
      BY <2>1 DEF FirstWaitExact
    <3>2. ASSUME NEW s \in Replicas
          PROVE  /\ \A i \in DOMAIN toReplica[s] : toReplica[s][i].kind = "getack" =>
                      toReplica[s][i].end - toReplica[s][i].len + offsetAtJoin'[s] = masterOffset[w]
                 /\ \A i \in DOMAIN toMaster[s] : toMaster[s][i].offset + offsetAtJoin'[s] = masterOffset[w]
      <4>1. CASE s = r
        BY <1>2, <4>1
      <4>2. CASE s # r
        BY <1>3, <2>1, <4>2 DEF FirstWaitExact
      <4> QED
        BY <4>1, <4>2
    <3>3. \A s \in counted[w] : offsetAtJoin'[s] = 0
      BY <1>1, <1>3, <1>4, <2>1 DEF FirstWaitExact
    <3> QED
      BY <3>1, <3>2, <3>3
  <2> QED
    BY <1>1, <1>4, <2>1 DEF FirstWaitExact
<1>7. FirstWaitNow'
  <2>1. ASSUME NEW w \in Waits, OnlyWait(w), masterOffset[w] = 0
        PROVE  \E s \in SUBSET replicas' : /\ ackCount[w] = Cardinality(s)
                                           /\ \A q \in s : joinedAt'[q] = 0 /\ due[w] = 0
    <3>1. PICK s \in SUBSET replicas : /\ ackCount[w] = Cardinality(s)
                                       /\ \A q \in s : joinedAt[q] = 0 /\ due[w] = 0
      BY <2>1 DEF FirstWaitNow
    <3>2. s \in SUBSET replicas' /\ \A q \in s : joinedAt'[q] = 0 /\ due[w] = 0
      BY <1>1, <1>3, <1>4, <3>1
    <3> QED
      BY <3>1, <3>2
  <2> QED
    BY <1>1, <1>4, <2>1 DEF FirstWaitNow
<1>8. JoinedFirst'
  <2>1. ASSUME NEW s \in Replicas, offsetAtJoin'[s] = 0
        PROVE  joinedAt'[s] = 0
    <3>1. CASE s = r
      BY <1>3, <2>1, <3>1 DEF OffsetInv, NumbersArePast
    <3>2. CASE s # r
      BY <1>3, <2>1, <3>2 DEF JoinedFirst
    <3> QED
      BY <3>1, <3>2
  <2> QED
    BY <2>1 DEF JoinedFirst
<1> QED
  BY <1>5, <1>6, <1>7, <1>8

LEMMA DisconnectFirst ==
  ASSUME StreamInv, StreamInv', FirstInv, NEW r \in Replicas, Disconnect(r)
  PROVE  FirstInv'
<1>1. \A s \in Replicas : /\ toReplica'[s] = toReplica[s] \/ toReplica'[s] = << >>
                          /\ toMaster'[s] = toMaster[s] \/ toMaster'[s] = << >>
  BY QuietTypes DEF Disconnect
<1>2. toMaster' \in [Replicas -> Seq(Ack)]
  BY DEF StreamInv, TypeOK
<1> QED
  BY <1>1, <1>2, FirstKept DEF Disconnect

LEMMA WriteFirst ==
  ASSUME StreamInv, StreamInv', FirstInv, NEW len \in WriteLens, Write(len)
  PROVE  FirstInv'
<1>1. /\ UNCHANGED <<replicas, toMaster, waitVars, waitHistory, joinHistory, getAckBytes>>
      /\ Propagate(len)
  BY DEF Write
<1>2. ASSUME NEW s \in Replicas, NEW i \in DOMAIN toReplica'[s]
      PROVE  \/ toReplica'[s][i].kind = "write"
             \/ \E j \in DOMAIN toReplica[s] : toReplica'[s][i] = toReplica[s][j]
  <2>1. CASE toReplica'[s] = toReplica[s]
    BY <1>2, <2>1
  <2>2. CASE toReplica'[s] # toReplica[s]
    <3> DEFINE m == [kind |-> "write", len |-> len, n |-> propagated + 1, end |-> StreamEnd(s) + len]
    <3>1. toReplica' = SendAll("write", len, propagated + 1)
      BY <1>1, <2>2 DEF Propagate
    <3>2. s \in connected
      BY <2>2, <3>1 DEF SendAll
    <3>3. m \in Command /\ toReplica'[s] = Append(toReplica[s], m)
      <4>1. propagated + 1 \in Nat /\ "write" \in {"write", "getack"} /\ len \in Nat
        BY ReplicationAssumption, QuietTypes
      <4> QED
        BY <3>1, <3>2, <4>1, SendAllEffect
    <3>4. m.kind = "write" /\ toReplica[s] \in Seq(Command)
      BY QuietTypes
    <3> HIDE DEF m
    <3> QED
      BY <1>2, <3>3, <3>4, QueueAppend
  <2> QED
    BY <2>1, <2>2
<1>3. toMaster' \in [Replicas -> Seq(Ack)]
  BY DEF StreamInv, TypeOK
<1> QED
  BY <1>1, <1>2, <1>3, FirstKept

LEMMA ReplicaWriteFirst ==
  ASSUME StreamInv, StreamInv', FirstInv, NEW r \in Replicas, ReplicaWrite(r)
  PROVE  FirstInv'
<1>1. \A s \in Replicas : Within(toReplica'[s], toReplica[s])
  BY TakeOffsets DEF ReplicaWrite
<1>2. toMaster' \in [Replicas -> Seq(Ack)]
  BY DEF StreamInv, TypeOK
<1> QED
  BY <1>1, <1>2, FirstKept DEF ReplicaWrite, masterVars, Within

\* The ACK reports the offset at which the GETACK began.
LEMMA ReplicaGetAckFirst ==
  ASSUME StreamInv, StreamInv', FirstInv, NEW r \in Replicas, ReplicaGetAck(r)
  PROVE  FirstInv'
<1> DEFINE ack == [offset |-> processingOffset[r], upTo |-> applied[r]]
           q == toReplica[r]
<1>1. /\ r \in connected /\ q # << >> /\ Head(q).kind = "getack"
      /\ toReplica' = [toReplica EXCEPT ![r] = Tail(@)]
      /\ toMaster' = [toMaster EXCEPT ![r] = Append(@, ack)]
      /\ UNCHANGED <<masterVars, waitVars, waitHistory, joinHistory, getAckBytes>>
  BY DEF ReplicaGetAck
<1>2. /\ \A s \in Replicas : Within(toReplica'[s], toReplica[s])
      /\ Head(q) = q[1] /\ 1 \in DOMAIN q
  BY <1>1, TakeOffsets
<1>3. q[1].end - q[1].len = processingOffset[r]
  BY <1>1, <1>2, StreamFacts DEF Chain
<1>4. ack \in Ack /\ ack.offset = processingOffset[r] /\ toMaster[r] \in Seq(Ack)
      /\ toMaster'[r] = Append(toMaster[r], ack)
  BY <1>1, InFlight, QuietTypes DEF Ack
<1>5. toMaster' \in [Replicas -> Seq(Ack)]
  BY DEF StreamInv, TypeOK
<1> HIDE DEF ack, q
<1>6. ASSUME NEW s \in Replicas, NEW i \in DOMAIN toMaster'[s]
      PROVE  \/ \E j \in DOMAIN toMaster[s] : toMaster'[s][i] = toMaster[s][j]
             \/ \E j \in DOMAIN toReplica[s] :
                  /\ toReplica[s][j].kind = "getack"
                  /\ toReplica[s][j].end - toReplica[s][j].len = toMaster'[s][i].offset
  <2>1. CASE s # r
    BY <1>1, <1>6, <2>1, QuietTypes
  <2>2. CASE s = r
    <3>1. \/ i \in DOMAIN toMaster[r] /\ toMaster'[r][i] = toMaster[r][i]
          \/ toMaster'[r][i] = ack
      BY <1>4, <1>6, <2>2, QueueAppend
    <3> QED
      BY <1>1, <1>2, <1>3, <1>4, <2>2, <3>1 DEF q
  <2> QED
    BY <2>1, <2>2
<1> QED
  BY <1>1, <1>2, <1>5, <1>6, FirstKept DEF masterVars, Within

\* When a WAIT is called, it is the only one if none was called before.
LEMMA CalledFirst ==
  ASSUME StreamInv, NEW w \in Waits, NEW to \in {"waiting", "done"},
         waitStatus[w] = "idle", waitStatus' = [waitStatus EXCEPT ![w] = to]
  PROVE  /\ \A v \in Waits : OnlyWait(v)' => v = w /\ \A u \in Waits : waitStatus[u] = "idle"
         /\ waitStatus'[w] # "idle"
BY QuietTypes DEF OnlyWait

LEMMA WaitNowFirst ==
  ASSUME StreamInv, OffsetInv, FirstInv, NEW w \in Waits, NEW k \in 0..Cardinality(Replicas), WaitNow(w, k)
  PROVE  FirstInv'
<1> USE DEF FirstInv
<1>1. /\ waitStatus[w] = "idle" /\ waitStatus' = [waitStatus EXCEPT ![w] = "done"]
      /\ replicas = {} \/ master_repl_offset = 0
      /\ ackCount' = [ackCount EXCEPT ![w] = Cardinality(replicas)]
      /\ due' = [due EXCEPT ![w] = propagated]
      /\ UNCHANGED <<replicas, toReplica, toMaster, masterOffset, joinedAt, offsetAtJoin, getAckBytes,
                     quiet, counted>>
  BY DEF WaitNow, masterVars, linkVars, joinHistory
<1>2. /\ \A v \in Waits : OnlyWait(v)' => v = w /\ \A u \in Waits : waitStatus[u] = "idle"
      /\ waitStatus'[w] # "idle"
  BY <1>1, CalledFirst
<1>3. masterOffset[w] = 0
  BY <1>1 DEF OffsetInv, WaitsHearReplicas
<1>4. NothingAskedYet'
  BY <1>2 DEF NothingAskedYet
<1>5. FirstWaitExact'
  BY <1>1, <1>2, <1>3 DEF FirstWaitExact
<1>6. FirstWaitNow'
  <2>1. \A r \in replicas : joinedAt[r] = 0 /\ propagated = 0
    <3>1. CASE replicas = {}
      BY <3>1
    <3>2. CASE master_repl_offset = 0
      <4>1. propagated = 0 /\ \A r \in Replicas : joinedAt[r] \in Nat /\ joinedAt[r] <= propagated
        BY <3>2 DEF OffsetInv, NumbersArePast, StreamInv, TypeOK
      <4> QED
        BY <4>1, QuietTypes
    <3> QED
      BY <1>1, <3>1, <3>2
  <2>2. ackCount'[w] = Cardinality(replicas) /\ due'[w] = propagated
    BY <1>1, QuietTypes
  <2>3. \E s \in SUBSET replicas' : /\ ackCount'[w] = Cardinality(s)
                                    /\ \A r \in s : joinedAt'[r] = 0 /\ due'[w] = 0
    BY <1>1, <2>1, <2>2
  <2> QED
    BY <1>2, <2>3 DEF FirstWaitNow
<1>7. JoinedFirst'
  BY <1>1 DEF JoinedFirst
<1> QED
  BY <1>4, <1>5, <1>6, <1>7

LEMMA WaitBlockFirst ==
  ASSUME StreamInv, OffsetInv, FirstInv, NEW w \in Waits, NEW k \in 0..Cardinality(Replicas), WaitBlock(w, k)
  PROVE  FirstInv'
<1> USE DEF FirstInv
<1>1. /\ waitStatus[w] = "idle" /\ waitStatus' = [waitStatus EXCEPT ![w] = "waiting"]
      /\ master_repl_offset # 0
      /\ masterOffset' = [masterOffset EXCEPT ![w] = master_repl_offset]
      /\ toReplica' = SendAll("getack", GetAckLen, 0)
      /\ quiet' = [v \in Waits |-> IF v = w THEN NothingAsked ELSE quiet[v] /\ waitStatus[v] # "waiting"]
      /\ UNCHANGED <<replicas, toMaster, joinedAt, offsetAtJoin, counted>>
  BY DEF WaitBlock, masterVars, joinHistory
<1>2. /\ \A v \in Waits : OnlyWait(v)' => v = w /\ \A u \in Waits : waitStatus[u] = "idle"
      /\ waitStatus'[w] # "idle"
  BY <1>1, CalledFirst
<1>3. masterOffset'[w] = master_repl_offset /\ quiet'[w] = NothingAsked
  BY <1>1 DEF StreamInv, TypeOK
<1>4. NothingAskedYet'
  BY <1>2 DEF NothingAskedYet
<1>5. ASSUME \A u \in Waits : waitStatus[u] = "idle"
      PROVE  /\ quiet'[w]
             /\ \A r \in Replicas :
                  /\ \A i \in DOMAIN toReplica'[r] : toReplica'[r][i].kind = "getack" =>
                       toReplica'[r][i].end - toReplica'[r][i].len + offsetAtJoin[r] = masterOffset'[w]
                  /\ \A i \in DOMAIN toMaster[r] : toMaster[r][i].offset + offsetAtJoin[r] = masterOffset'[w]
             /\ counted[w] = {}
  <2>1. NothingAsked /\ \A r \in Replicas : getAckBytes[r] = 0
    BY <1>5 DEF NothingAskedYet
  <2>2. counted[w] = {}
    BY <1>1 DEF OffsetInv, WaitsHearReplicas
  <2>3. ASSUME NEW r \in Replicas, NEW i \in DOMAIN toReplica'[r], toReplica'[r][i].kind = "getack"
        PROVE  toReplica'[r][i].end - toReplica'[r][i].len + offsetAtJoin[r] = masterOffset'[w]
    <3>1. /\ toReplica'[r][i].len = GetAckLen
          /\ toReplica'[r][i].end = StreamEnd(r) + GetAckLen
      BY <1>1, <2>1, <2>3, GetAckSent DEF NothingAsked
    <3>2. StreamEnd(r) = master_repl_offset - offsetAtJoin[r]
      BY <2>1 DEF StreamEnd, StreamInv, TypeOK
    <3>3. offsetAtJoin[r] \in Nat /\ master_repl_offset \in Nat /\ GetAckLen \in Nat
      BY ReplicationAssumption DEF StreamInv, TypeOK
    <3> QED
      BY <1>3, <3>1, <3>2, <3>3
  <2>4. \A r \in Replicas : DOMAIN toMaster[r] = {}
    BY <2>1 DEF NothingAsked
  <2> QED
    BY <1>3, <2>1, <2>2, <2>3, <2>4
<1>6. FirstWaitExact'
  BY <1>1, <1>2, <1>5 DEF FirstWaitExact
<1>7. FirstWaitNow'
  BY <1>1, <1>2, <1>3 DEF FirstWaitNow
<1>8. JoinedFirst'
  BY <1>1 DEF JoinedFirst
<1> QED
  BY <1>4, <1>6, <1>7, <1>8

\* An ACK counts for the only WAIT only if its replica joined at offset 0.
LEMMA ReceiveAckFirst ==
  ASSUME StreamInv, OffsetInv, FirstInv, NEW r \in Replicas, ReceiveAck(r)
  PROVE  FirstInv'
<1> USE DEF FirstInv
<1> DEFINE ack == toMaster[r][1]
<1>1. /\ toMaster[r] \in Seq(Ack) /\ toMaster[r] # << >> /\ toMaster' = [toMaster EXCEPT ![r] = Tail(@)]
      /\ Head(toMaster[r]) = ack /\ 1 \in DOMAIN toMaster[r] /\ ack \in Ack
  BY QuietTypes, QueueTail DEF ReceiveAck
<1>2. /\ ackCount' = [w \in Waits |-> IF Counts(w, ack) THEN ackCount[w] + 1 ELSE ackCount[w]]
      /\ waitStatus' = [w \in Waits |-> IF Counts(w, ack) /\ ackCount[w] + 1 >= requiredReplicas[w]
                                        THEN "done" ELSE waitStatus[w]]
      /\ counted' = [w \in Waits |-> IF Counts(w, ack) THEN counted[w] \cup {r} ELSE counted[w]]
      /\ UNCHANGED <<replicas, toReplica, masterOffset, joinedAt, offsetAtJoin, getAckBytes, due, quiet>>
  BY <1>1 DEF ReceiveAck, masterVars, joinHistory
<1> HIDE DEF ack
<1>3. \A w \in Waits : waitStatus'[w] = "idle" <=> waitStatus[w] = "idle"
  BY <1>2 DEF Counts
<1>4. \A w \in Waits : OnlyWait(w)' <=> OnlyWait(w)
  BY <1>3 DEF OnlyWait
<1>5. NothingAskedYet'
  BY <1>1, <1>3 DEF NothingAskedYet, NothingAsked
<1>6. \A s \in Replicas : Within(toMaster'[s], toMaster[s])
  <2>1. Within(Tail(toMaster[r]), toMaster[r])
    BY <1>1, TailWithin
  <2>2. \A s \in Replicas : Within(toMaster[s], toMaster[s])
    BY DEF Within
  <2> QED
    BY <1>1, <2>1, <2>2, QuietTypes
<1>7. FirstWaitExact'
  <2>1. ASSUME NEW w \in Waits, OnlyWait(w), masterOffset[w] # 0
        PROVE  /\ quiet[w]
               /\ \A s \in Replicas :
                    /\ \A i \in DOMAIN toReplica[s] : toReplica[s][i].kind = "getack" =>
                         toReplica[s][i].end - toReplica[s][i].len + offsetAtJoin[s] = masterOffset[w]
                    /\ \A i \in DOMAIN toMaster'[s] : toMaster'[s][i].offset + offsetAtJoin[s] = masterOffset[w]
               /\ \A s \in counted'[w] : offsetAtJoin[s] = 0
    <3>1. /\ quiet[w]
          /\ \A s \in Replicas :
               /\ \A i \in DOMAIN toReplica[s] : toReplica[s][i].kind = "getack" =>
                    toReplica[s][i].end - toReplica[s][i].len + offsetAtJoin[s] = masterOffset[w]
               /\ \A i \in DOMAIN toMaster[s] : toMaster[s][i].offset + offsetAtJoin[s] = masterOffset[w]
          /\ \A s \in counted[w] : offsetAtJoin[s] = 0
      BY <2>1 DEF FirstWaitExact
    <3>2. Counts(w, ack) => offsetAtJoin[r] = 0
      <4>1. ack.offset + offsetAtJoin[r] = masterOffset[w]
        BY <1>1, <3>1 DEF ack
      <4>2. ack.offset \in Nat /\ offsetAtJoin[r] \in Nat /\ masterOffset[w] \in Nat
        BY <1>1 DEF Ack, StreamInv, TypeOK
      <4> QED
        BY <4>1, <4>2 DEF Counts
    <3>3. \A s \in counted'[w] : offsetAtJoin[s] = 0
      BY <1>2, <3>1, <3>2
    <3> QED
      BY <1>6, <3>1, <3>3 DEF Within
  <2> QED
    BY <1>2, <1>4, <2>1 DEF FirstWaitExact
<1>8. FirstWaitNow'
  <2>1. \A w \in Waits : masterOffset[w] = 0 => ackCount'[w] = ackCount[w]
    BY <1>2 DEF Counts, OffsetInv, WaitsHearReplicas
  <2> QED
    BY <1>2, <1>4, <2>1 DEF FirstWaitNow
<1>9. JoinedFirst'
  BY <1>2 DEF JoinedFirst
<1> QED
  BY <1>5, <1>7, <1>8, <1>9

LEMMA WaitTimeoutFirst ==
  ASSUME StreamInv, FirstInv, NEW w \in Waits, WaitTimeout(w)
  PROVE  FirstInv'
<1> USE DEF FirstInv
<1>1. /\ waitStatus[w] = "waiting" /\ waitStatus' = [waitStatus EXCEPT ![w] = "done"]
      /\ UNCHANGED <<replicas, toReplica, toMaster, masterOffset, joinedAt, offsetAtJoin, getAckBytes>>
      /\ UNCHANGED <<ackCount, due, quiet, counted>>
  BY DEF WaitTimeout, masterVars, linkVars, joinHistory, waitHistory
<1>2. \A v \in Waits : waitStatus'[v] = "idle" <=> waitStatus[v] = "idle"
  BY <1>1, QuietTypes
<1>3. \A v \in Waits : OnlyWait(v)' <=> OnlyWait(v)
  BY <1>2 DEF OnlyWait
<1>4. NothingAskedYet'
  BY <1>1, <1>2 DEF NothingAskedYet, NothingAsked
<1>5. FirstWaitExact' /\ FirstWaitNow' /\ JoinedFirst'
  BY <1>1, <1>3 DEF FirstWaitExact, FirstWaitNow, JoinedFirst
<1> QED
  BY <1>4, <1>5

LEMMA FirstNext == StreamInv /\ StreamInv' /\ OffsetInv /\ FirstInv /\ [Next]_vars => FirstInv'
<1> SUFFICES ASSUME StreamInv, StreamInv', OffsetInv, FirstInv, [Next]_vars PROVE FirstInv'
  OBVIOUS
<1>1. CASE UNCHANGED vars
  BY <1>1 DEF vars, masterVars, linkVars, waitVars, joinHistory, waitHistory, FirstInv,
     NothingAskedYet, NothingAsked, FirstWaitExact, FirstWaitNow, JoinedFirst, OnlyWait
<1>2. CASE Next
  BY <1>2, PsyncFirst, DisconnectFirst, WriteFirst, ReplicaWriteFirst, ReplicaGetAckFirst,
     ReceiveAckFirst, WaitNowFirst, WaitBlockFirst, WaitTimeoutFirst DEF Next
<1> QED
  BY <1>1, <1>2

\* The replicas the only WAIT counted hold all that was due.
LEMMA FirstCountsHolders ==
  StreamInv /\ OffsetInv /\ QuietInv /\ FirstInv => WaitCountsHolders
<1> SUFFICES ASSUME StreamInv, OffsetInv, QuietInv, FirstInv, NEW w \in Waits, OnlyWait(w)
             PROVE  ackCount[w] <= Cardinality({r \in Replicas : HoldsAll(r, due[w])})
  BY DEF WaitCountsHolders
<1> USE DEF FirstInv
<1> DEFINE holders == {r \in Replicas : HoldsAll(r, due[w])}
<1>1. IsFiniteSet(holders)
  BY ReplicationAssumption, FS_Subset
<1>2. ASSUME NEW s, s \subseteq holders, ackCount[w] = Cardinality(s)
      PROVE  ackCount[w] <= Cardinality(holders)
  BY <1>1, <1>2, FS_Subset
<1>3. CASE masterOffset[w] # 0
  <2>1. quiet[w] /\ \A r \in counted[w] : offsetAtJoin[r] = 0
    BY <1>3 DEF FirstWaitExact
  <2>2. ackCount[w] = Cardinality(counted[w]) /\ \A r \in counted[w] : applied[r] >= due[w]
    BY <2>1 DEF QuietInv, QuietWaitCountsDistinct
  <2>3. counted[w] \subseteq replicas /\ replicas \subseteq Replicas
    BY QuietTypes DEF OffsetInv, WaitsHearReplicas
  <2>4. counted[w] \subseteq holders
    BY <2>1, <2>2, <2>3 DEF JoinedFirst, HoldsAll
  <2> QED
    BY <1>2, <2>2, <2>4
<1>4. CASE masterOffset[w] = 0
  <2>1. PICK s \in SUBSET replicas : /\ ackCount[w] = Cardinality(s)
                                     /\ \A r \in s : joinedAt[r] = 0 /\ due[w] = 0
    BY <1>4 DEF FirstWaitNow
  <2>2. s \subseteq holders
    BY <2>1, QuietTypes DEF HoldsAll
  <2> QED
    BY <1>2, <2>1, <2>2
<1> QED
  BY <1>3, <1>4

\* All the inductive invariants together.
LEMMA Invariance == Spec => [](StreamInv /\ OffsetInv /\ QuietInv /\ FirstInv)
<1> DEFINE Inv == StreamInv /\ OffsetInv /\ QuietInv /\ FirstInv
<1>1. Init => Inv
  BY StreamInit, OffsetInit, QuietInit, FirstInit
<1>2. Inv /\ [Next]_vars => Inv'
  <2> SUFFICES ASSUME Inv, [Next]_vars PROVE Inv'
    OBVIOUS
  <2>1. StreamInv' /\ OffsetInv' /\ QuietInv'
    BY StreamNext, OffsetNext, QuietNext
  <2>2. FirstInv'
    BY <2>1, FirstNext
  <2> QED
    BY <2>1, <2>2
<1> QED
  BY <1>1, <1>2, PTL DEF Spec

\* The answer of a WAIT that is the only one made is never more than the
\* number of replicas that executed every write from the first on: late
\* replicas, which never got the writes before they joined, are not counted,
\* because their offsets fall short by as much.
THEOREM OnlyWaitCountsHolders == Spec => []WaitCountsHolders
<1>1. StreamInv /\ OffsetInv /\ QuietInv /\ FirstInv => WaitCountsHolders
  BY FirstCountsHolders
<1> QED
  BY <1>1, Invariance, PTL

\* As long as clients call WAIT once, WaitCommand.ts:36 is right: a WAIT that
\* resolves with enough ACKs had them from that many replicas.  Two WAITs are
\* what it takes to count a replica twice (the run ReplicationDoubleCount).
THEOREM OneWaitCountsReplicas ==
  (\A v, w \in Waits : v = w) => (Spec => []AcknowledgedByRequired)
<1> SUFFICES ASSUME \A v, w \in Waits : v = w
             PROVE  Spec => []AcknowledgedByRequired
  OBVIOUS
<1>1. StreamInv /\ OffsetInv /\ QuietInv /\ FirstInv => AcknowledgedByRequired
  <2> SUFFICES ASSUME StreamInv, QuietInv, FirstInv, NEW w \in Waits, waitStatus[w] = "done", masterOffset[w] > 0,
                      ackCount[w] >= requiredReplicas[w]
               PROVE  Cardinality(counted[w]) >= requiredReplicas[w]
    BY DEF AcknowledgedByRequired
  <2>1. OnlyWait(w)
    BY DEF OnlyWait
  <2>2. quiet[w]
    BY <2>1 DEF FirstInv, FirstWaitExact
  <2>3. ackCount[w] = Cardinality(counted[w])
    BY <2>2 DEF QuietInv, QuietWaitCountsDistinct
  <2> QED
    BY <2>3
<1> QED
  BY <1>1, Invariance, PTL

-----------------------------------------------------------------------------
(* The links implement CommandStream.                                      *)

\* What of a queue of commands, or of ACKs, goes over the link.
Bare(q) == [i \in DOMAIN q |-> [kind |-> q[i].kind, len |-> q[i].len]]
Offsets(q) == [i \in DOMAIN q |-> q[i].offset]

\* A command without its history.
BareCommand == [kind : {"write", "getack"}, len : Nat]

LEMMA BareType ==
  ASSUME NEW q \in Seq(Command)
  PROVE  /\ Bare(q) \in Seq(BareCommand) /\ Len(Bare(q)) = Len(q)
         /\ \A i \in 1..Len(q) : Bare(q)[i] = [kind |-> q[i].kind, len |-> q[i].len]
<1>1. DOMAIN q = 1..Len(q) /\ Len(q) \in Nat /\ \A i \in 1..Len(q) : q[i] \in Command
  BY LenProperties, ElementOfSeq
<1>2. Bare(q) \in [1..Len(q) -> BareCommand]
  BY <1>1 DEF Bare, Command, BareCommand
<1>3. \A i \in 1..Len(q) : Bare(q)[i] = [kind |-> q[i].kind, len |-> q[i].len]
  BY <1>1 DEF Bare
<1>4. Bare(q) \in Seq(BareCommand)
  BY <1>1, <1>2, IsASeq
<1>5. Len(Bare(q)) = Len(q)
  BY <1>1, <1>2, <1>4, LenProperties
<1> QED
  BY <1>3, <1>4, <1>5

LEMMA OffsetsType ==
  ASSUME NEW q \in Seq(Ack)
  PROVE  /\ Offsets(q) \in Seq(Nat) /\ Len(Offsets(q)) = Len(q)
         /\ \A i \in 1..Len(q) : Offsets(q)[i] = q[i].offset
<1>1. DOMAIN q = 1..Len(q) /\ Len(q) \in Nat /\ \A i \in 1..Len(q) : q[i] \in Ack
  BY LenProperties, ElementOfSeq
<1>2. Offsets(q) \in [1..Len(q) -> Nat]
  BY <1>1 DEF Offsets, Ack
<1>3. \A i \in 1..Len(q) : Offsets(q)[i] = q[i].offset
  BY <1>1 DEF Offsets
<1>4. Offsets(q) \in Seq(Nat)
  BY <1>1, <1>2, IsASeq
<1>5. Len(Offsets(q)) = Len(q)
  BY <1>1, <1>2, <1>4, LenProperties
<1> QED
  BY <1>3, <1>4, <1>5

\* The first command, or ACK, is taken off the link.
LEMMA BareTail ==
  ASSUME NEW q \in Seq(Command), q # << >>
  PROVE  /\ Bare(q) # << >> /\ Head(Bare(q)) = [kind |-> q[1].kind, len |-> q[1].len]
         /\ Bare(Tail(q)) = Tail(Bare(q))
<1>1. /\ Tail(q) \in Seq(Command) /\ Len(q) \in Nat \ {0} /\ Len(Tail(q)) = Len(q) - 1
      /\ \A i \in 1..(Len(q) - 1) : Tail(q)[i] = q[i + 1]
  BY QueueTail
<1>2. /\ Bare(q) \in Seq(BareCommand) /\ Len(Bare(q)) = Len(q)
      /\ \A i \in 1..Len(q) : Bare(q)[i] = [kind |-> q[i].kind, len |-> q[i].len]
  BY BareType
<1>3. /\ Bare(Tail(q)) \in Seq(BareCommand) /\ Len(Bare(Tail(q))) = Len(q) - 1
      /\ \A i \in 1..(Len(q) - 1) :
           Bare(Tail(q))[i] = [kind |-> Tail(q)[i].kind, len |-> Tail(q)[i].len]
  BY <1>1, BareType
<1>4. Bare(q) # << >>
  BY <1>1, <1>2, EmptySeq
<1>5. /\ Head(Bare(q)) = Bare(q)[1]
      /\ Tail(Bare(q)) \in Seq(BareCommand) /\ Len(Tail(Bare(q))) = Len(q) - 1
      /\ \A i \in 1..(Len(q) - 1) : Tail(Bare(q))[i] = Bare(q)[i + 1]
  BY <1>2, <1>4, QueueTail
<1>6. \A i \in 1..(Len(q) - 1) : Bare(Tail(q))[i] = Tail(Bare(q))[i]
  <2> SUFFICES ASSUME NEW i \in 1..(Len(q) - 1) PROVE Bare(Tail(q))[i] = Tail(Bare(q))[i]
    OBVIOUS
  <2>1. i + 1 \in 1..Len(q)
    BY <1>1
  <2>2. Bare(q)[i + 1] = [kind |-> q[i + 1].kind, len |-> q[i + 1].len]
    BY <2>1, <1>2
  <2>3. Bare(Tail(q))[i] = [kind |-> Tail(q)[i].kind, len |-> Tail(q)[i].len]
    BY <1>3
  <2>4. Tail(q)[i] = q[i + 1] /\ Tail(Bare(q))[i] = Bare(q)[i + 1]
    BY <1>1, <1>5
  <2> QED
    BY <2>2, <2>3, <2>4, Zenon
<1>7. Bare(Tail(q)) = Tail(Bare(q))
  BY <1>3, <1>5, <1>6, SeqEqual
<1>8. 1 \in 1..Len(q)
  BY <1>1
<1> QED
  BY <1>2, <1>4, <1>5, <1>7, <1>8

LEMMA OffsetsTail ==
  ASSUME NEW q \in Seq(Ack), q # << >>
  PROVE  Offsets(q) # << >> /\ Offsets(Tail(q)) = Tail(Offsets(q))
<1>1. /\ Tail(q) \in Seq(Ack) /\ Len(q) \in Nat \ {0} /\ Len(Tail(q)) = Len(q) - 1
      /\ \A i \in 1..(Len(q) - 1) : Tail(q)[i] = q[i + 1]
  BY QueueTail
<1>2. /\ Offsets(q) \in Seq(Nat) /\ Len(Offsets(q)) = Len(q)
      /\ \A i \in 1..Len(q) : Offsets(q)[i] = q[i].offset
  BY OffsetsType
<1>3. /\ Offsets(Tail(q)) \in Seq(Nat) /\ Len(Offsets(Tail(q))) = Len(q) - 1
      /\ \A i \in 1..(Len(q) - 1) : Offsets(Tail(q))[i] = Tail(q)[i].offset
  BY <1>1, OffsetsType
<1>4. Offsets(q) # << >>
  BY <1>1, <1>2, EmptySeq
<1>5. /\ Tail(Offsets(q)) \in Seq(Nat) /\ Len(Tail(Offsets(q))) = Len(q) - 1
      /\ \A i \in 1..(Len(q) - 1) : Tail(Offsets(q))[i] = Offsets(q)[i + 1]
  BY <1>2, <1>4, QueueTail
<1>6. \A i \in 1..(Len(q) - 1) : Offsets(Tail(q))[i] = Tail(Offsets(q))[i]
  <2> SUFFICES ASSUME NEW i \in 1..(Len(q) - 1) PROVE Offsets(Tail(q))[i] = Tail(Offsets(q))[i]
    OBVIOUS
  <2>1. i + 1 \in 1..Len(q)
    BY <1>1
  <2> QED
    BY <2>1, <1>1, <1>2, <1>3, <1>5
<1> QED
  BY <1>3, <1>4, <1>5, <1>6, SeqEqual

\* A command is written to the link, or an ACK.
LEMMA BareAppend ==
  ASSUME NEW q \in Seq(Command), NEW m \in Command
  PROVE  Bare(Append(q, m)) = Append(Bare(q), [kind |-> m.kind, len |-> m.len])
<1> DEFINE c == [kind |-> m.kind, len |-> m.len]
<1>1. c \in BareCommand
  BY DEF Command, BareCommand
<1>2. /\ Append(q, m) \in Seq(Command) /\ Len(q) \in Nat /\ Len(Append(q, m)) = Len(q) + 1
      /\ \A i \in 1..Len(q) : Append(q, m)[i] = q[i]
      /\ Append(q, m)[Len(q) + 1] = m
  BY QueueAppend
<1>3. /\ Bare(q) \in Seq(BareCommand) /\ Len(Bare(q)) = Len(q)
      /\ \A i \in 1..Len(q) : Bare(q)[i] = [kind |-> q[i].kind, len |-> q[i].len]
  BY BareType
<1>4. /\ Bare(Append(q, m)) \in Seq(BareCommand) /\ Len(Bare(Append(q, m))) = Len(q) + 1
      /\ \A i \in 1..(Len(q) + 1) : Bare(Append(q, m))[i] =
           [kind |-> Append(q, m)[i].kind, len |-> Append(q, m)[i].len]
  BY <1>2, BareType
<1> HIDE DEF c
<1>5. /\ Append(Bare(q), c) \in Seq(BareCommand) /\ Len(Append(Bare(q), c)) = Len(q) + 1
      /\ \A i \in 1..Len(q) : Append(Bare(q), c)[i] = Bare(q)[i]
      /\ Append(Bare(q), c)[Len(q) + 1] = c
  BY <1>1, <1>3, QueueAppend
<1>6. \A i \in 1..(Len(q) + 1) : Bare(Append(q, m))[i] = Append(Bare(q), c)[i]
  <2> SUFFICES ASSUME NEW i \in 1..(Len(q) + 1) PROVE Bare(Append(q, m))[i] = Append(Bare(q), c)[i]
    OBVIOUS
  <2>1. CASE i \in 1..Len(q)
    BY <2>1, <1>2, <1>3, <1>4, <1>5
  <2>2. CASE i = Len(q) + 1
    BY <2>2, <1>2, <1>4, <1>5 DEF c
  <2>3. \A k \in Nat : \A j \in 1..(k + 1) : j \in 1..k \/ j = k + 1
    OBVIOUS
  <2>4. i \in 1..Len(q) \/ i = Len(q) + 1
    BY <1>2, <2>3
  <2> QED
    BY <2>1, <2>2, <2>4, Zenon
<1>7. Bare(Append(q, m)) = Append(Bare(q), c)
  BY <1>4, <1>5, <1>6, SeqEqual
<1> QED
  BY <1>7 DEF c

LEMMA OffsetsAppend ==
  ASSUME NEW q \in Seq(Ack), NEW m \in Ack
  PROVE  Offsets(Append(q, m)) = Append(Offsets(q), m.offset)
<1>1. m.offset \in Nat
  BY DEF Ack
<1>2. /\ Append(q, m) \in Seq(Ack) /\ Len(q) \in Nat /\ Len(Append(q, m)) = Len(q) + 1
      /\ \A i \in 1..Len(q) : Append(q, m)[i] = q[i]
      /\ Append(q, m)[Len(q) + 1] = m
  BY QueueAppend
<1>3. /\ Offsets(q) \in Seq(Nat) /\ Len(Offsets(q)) = Len(q)
      /\ \A i \in 1..Len(q) : Offsets(q)[i] = q[i].offset
  BY OffsetsType
<1>4. /\ Offsets(Append(q, m)) \in Seq(Nat) /\ Len(Offsets(Append(q, m))) = Len(q) + 1
      /\ \A i \in 1..(Len(q) + 1) : Offsets(Append(q, m))[i] = Append(q, m)[i].offset
  BY <1>2, OffsetsType
<1>5. /\ Append(Offsets(q), m.offset) \in Seq(Nat) /\ Len(Append(Offsets(q), m.offset)) = Len(q) + 1
      /\ \A i \in 1..Len(q) : Append(Offsets(q), m.offset)[i] = Offsets(q)[i]
      /\ Append(Offsets(q), m.offset)[Len(q) + 1] = m.offset
  BY <1>1, <1>3, QueueAppend
<1>6. \A i \in 1..(Len(q) + 1) : Offsets(Append(q, m))[i] = Append(Offsets(q), m.offset)[i]
  <2> SUFFICES ASSUME NEW i \in 1..(Len(q) + 1)
               PROVE  Offsets(Append(q, m))[i] = Append(Offsets(q), m.offset)[i]
    OBVIOUS
  <2>1. CASE i \in 1..Len(q)
    BY <2>1, <1>2, <1>3, <1>4, <1>5
  <2>2. CASE i = Len(q) + 1
    BY <2>2, <1>2, <1>4, <1>5
  <2>3. \A k \in Nat : \A j \in 1..(k + 1) : j \in 1..k \/ j = k + 1
    OBVIOUS
  <2>4. i \in 1..Len(q) \/ i = Len(q) + 1
    BY <1>2, <2>3
  <2> QED
    BY <2>1, <2>2, <2>4, Zenon
<1> QED
  BY <1>4, <1>5, <1>6, SeqEqual

-----------------------------------------------------------------------------
\* A step that leaves a link alone.
LEMMA LinkAlone ==
  ASSUME NEW r \in Replicas, toReplica'[r] = toReplica[r], toMaster'[r] = toMaster[r],
         processingOffset'[r] = processingOffset[r]
  PROVE  UNCHANGED Link(r)!vars
BY DEF Link!vars, Pending, Answered

\* Commands are written to every link that is open, and to no other.
LEMMA SentOverLink ==
  ASSUME TypeOK, NEW r \in Replicas, NEW kind \in {"write", "getack"}, NEW len \in Nat, NEW n \in Nat,
         [kind |-> kind, len |-> len] \in
           [kind : {"write"}, len : WriteLens] \cup [kind : {"getack"}, len : {GetAckLen}],
         StreamEnd(r) + len \in Nat,
         toReplica' = SendAll(kind, len, n), UNCHANGED <<toMaster, processingOffset>>
  PROVE  [Link(r)!Next]_(Link(r)!vars)
<1> DEFINE m == [kind |-> kind, len |-> len, n |-> n, end |-> StreamEnd(r) + len]
<1>1. CASE r \notin connected
  <2>1. toReplica'[r] = toReplica[r]
    BY <1>1 DEF SendAll
  <2> QED
    BY <2>1, LinkAlone
<1>2. CASE r \in connected
  <2>1. toReplica'[r] = Append(toReplica[r], m)
    BY <1>2 DEF SendAll
  <2>2. m \in Command /\ toReplica[r] \in Seq(Command) /\ m.kind = kind /\ m.len = len
    BY DEF Command, TypeOK
  <2> HIDE DEF m
  <2>3. Bare(toReplica'[r]) = Append(Bare(toReplica[r]), [kind |-> kind, len |-> len])
    BY <2>1, <2>2, BareAppend
  <2>4. Pending(r) = Bare(toReplica[r]) /\ Pending(r)' = Bare(toReplica'[r])
    BY DEF Pending, Bare
  <2>5. UNCHANGED <<processingOffset[r], Answered(r)>>
    BY DEF Answered
  <2>6. Link(r)!Propagate([kind |-> kind, len |-> len])
    BY <2>3, <2>4, <2>5 DEF Link!Propagate
  <2> QED
    BY <2>6 DEF Link!Next
<1> QED
  BY <1>1, <1>2

\* Each step of the master or of a replica is, for the link of every replica,
\* a step of CommandStream, the arrival of an ACK, the closing of that link,
\* or none of its business.
LEMMA LinkNext ==
  ASSUME StreamInv, [Next]_vars, NEW r \in Replicas
  PROVE  [Link(r)!Next \/ AckArrives(r) \/ LinkCloses(r)]_(Link(r)!vars)
<1>1. /\ toReplica \in [Replicas -> Seq(Command)] /\ toMaster \in [Replicas -> Seq(Ack)]
      /\ processingOffset \in [Replicas -> Nat]
      /\ TypeOK /\ TypeOK'
      /\ \A l \in WriteLens : l \in Nat
      /\ GetAckLen \in Nat
  <2>1. TypeOK /\ TypeOK'
    BY StreamNext DEF StreamInv
  <2> QED
    BY <2>1, ReplicationAssumption DEF TypeOK
<1>2. /\ Pending(r) = Bare(toReplica[r]) /\ Pending(r)' = Bare(toReplica'[r])
      /\ Answered(r) = Offsets(toMaster[r]) /\ Answered(r)' = Offsets(toMaster'[r])
  BY DEF Pending, Answered, Bare, Offsets
<1>end. \A len \in Nat : StreamEnd(r) + len \in Nat
  <2>1. /\ master_repl_offset \in Nat /\ offsetAtJoin[r] \in Nat /\ getAckBytes[r] \in Nat
        /\ offsetAtJoin[r] <= master_repl_offset
    BY <1>1 DEF StreamInv, TypeOK, JoinsArePast
  <2> QED
    BY <2>1 DEF StreamEnd
<1>3. CASE UNCHANGED <<toReplica, toMaster, processingOffset>>
  BY <1>3, LinkAlone
<1>4. ASSUME NEW s \in Replicas, Disconnect(s)
      PROVE  LinkCloses(r) \/ UNCHANGED Link(r)!vars
  <2>1. CASE s # r
    <3>1. toReplica'[r] = toReplica[r] /\ toMaster'[r] = toMaster[r]
      BY <1>1, <1>4, <2>1 DEF Disconnect
    <3> QED
      BY <1>4, <3>1, LinkAlone DEF Disconnect
  <2>2. CASE s = r
    <3>1. /\ toReplica'[r] = << >> /\ r \in connected /\ r \notin connected'
          /\ toMaster'[r] \in {toMaster[r], << >>} /\ processingOffset' = processingOffset
      BY <1>1, <1>4, <2>2 DEF Disconnect
    <3>2. Bare(<< >>) = << >> /\ Offsets(<< >>) = << >>
      BY DEF Bare, Offsets
    <3>3. Answered(r)' \in {Answered(r), << >>}
      BY <1>2, <3>1, <3>2
    <3> QED
      BY <1>2, <3>1, <3>2, <3>3 DEF LinkCloses
  <2> QED
    BY <2>1, <2>2
<1>5. ASSUME NEW len \in WriteLens, Write(len)
      PROVE  [Link(r)!Next]_(Link(r)!vars)
  <2>1. UNCHANGED <<toMaster, processingOffset>> /\ Propagate(len)
    BY <1>5 DEF Write
  <2>2. CASE replicas = {}
    BY <2>1, <2>2, LinkAlone DEF Propagate
  <2>3. CASE replicas # {}
    <3>1. toReplica' = SendAll("write", len, propagated + 1) /\ propagated + 1 \in Nat
      BY <1>1, <2>1, <2>3 DEF Propagate, TypeOK
    <3>2. StreamEnd(r) + len \in Nat
      BY <1>1, <1>end
    <3> QED
      BY <1>1, <2>1, <3>1, <3>2, SentOverLink
  <2> QED
    BY <2>2, <2>3
<1>6. ASSUME NEW w \in Waits, NEW n \in 0..Cardinality(Replicas), WaitBlock(w, n)
      PROVE  [Link(r)!Next]_(Link(r)!vars)
  <2>1. toReplica' = SendAll("getack", GetAckLen, 0) /\ UNCHANGED <<toMaster, processingOffset>>
    BY <1>6 DEF WaitBlock
  <2>2. StreamEnd(r) + GetAckLen \in Nat
    BY <1>1, <1>end
  <2> QED
    BY <1>1, <2>1, <2>2, SentOverLink
<1>7. ASSUME NEW s \in Replicas, ReplicaWrite(s) \/ ReplicaGetAck(s)
      PROVE  Link(r)!Execute \/ UNCHANGED Link(r)!vars
  <2>1. CASE s # r
    <3>1. /\ toReplica'[r] = toReplica[r] /\ toMaster'[r] = toMaster[r]
          /\ processingOffset'[r] = processingOffset[r]
      BY <1>1, <1>7, <2>1 DEF ReplicaWrite, ReplicaGetAck
    <3> QED
      BY <3>1, LinkAlone
  <2>2. CASE s = r
    <3> DEFINE q == toReplica[r]
               ack == [offset |-> processingOffset[r], upTo |-> applied[r]]
    <3>1. /\ q # << >> /\ toReplica'[r] = Tail(q)
          /\ processingOffset'[r] = processingOffset[r] + Head(q).len
          /\ toMaster'[r] = IF Head(q).kind = "getack" THEN Append(toMaster[r], ack) ELSE toMaster[r]
      <4>1. CASE ReplicaWrite(r)
        BY <1>1, <4>1 DEF ReplicaWrite
      <4>2. CASE ReplicaGetAck(r)
        BY <1>1, <4>2 DEF ReplicaGetAck
      <4> QED
        BY <1>7, <2>2, <4>1, <4>2
    <3>2. q \in Seq(Command) /\ toMaster[r] \in Seq(Ack) /\ ack \in Ack
          /\ ack.offset = processingOffset[r]
      BY <1>1 DEF TypeOK, Ack
    <3> HIDE DEF q, ack
    <3>3. Head(q) = q[1]
      BY <3>1, <3>2, QueueTail
    <3>4. /\ Bare(q) # << >> /\ Head(Bare(q)) = [kind |-> q[1].kind, len |-> q[1].len]
          /\ Bare(Tail(q)) = Tail(Bare(q))
      BY <3>1, <3>2, BareTail
    <3>5. Head(Bare(q)).kind = Head(q).kind /\ Head(Bare(q)).len = Head(q).len
      BY <3>3, <3>4
    <3>6. Offsets(toMaster'[r]) = IF Head(Bare(q)).kind = "getack"
                                  THEN Append(Offsets(toMaster[r]), processingOffset[r])
                                  ELSE Offsets(toMaster[r])
      <4>1. Offsets(Append(toMaster[r], ack)) = Append(Offsets(toMaster[r]), processingOffset[r])
        BY <3>2, OffsetsAppend
      <4> QED
        BY <3>1, <3>5, <4>1
    <3>7. Pending(r) = Bare(q) /\ Pending(r)' = Bare(Tail(q))
      BY <1>2, <3>1 DEF q
    <3> QED
      BY <1>2, <3>1, <3>4, <3>5, <3>6, <3>7 DEF Link!Execute
  <2> QED
    BY <2>1, <2>2
<1>8. ASSUME NEW s \in Replicas, ReceiveAck(s)
      PROVE  AckArrives(r) \/ UNCHANGED Link(r)!vars
  <2>1. CASE s # r
    <3>1. toReplica' = toReplica /\ toMaster'[r] = toMaster[r] /\ processingOffset' = processingOffset
      BY <1>1, <1>8, <2>1 DEF ReceiveAck
    <3> QED
      BY <3>1, LinkAlone
  <2>2. CASE s = r
    <3>1. /\ toReplica' = toReplica /\ processingOffset' = processingOffset
          /\ toMaster[r] # << >> /\ toMaster'[r] = Tail(toMaster[r])
      BY <1>1, <1>8, <2>2 DEF ReceiveAck
    <3>2. Offsets(toMaster[r]) # << >> /\ Offsets(Tail(toMaster[r])) = Tail(Offsets(toMaster[r]))
      BY <1>1, <3>1, OffsetsTail
    <3> QED
      BY <1>2, <3>1, <3>2 DEF AckArrives
  <2> QED
    BY <2>1, <2>2
<1>9. CASE Next
  <2>1. CASE \/ \E s \in Replicas : Psync(s)
             \/ \E w \in Waits, n \in 0..Cardinality(Replicas) : WaitNow(w, n)
             \/ \E w \in Waits : WaitTimeout(w)
    BY <1>3, <2>1 DEF Psync, WaitNow, WaitTimeout, linkVars
  <2>2. CASE \E s \in Replicas : Disconnect(s)
    BY <1>4, <2>2
  <2>3. CASE \E len \in WriteLens : Write(len)
    BY <1>5, <2>3
  <2>4. CASE \E w \in Waits, n \in 0..Cardinality(Replicas) : WaitBlock(w, n)
    BY <1>6, <2>4
  <2>5. CASE \E s \in Replicas : ReplicaWrite(s) \/ ReplicaGetAck(s)
    <3>1. Link(r)!Execute \/ UNCHANGED Link(r)!vars
      BY <1>7, <2>5
    <3> QED
      BY <3>1 DEF Link!Next
  <2>6. CASE \E s \in Replicas : ReceiveAck(s)
    BY <1>8, <2>6
  <2> QED
    BY <1>9, <2>1, <2>2, <2>3, <2>4, <2>5, <2>6 DEF Next
<1>10. CASE UNCHANGED vars
  BY <1>3, <1>10 DEF vars, linkVars
<1> QED
  BY <1>9, <1>10

\* The link of every replica implements CommandStream until its socket closes:
\* what propagate, GETACK, PSYNC and the replica's handler do to it is what
\* MasterLink was shown to do (ReplicationManager.ts, MasterConnectionHandler.ts).
THEOREM LinksImplement == Spec => LinksImplementCommandStream
<1> DEFINE Step == \A r \in Replicas :
                     [Link(r)!Next \/ AckArrives(r) \/ LinkCloses(r)]_(Link(r)!vars)
<1>1. Init => \A r \in Replicas : Link(r)!Init
  BY DEF Init, Link!Init, Pending, Answered
<1>2. StreamInv /\ [Next]_vars => Step
  BY LinkNext
<1>3. Init => StreamInv
  BY StreamInit
<1>4. StreamInv /\ [Next]_vars => StreamInv'
  BY StreamNext
<1> HIDE DEF Step
<1>5. Spec => [][Step]_vars
  BY <1>2, <1>3, <1>4, PTL DEF Spec
<1>6. Spec => \A r \in Replicas : Link(r)!Init
  BY <1>1 DEF Spec
<1> QED
  BY <1>5, <1>6 DEF LinksImplementCommandStream, Step
=============================================================================
