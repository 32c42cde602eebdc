-------------------------- MODULE MasterLinkProofs --------------------------
(***************************************************************************)
(* A replica reads each message of its master as what it was written as,   *)
(* and the link implements CommandStream, whatever the lengths of the      *)
(* messages and wherever the network cuts their stream.                    *)
(***************************************************************************)
EXTENDS MasterLink, SequenceTheorems, TLAPS

Messages == [kind : Kinds, len : Nat, end : Nat]

TypeOK ==
  /\ requests \in Seq({"PING", "REPLCONF", "PSYNC"})
  /\ stream \in Seq(Messages)
  /\ attached \in BOOLEAN
  /\ received \in Nat
  /\ start \in 0..received
  /\ running \in BOOLEAN
  /\ handshakeStep \in 0..4
  /\ rdbFileExpected \in BOOLEAN
  /\ processingOffset \in Nat
  /\ executed \in Seq(Nat)
  /\ acks \in Seq(Nat)

\* Where the n-th message of a stream ends.
EndOf(s, n) == IF n = 0 THEN 0 ELSE s[n].end

\* A stream is one message after the other, none of them empty.
LaidOut(s) ==
  /\ \A i \in 1..Len(s) : s[i].end - s[i].len = EndOf(s, i - 1)
  /\ \A i, j \in 0..Len(s) : i < j => EndOf(s, i) < EndOf(s, j)

\* What the n-th message is, by its place.
InPlace(n, kind, length) ==
  /\ n = 1 => kind = "PONG"
  /\ n \in {2, 3} => kind = "OK"
  /\ n = 4 => kind = "FULLRESYNC"
  /\ n = 5 => kind = "RDB"
  /\ n > 5 => [kind |-> kind, len |-> length] \in Commands

\* The messages of a stream: the answers to the handshake, the RDB file, and
\* then commands.
KindsInOrder(s) ==
  \A i \in 1..Len(s) : InPlace(i, s[i].kind, s[i].len)

\* The number of messages consumed.
Consumed ==
  IF handshakeStep < 4 THEN handshakeStep
  ELSE IF rdbFileExpected THEN 4
  ELSE Preamble + Processed

\* The buffer begins behind the messages consumed.
Aligned == Consumed <= Len(stream) /\ start = EndOf(stream, Consumed)

\* The request of each step of the handshake.
Request == <<"PING", "REPLCONF", "REPLCONF", "PSYNC">>

\* One side of the handshake waits for the other: the master has a request
\* to answer, or its answer is on the way.
Alternating ==
  /\ attached => requests = << >> /\ Len(stream) >= 5 /\ handshakeStep >= 3
  /\ ~ attached =>
       \/ /\ requests = <<Request[handshakeStep + 1]>>
          /\ Len(stream) = handshakeStep
          /\ handshakeStep <= 3
       \/ /\ requests = << >>
          /\ Len(stream) = handshakeStep + 1
          /\ handshakeStep <= 2
  /\ handshakeStep < 4 => ~ rdbFileExpected
  /\ handshakeStep < 4 \/ rdbFileExpected => executed = << >> /\ acks = << >>

\* The inductive invariant.
Inv ==
  /\ TypeOK
  /\ LaidOut(stream)
  /\ KindsInOrder(stream)
  /\ received <= EndOf(stream, Len(stream))
  /\ Aligned
  /\ Alternating

-----------------------------------------------------------------------------
\* A stream and one more message.
LEMMA OneMore ==
  ASSUME NEW s \in Seq(Messages), LaidOut(s), NEW m \in Messages,
         m.len > 0, m.end = EndOf(s, Len(s)) + m.len
  PROVE  /\ Append(s, m) \in Seq(Messages)
         /\ LaidOut(Append(s, m))
         /\ Len(Append(s, m)) = Len(s) + 1
         /\ Len(s) \in Nat
         /\ \A i \in 1..Len(s) : Append(s, m)[i] = s[i]
         /\ \A i \in 0..Len(s) : EndOf(Append(s, m), i) = EndOf(s, i)
         /\ EndOf(Append(s, m), Len(s) + 1) = m.end
         /\ Append(s, m)[Len(s) + 1] = m
         /\ EndOf(s, Len(s)) \in Nat
<1> DEFINE t == Append(s, m)
           n == Len(s)
<1>1. /\ t \in Seq(Messages) /\ Len(t) = n + 1
      /\ \A i \in 1..n : t[i] = s[i]
      /\ t[n + 1] = m
      /\ n \in Nat
  BY AppendProperties, LenProperties
<1>2. \A i \in 1..n : s[i] \in Messages
  BY ElementOfSeq, LenProperties
<1>3. \A i \in 0..n : EndOf(s, i) \in Nat
  BY <1>1, <1>2 DEF EndOf, Messages
<1> HIDE DEF t, n
<1>4. \A i \in 0..n : EndOf(t, i) = EndOf(s, i)
  BY <1>1 DEF EndOf
<1>5. EndOf(t, n + 1) = m.end
  BY <1>1 DEF EndOf
<1>6. m.len \in Nat /\ m.end \in Nat
  BY DEF Messages
<1>7. EndOf(s, n) \in Nat /\ m.end = EndOf(s, n) + m.len
  BY <1>1, <1>3 DEF n
<1>8. \A i \in 1..(n + 1) : t[i].end - t[i].len = EndOf(t, i - 1)
  <2> SUFFICES ASSUME NEW i \in 1..(n + 1)
               PROVE  t[i].end - t[i].len = EndOf(t, i - 1)
    OBVIOUS
  <2>1. CASE i = n + 1
    <3>1. i - 1 = n /\ n \in 0..n
      BY <2>1, <1>1
    <3> QED
      BY <2>1, <3>1, <1>1, <1>4, <1>6, <1>7
  <2>2. CASE i # n + 1
    <3>1. i \in 1..n /\ i - 1 \in 0..n
      BY <2>2, <1>1
    <3>2. s[i].end - s[i].len = EndOf(s, i - 1)
      BY <3>1 DEF LaidOut, n
    <3> QED
      BY <3>1, <3>2, <1>1, <1>4
  <2> QED
    BY <2>1, <2>2
<1>9. \A i, j \in 0..(n + 1) : i < j => EndOf(t, i) < EndOf(t, j)
  <2> SUFFICES ASSUME NEW i \in 0..(n + 1), NEW j \in 0..(n + 1), i < j
               PROVE  EndOf(t, i) < EndOf(t, j)
    OBVIOUS
  <2>1. i \in 0..n
    BY <1>1
  <2>2. CASE j \in 0..n
    BY <2>1, <2>2, <1>4 DEF LaidOut, n
  <2>3. CASE j = n + 1
    <3>1. i = n \/ i < n
      BY <2>1, <1>1
    <3>2. i < n => EndOf(s, i) < EndOf(s, n)
      BY <2>1, <1>1 DEF LaidOut, n
    <3> QED
      BY <3>1, <3>2, <2>1, <2>3, <1>3, <1>4, <1>5, <1>6, <1>7
  <2> QED
    BY <2>2, <2>3, <1>1
<1>10. LaidOut(t)
  BY <1>1, <1>8, <1>9 DEF LaidOut
<1> QED
  BY <1>1, <1>3, <1>4, <1>5, <1>7, <1>10 DEF t, n

\* The state in the terms the steps need.
LEMMA LinkFacts ==
  ASSUME Inv
  PROVE  /\ Len(stream) \in Nat /\ DOMAIN stream = 1..Len(stream)
         /\ \A i \in 1..Len(stream) : stream[i] \in Messages
         /\ \A i \in 0..Len(stream) : EndOf(stream, i) \in Nat
         /\ Written = EndOf(stream, Len(stream))
         /\ Len(executed) \in Nat /\ Len(acks) \in Nat /\ Processed \in Nat
         /\ Consumed \in 0..Len(stream)
<1>1. /\ Len(stream) \in Nat /\ DOMAIN stream = 1..Len(stream)
      /\ Len(executed) \in Nat /\ Len(acks) \in Nat
  BY LenProperties DEF Inv, TypeOK
<1>2. \A i \in 1..Len(stream) : stream[i] \in Messages
  BY <1>1, ElementOfSeq DEF Inv, TypeOK
<1>3. \A i \in 0..Len(stream) : EndOf(stream, i) \in Nat
  BY <1>1, <1>2 DEF EndOf, Messages
<1>4. Written = EndOf(stream, Len(stream))
  <2>1. stream = << >> <=> Len(stream) = 0
    BY EmptySeq DEF Inv, TypeOK
  <2> QED
    BY <2>1 DEF Written, EndOf
<1>5. Processed \in Nat
  BY <1>1 DEF Processed
<1>6. Consumed \in 0..Len(stream)
  <2>1. Consumed \in Nat
    BY <1>5 DEF Inv, TypeOK, Consumed, Preamble
  <2> QED
    BY <2>1, <1>1 DEF Inv, Aligned
<1> QED
  BY <1>1, <1>2, <1>3, <1>4, <1>5, <1>6

\* The message the buffer begins with is the one behind those consumed.
LEMMA StartIsNext ==
  ASSUME Inv, NEW i \in 1..Len(stream), stream[i].end - stream[i].len = start
  PROVE  i = Consumed + 1
<1>1. Len(stream) \in Nat /\ i - 1 \in 0..Len(stream) /\ Consumed \in 0..Len(stream)
  BY LinkFacts
<1>2. EndOf(stream, i - 1) = EndOf(stream, Consumed)
  BY DEF Inv, LaidOut, Aligned
<1>3. EndOf(stream, Consumed) \in Nat
  BY <1>1, LinkFacts
<1>4. ~ (i - 1 < Consumed) /\ ~ (Consumed < i - 1)
  BY <1>1, <1>2, <1>3 DEF Inv, LaidOut
<1> QED
  BY <1>1, <1>4

\* So is the message that is complete, and its end is the new start.
LEMMA HeadIsNext ==
  ASSUME Inv, NEW i \in DOMAIN stream, i \in Heads
  PROVE  /\ i \in 1..Len(stream)
         /\ i = Consumed + 1
         /\ stream[i].end = EndOf(stream, Consumed + 1)
         /\ stream[i].end \in 0..received
         /\ Consumed + 1 <= Len(stream)
<1>1. i \in 1..Len(stream) /\ Len(stream) \in Nat
  BY LinkFacts
<1>2. stream[i].end - stream[i].len = start /\ stream[i].end <= received
  BY DEF Heads
<1>3. i = Consumed + 1
  BY <1>1, <1>2, StartIsNext
<1>4. stream[i] \in Messages
  BY <1>1, LinkFacts
<1>5. stream[i].end \in 0..received
  BY <1>2, <1>4 DEF Messages, Inv, TypeOK
<1> QED
  BY <1>1, <1>3, <1>5 DEF EndOf

\* What the message behind those consumed is.
LEMMA NextKind ==
  ASSUME Inv, NEW i \in 1..Len(stream), i = Consumed + 1
  PROVE  stream[i].kind \in
           IF handshakeStep < 4 THEN {Awaited[handshakeStep + 1]}
           ELSE IF rdbFileExpected THEN {"RDB"}
           ELSE {"write", "getack"}
<1>1. handshakeStep \in {0, 1, 2, 3, 4}
  BY DEF Inv, TypeOK
<1>2. CASE handshakeStep < 4
  <2>1. i = handshakeStep + 1
    BY <1>2 DEF Consumed
  <2>2. CASE handshakeStep = 0
    <3>1. i = 1 /\ handshakeStep + 1 = 1 /\ handshakeStep < 4
      BY <2>1, <2>2
    <3>2. stream[i].kind = "PONG"
      BY <3>1 DEF Inv, KindsInOrder, InPlace
    <3>3. Awaited[handshakeStep + 1] = "PONG"
      BY <3>1 DEF Awaited
    <3> QED
      BY <3>1, <3>2, <3>3
  <2>3. CASE handshakeStep = 1
    <3>1. i = 2 /\ handshakeStep + 1 = 2 /\ handshakeStep < 4
      BY <2>1, <2>3
    <3>2. stream[i].kind = "OK"
      BY <3>1 DEF Inv, KindsInOrder, InPlace
    <3>3. Awaited[handshakeStep + 1] = "OK"
      BY <3>1 DEF Awaited
    <3> QED
      BY <3>1, <3>2, <3>3
  <2>4. CASE handshakeStep = 2
    <3>1. i = 3 /\ handshakeStep + 1 = 3 /\ handshakeStep < 4
      BY <2>1, <2>4
    <3>2. stream[i].kind = "OK"
      BY <3>1 DEF Inv, KindsInOrder, InPlace
    <3>3. Awaited[handshakeStep + 1] = "OK"
      BY <3>1 DEF Awaited
    <3> QED
      BY <3>1, <3>2, <3>3
  <2>5. CASE handshakeStep = 3
    <3>1. i = 4 /\ handshakeStep + 1 = 4 /\ handshakeStep < 4
      BY <2>1, <2>5
    <3>2. stream[i].kind = "FULLRESYNC"
      BY <3>1 DEF Inv, KindsInOrder, InPlace
    <3>3. Awaited[handshakeStep + 1] = "FULLRESYNC"
      BY <3>1 DEF Awaited
    <3> QED
      BY <3>1, <3>2, <3>3
  <2> QED
    BY <1>1, <1>2, <2>2, <2>3, <2>4, <2>5
<1>3. CASE ~ handshakeStep < 4 /\ rdbFileExpected
  <2>1. i = 5
    BY <1>3 DEF Consumed
  <2>2. stream[i].kind = "RDB"
    BY <2>1 DEF Inv, KindsInOrder, InPlace
  <2> QED
    BY <1>3, <2>2
<1>4. CASE ~ handshakeStep < 4 /\ ~ rdbFileExpected
  <2>1. i > 5
    BY <1>4, LinkFacts DEF Consumed, Preamble
  <2>2. [kind |-> stream[i].kind, len |-> stream[i].len] \in Commands
    BY <2>1 DEF Inv, KindsInOrder, InPlace
  <2>3. stream[i].kind \in {"write", "getack"}
    BY <2>2 DEF Commands
  <2> QED
    BY <1>4, <2>3
<1> QED
  BY <1>2, <1>3, <1>4

\* Each step of the master writes one message more, PSYNC twice.
LEMMA StreamGrows ==
  ASSUME NEW s \in Seq(Messages), LaidOut(s), KindsInOrder(s),
         NEW m \in Messages, m.len > 0, m.end = EndOf(s, Len(s)) + m.len,
         InPlace(Len(s) + 1, m.kind, m.len)
  PROVE  /\ Append(s, m) \in Seq(Messages)
         /\ LaidOut(Append(s, m))
         /\ KindsInOrder(Append(s, m))
         /\ Len(Append(s, m)) = Len(s) + 1
         /\ \A i \in 1..Len(s) : Append(s, m)[i] = s[i]
         /\ \A i \in 0..Len(s) : EndOf(Append(s, m), i) = EndOf(s, i)
         /\ EndOf(Append(s, m), Len(s) + 1) = m.end
<1> DEFINE t == Append(s, m)
           n == Len(s)
<1>1. /\ t \in Seq(Messages) /\ LaidOut(t) /\ Len(t) = n + 1
      /\ \A i \in 1..n : t[i] = s[i]
      /\ \A i \in 0..n : EndOf(t, i) = EndOf(s, i)
      /\ EndOf(t, n + 1) = m.end
      /\ t[n + 1] = m
      /\ n \in Nat
  BY OneMore
<1>2. \A i \in 1..n : InPlace(i, s[i].kind, s[i].len)
  BY DEF KindsInOrder
<1>3. InPlace(n + 1, m.kind, m.len)
  OBVIOUS
<1> HIDE DEF t, n
<1>4. \A i \in 1..(n + 1) : InPlace(i, t[i].kind, t[i].len)
  <2> SUFFICES ASSUME NEW i \in 1..(n + 1) PROVE InPlace(i, t[i].kind, t[i].len)
    OBVIOUS
  <2>1. CASE i = n + 1
    BY <2>1, <1>1, <1>3
  <2>2. CASE i # n + 1
    <3>1. i \in 1..n
      BY <2>2, <1>1
    <3> QED
      BY <3>1, <1>1, <1>2
  <2> QED
    BY <2>1, <2>2
<1>5. KindsInOrder(t)
  BY <1>1, <1>4 DEF KindsInOrder
<1> QED
  BY <1>1, <1>5 DEF t, n

\* What the handshake says of the state a step of the master starts in.
LEMMA HandshakeFacts ==
  ASSUME Inv
  PROVE  /\ requests # << >> => ~ attached /\ Len(stream) = handshakeStep
                                /\ requests = <<Request[handshakeStep + 1]>>
         /\ attached => requests = << >> /\ Len(stream) >= 5
         /\ handshakeStep \in {0, 1, 2, 3, 4}
<1>1. handshakeStep \in {0, 1, 2, 3, 4}
  BY DEF Inv, TypeOK
<1> QED
  BY <1>1 DEF Inv, Alternating

\* The requests of the handshake.
LEMMA RequestSeqs ==
  /\ << >> \in Seq({"PING", "REPLCONF", "PSYNC"})
  /\ \A n \in {1, 2, 3, 4} : <<Request[n]>> \in Seq({"PING", "REPLCONF", "PSYNC"})
  /\ \A n \in {1, 2, 3, 4} : Head(<<Request[n]>>) = Request[n] /\ Tail(<<Request[n]>>) = << >>
BY DEF Request

\* A message behind a stream leaves what is consumed where it is.
LEMMA StillAligned ==
  ASSUME Inv, stream' \in Seq(Messages),
         Len(stream') >= Len(stream),
         \A i \in 0..Len(stream) : EndOf(stream', i) = EndOf(stream, i),
         UNCHANGED <<handshakeStep, rdbFileExpected, executed, acks, start>>
  PROVE  Aligned'
<1>1. Consumed \in 0..Len(stream) /\ Len(stream) \in Nat
  BY LinkFacts
<1>2. Consumed' = Consumed
  BY DEF Consumed, Processed
<1>3. start' = EndOf(stream', Consumed)
  BY <1>1 DEF Inv, Aligned
<1>4. Len(stream') \in Nat
  BY LenProperties
<1>5. Consumed' <= Len(stream')
  BY <1>1, <1>2, <1>4
<1>6. start' = EndOf(stream', Consumed')
  BY <1>2, <1>3
<1> QED
  BY <1>5, <1>6 DEF Aligned

LEMMA InitInv == Init => Inv
<1> SUFFICES ASSUME Init PROVE Inv
  OBVIOUS
<1>1. stream \in Seq(Messages) /\ Len(stream) = 0
  BY DEF Init
<1>2. TypeOK
  <2>1. << >> \in Seq(Nat)
    BY EmptySeq
  <2>2. <<"PING">> \in Seq({"PING", "REPLCONF", "PSYNC"})
    OBVIOUS
  <2>3. requests \in Seq({"PING", "REPLCONF", "PSYNC"}) /\ executed \in Seq(Nat) /\ acks \in Seq(Nat)
    BY <2>1, <2>2 DEF Init
  <2>4. attached \in BOOLEAN /\ running \in BOOLEAN /\ rdbFileExpected \in BOOLEAN
    BY Zenon DEF Init
  <2>5. received = 0 /\ start = 0 /\ handshakeStep = 0 /\ processingOffset = 0
    BY Zenon DEF Init
  <2>6. /\ received \in Nat /\ processingOffset \in Nat
        /\ start \in 0..received /\ handshakeStep \in 0..4
    BY <2>5
  <2> QED
    BY <1>1, <2>3, <2>4, <2>6, Zenon DEF TypeOK
<1>3. LaidOut(stream) /\ KindsInOrder(stream)
  BY <1>1 DEF LaidOut, KindsInOrder
<1>4. received <= EndOf(stream, Len(stream)) /\ Aligned
  BY <1>1 DEF Init, EndOf, Aligned, Consumed
<1>5. Alternating
  BY <1>1 DEF Init, Alternating, Request
<1> QED
  BY <1>2, <1>3, <1>4, <1>5 DEF Inv

\* A step of the master that writes one message.
LEMMA WrotesOne ==
  ASSUME Inv, NEW kind \in Kinds, NEW length \in Nat, length > 0,
         InPlace(Len(stream) + 1, kind, length),
         stream' = Wrote(kind, length),
         UNCHANGED <<received, running, handlerVars>>
  PROVE  /\ stream' \in Seq(Messages) /\ LaidOut(stream') /\ KindsInOrder(stream')
         /\ Len(stream') = Len(stream) + 1
         /\ received' <= EndOf(stream', Len(stream'))
         /\ Aligned'
<1> DEFINE m == [kind |-> kind, len |-> length, end |-> EndOf(stream, Len(stream)) + length]
<1>1. stream' = Append(stream, m)
  BY LinkFacts DEF Wrote
<1>2. EndOf(stream, Len(stream)) \in Nat /\ Len(stream) \in Nat
  BY LinkFacts
<1>3. /\ m \in Messages /\ m.len > 0
      /\ m.end = EndOf(stream, Len(stream)) + m.len
      /\ m.kind = kind /\ m.len = length
  BY <1>2 DEF Messages
<1> HIDE DEF m
<1>a. InPlace(Len(stream) + 1, m.kind, m.len)
  BY <1>3
<1>4. /\ stream' \in Seq(Messages) /\ LaidOut(stream') /\ KindsInOrder(stream')
      /\ Len(stream') = Len(stream) + 1
      /\ \A i \in 0..Len(stream) : EndOf(stream', i) = EndOf(stream, i)
      /\ EndOf(stream', Len(stream) + 1) = m.end
  <2>1. stream \in Seq(Messages) /\ LaidOut(stream) /\ KindsInOrder(stream)
    BY DEF Inv, TypeOK
  <2>2. /\ Append(stream, m) \in Seq(Messages)
        /\ LaidOut(Append(stream, m)) /\ KindsInOrder(Append(stream, m))
        /\ Len(Append(stream, m)) = Len(stream) + 1
        /\ \A i \in 0..Len(stream) : EndOf(Append(stream, m), i) = EndOf(stream, i)
        /\ EndOf(Append(stream, m), Len(stream) + 1) = m.end
    BY <2>1, <1>3, <1>a, StreamGrows
  <2> QED
    BY <2>2, <1>1
<1>5. received' <= EndOf(stream', Len(stream'))
  BY <1>2, <1>3, <1>4 DEF Inv, TypeOK
<1>6. Aligned'
  BY <1>2, <1>4, StillAligned DEF handlerVars
<1> QED
  BY <1>4, <1>5, <1>6

LEMMA MasterRepliesInv == Inv /\ MasterReplies => Inv'
<1> SUFFICES ASSUME Inv, MasterReplies PROVE Inv'
  OBVIOUS
<1> DEFINE kind == IF Head(requests) = "PING" THEN "PONG" ELSE "OK"
<1>1. ~ attached /\ Len(stream) = handshakeStep /\ requests = <<Request[handshakeStep + 1]>>
  BY HandshakeFacts DEF MasterReplies
<1>2. /\ handshakeStep \in {0, 1, 2}
      /\ InPlace(Len(stream) + 1, kind, ReplyLength)
      /\ kind \in Kinds
  <2>1. handshakeStep \in {0, 1, 2, 3}
    BY <1>1 DEF Inv, Alternating, TypeOK
  <2>2. Head(requests) = Request[handshakeStep + 1]
    BY <2>1, <1>1, RequestSeqs
  <2>3. handshakeStep # 3
    BY <2>2 DEF MasterReplies, Request
  <2>4. handshakeStep = 0 => kind = "PONG"
    BY <2>2 DEF Request
  <2>5. handshakeStep \in {1, 2} => kind = "OK"
    BY <2>2 DEF Request
  <2>6. handshakeStep \in {0, 1, 2}
    BY <2>1, <2>3
  <2> HIDE DEF kind
  <2>7. InPlace(handshakeStep + 1, kind, ReplyLength)
    BY <2>4, <2>5, <2>6 DEF InPlace
  <2>8. kind \in Kinds
    BY <2>4, <2>5, <2>6 DEF Kinds
  <2> QED
    BY <2>6, <2>7, <2>8, <1>1
<1>3. /\ stream' = Wrote(kind, ReplyLength)
      /\ requests' = Tail(requests)
      /\ UNCHANGED <<attached, received, running, handlerVars>>
  BY DEF MasterReplies
<1> HIDE DEF kind
<1>4. /\ stream' \in Seq(Messages) /\ LaidOut(stream') /\ KindsInOrder(stream')
      /\ Len(stream') = Len(stream) + 1
      /\ received' <= EndOf(stream', Len(stream'))
      /\ Aligned'
  BY <1>2, <1>3, LinkAssumption, WrotesOne
<1>5. requests' = << >>
  BY <1>1, <1>2, <1>3, RequestSeqs
<1>6. TypeOK'
  BY <1>3, <1>4, <1>5, RequestSeqs DEF Inv, TypeOK, handlerVars
<1>7. Alternating'
  BY <1>1, <1>2, <1>3, <1>4, <1>5 DEF Inv, Alternating, handlerVars
<1> QED
  BY <1>4, <1>6, <1>7 DEF Inv

LEMMA MasterPsyncInv == Inv /\ MasterPsync => Inv'
<1> SUFFICES ASSUME Inv, MasterPsync PROVE Inv'
  OBVIOUS
<1> DEFINE e == EndOf(stream, Len(stream))
           m1 == [kind |-> "FULLRESYNC", len |-> ReplyLength, end |-> e + ReplyLength]
           m2 == [kind |-> "RDB", len |-> RdbLength, end |-> e + ReplyLength + RdbLength]
           mid == Append(stream, m1)
<1>1. ~ attached /\ Len(stream) = handshakeStep /\ requests = <<Request[handshakeStep + 1]>>
  BY HandshakeFacts DEF MasterPsync
<1>2. handshakeStep = 3
  <2>1. handshakeStep \in {0, 1, 2, 3}
    BY <1>1 DEF Inv, Alternating, TypeOK
  <2>2. Request[handshakeStep + 1] = "PSYNC"
    BY <2>1, <1>1, RequestSeqs DEF MasterPsync
  <2> QED
    BY <2>1, <2>2 DEF Request
<1>3. e \in Nat /\ Written = e
  BY LinkFacts
<1>4. stream' = Append(mid, m2)
  BY <1>3 DEF MasterPsync, Wrote
<1>5. /\ m1 \in Messages /\ m1.len > 0 /\ m1.end = e + m1.len
      /\ m1.kind = "FULLRESYNC" /\ m1.len = ReplyLength
      /\ m2 \in Messages /\ m2.len > 0 /\ m2.end = m1.end + m2.len
      /\ m2.kind = "RDB" /\ m2.len = RdbLength /\ m2.end \in Nat /\ m1.end \in Nat
      /\ e < m2.end
  BY <1>3, LinkAssumption DEF Messages, Kinds
<1> HIDE DEF m1, m2
<1>6. InPlace(Len(stream) + 1, m1.kind, m1.len)
  BY <1>1, <1>2, <1>5 DEF InPlace
<1>7. /\ mid \in Seq(Messages) /\ LaidOut(mid) /\ KindsInOrder(mid)
      /\ Len(mid) = Len(stream) + 1
      /\ \A i \in 0..Len(stream) : EndOf(mid, i) = EndOf(stream, i)
      /\ EndOf(mid, Len(stream) + 1) = m1.end
  BY <1>5, <1>6, StreamGrows DEF Inv, TypeOK
<1> HIDE DEF mid
<1>8. InPlace(Len(mid) + 1, m2.kind, m2.len)
  BY <1>1, <1>2, <1>5, <1>7 DEF InPlace
<1>9. m2.end = EndOf(mid, Len(mid)) + m2.len
  BY <1>5, <1>7
<1>10. /\ stream' \in Seq(Messages) /\ LaidOut(stream') /\ KindsInOrder(stream')
       /\ Len(stream') = Len(mid) + 1
       /\ \A i \in 0..Len(mid) : EndOf(stream', i) = EndOf(mid, i)
       /\ EndOf(stream', Len(mid) + 1) = m2.end
  BY <1>4, <1>5, <1>7, <1>8, <1>9, StreamGrows
<1>11. \A i \in 0..Len(stream) : EndOf(stream', i) = EndOf(stream, i)
  BY <1>1, <1>2, <1>7, <1>10
<1>12. received' <= EndOf(stream', Len(stream'))
  BY <1>3, <1>5, <1>10 DEF Inv, TypeOK, MasterPsync
<1>13. Aligned'
  BY <1>1, <1>2, <1>7, <1>10, <1>11, StillAligned DEF MasterPsync, handlerVars
<1>14. requests' = << >>
  BY <1>1, <1>2, RequestSeqs DEF MasterPsync
<1>15. TypeOK'
  BY <1>10, <1>14, RequestSeqs DEF Inv, TypeOK, MasterPsync, handlerVars
<1>16. Alternating'
  BY <1>1, <1>2, <1>7, <1>10, <1>14 DEF Inv, Alternating, MasterPsync, handlerVars
<1> QED
  BY <1>10, <1>12, <1>13, <1>15, <1>16 DEF Inv

LEMMA PropagateInv == ASSUME Inv, NEW c \in Commands, Propagate(c) PROVE Inv'
<1>1. Len(stream) >= 5 /\ Len(stream) \in Nat
  BY HandshakeFacts, LinkFacts DEF Propagate
<1>2. c.kind \in Kinds /\ c.len \in Nat /\ c.len > 0
  <2>1. CASE c \in [kind : {"write"}, len : WriteLengths]
    <3>1. c.kind = "write" /\ c.len \in WriteLengths
      BY <2>1
    <3>2. c.len \in Nat \ {0}
      BY <3>1, LinkAssumption
    <3> QED
      BY <3>1, <3>2 DEF Kinds
  <2>2. CASE c \in [kind : {"getack"}, len : {GetAckLength}]
    <3>1. c.kind = "getack" /\ c.len = GetAckLength
      BY <2>2
    <3>2. c.len \in Nat \ {0}
      BY <3>1, LinkAssumption
    <3> QED
      BY <3>1, <3>2 DEF Kinds
  <2> QED
    BY <2>1, <2>2 DEF Commands
<1>3. c = [kind |-> c.kind, len |-> c.len]
  BY DEF Commands
<1>4. InPlace(Len(stream) + 1, c.kind, c.len)
  BY <1>1, <1>3 DEF InPlace
<1>5. /\ stream' \in Seq(Messages) /\ LaidOut(stream') /\ KindsInOrder(stream')
      /\ Len(stream') = Len(stream) + 1
      /\ received' <= EndOf(stream', Len(stream'))
      /\ Aligned'
  BY <1>2, <1>4, WrotesOne DEF Propagate
<1>6. TypeOK'
  BY <1>5 DEF Inv, TypeOK, Propagate, handlerVars
<1>7. Alternating'
  BY <1>1, <1>5 DEF Inv, Alternating, Propagate, handlerVars
<1> QED
  BY <1>5, <1>6, <1>7 DEF Inv

LEMMA ArriveInv ==
  ASSUME Inv, NEW n \in 1..(Written - received), Arrive(n)
  PROVE  Inv'
<1>1. /\ received' = received + n /\ received' <= Written /\ running' = TRUE
      /\ UNCHANGED <<requests, stream, attached, handlerVars>>
  BY DEF Arrive
<1>2. Written = EndOf(stream, Len(stream)) /\ Written \in Nat /\ received \in Nat
  BY LinkFacts DEF Inv, TypeOK
<1>3. start' \in 0..received' /\ received' \in Nat
  BY <1>1, <1>2 DEF Inv, TypeOK, handlerVars
<1>4. TypeOK'
  BY <1>1, <1>3 DEF Inv, TypeOK, handlerVars
<1>5. received' <= EndOf(stream', Len(stream'))
  BY <1>1, <1>2
<1>6. Aligned'
  BY <1>1 DEF Inv, Aligned, Consumed, Processed, handlerVars
<1>7. Alternating'
  BY <1>1 DEF Inv, Alternating, handlerVars
<1>8. LaidOut(stream)' /\ KindsInOrder(stream)'
  BY <1>1 DEF Inv
<1> QED
  BY <1>4, <1>5, <1>6, <1>7, <1>8 DEF Inv

\* A turn of the loop that consumes the message the buffer begins with.
LEMMA Consumes ==
  ASSUME Inv, NEW i \in DOMAIN stream, i \in Heads,
         start' = stream[i].end, Consumed' = Consumed + 1,
         UNCHANGED <<stream, received>>
  PROVE  /\ Aligned'
         /\ start' \in 0..received'
         /\ LaidOut(stream') /\ KindsInOrder(stream')
         /\ received' <= EndOf(stream', Len(stream'))
<1>1. /\ stream[i].end = EndOf(stream, Consumed + 1)
      /\ stream[i].end \in 0..received
      /\ Consumed + 1 <= Len(stream)
  BY HeadIsNext
<1>2. start' = EndOf(stream', Consumed') /\ Consumed' <= Len(stream')
  BY <1>1
<1> QED
  BY <1>1, <1>2 DEF Inv, Aligned

\* The replica answers each step of the handshake with the next request.
LEMMA Answers ==
  /\ \A n \in {1, 2, 3} : Answer[n] = <<Request[n + 1]>>
  /\ Answer[4] = << >>
<1>1. Answer[1] = <<Request[1 + 1]>>
  BY DEF Answer, Request
<1>2. Answer[2] = <<Request[2 + 1]>>
  BY DEF Answer, Request
<1>3. Answer[3] = <<Request[3 + 1]>>
  BY DEF Answer, Request
<1>4. Answer[4] = << >>
  BY DEF Answer
<1> QED
  BY <1>1, <1>2, <1>3, <1>4

LEMMA HandshakeLineInv ==
  ASSUME Inv, NEW i \in DOMAIN stream, HandshakeLine(i)
  PROVE  Inv'
<1>1. i \in 1..Len(stream) /\ i = Consumed + 1 /\ Consumed + 1 <= Len(stream)
  BY HeadIsNext DEF HandshakeLine
<1>2. handshakeStep < 4 /\ stream[i].kind = Awaited[handshakeStep + 1]
  BY <1>1, NextKind DEF HandshakeLine
<1>3. /\ start' = stream[i].end
      /\ handshakeStep' = handshakeStep + 1
      /\ requests' = requests \o Answer[handshakeStep + 1]
      /\ rdbFileExpected' = (handshakeStep' = 4)
      /\ UNCHANGED <<stream, attached, received, running, processingOffset, executed, acks>>
  BY <1>2 DEF HandshakeLine
<1>4. handshakeStep \in {0, 1, 2, 3} /\ Consumed = handshakeStep
  BY <1>2, HandshakeFacts DEF Consumed
<1>5. handshakeStep + 1 <= Len(stream) /\ Len(stream) \in Nat
  BY <1>1, <1>4, LinkFacts
<1>6. requests = << >> /\ ~ rdbFileExpected /\ executed = << >> /\ acks = << >>
  BY <1>4, <1>5 DEF Inv, Alternating
<1>7. requests' = Answer[handshakeStep + 1]
  <2>1. CASE handshakeStep = 3
    <3>1. Answer[handshakeStep + 1] = << >>
      BY <2>1, Answers
    <3> QED
      BY <3>1, <1>3, <1>6
  <2>2. CASE handshakeStep \in {0, 1, 2}
    <3>1. Answer[handshakeStep + 1] = <<Request[handshakeStep + 2]>>
      BY <2>2, Answers
    <3> QED
      BY <3>1, <1>3, <1>6
  <2> QED
    BY <2>1, <2>2, <1>4
<1>8. Consumed' = Consumed + 1
  <2>1. CASE handshakeStep = 3
    <3>1. handshakeStep' = 4 /\ ~ handshakeStep' < 4
      BY <2>1, <1>3
    <3>2. rdbFileExpected'
      BY <3>1, <1>3, Zenon
    <3>3. Consumed' = 4
      BY <3>1, <3>2, Zenon DEF Consumed
    <3> QED
      BY <3>3, <2>1, <1>4
  <2>2. CASE handshakeStep \in {0, 1, 2}
    BY <2>2, <1>3, <1>4 DEF Consumed
  <2> QED
    BY <2>1, <2>2, <1>4
<1>9. /\ Aligned' /\ start' \in 0..received'
      /\ LaidOut(stream') /\ KindsInOrder(stream')
      /\ received' <= EndOf(stream', Len(stream'))
  BY <1>3, <1>8, Consumes DEF HandshakeLine
<1>10. requests' \in Seq({"PING", "REPLCONF", "PSYNC"})
  <2>1. CASE handshakeStep = 3
    <3>1. requests' = << >>
      BY <2>1, <1>7, Answers
    <3> QED
      BY <3>1, RequestSeqs
  <2>2. CASE handshakeStep \in {0, 1, 2}
    <3>1. requests' = <<Request[handshakeStep + 2]>> /\ handshakeStep + 2 \in {1, 2, 3, 4}
      BY <2>2, <1>7, Answers
    <3> QED
      BY <3>1, RequestSeqs
  <2> QED
    BY <2>1, <2>2, <1>4
<1>11. handshakeStep' \in 0..4 /\ rdbFileExpected' \in BOOLEAN
  BY <1>3, <1>4
<1>12. TypeOK'
  BY <1>3, <1>9, <1>10, <1>11 DEF Inv, TypeOK
<1>13. Alternating'
  <2>1. CASE attached
    <3>1. handshakeStep = 3 /\ Len(stream) >= 5
      BY <2>1, <1>4 DEF Inv, Alternating
    <3>2. requests' = << >>
      BY <3>1, <1>7, Answers
    <3> QED
      BY <2>1, <3>1, <3>2, <1>3, <1>6 DEF Alternating
  <2>2. CASE ~ attached
    <3>1. Len(stream) = handshakeStep + 1 /\ handshakeStep \in {0, 1, 2}
      BY <2>2, <1>4, <1>5 DEF Inv, Alternating
    <3>2. requests' = <<Request[handshakeStep' + 1]>>
      BY <3>1, <1>3, <1>7, Answers
    <3>3. handshakeStep' # 4 /\ handshakeStep' <= 3 /\ handshakeStep' = Len(stream')
      BY <3>1, <1>3
    <3>4. ~ rdbFileExpected'
      BY <3>3, <1>3, Zenon
    <3>5. ~ attached' /\ executed' = << >> /\ acks' = << >>
      BY <2>2, <1>3, <1>6
    <3> QED
      BY <3>2, <3>3, <3>4, <3>5 DEF Alternating
  <2> QED
    BY <2>1, <2>2
<1> QED
  BY <1>9, <1>12, <1>13 DEF Inv

LEMMA RdbFileInv ==
  ASSUME Inv, NEW i \in DOMAIN stream, RdbFile(i)
  PROVE  Inv'
<1>1. i \in 1..Len(stream) /\ i = Consumed + 1
  BY HeadIsNext DEF RdbFile
<1>2. handshakeStep = 4 /\ rdbFileExpected /\ stream[i].kind = "RDB"
  BY <1>1, NextKind DEF RdbFile
<1>3. /\ start' = stream[i].end /\ rdbFileExpected' = FALSE
      /\ UNCHANGED <<requests, stream, attached, received, running, handshakeStep,
                     processingOffset, executed, acks>>
  BY <1>2 DEF RdbFile
<1>4. executed = << >> /\ acks = << >>
  BY <1>2 DEF Inv, Alternating
<1>5. Consumed' = Consumed + 1
  <2>1. Processed' = 0
    BY <1>3, <1>4 DEF Processed
  <2> QED
    BY <2>1, <1>2, <1>3 DEF Consumed, Preamble
<1>6. /\ Aligned' /\ start' \in 0..received'
      /\ LaidOut(stream') /\ KindsInOrder(stream')
      /\ received' <= EndOf(stream', Len(stream'))
  BY <1>3, <1>5, Consumes DEF RdbFile
<1>7. TypeOK'
  BY <1>3, <1>6 DEF Inv, TypeOK
<1>8. Alternating'
  BY <1>2, <1>3, <1>4 DEF Inv, Alternating
<1> QED
  BY <1>6, <1>7, <1>8 DEF Inv

\* A command is processed: one more write executed, or one more answer.
LEMMA CommandFacts ==
  ASSUME Inv, NEW i \in DOMAIN stream, PropagatedCommand(i)
  PROVE  /\ i \in 1..Len(stream) /\ i = Preamble + Processed + 1
         /\ Processed' = Processed + 1
         /\ Consumed' = Consumed + 1
         /\ executed' \in Seq(Nat) /\ acks' \in Seq(Nat)
         /\ processingOffset' = processingOffset + stream[i].len
         /\ processingOffset' \in Nat
<1>1. i \in 1..Len(stream) /\ i = Consumed + 1
  BY HeadIsNext DEF PropagatedCommand
<1>2. handshakeStep = 4 /\ ~ rdbFileExpected /\ UNCHANGED <<handshakeStep, rdbFileExpected>>
  BY DEF PropagatedCommand
<1>3. Consumed = Preamble + Processed /\ Consumed' = Preamble + Processed'
  BY <1>2 DEF Consumed
<1>4. executed \in Seq(Nat) /\ acks \in Seq(Nat) /\ processingOffset \in Nat /\ i \in Nat
  BY <1>1, LinkFacts DEF Inv, TypeOK
<1>5. stream[i] \in Messages
  BY <1>1, LinkFacts
<1>6. /\ Processed' = Processed + 1
      /\ executed' \in Seq(Nat) /\ acks' \in Seq(Nat)
  <2>1. CASE stream[i].kind = "getack"
    <3>1. acks' = Append(acks, processingOffset) /\ executed' = executed
      BY <2>1 DEF PropagatedCommand, AckOffset
    <3>2. acks' \in Seq(Nat) /\ Len(acks') = Len(acks) + 1
      BY <3>1, <1>4, AppendProperties
    <3> QED
      BY <3>1, <3>2, <1>4, LinkFacts DEF Processed
  <2>2. CASE stream[i].kind # "getack"
    <3>1. executed' = Append(executed, i) /\ acks' = acks
      BY <2>2 DEF PropagatedCommand
    <3>2. executed' \in Seq(Nat) /\ Len(executed') = Len(executed) + 1
      BY <3>1, <1>4, AppendProperties
    <3> QED
      BY <3>1, <3>2, <1>4, LinkFacts DEF Processed
  <2> QED
    BY <2>1, <2>2
<1>7. processingOffset' = processingOffset + stream[i].len
  BY DEF PropagatedCommand, Counted
<1>8. processingOffset' \in Nat
  BY <1>4, <1>5, <1>7 DEF Messages
<1>9. Consumed' = Consumed + 1
  BY <1>3, <1>6, LinkFacts DEF Preamble
<1> QED
  BY <1>1, <1>3, <1>6, <1>7, <1>8, <1>9

LEMMA PropagatedCommandInv ==
  ASSUME Inv, NEW i \in DOMAIN stream, PropagatedCommand(i)
  PROVE  Inv'
<1>1. /\ handshakeStep = 4 /\ ~ rdbFileExpected /\ start' = stream[i].end /\ i \in Heads
      /\ UNCHANGED <<requests, stream, attached, received, running, handshakeStep,
                     rdbFileExpected>>
  BY DEF PropagatedCommand
<1>2. /\ Consumed' = Consumed + 1
      /\ executed' \in Seq(Nat) /\ acks' \in Seq(Nat) /\ processingOffset' \in Nat
  BY CommandFacts
<1>3. /\ Aligned' /\ start' \in 0..received'
      /\ LaidOut(stream') /\ KindsInOrder(stream')
      /\ received' <= EndOf(stream', Len(stream'))
  BY <1>1, <1>2, Consumes
<1>4. TypeOK'
  BY <1>1, <1>2, <1>3 DEF Inv, TypeOK
<1>5. Alternating'
  BY <1>1 DEF Inv, Alternating
<1> QED
  BY <1>3, <1>4, <1>5 DEF Inv

LEMMA StopInv == Inv /\ (Stop \/ UNCHANGED vars) => Inv'
<1> SUFFICES ASSUME Inv, Stop \/ UNCHANGED vars PROVE Inv'
  OBVIOUS
<1>1. /\ UNCHANGED <<requests, stream, attached, received, handlerVars>>
      /\ running' \in BOOLEAN
  BY DEF Stop, vars, Inv, TypeOK
<1>2. TypeOK'
  BY <1>1 DEF Inv, TypeOK, handlerVars
<1>3. LaidOut(stream)' /\ KindsInOrder(stream)' /\ received' <= EndOf(stream', Len(stream'))
  BY <1>1 DEF Inv
<1>4. Aligned'
  BY <1>1 DEF Inv, Aligned, Consumed, Processed, handlerVars
<1>5. Alternating'
  BY <1>1 DEF Inv, Alternating, handlerVars
<1> QED
  BY <1>2, <1>3, <1>4, <1>5 DEF Inv

LEMMA Invariance == Spec => []Inv
<1>1. Inv /\ [Next]_vars => Inv'
  <2> SUFFICES ASSUME Inv, [Next]_vars PROVE Inv'
    OBVIOUS
  <2>1. CASE Master
    BY <2>1, MasterRepliesInv, MasterPsyncInv DEF Master
  <2>2. CASE \E c \in Commands : Propagate(c)
    BY <2>2, PropagateInv
  <2>3. CASE \E n \in 1..(Written - received) : Arrive(n)
    BY <2>3, ArriveInv
  <2>4. CASE Turn
    BY <2>4, StopInv, HandshakeLineInv, RdbFileInv, PropagatedCommandInv DEF Turn
  <2>5. CASE UNCHANGED vars
    BY <2>5, StopInv
  <2> QED
    BY <2>1, <2>2, <2>3, <2>4, <2>5 DEF Next
<1> QED
  BY <1>1, InitInv, PTL DEF Spec

-----------------------------------------------------------------------------
\* The state of the link and of the replica's handler has its types.
THEOREM TypeCorrect == Spec => []TypeOK
<1>1. Inv => TypeOK
  BY DEF Inv
<1> QED
  BY <1>1, Invariance, PTL

\* Whatever the lengths of the messages and wherever the network cuts their
\* stream, the handler takes each for what it was written as: an answer in
\* the step that awaits it, the RDB file as a file, a command as a command.
THEOREM MessagesReadAsWritten == Spec => []ReadAsWritten
<1>1. Inv => ReadAsWritten
  <2> SUFFICES ASSUME Inv, NEW i \in DOMAIN stream,
                      stream[i].end - stream[i].len = start
               PROVE  stream[i].kind \in
                        IF handshakeStep < 4 THEN {Awaited[handshakeStep + 1]}
                        ELSE IF rdbFileExpected THEN {"RDB"}
                        ELSE {"write", "getack"}
    BY DEF ReadAsWritten
  <2>1. i \in 1..Len(stream)
    BY LinkFacts
  <2> QED
    BY <2>1, StartIsNext, NextKind
<1> QED
  BY <1>1, Invariance, PTL

-----------------------------------------------------------------------------
(* The refinement.                                                         *)

Command(m) == [kind |-> m.kind, len |-> m.len]

\* The commands of a stream s of which p were processed.
Behind(s, p) == [n \in 1..(Len(s) - Preamble - p) |-> Command(s[Preamble + p + n])]

LEMMA UnprocessedIsBehind ==
  /\ Unprocessed = Behind(stream, Processed)
  /\ Unprocessed' = Behind(stream', Processed')
BY DEF Unprocessed, Behind, Command

LEMMA NothingBehind ==
  ASSUME NEW s \in Seq(Messages), NEW p \in Nat, Len(s) <= Preamble + p
  PROVE  Behind(s, p) = << >>
<1>1. Len(s) \in Nat
  BY LenProperties
<1>2. 1..(Len(s) - Preamble - p) = {}
  BY <1>1 DEF Preamble
<1>3. Behind(s, p) \in Seq({}) /\ Len(Behind(s, p)) = 0
  <2>1. Behind(s, p) = [n \in 1..0 |-> Command(s[Preamble + p + n])]
    BY <1>2 DEF Behind
  <2>2. 1..0 = {}
    OBVIOUS
  <2> QED
    BY <2>1, <2>2
<1> QED
  BY <1>3, EmptySeq

LEMMA BehindFacts ==
  ASSUME NEW s \in Seq(Messages), KindsInOrder(s), NEW p \in Nat,
         Preamble + p <= Len(s)
  PROVE  /\ Behind(s, p) \in Seq(Commands)
         /\ Len(Behind(s, p)) = Len(s) - Preamble - p
         /\ Len(s) - Preamble - p \in Nat
         /\ \A n \in 1..(Len(s) - Preamble - p) :
              Behind(s, p)[n] = Command(s[Preamble + p + n])
<1>1. Len(s) \in Nat
  BY LenProperties
<1> DEFINE k == Len(s) - Preamble - p
<1>2. k \in Nat
  BY <1>1 DEF Preamble
<1>3. \A n \in 1..k : Command(s[Preamble + p + n]) \in Commands
  <2> SUFFICES ASSUME NEW n \in 1..k PROVE Command(s[Preamble + p + n]) \in Commands
    OBVIOUS
  <2>1. Preamble + p + n \in 1..Len(s) /\ Preamble + p + n > 5
    BY <1>1 DEF Preamble
  <2> QED
    BY <2>1 DEF KindsInOrder, InPlace, Command
<1> HIDE DEF k
<1>4. [n \in 1..k |-> Command(s[Preamble + p + n])] \in [1..k -> Commands]
  BY <1>3
<1>5. Behind(s, p) = [n \in 1..k |-> Command(s[Preamble + p + n])]
  BY DEF Behind, k
<1>6. /\ Behind(s, p) \in [1..k -> Commands]
      /\ \A n \in 1..k : Behind(s, p)[n] = Command(s[Preamble + p + n])
  BY <1>4, <1>5
<1>7. Behind(s, p) \in Seq(Commands) /\ Len(Behind(s, p)) = k
  BY <1>2, <1>6
<1> QED
  BY <1>2, <1>6, <1>7 DEF k

\* A step of the master before the replica is listed, and a step of the
\* replica that processes no command, are stutters.
LEMMA Stutters ==
  ASSUME Inv, Inv',
         UNCHANGED <<executed, acks, processingOffset>>,
         stream' = stream \/ (Len(stream) <= 5 /\ Len(stream') <= 5)
  PROVE  UNCHANGED AsStream!vars
<1>1. Processed' = Processed /\ Processed \in Nat
  BY LinkFacts DEF Processed
<1>2. CASE stream' = stream
  <2>1. Unprocessed' = Unprocessed
    BY <1>1, <1>2, UnprocessedIsBehind
  <2> QED
    BY <2>1 DEF AsStream!vars
<1>3. CASE Len(stream) <= 5 /\ Len(stream') <= 5
  <2>1. stream \in Seq(Messages) /\ stream' \in Seq(Messages)
    BY DEF Inv, TypeOK
  <2>2. Len(stream) <= Preamble + Processed /\ Len(stream') <= Preamble + Processed
    BY <1>1, <1>3, <2>1, LenProperties DEF Preamble
  <2>3. Unprocessed = << >> /\ Unprocessed' = << >>
    BY <1>1, <2>1, <2>2, NothingBehind, UnprocessedIsBehind
  <2> QED
    BY <2>3 DEF AsStream!vars
<1> QED
  BY <1>2, <1>3

\* No more is processed than was propagated.
LEMMA ProcessedWritten ==
  ASSUME Inv, Len(stream) >= 5
  PROVE  Preamble + Processed <= Len(stream)
<1>1. CASE handshakeStep < 4 \/ rdbFileExpected
  <2>1. Processed = 0
    BY <1>1 DEF Inv, Alternating, Processed
  <2> QED
    BY <2>1, LinkFacts DEF Preamble
<1>2. CASE ~ (handshakeStep < 4 \/ rdbFileExpected)
  <2>1. Consumed = Preamble + Processed
    BY <1>2 DEF Consumed
  <2> QED
    BY <2>1 DEF Inv, Aligned
<1> QED
  BY <1>1, <1>2

\* To propagate a command appends it to those that are pending.
LEMMA PropagateAppends ==
  ASSUME Inv, Inv', NEW c \in Commands, Propagate(c)
  PROVE  AsStream!Propagate(c)
<1>1. UNCHANGED <<executed, acks, processingOffset>> /\ stream' = Wrote(c.kind, c.len)
  BY DEF Propagate, handlerVars
<1>2. Processed' = Processed /\ Processed \in Nat /\ Len(stream) \in Nat
  BY <1>1, LinkFacts DEF Processed
<1>3. Len(stream) >= 5
  BY HandshakeFacts DEF Propagate
<1> DEFINE e == Written + c.len
           m == [kind |-> c.kind, len |-> c.len, end |-> e]
           k == Len(stream) - Preamble - Processed
           u == Behind(stream, Processed)
           v == Behind(stream', Processed)
<1>4. stream \in Seq(Messages) /\ stream' \in Seq(Messages)
  BY DEF Inv, TypeOK
<1>5. stream' = Append(stream, m)
  BY <1>1 DEF Wrote
<1>6. m.kind = c.kind /\ m.len = c.len /\ Command(m) = c
  BY DEF Command, Commands
<1> HIDE DEF e, m
<1>7. /\ Len(stream') = Len(stream) + 1
      /\ \A n \in 1..Len(stream) : stream'[n] = stream[n]
      /\ stream'[Len(stream) + 1] = m
  BY <1>4, <1>5
<1>8. Preamble + Processed <= Len(stream)
  BY <1>3, ProcessedWritten
<1>9. /\ u \in Seq(Commands) /\ Len(u) = k /\ k \in Nat
      /\ \A n \in 1..k : u[n] = Command(stream[Preamble + Processed + n])
  BY <1>2, <1>4, <1>8, BehindFacts DEF Inv
<1>10. KindsInOrder(stream')
  BY DEF Inv
<1>11. /\ Preamble + Processed <= Len(stream')
       /\ Len(stream') - Preamble - Processed = k + 1
  BY <1>2, <1>7, <1>8 DEF Preamble
<1>12. /\ v \in Seq(Commands) /\ Len(v) = k + 1
       /\ \A n \in 1..(k + 1) : v[n] = Command(stream'[Preamble + Processed + n])
  BY <1>2, <1>4, <1>10, <1>11, BehindFacts
<1>13. \A n \in 1..k : Preamble + Processed + n \in 1..Len(stream)
  BY <1>2 DEF Preamble
<1>14. Preamble + Processed + (k + 1) = Len(stream) + 1
  BY <1>2 DEF Preamble
<1> HIDE DEF k, u, v
<1>15. /\ Append(u, c) \in Seq(Commands) /\ Len(Append(u, c)) = k + 1
       /\ \A n \in 1..k : Append(u, c)[n] = u[n]
       /\ Append(u, c)[k + 1] = c
  BY <1>9, AppendProperties
<1>16. \A n \in 1..(k + 1) : v[n] = Append(u, c)[n]
  <2> SUFFICES ASSUME NEW n \in 1..(k + 1) PROVE v[n] = Append(u, c)[n]
    OBVIOUS
  <2>1. v[n] = Command(stream'[Preamble + Processed + n])
    BY <1>12
  <2>2. CASE n \in 1..k
    BY <2>1, <2>2, <1>7, <1>9, <1>13, <1>15
  <2>3. CASE n = k + 1
    BY <2>1, <2>3, <1>6, <1>7, <1>14, <1>15
  <2> QED
    BY <2>2, <2>3, <1>9
<1>17. v = Append(u, c)
  BY <1>12, <1>15, <1>16, SeqEqual
<1>18. Unprocessed = u /\ Unprocessed' = v
  BY <1>2, UnprocessedIsBehind DEF u, v
<1> QED
  BY <1>1, <1>17, <1>18 DEF AsStream!Propagate

\* To process a command takes the first that is pending.
LEMMA CommandExecutes ==
  ASSUME Inv, Inv', NEW i \in DOMAIN stream, PropagatedCommand(i)
  PROVE  AsStream!Execute
<1> DEFINE k == Len(stream) - Preamble - Processed
           u == Behind(stream, Processed)
           v == Behind(stream, Processed + 1)
<1>1. /\ i \in 1..Len(stream) /\ i = Preamble + Processed + 1
      /\ Processed' = Processed + 1 /\ Processed \in Nat
      /\ stream' = stream /\ Len(stream) \in Nat
      /\ processingOffset' = processingOffset + stream[i].len
  BY CommandFacts, LinkFacts DEF PropagatedCommand
<1>2. stream \in Seq(Messages) /\ KindsInOrder(stream)
  BY DEF Inv, TypeOK
<1>3. Preamble + Processed + 1 <= Len(stream) /\ k \in Nat /\ k >= 1
  BY <1>1 DEF Preamble
<1>4. /\ u \in Seq(Commands) /\ Len(u) = k
      /\ \A n \in 1..k : u[n] = Command(stream[Preamble + Processed + n])
  <2>1. Preamble + Processed <= Len(stream)
    BY <1>1, <1>3 DEF Preamble
  <2> QED
    BY <1>1, <1>2, <2>1, BehindFacts
<1>5. /\ v \in Seq(Commands) /\ Len(v) = k - 1
      /\ \A n \in 1..(k - 1) : v[n] = Command(stream[Preamble + (Processed + 1) + n])
  <2>1. Preamble + (Processed + 1) <= Len(stream) /\ Processed + 1 \in Nat
    BY <1>1, <1>3 DEF Preamble
  <2>2. Len(stream) - Preamble - (Processed + 1) = k - 1
    BY <1>1 DEF Preamble
  <2> QED
    BY <1>2, <2>1, <2>2, BehindFacts
<1>6. \A n \in 1..(k - 1) :
        /\ n + 1 \in 1..k
        /\ Preamble + (Processed + 1) + n = Preamble + Processed + (n + 1)
  BY <1>1, <1>3 DEF Preamble
<1> HIDE DEF k, u, v
<1>7. u # << >> /\ Head(u) = Command(stream[i])
  BY <1>1, <1>3, <1>4
<1>8. v = Tail(u)
  <2>1. /\ Tail(u) \in Seq(Commands) /\ Len(Tail(u)) = k - 1
        /\ \A n \in 1..(k - 1) : Tail(u)[n] = u[n + 1]
    BY <1>4, <1>7, HeadTailProperties
  <2>2. \A n \in 1..(k - 1) : v[n] = Tail(u)[n]
    BY <2>1, <1>4, <1>5, <1>6
  <2> QED
    BY <2>1, <2>2, <1>5, SeqEqual
<1>9. Unprocessed = u /\ Unprocessed' = v
  BY <1>1, UnprocessedIsBehind DEF u, v
<1>10. Head(u).kind = stream[i].kind /\ Head(u).len = stream[i].len
  BY <1>7 DEF Command
<1>11. acks' = IF Head(u).kind = "getack" THEN Append(acks, processingOffset) ELSE acks
  BY <1>10 DEF PropagatedCommand, AckOffset
<1> QED
  BY <1>1, <1>7, <1>8, <1>9, <1>10, <1>11 DEF AsStream!Execute

\* The link implements CommandStream, what Replication takes it for: every
\* propagated command is executed once, in order, and a GETACK is answered
\* with the bytes of the commands in front of it.
THEOREM LinkImplements == Spec => ImplementsCommandStream
<1>1. Init => AsStream!Init
  <2> SUFFICES ASSUME Init PROVE AsStream!Init
    OBVIOUS
  <2>1. stream \in Seq(Messages) /\ Len(stream) = 0 /\ Processed = 0
    BY DEF Init, Processed
  <2>2. Len(stream) <= Preamble + Processed /\ Processed \in Nat
    BY <2>1 DEF Preamble
  <2>3. Behind(stream, Processed) = << >>
    BY <2>1, <2>2, NothingBehind
  <2>4. Unprocessed = << >>
    BY <2>3, UnprocessedIsBehind
  <2> QED
    BY <2>4 DEF Init, AsStream!Init
<1>2. Inv /\ Inv' /\ [Next]_vars => [AsStream!Next]_(AsStream!vars)
  <2> SUFFICES ASSUME Inv, Inv', [Next]_vars PROVE [AsStream!Next]_(AsStream!vars)
    OBVIOUS
  <2>1. CASE Master
    <3>1. UNCHANGED <<executed, acks, processingOffset>>
      BY <2>1 DEF Master, MasterReplies, MasterPsync, handlerVars
    <3>2. requests # << >>
      BY <2>1 DEF Master, MasterReplies, MasterPsync
    <3>3. Len(stream) <= 3
      BY <3>2 DEF Inv, Alternating, TypeOK
    <3>4. Len(stream') <= 5
      <4>1. Len(stream') = Len(stream) + 1 \/ Len(stream') = Len(stream) + 2
        BY <2>1 DEF Master, MasterReplies, MasterPsync, Wrote, Inv, TypeOK
      <4> QED
        BY <4>1, <3>3, LinkFacts
    <3> QED
      BY <3>1, <3>3, <3>4, Stutters, LinkFacts
  <2>2. CASE \E c \in Commands : Propagate(c)
    BY <2>2, PropagateAppends DEF AsStream!Next
  <2>3. CASE Stop \/ (\E n \in 1..(Written - received) : Arrive(n)) \/ UNCHANGED vars
    <3>1. UNCHANGED <<stream, executed, acks, processingOffset>>
      BY <2>3 DEF Stop, Arrive, vars, handlerVars
    <3> QED
      BY <3>1, Stutters
  <2>4. CASE \E i \in DOMAIN stream : HandshakeLine(i) \/ RdbFile(i)
    <3>1. UNCHANGED <<stream, executed, acks, processingOffset>>
      BY <2>4 DEF HandshakeLine, RdbFile
    <3> QED
      BY <3>1, Stutters
  <2>5. CASE \E i \in DOMAIN stream : PropagatedCommand(i)
    BY <2>5, CommandExecutes DEF AsStream!Next
  <2> QED
    BY <2>1, <2>2, <2>3, <2>4, <2>5 DEF Next, Turn
<1> QED
  BY <1>1, <1>2, Invariance, PTL DEF Spec, ImplementsCommandStream, AsStream!Spec
=============================================================================
