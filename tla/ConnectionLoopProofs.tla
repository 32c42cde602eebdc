------------------------ MODULE ConnectionLoopProofs ------------------------
(***************************************************************************)
(* A connection executes and answers each command once, in order, however  *)
(* many commands are sent, however long they are and wherever the network  *)
(* cuts the stream, as long as no command blocks or the client pipelines   *)
(* nothing behind one that may.                                            *)
(***************************************************************************)
EXTENDS ConnectionLoop, SequenceTheorems, TLAPS

\* What the client or the commands have to guarantee.
Serial == Kinds = {"plain"} \/ ~ Impatient

\* Where the n-th command of the stream ends.
EndOf(s, n) == IF n = 0 THEN 0 ELSE s[n].end

\* The stream is one command after the other.
StreamLaidOut ==
  /\ \A i \in 1..Len(sent) : sent[i].end - sent[i].len = EndOf(sent, i - 1)
  /\ \A i, j \in 0..Len(sent) : i < j => EndOf(sent, i) < EndOf(sent, j)
  /\ received <= EndOf(sent, Len(sent))

\* The buffer begins after the commands that were answered.
AnswersAligned ==
  /\ Len(replies) <= Len(sent)
  /\ start = EndOf(sent, Len(replies))

\* Nothing is awaited, or the last command sent is, by one activation.
Awaiting ==
  \/ /\ Len(executed) = Len(replies)
     /\ parked = [i \in Places |-> 0]
  \/ /\ Len(executed) = Len(replies) + 1
     /\ Len(sent) = Len(replies) + 1
     /\ parked = [i \in Places |-> IF i = Len(sent) THEN 1 ELSE 0]
     /\ received = EndOf(sent, Len(sent))
     /\ ~ running
     /\ ~ Impatient
     /\ sent[Len(sent)].kind = "blocking"

\* A patient client sent nothing behind a command that may be blocked.
NothingBehind ==
  ~ Impatient =>
    \A i \in 1..Len(sent) :
      sent[i].kind = "blocking" /\ Len(replies) < i => i = Len(sent)

\* The inductive invariant.
Inv ==
  /\ TypeOK /\ Len(sent) <= MaxSent
  /\ StreamLaidOut /\ AnswersAligned /\ InStreamOrder /\ Awaiting /\ NothingBehind

-----------------------------------------------------------------------------
\* The state of the stream, in the terms the steps need.
LEMMA StreamFacts ==
  ASSUME Inv
  PROVE  /\ sent \in Seq([kind : Kinds, len : Lens, end : Nat])
         /\ Len(sent) \in Nat /\ DOMAIN sent = 1..Len(sent)
         /\ \A i \in 1..Len(sent) : /\ sent[i].kind \in Kinds
                                    /\ sent[i].len \in Nat /\ sent[i].len > 0
                                    /\ sent[i].end \in Nat
         /\ \A i \in 0..Len(sent) : EndOf(sent, i) \in Nat
         /\ Written = EndOf(sent, Len(sent))
         /\ Len(replies) \in Nat /\ DOMAIN replies = 1..Len(replies)
         /\ Len(executed) \in Nat /\ DOMAIN executed = 1..Len(executed)
         /\ received \in Nat /\ start \in Nat /\ MaxSent \in Nat
<1>1. /\ sent \in Seq([kind : Kinds, len : Lens, end : Nat])
      /\ replies \in Seq(Places) /\ executed \in Seq(Places)
      /\ received \in Nat /\ start \in 0..received
  BY DEF Inv, TypeOK
<1>2. /\ Len(sent) \in Nat /\ DOMAIN sent = 1..Len(sent)
      /\ Len(replies) \in Nat /\ DOMAIN replies = 1..Len(replies)
      /\ Len(executed) \in Nat /\ DOMAIN executed = 1..Len(executed)
  BY <1>1, LenProperties
<1>3. \A i \in 1..Len(sent) : sent[i] \in [kind : Kinds, len : Lens, end : Nat]
  BY <1>1, <1>2, ElementOfSeq
<1>4. \A i \in 1..Len(sent) : /\ sent[i].kind \in Kinds
                              /\ sent[i].len \in Nat /\ sent[i].len > 0
                              /\ sent[i].end \in Nat
  <2>1. \A l \in Lens : l \in Nat /\ l > 0
    BY ConnectionAssumption
  <2>2. \A i \in 1..Len(sent) : /\ sent[i].kind \in Kinds
                                /\ sent[i].len \in Lens
                                /\ sent[i].end \in Nat
    BY <1>3
  <2> QED
    BY <2>1, <2>2
<1>5. \A i \in 0..Len(sent) : EndOf(sent, i) \in Nat
  BY <1>2, <1>4 DEF EndOf
<1>6. Written = EndOf(sent, Len(sent))
  <2>1. sent = << >> <=> Len(sent) = 0
    BY <1>1, EmptySeq
  <2> QED
    BY <2>1 DEF Written, EndOf
<1> QED
  BY <1>1, <1>2, <1>4, <1>5, <1>6, ConnectionAssumption

\* The buffer begins with the command after the last answered, if with any,
\* and slicing it off leaves the buffer at the end of that command.
LEMMA HeadIsNext ==
  ASSUME Inv, NEW i \in DOMAIN sent, i \in Heads
  PROVE  /\ i = Len(replies) + 1
         /\ i \in Places
         /\ Slice(i) = EndOf(sent, i)
         /\ Slice(i) \in 0..received
<1>1. /\ i \in 1..Len(sent) /\ Len(sent) \in Nat /\ Len(replies) \in Nat /\ start \in Nat
      /\ sent[i].end \in Nat /\ sent[i].len \in Nat
  BY StreamFacts
<1>2. i \in Int /\ i - 1 \in 0..Len(sent) /\ Len(replies) \in 0..Len(sent)
  BY <1>1 DEF Inv, AnswersAligned
<1>3. sent[i].end - sent[i].len = start /\ sent[i].end <= received
  BY DEF Heads
<1>4. EndOf(sent, i - 1) = EndOf(sent, Len(replies))
  BY <1>1, <1>3 DEF Inv, StreamLaidOut, AnswersAligned
<1>5. EndOf(sent, Len(replies)) \in Nat
  BY <1>2, StreamFacts
<1>6. ~ (i - 1 < Len(replies)) /\ ~ (Len(replies) < i - 1)
  BY <1>2, <1>4, <1>5 DEF Inv, StreamLaidOut
<1>7. i = Len(replies) + 1
  BY <1>1, <1>2, <1>6
<1>8. Slice(i) = sent[i].end
  <2>1. start + sent[i].len = sent[i].end
    BY <1>1, <1>3
  <2> QED
    BY <1>3, <2>1 DEF Slice
<1>9. sent[i].end = EndOf(sent, i)
  BY <1>1 DEF EndOf
<1>10. i \in Places
  <2>1. Len(sent) <= MaxSent /\ MaxSent \in Nat
    BY ConnectionAssumption DEF Inv
  <2> QED
    BY <1>1, <2>1 DEF Places
<1>11. sent[i].end \in 0..received
  BY <1>1, <1>3, StreamFacts
<1> QED
  BY <1>7, <1>8, <1>9, <1>10, <1>11

\* One more command, executed or answered, in order.
LEMMA NextInOrder ==
  ASSUME NEW s \in Seq(Places), \A n \in DOMAIN s : s[n] = n, Len(s) + 1 \in Places
  PROVE  /\ Append(s, Len(s) + 1) \in Seq(Places)
         /\ Len(Append(s, Len(s) + 1)) = Len(s) + 1
         /\ \A n \in DOMAIN Append(s, Len(s) + 1) : Append(s, Len(s) + 1)[n] = n
<1> DEFINE t == Append(s, Len(s) + 1)
<1>1. /\ t \in Seq(Places) /\ Len(t) = Len(s) + 1
      /\ \A n \in 1..Len(s) : t[n] = s[n]
      /\ t[Len(s) + 1] = Len(s) + 1
  BY AppendProperties
<1>2. Len(s) \in Nat /\ DOMAIN s = 1..Len(s) /\ DOMAIN t = 1..(Len(s) + 1)
  BY <1>1, LenProperties
<1>3. \A n \in 1..(Len(s) + 1) : n \in 1..Len(s) \/ n = Len(s) + 1
  BY <1>2
<1> HIDE DEF t
<1>4. \A n \in DOMAIN t : t[n] = n
  BY <1>1, <1>2, <1>3
<1> QED
  BY <1>1, <1>4 DEF t

-----------------------------------------------------------------------------
\* A fresh connection.
LEMMA InitInv == Init => Inv
<1> SUFFICES ASSUME Init
             PROVE  Inv
  OBVIOUS
<1>1. /\ sent = << >> /\ executed = << >> /\ replies = << >>
      /\ received = 0 /\ start = 0 /\ running = FALSE
      /\ parked = [i \in Places |-> 0]
  BY DEF Init
<1>2. Len(sent) = 0 /\ Len(executed) = 0 /\ Len(replies) = 0
  BY <1>1
<1>3. TypeOK
  <2>1. \A S : << >> \in Seq(S)
    OBVIOUS
  <2>2. 0 \in 0..0 /\ 0 \in Nat /\ 0 \in 0..MaxParked
    BY ConnectionAssumption
  <2>3. [i \in Places |-> 0] \in [Places -> 0..MaxParked]
    BY <2>2
  <2> QED
    BY <1>1, <2>1, <2>2, <2>3 DEF TypeOK
<1>4. StreamLaidOut /\ AnswersAligned /\ NothingBehind
  BY <1>1, <1>2 DEF StreamLaidOut, AnswersAligned, NothingBehind, EndOf
<1>5. InStreamOrder
  BY <1>1 DEF InStreamOrder
<1>6. Awaiting
  BY <1>1, <1>2 DEF Awaiting
<1> QED
  BY <1>2, <1>3, <1>4, <1>5, <1>6, ConnectionAssumption DEF Inv

\* A command is sent: the stream grows at its end.
LEMMA SendKeepsInv ==
  ASSUME Inv, NEW kind \in Kinds, NEW len \in Lens, Send(kind, len)
  PROVE  Inv'
<1> DEFINE m == [kind |-> kind, len |-> len, end |-> Written + len]
<1>1. /\ Len(sent) < MaxSent
      /\ Impatient \/ \A i \in DOMAIN sent : sent[i].kind = "blocking" => i <= Len(replies)
      /\ sent' = Append(sent, m)
      /\ UNCHANGED <<received, start, running, parked, executed, replies>>
  BY DEF Send
<1>2. /\ Len(sent) \in Nat /\ Written = EndOf(sent, Len(sent)) /\ Written \in Nat
      /\ \A i \in 0..Len(sent) : EndOf(sent, i) \in Nat
      /\ sent \in Seq([kind : Kinds, len : Lens, end : Nat])
      /\ Len(replies) \in Nat /\ Len(executed) \in Nat /\ received \in Nat /\ MaxSent \in Nat
  BY StreamFacts
<1>3. len \in Nat /\ len > 0
  BY ConnectionAssumption
<1>4. m \in [kind : Kinds, len : Lens, end : Nat] /\ m.end = Written + len /\ m.len = len
  BY <1>2, <1>3
<1> HIDE DEF m
<1>5. /\ sent' \in Seq([kind : Kinds, len : Lens, end : Nat])
      /\ Len(sent') = Len(sent) + 1
      /\ \A i \in 1..Len(sent) : sent'[i] = sent[i]
      /\ sent'[Len(sent) + 1] = m
  BY <1>1, <1>2, <1>4, AppendProperties
<1>6. /\ \A i \in 0..Len(sent) : EndOf(sent', i) = EndOf(sent, i)
      /\ EndOf(sent', Len(sent) + 1) = EndOf(sent, Len(sent)) + len
  <2>1. Len(sent) + 1 # 0
    BY <1>2
  <2>2. \A i \in 0..Len(sent) : i = 0 \/ i \in 1..Len(sent)
    BY <1>2
  <2> QED
    BY <1>2, <1>4, <1>5, <2>1, <2>2 DEF EndOf
<1>7. TypeOK' /\ Len(sent') <= MaxSent
  BY <1>1, <1>2, <1>5 DEF Inv, TypeOK
<1>8. StreamLaidOut'
  <2>1. ASSUME NEW i \in 1..(Len(sent) + 1)
        PROVE  sent'[i].end - sent'[i].len = EndOf(sent', i - 1)
    <3>1. CASE i = Len(sent) + 1
      <4>1. EndOf(sent', i - 1) = EndOf(sent, Len(sent))
        BY <1>2, <1>6, <3>1
      <4> QED
        BY <1>2, <1>3, <1>4, <1>5, <3>1, <4>1
    <3>2. CASE i \in 1..Len(sent)
      <4>1. i - 1 \in 0..Len(sent)
        BY <1>2, <3>2
      <4>2. EndOf(sent', i - 1) = EndOf(sent, i - 1)
        BY <1>6, <4>1
      <4> QED
        BY <1>5, <3>2, <4>2 DEF Inv, StreamLaidOut
    <3> QED
      BY <1>2, <3>1, <3>2
  <2>2. ASSUME NEW i \in 0..(Len(sent) + 1), NEW j \in 0..(Len(sent) + 1), i < j
        PROVE  EndOf(sent', i) < EndOf(sent', j)
    <3>1. i \in 0..Len(sent)
      BY <1>2, <2>2
    <3>2. EndOf(sent', i) = EndOf(sent, i) /\ EndOf(sent, i) \in Nat
      BY <1>2, <1>6, <3>1
    <3>3. CASE j = Len(sent) + 1
      <4>1. EndOf(sent, i) <= EndOf(sent, Len(sent))
        <5>1. i = Len(sent) \/ i < Len(sent)
          BY <1>2, <3>1
        <5>2. Len(sent) \in 0..Len(sent) /\ EndOf(sent, Len(sent)) \in Nat
          BY <1>2
        <5> QED
          BY <3>1, <3>2, <5>1, <5>2 DEF Inv, StreamLaidOut
      <4> QED
        BY <1>2, <1>3, <1>6, <3>2, <3>3, <4>1
    <3>4. CASE j \in 0..Len(sent)
      BY <1>6, <2>2, <3>1, <3>2, <3>4 DEF Inv, StreamLaidOut
    <3> QED
      BY <1>2, <3>3, <3>4
  <2>3. received' <= EndOf(sent', Len(sent) + 1)
    BY <1>1, <1>2, <1>3, <1>6 DEF Inv, StreamLaidOut
  <2> QED
    BY <1>5, <2>1, <2>2, <2>3 DEF StreamLaidOut
<1>9. AnswersAligned'
  <2>1. Len(replies) \in 0..Len(sent)
    BY <1>2 DEF Inv, AnswersAligned
  <2> QED
    BY <1>1, <1>2, <1>5, <1>6, <2>1 DEF Inv, AnswersAligned
<1>10. InStreamOrder'
  BY <1>1 DEF Inv, InStreamOrder
<1>11. Awaiting'
  <2>1. CASE /\ Len(executed) = Len(replies)
             /\ parked = [i \in Places |-> 0]
    BY <1>1, <2>1 DEF Awaiting
  <2>2. CASE ~ Impatient /\ Len(sent) = Len(replies) + 1 /\ sent[Len(sent)].kind = "blocking"
    <3>1. Len(sent) \in DOMAIN sent
      BY <1>2, <2>2, LenProperties
    <3>2. Len(sent) <= Len(replies)
      BY <1>1, <2>2, <3>1
    <3> QED
      BY <1>2, <2>2, <3>2
  <2> QED
    BY <2>1, <2>2 DEF Inv, Awaiting
<1>12. NothingBehind'
  <2> SUFFICES ASSUME ~ Impatient, NEW i \in 1..(Len(sent) + 1),
                      sent'[i].kind = "blocking", Len(replies) < i
               PROVE  i = Len(sent) + 1
    BY <1>1, <1>5 DEF NothingBehind
  <2>1. CASE i \in 1..Len(sent)
    <3>1. i \in DOMAIN sent /\ sent[i].kind = "blocking"
      BY <1>2, <1>5, <2>1, LenProperties
    <3> QED
      BY <1>1, <1>2, <3>1
  <2> QED
    BY <1>2, <2>1
<1> QED
  BY <1>7, <1>8, <1>9, <1>10, <1>11, <1>12 DEF Inv

\* Bytes arrive, or an activation ends: nothing but the buffer changes.
LEMMA ArriveKeepsInv ==
  ASSUME Inv, NEW n \in 1..(Written - received), Arrive(n)
  PROVE  Inv'
<1>1. /\ received + n <= Written /\ received' = received + n /\ running' = TRUE
      /\ UNCHANGED <<sent, start, parked, executed, replies>>
  BY DEF Arrive
<1>2. Written = EndOf(sent, Len(sent)) /\ Written \in Nat /\ received \in Nat /\ start \in 0..received /\ n \in Nat /\ n > 0
  <2>1. Len(sent) \in 0..Len(sent)
    BY StreamFacts
  <2>2. Written = EndOf(sent, Len(sent)) /\ Written \in Nat /\ received \in Nat
    BY <2>1, StreamFacts
  <2> QED
    BY <2>2 DEF Inv, TypeOK
<1>3. TypeOK'
  BY <1>1, <1>2 DEF Inv, TypeOK
<1>4. StreamLaidOut'
  BY <1>1, <1>2 DEF Inv, StreamLaidOut, EndOf
<1>5. AnswersAligned' /\ InStreamOrder' /\ NothingBehind'
  BY <1>1 DEF Inv, AnswersAligned, InStreamOrder, NothingBehind, EndOf
<1>6. Awaiting'
  <2>1. received # EndOf(sent, Len(sent))
    BY <1>1, <1>2
  <2> QED
    BY <1>1, <2>1 DEF Inv, Awaiting
<1> QED
  BY <1>1, <1>3, <1>4, <1>5, <1>6 DEF Inv

\* The activation ends.
LEMMA StopKeepsInv ==
  ASSUME Inv, Stop
  PROVE  Inv'
<1>1. running /\ running' = FALSE /\ UNCHANGED <<sent, received, start, parked, executed, replies>>
  BY DEF Stop
<1> QED
  BY <1>1 DEF Inv, TypeOK, StreamLaidOut, AnswersAligned, InStreamOrder, Awaiting,
              NothingBehind, EndOf

\* A command is executed and answered.
LEMMA AnswerKeepsInv ==
  ASSUME Inv, NEW i \in DOMAIN sent, Answer(i)
  PROVE  Inv'
<1>1. /\ running /\ i \in Heads
      /\ executed' = Append(executed, i) /\ replies' = Append(replies, i) /\ start' = Slice(i)
      /\ UNCHANGED <<sent, received, running, parked>>
  BY DEF Answer
<1>2. i = Len(replies) + 1 /\ i \in Places /\ start' = EndOf(sent, i) /\ start' \in 0..received
  BY <1>1, HeadIsNext
<1>3. Len(executed) = Len(replies) /\ parked = [p \in Places |-> 0]
  BY <1>1 DEF Inv, Awaiting
<1>4. /\ replies' \in Seq(Places) /\ Len(replies') = Len(replies) + 1
      /\ \A n \in DOMAIN replies' : replies'[n] = n
  BY <1>1, <1>2, NextInOrder DEF Inv, TypeOK, InStreamOrder
<1>5. /\ executed' \in Seq(Places) /\ Len(executed') = Len(executed) + 1
      /\ \A n \in DOMAIN executed' : executed'[n] = n
  BY <1>1, <1>2, <1>3, NextInOrder DEF Inv, TypeOK, InStreamOrder
<1>6. Len(replies) \in Nat /\ Len(sent) \in Nat /\ i \in 1..Len(sent)
  BY StreamFacts
<1>7. TypeOK'
  BY <1>1, <1>2, <1>4, <1>5 DEF Inv, TypeOK
<1>8. StreamLaidOut'
  BY <1>1 DEF Inv, StreamLaidOut, EndOf
<1>9. AnswersAligned'
  BY <1>1, <1>2, <1>4, <1>6 DEF AnswersAligned, EndOf
<1>10. InStreamOrder'
  BY <1>4, <1>5 DEF InStreamOrder
<1>11. Awaiting'
  BY <1>1, <1>3, <1>4, <1>5 DEF Awaiting
<1>12. NothingBehind'
  BY <1>1, <1>4, <1>6 DEF Inv, NothingBehind
<1> QED
  BY <1>1, <1>7, <1>8, <1>9, <1>10, <1>11, <1>12 DEF Inv

\* A blocking command parks: then the client is patient, the command is the
\* last it sent, and all of it arrived.
LEMMA ParkKeepsInv ==
  ASSUME Serial, Inv, NEW i \in DOMAIN sent, Park(i)
  PROVE  Inv'
<1>1. /\ running /\ i \in Heads /\ sent[i].kind = "blocking" /\ parked[i] < MaxParked
      /\ executed' = Append(executed, i) /\ parked' = [parked EXCEPT ![i] = @ + 1]
      /\ running' = FALSE
      /\ UNCHANGED <<sent, received, start, replies>>
  BY DEF Park
<1>2. i = Len(replies) + 1 /\ i \in Places
  BY <1>1, HeadIsNext
<1>3. Len(executed) = Len(replies) /\ parked = [p \in Places |-> 0]
  BY <1>1 DEF Inv, Awaiting
<1>4. /\ Len(replies) \in Nat /\ Len(sent) \in Nat /\ i \in 1..Len(sent)
      /\ sent[i].kind \in Kinds /\ received \in Nat /\ EndOf(sent, Len(sent)) \in Nat
  <2>1. Len(sent) \in 0..Len(sent)
    BY StreamFacts
  <2> QED
    BY <2>1, StreamFacts
<1>5. ~ Impatient
  BY <1>1, <1>4 DEF Serial
<1>6. Len(sent) = Len(replies) + 1 /\ i = Len(sent)
  BY <1>1, <1>2, <1>4, <1>5 DEF Inv, NothingBehind
<1>7. received = EndOf(sent, Len(sent))
  <2>1. sent[i].end <= received
    BY <1>1 DEF Heads
  <2>2. EndOf(sent, Len(sent)) = sent[i].end
    BY <1>4, <1>6 DEF EndOf
  <2> QED
    BY <1>4, <2>1, <2>2 DEF Inv, StreamLaidOut
<1>8. /\ executed' \in Seq(Places) /\ Len(executed') = Len(executed) + 1
      /\ \A n \in DOMAIN executed' : executed'[n] = n
  BY <1>1, <1>2, <1>3, NextInOrder DEF Inv, TypeOK, InStreamOrder
<1>9. parked' = [p \in Places |-> IF p = Len(sent) THEN 1 ELSE 0]
  BY <1>1, <1>2, <1>3, <1>6
<1>10. TypeOK'
  <2>1. parked' \in [Places -> 0..MaxParked]
    <3>1. 0 < MaxParked /\ MaxParked \in Nat
      BY <1>1, <1>2, <1>3, ConnectionAssumption
    <3> QED
      BY <1>9, <3>1
  <2> QED
    BY <1>1, <1>8, <2>1 DEF Inv, TypeOK
<1>11. StreamLaidOut' /\ AnswersAligned' /\ NothingBehind'
  BY <1>1 DEF Inv, StreamLaidOut, AnswersAligned, NothingBehind, EndOf
<1>12. InStreamOrder'
  BY <1>1, <1>8 DEF Inv, InStreamOrder
<1>13. Awaiting'
  BY <1>1, <1>3, <1>5, <1>6, <1>7, <1>8, <1>9 DEF Awaiting, EndOf
<1> QED
  BY <1>1, <1>10, <1>11, <1>12, <1>13 DEF Inv

\* The command that was awaited is the one that is answered.
LEMMA ResumedIsLast ==
  ASSUME Inv, NEW i \in DOMAIN sent, Resume(i)
  PROVE  /\ Len(executed) = Len(replies) + 1
         /\ Len(sent) = Len(replies) + 1
         /\ i = Len(sent) /\ i \in Places
         /\ parked' = [p \in Places |-> 0]
         /\ Slice(i) = EndOf(sent, i) /\ Slice(i) \in 0..received
<1>1. ~ running /\ parked[i] > 0 /\ parked' = [parked EXCEPT ![i] = @ - 1]
  BY DEF Resume
<1>2. /\ i \in 1..Len(sent) /\ Len(sent) \in Nat /\ Len(replies) \in Nat /\ received \in Nat
      /\ sent[i].len \in Nat /\ sent[i].end \in Nat /\ i \in Places
  BY StreamFacts DEF Inv, Places
<1>3. /\ Len(executed) = Len(replies) + 1
      /\ Len(sent) = Len(replies) + 1
      /\ parked = [p \in Places |-> IF p = Len(sent) THEN 1 ELSE 0]
      /\ received = EndOf(sent, Len(sent))
  BY <1>1, <1>2 DEF Inv, Awaiting
<1>4. i = Len(sent)
  BY <1>1, <1>2, <1>3
<1>5. parked' = [p \in Places |-> 0]
  BY <1>1, <1>2, <1>3, <1>4
<1>6. Slice(i) = EndOf(sent, i) /\ EndOf(sent, i) = sent[i].end
  <2>1. start = EndOf(sent, i - 1) /\ sent[i].end - sent[i].len = EndOf(sent, i - 1) /\ start \in Nat
    <3>1. Len(replies) = i - 1
      BY <1>2, <1>3, <1>4
    <3>2. start = EndOf(sent, i - 1)
      BY <3>1 DEF Inv, AnswersAligned
    <3>3. sent[i].end - sent[i].len = EndOf(sent, i - 1)
      BY <1>2 DEF Inv, StreamLaidOut
    <3>4. start \in Nat
      BY StreamFacts
    <3> QED
      BY <3>2, <3>3, <3>4
  <2>2. EndOf(sent, i) = sent[i].end /\ received = sent[i].end
    BY <1>2, <1>3, <1>4 DEF EndOf
  <2>3. start + sent[i].len = sent[i].end
    BY <1>2, <2>1
  <2> QED
    BY <1>2, <2>2, <2>3 DEF Slice
<1> QED
  BY <1>2, <1>3, <1>4, <1>5, <1>6

\* A parked command is answered.
LEMMA ResumeKeepsInv ==
  ASSUME Inv, NEW i \in DOMAIN sent, Resume(i)
  PROVE  Inv'
<1>1. /\ replies' = Append(replies, i) /\ start' = Slice(i) /\ running' = TRUE
      /\ UNCHANGED <<sent, received, executed>>
  BY DEF Resume
<1>2. /\ Len(executed) = Len(replies) + 1
      /\ Len(sent) = Len(replies) + 1
      /\ i = Len(sent) /\ i \in Places
      /\ parked' = [p \in Places |-> 0]
      /\ start' = EndOf(sent, i) /\ start' \in 0..received
  BY <1>1, ResumedIsLast
<1>3. /\ replies' \in Seq(Places) /\ Len(replies') = Len(replies) + 1
      /\ \A n \in DOMAIN replies' : replies'[n] = n
  <2>1. i = Len(replies) + 1
    BY <1>2
  <2> QED
    BY <1>1, <1>2, <2>1, NextInOrder DEF Inv, TypeOK, InStreamOrder
<1>4. Len(replies) \in Nat /\ Len(sent) \in Nat
  BY StreamFacts
<1>5. TypeOK'
  <2>1. parked' \in [Places -> 0..MaxParked]
    BY <1>2, ConnectionAssumption
  <2> QED
    BY <1>1, <1>2, <1>3, <2>1 DEF Inv, TypeOK
<1>6. StreamLaidOut'
  BY <1>1 DEF Inv, StreamLaidOut, EndOf
<1>7. AnswersAligned'
  BY <1>1, <1>2, <1>3, <1>4 DEF AnswersAligned, EndOf
<1>8. InStreamOrder'
  BY <1>1, <1>3 DEF Inv, InStreamOrder
<1>9. Awaiting'
  BY <1>1, <1>2, <1>3 DEF Awaiting
<1>10. NothingBehind'
  BY <1>1, <1>3, <1>4 DEF Inv, NothingBehind
<1> QED
  BY <1>1, <1>5, <1>6, <1>7, <1>8, <1>9, <1>10 DEF Inv

\* Every step keeps the invariant.
LEMMA NextInv ==
  ASSUME Serial
  PROVE  Inv /\ [Next]_vars => Inv'
<1> SUFFICES ASSUME Inv, [Next]_vars
             PROVE  Inv'
  OBVIOUS
<1>1. CASE UNCHANGED vars
  BY <1>1 DEF vars, Inv, TypeOK, StreamLaidOut, AnswersAligned, InStreamOrder, Awaiting,
              NothingBehind, EndOf
<1> QED
  BY <1>1, SendKeepsInv, ArriveKeepsInv, StopKeepsInv, AnswerKeepsInv, ParkKeepsInv,
     ResumeKeepsInv DEF Next

-----------------------------------------------------------------------------
(* The theorems.                                                           *)

\* The inductive invariant holds of every reachable state of a connection
\* whose commands never block, or whose client is patient.
THEOREM Invariance == Serial => (Spec => []Inv)
<1> SUFFICES ASSUME Serial
             PROVE  Spec => []Inv
  OBVIOUS
<1>1. Inv /\ [Next]_vars => Inv'
  BY NextInv
<1> QED
  BY <1>1, InitInv, PTL DEF Spec

\* The connection's state and the handler's have their types: the handler
\* executes and answers commands that were sent, and consumes no more bytes
\* than arrived.
THEOREM TypeCorrect == Serial => (Spec => []TypeOK)
<1> SUFFICES ASSUME Serial
             PROVE  Spec => []TypeOK
  OBVIOUS
<1>1. Inv => TypeOK
  BY DEF Inv
<1> QED
  BY <1>1, Invariance, PTL

\* Every command is executed once and answered once, in the order in which
\* it was sent (the data handler of Server.ts).
THEOREM CommandsInOrder == Serial => (Spec => []InStreamOrder)
<1> SUFFICES ASSUME Serial
             PROVE  Spec => []InStreamOrder
  OBVIOUS
<1>1. Inv => InStreamOrder
  BY DEF Inv
<1> QED
  BY <1>1, Invariance, PTL

\* No two activations of the handler await the same command.
THEOREM AwaitedOnce == Serial => (Spec => []OneActivation)
<1> SUFFICES ASSUME Serial
             PROVE  Spec => []OneActivation
  OBVIOUS
<1>1. Inv => OneActivation
  BY DEF Inv, Awaiting, OneActivation
<1> QED
  BY <1>1, Invariance, PTL

\* Every command gets one response, as README.md:47 promises, as long as the
\* client pipelines nothing behind a command that may block: pipelining is
\* all it takes to break that (the run ConnectionReentrant).
THEOREM OneResponseEach == Serial => (Spec => []OneResponse)
<1> SUFFICES ASSUME Serial
             PROVE  Spec => []OneResponse
  OBVIOUS
<1>1. Inv => OneResponse
  BY DEF Inv, InStreamOrder, OneResponse
<1> QED
  BY <1>1, Invariance, PTL

\* The handler implements RequestReply: each of its steps is a step of the
\* abstract connection or leaves that unchanged.
THEOREM Implementation == Serial => (Spec => ImplementsRequestReply)
<1> SUFFICES ASSUME Serial
             PROVE  Spec => ImplementsRequestReply
  OBVIOUS
<1>1. Init => Client!Init
  BY DEF Init, Client!Init
<1>2. Inv /\ [Next]_vars => [Client!Next]_(Client!vars)
  <2> SUFFICES ASSUME Inv, [Next]_vars
               PROVE  [Client!Next]_(Client!vars)
    OBVIOUS
  <2> USE DEF Client!vars
  <2>1. ASSUME NEW kind \in Kinds, NEW len \in Lens, Send(kind, len)
        PROVE  Client!Ask
    <3>1. Len(sent') = Len(sent) + 1
      BY <2>1, StreamFacts DEF Send
    <3> QED
      BY <2>1, <3>1 DEF Send, Client!Ask
  <2>2. ASSUME NEW n \in 1..(Written - received), Arrive(n)
        PROVE  UNCHANGED Client!vars
    BY <2>2 DEF Arrive
  <2>3. CASE Stop
    BY <2>3 DEF Stop
  <2>4. ASSUME NEW i \in DOMAIN sent, Answer(i)
        PROVE  Client!ExecuteAndReply
    <3>1. i \in Heads /\ executed' = Append(executed, i) /\ replies' = Append(replies, i) /\ sent' = sent
      BY <2>4 DEF Answer
    <3>2. Len(executed) = Len(replies)
      BY <2>4 DEF Answer, Inv, Awaiting
    <3>3. i = Len(replies) + 1 /\ i \in Places
      BY <3>1, HeadIsNext
    <3>4. i \in 1..Len(sent) /\ Len(sent) \in Nat /\ Len(replies) \in Nat
      BY StreamFacts
    <3>5. Len(executed') = Len(executed) + 1 /\ Len(replies') = Len(replies) + 1
      BY <3>1, <3>3, AppendProperties DEF Inv, TypeOK
    <3> QED
      BY <3>1, <3>2, <3>3, <3>4, <3>5 DEF Client!ExecuteAndReply
  <2>5. ASSUME NEW i \in DOMAIN sent, Park(i)
        PROVE  Client!Execute
    <3>1. i \in Heads /\ executed' = Append(executed, i) /\ replies' = replies /\ sent' = sent
      BY <2>5 DEF Park
    <3>2. Len(executed) = Len(replies)
      BY <2>5 DEF Park, Inv, Awaiting
    <3>3. i = Len(replies) + 1 /\ i \in Places
      BY <3>1, HeadIsNext
    <3>4. i \in 1..Len(sent) /\ Len(sent) \in Nat /\ Len(replies) \in Nat
      BY StreamFacts
    <3>5. Len(executed') = Len(executed) + 1
      BY <3>1, <3>3, AppendProperties DEF Inv, TypeOK
    <3> QED
      BY <3>1, <3>2, <3>3, <3>4, <3>5 DEF Client!Execute
  <2>6. ASSUME NEW i \in DOMAIN sent, Resume(i)
        PROVE  Client!Reply
    <3>1. replies' = Append(replies, i) /\ executed' = executed /\ sent' = sent
      BY <2>6 DEF Resume
    <3>2. Len(executed) = Len(replies) + 1 /\ i \in Places
      BY <2>6, ResumedIsLast
    <3>3. Len(replies') = Len(replies) + 1 /\ Len(replies) \in Nat
      BY <3>1, <3>2, AppendProperties, StreamFacts DEF Inv, TypeOK
    <3> QED
      BY <3>1, <3>2, <3>3 DEF Client!Reply
  <2>7. CASE UNCHANGED vars
    BY <2>7 DEF vars
  <2> QED
    BY <2>1, <2>2, <2>3, <2>4, <2>5, <2>6, <2>7 DEF Next, Client!Next
<1> QED
  BY <1>1, <1>2, Invariance, PTL DEF Spec, ImplementsRequestReply, Client!Spec
=============================================================================
