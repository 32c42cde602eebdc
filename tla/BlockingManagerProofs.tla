----------------------- MODULE BlockingManagerProofs -----------------------
(***************************************************************************)
(* What BlockingManager promises of the elements of the lists, for every   *)
(* number of keys, elements, clients and calls, and whether or not clients *)
(* pipeline their blocking pops.                                           *)
(***************************************************************************)
EXTENDS BlockingManager, ListLemmas, FiniteSetTheorems

\* A call in the queue of a key was dispatched, and listens on that key.
QueuedCallsListen ==
  \A k \in Keys : \A i \in ToSet(waitingQueues[k]) :
    status[i] # "idle" /\ k \in ToSet(listening[i])

\* What was taken had been pushed.
TakenWasPushed == \A e \in taken : pushedTo[e] # None

\* The inductive invariant.
Inv == TypeOK /\ AtMostOnePlace /\ ReplyIsHonest /\ QueuedCallsListen /\ TakenWasPushed

-----------------------------------------------------------------------------
(* The operators of the list service.                                      *)

\* A key that has an element holds a list.
LEMMA HasElementIsList ==
  ASSUME NEW s \in [Keys -> Values], NEW k \in Keys
  PROVE  /\ HasElement(s, k) => s[k] \in Seq(Elements) /\ s[k] # << >>
         /\ s[k] # StringValue => s[k] \in Seq(Elements)
BY DEF HasElement, Values

\* LPOP keeps the keyspace a keyspace and changes the one key.
LEMMA PopNStore ==
  ASSUME NEW s \in [Keys -> Values], NEW k \in Keys, NEW n \in Nat
  PROVE  /\ PopN(s, k, n) \in [Keys -> Values]
         /\ \A l \in Keys \ {k} : PopN(s, k, n)[l] = s[l]
         /\ HasElement(s, k) => PopN(s, k, n)[k] = SubSeq(s[k], n + 1, Len(s[k]))
         /\ ~ HasElement(s, k) => PopN(s, k, n) = s
<1>1. CASE HasElement(s, k)
  <2>1. SubSeq(s[k], n + 1, Len(s[k])) \in Seq(Elements)
    BY <1>1, HasElementIsList, DropFirst
  <2> QED
    BY <1>1, <2>1 DEF PopN, Values
<1>2. CASE ~ HasElement(s, k)
  BY <1>2 DEF PopN
<1> QED
  BY <1>1, <1>2

\* RPUSH keeps the keyspace a keyspace.
LEMMA AppendAllStore ==
  ASSUME NEW s \in [Keys -> Values], NEW k \in Keys, NEW es \in Seq(Elements)
  PROVE  AppendAll(s, k, es) \in [Keys -> Values]
<1>1. CASE s[k] = StringValue
  BY <1>1 DEF AppendAll
<1>2. CASE s[k] # StringValue
  <2>1. s[k] \o es \in Seq(Elements)
    BY <1>2, HasElementIsList, ConcatLists
  <2> QED
    BY <1>2, <2>1 DEF AppendAll, Values
<1> QED
  BY <1>1, <1>2

\* LPUSH keeps the keyspace a keyspace.
LEMMA PrependAllStore ==
  ASSUME NEW s \in [Keys -> Values], NEW k \in Keys, NEW es \in Seq(Elements)
  PROVE  PrependAll(s, k, es) \in [Keys -> Values]
<1>1. CASE s[k] = StringValue
  BY <1>1 DEF PrependAll
<1>2. CASE s[k] # StringValue
  <2>1. Reverse(es) \o s[k] \in Seq(Elements)
    BY <1>2, HasElementIsList, ReverseList, ConcatLists
  <2> QED
    BY <1>2, <2>1 DEF PrependAll, Values
<1> QED
  BY <1>1, <1>2

\* removeWaiter only takes calls out of queues.
LEMMA RemoveWaiterShrinks ==
  ASSUME NEW queues \in [Keys -> Seq(Calls)], NEW i
  PROVE  /\ RemoveWaiter(queues, i) \in [Keys -> Seq(Calls)]
         /\ \A k \in Keys : ToSet(RemoveWaiter(queues, i)[k]) \subseteq ToSet(queues[k])
<1>1. ASSUME NEW k \in Keys, NEW c
      PROVE  /\ RemoveFirstOf(queues[k], c) \in Seq(Calls)
             /\ ToSet(RemoveFirstOf(queues[k], c)) \subseteq ToSet(queues[k])
  <2> DEFINE q == queues[k]
             hits == {n \in DOMAIN q : connectionIdentifier[q[n]] = c}
  <2>1. q \in Seq(Calls)
    OBVIOUS
  <2>2. CASE hits = {}
    BY <2>1, <2>2 DEF RemoveFirstOf
  <2>3. CASE hits # {}
    <3>1. hits \in SUBSET Nat
      <4>1. DOMAIN q \subseteq Nat
        BY <2>1, LenProperties
      <4> QED
        BY <4>1
    <3>2. Min(hits) \in DOMAIN q
      BY <2>3, <3>1, MinIsMember
    <3>3. RemoveFirstOf(q, c) = RemoveAt(q, Min(hits))
      BY <2>3 DEF RemoveFirstOf
    <3> HIDE DEF hits
    <3> QED
      BY <2>1, <3>2, <3>3, RemoveOne
  <2> QED
    BY <2>2, <2>3
<1> QED
  BY <1>1 DEF RemoveWaiter

\* What a push may carry.
LEMMA BatchIsFresh ==
  ASSUME NEW es \in Batches
  PROVE  /\ es \in Seq(Elements)
         /\ es # << >>
         /\ IsInjective(es)
         /\ \A e \in ToSet(es) : e \in Elements /\ pushedTo[e] = None
<1> DEFINE Fresh == {e \in Elements : pushedTo[e] = None}
<1>1. PICK m \in 0..MaxPush : es \in [1..m -> Fresh]
  BY DEF Batches, SeqOf
<1>2. MaxPush \in Nat
  BY ConstantsAssumption
<1>3. m \in Nat
  BY <1>1, <1>2
<1>4. es \in Seq(Fresh)
  BY <1>1, <1>3, SeqDef
<1>5. ToSet(es) \subseteq Fresh
  BY <1>4, ToSetInBase
<1>6. es \in Seq(Elements)
  BY <1>4, SeqMonotonic
<1> QED
  BY <1>5, <1>6 DEF Batches

-----------------------------------------------------------------------------
(* The steps.                                                              *)

\* What notifyListPush does when it is called with a list: it stores the
\* list, or its tail when it serves the first parked call, and answers at
\* most that call, with the head.
LEMMA NotifyEffect ==
  ASSUME Inv, NEW k \in Keys, NEW list \in Seq(Elements), list # << >>,
         IsInjective(list), NotifyListPush(k, list)
  PROVE  /\ store' \in [Keys -> Values]
         /\ \A l \in Keys \ {k} : store'[l] = store[l]
         /\ store'[k] \in Seq(Elements) /\ IsInjective(store'[k])
         /\ ToSet(store'[k]) \subseteq ToSet(list)
         /\ waitingQueues' \in [Keys -> Seq(Calls)]
         /\ \A l \in Keys : ToSet(waitingQueues'[l]) \subseteq ToSet(waitingQueues[l])
         /\ \/ UNCHANGED <<status, reply>>
            \/ \E i \in Calls, e \in ToSet(list) :
                 /\ status[i] = "waiting" /\ k \in ToSet(listening[i])
                 /\ status' = [status EXCEPT ![i] = "done"]
                 /\ reply' = [reply EXCEPT ![i] = <<k, e>>]
                 /\ e \notin ToSet(store'[k])
<1> USE DEF Inv, TypeOK
<1>1. CASE /\ waitingQueues[k] = << >>
           /\ store' = [store EXCEPT ![k] = list]
           /\ UNCHANGED <<waitingQueues, status, reply>>
  BY <1>1 DEF Values
<1>2. CASE /\ waitingQueues[k] # << >>
           /\ LET waiter == Head(waitingQueues[k])
                  shifted == [waitingQueues EXCEPT ![k] = Tail(@)]
              IN  /\ store' = [store EXCEPT ![k] = Tail(list)]
                  /\ Resolve(waiter, Answer(waiter, k, Head(list)))
                  /\ waitingQueues' = RemoveWaiter(shifted, waiter)
  <2> DEFINE waiter == Head(waitingQueues[k])
             shifted == [waitingQueues EXCEPT ![k] = Tail(@)]
  <2>1. /\ store' = [store EXCEPT ![k] = Tail(list)]
        /\ Resolve(waiter, Answer(waiter, k, Head(list)))
        /\ waitingQueues' = RemoveWaiter(shifted, waiter)
    BY <1>2
  <2>2. /\ Tail(list) \in Seq(Elements) /\ IsInjective(Tail(list))
        /\ ToSet(Tail(list)) \subseteq ToSet(list)
        /\ Head(list) \in ToSet(list) /\ Head(list) \notin ToSet(Tail(list))
    BY HeadAndTail
  <2>3. /\ waitingQueues[k] \in Seq(Calls)
        /\ waiter \in ToSet(waitingQueues[k]) /\ waiter \in Calls
        /\ Tail(waitingQueues[k]) \in Seq(Calls)
        /\ ToSet(Tail(waitingQueues[k])) \subseteq ToSet(waitingQueues[k])
    BY <1>2, HeadAndTail, ToSetInBase
  <2>4. /\ shifted \in [Keys -> Seq(Calls)]
        /\ \A l \in Keys : ToSet(shifted[l]) \subseteq ToSet(waitingQueues[l])
    BY <2>3
  <2> HIDE DEF shifted
  <2>5. /\ waitingQueues' \in [Keys -> Seq(Calls)]
        /\ \A l \in Keys : ToSet(waitingQueues'[l]) \subseteq ToSet(waitingQueues[l])
    BY <2>1, <2>4, RemoveWaiterShrinks
  <2>6. k \in ToSet(listening[waiter])
    BY <2>3 DEF QueuedCallsListen
  <2> HIDE DEF waiter
  <2>7. /\ store' \in [Keys -> Values]
        /\ \A l \in Keys \ {k} : store'[l] = store[l]
        /\ store'[k] = Tail(list)
    BY <2>1, <2>2 DEF Values
  <2>8. \/ UNCHANGED <<status, reply>>
        \/ /\ status[waiter] = "waiting"
           /\ status' = [status EXCEPT ![waiter] = "done"]
           /\ reply' = [reply EXCEPT ![waiter] = <<k, Head(list)>>]
    BY <2>1 DEF Resolve, Answer
  <2> QED
    BY <2>2, <2>3, <2>5, <2>6, <2>7, <2>8
<1> QED
  BY <1>1, <1>2 DEF NotifyListPush

\* A push keeps the invariant, whichever end of the list it extends.
LEMMA PushKeepsInv ==
  ASSUME Inv, NEW k \in Keys, NEW es \in Batches, NEW list \in Seq(Elements),
         store[k] # StringValue,
         list # << >>, IsInjective(list), ToSet(list) = ToSet(store[k]) \cup ToSet(es),
         NotifyListPush(k, list), replica' \in [Keys -> Values], MarkPushed(k, es),
         UNCHANGED <<listening, connectionIdentifier, timeoutSeconds, slot, arrival, taken>>
  PROVE  Inv'
<1>1. /\ store' \in [Keys -> Values]
      /\ \A l \in Keys \ {k} : store'[l] = store[l]
      /\ store'[k] \in Seq(Elements) /\ IsInjective(store'[k])
      /\ ToSet(store'[k]) \subseteq ToSet(list)
      /\ waitingQueues' \in [Keys -> Seq(Calls)]
      /\ \A l \in Keys : ToSet(waitingQueues'[l]) \subseteq ToSet(waitingQueues[l])
  BY NotifyEffect
<1>2. \/ UNCHANGED <<status, reply>>
      \/ \E i \in Calls, e \in ToSet(list) :
           /\ status[i] = "waiting" /\ k \in ToSet(listening[i])
           /\ status' = [status EXCEPT ![i] = "done"]
           /\ reply' = [reply EXCEPT ![i] = <<k, e>>]
           /\ e \notin ToSet(store'[k])
  BY NotifyEffect
<1>3. \A e \in ToSet(es) : e \in Elements /\ pushedTo[e] = None
  BY BatchIsFresh
<1>4. ToSet(list) \subseteq Elements
  BY ToSetInBase
<1>5. k # None
  BY ConstantsAssumption
<1>6. /\ pushedTo' \in [Elements -> Keys \cup {None}]
      /\ \A e \in Elements : pushedTo[e] # None => pushedTo'[e] = pushedTo[e]
      /\ \A e \in ToSet(list) : pushedTo'[e] = k
  <2>1. \A e \in ToSet(store[k]) : e \in Elements => pushedTo[e] = k
    BY DEF Inv, AtMostOnePlace, Listed
  <2> QED
    BY <1>3, <1>4, <1>5, <2>1 DEF MarkPushed, Inv, TypeOK
\* An element of the list was neither taken nor delivered.
<1>7. \A e \in ToSet(list) : e \notin taken /\ \A i \in Calls : ~ Delivered(e, i)
  <2> SUFFICES ASSUME NEW e \in ToSet(list)
               PROVE  e \notin taken /\ \A i \in Calls : ~ Delivered(e, i)
    OBVIOUS
  <2>1. CASE e \in ToSet(store[k])
    BY <1>4, <2>1 DEF Inv, AtMostOnePlace, Listed
  <2>2. CASE e \in ToSet(es)
    <3>1. pushedTo[e] = None
      BY <1>3, <2>2
    <3>2. e \notin taken
      BY <3>1 DEF Inv, TakenWasPushed
    <3>3. ASSUME NEW i \in Calls, NEW l \in Keys, reply[i] = <<l, e>>
          PROVE  FALSE
      <4>1. reply[i] # None
        BY <1>4, <3>3, ConstantsAssumption
      <4>2. pushedTo[reply[i][2]] = reply[i][1]
        BY <4>1 DEF Inv, ReplyIsHonest
      <4>3. reply[i][2] = e /\ reply[i][1] = l
        BY <3>3
      <4> QED
        BY <3>1, <4>2, <4>3, ConstantsAssumption
    <3> QED
      BY <3>2, <3>3 DEF Delivered
  <2> QED
    BY <2>1, <2>2
<1>8. TypeOK'
  <2>1. /\ status' \in [Calls -> {"idle", "waiting", "done"}]
        /\ reply' \in [Calls -> (Keys \X Elements) \cup {None}]
    <3>1. CASE UNCHANGED <<status, reply>>
      BY <3>1 DEF Inv, TypeOK
    <3>2. ASSUME NEW i \in Calls, NEW e \in ToSet(list),
                 status' = [status EXCEPT ![i] = "done"],
                 reply' = [reply EXCEPT ![i] = <<k, e>>]
          PROVE  /\ status' \in [Calls -> {"idle", "waiting", "done"}]
                 /\ reply' \in [Calls -> (Keys \X Elements) \cup {None}]
      <4>1. <<k, e>> \in Keys \X Elements
        BY <1>4
      <4> QED
        BY <3>2, <4>1 DEF Inv, TypeOK
    <3> QED
      BY <1>2, <3>1, <3>2
  <2> QED
    BY <1>1, <1>6, <2>1 DEF Inv, TypeOK
\* What one call is given is given to no other and stays nowhere else.
<1>9. \A i \in Calls, e \in Elements : Delivered(e, i)' =>
        \/ Delivered(e, i)
        \/ /\ e \in ToSet(list) /\ e \notin ToSet(store'[k])
           /\ \A j \in Calls \ {i} : ~ Delivered(e, j)'
  <2> SUFFICES ASSUME NEW i \in Calls, NEW e \in Elements, NEW l \in Keys,
                      reply'[i] = <<l, e>>, ~ Delivered(e, i)
               PROVE  /\ e \in ToSet(list) /\ e \notin ToSet(store'[k])
                      /\ \A j \in Calls \ {i} : ~ Delivered(e, j)'
    BY DEF Delivered
  <2>1. reply'[i] # reply[i]
    BY DEF Delivered
  <2>2. PICK c \in Calls, x \in ToSet(list) :
          /\ reply' = [reply EXCEPT ![c] = <<k, x>>]
          /\ x \notin ToSet(store'[k])
    BY <1>2, <2>1
  <2>3. c = i /\ x = e
    BY <2>1, <2>2 DEF Inv, TypeOK
  <2>4. \A j \in Calls \ {i} : reply'[j] = reply[j]
    BY <2>2, <2>3
  <2> QED
    BY <1>7, <2>2, <2>3, <2>4 DEF Delivered
<1>10. AtMostOnePlace'
  <2>1. \A l \in Keys, e \in Elements : Listed(e, l)' =>
          Listed(e, l) \/ (l = k /\ e \in ToSet(list))
    BY <1>1 DEF Listed
  <2>2. \A l \in Keys : store'[l] # StringValue => IsInjective(store'[l])
    BY <1>1 DEF Inv, AtMostOnePlace
  <2>3. ASSUME NEW l \in Keys, NEW e \in Elements, Listed(e, l)'
        PROVE  /\ pushedTo'[e] = l /\ e \notin taken'
               /\ \A i \in Calls : ~ Delivered(e, i)'
    <3>1. /\ pushedTo'[e] = l /\ e \notin taken
          /\ \A i \in Calls : ~ Delivered(e, i)
      <4>1. CASE Listed(e, l)
        BY <1>6, <4>1, ConstantsAssumption DEF Inv, AtMostOnePlace
      <4>2. CASE l = k /\ e \in ToSet(list)
        BY <1>6, <1>7, <4>2
      <4> QED
        BY <2>1, <2>3, <4>1, <4>2
    <3>2. ASSUME e \in ToSet(list)
          PROVE  l = k
      BY <1>6, <3>1, <3>2
    <3>3. \A i \in Calls : ~ Delivered(e, i)'
      BY <1>9, <2>3, <3>1, <3>2 DEF Listed
    <3> QED
      BY <3>1, <3>3
  <2>4. ASSUME NEW i \in Calls, NEW e \in Elements, Delivered(e, i)'
        PROVE  e \notin taken' /\ \A j \in Calls \ {i} : ~ Delivered(e, j)'
    <3>1. CASE Delivered(e, i)
      <4>1. e \notin taken /\ e \notin ToSet(list)
        BY <1>7, <3>1 DEF Inv, AtMostOnePlace
      <4>2. \A j \in Calls \ {i} : ~ Delivered(e, j)
        BY <3>1 DEF Inv, AtMostOnePlace
      <4> QED
        BY <1>9, <4>1, <4>2
    <3>2. CASE /\ e \in ToSet(list) /\ e \notin ToSet(store'[k])
               /\ \A j \in Calls \ {i} : ~ Delivered(e, j)'
      BY <1>7, <3>2
    <3> QED
      BY <1>9, <2>4, <3>1, <3>2
  <2> QED
    BY <2>2, <2>3, <2>4 DEF AtMostOnePlace
<1>11. ReplyIsHonest'
  <2> SUFFICES ASSUME NEW i \in Calls, reply'[i] # None
               PROVE  /\ status'[i] = "done"
                      /\ pushedTo'[reply'[i][2]] = reply'[i][1]
                      /\ reply'[i][1] \in ToSet(listening'[i])
    BY DEF ReplyIsHonest
  <2>1. CASE reply'[i] = reply[i]
    <3>1. /\ status[i] = "done" /\ pushedTo[reply[i][2]] = reply[i][1]
          /\ reply[i][1] \in ToSet(listening[i])
      BY <2>1 DEF Inv, ReplyIsHonest
    <3>2. reply[i][1] \in Keys /\ reply[i][2] \in Elements
      BY <2>1 DEF Inv, TypeOK
    <3>3. status'[i] = "done"
      BY <1>2, <3>1 DEF Inv, TypeOK
    <3>4. pushedTo'[reply[i][2]] = reply[i][1]
      BY <1>6, <3>1, <3>2, ConstantsAssumption
    <3> QED
      BY <2>1, <3>1, <3>3, <3>4
  <2>2. CASE reply'[i] # reply[i]
    <3>1. PICK c \in Calls, x \in ToSet(list) :
            /\ k \in ToSet(listening[c])
            /\ status' = [status EXCEPT ![c] = "done"]
            /\ reply' = [reply EXCEPT ![c] = <<k, x>>]
      BY <1>2, <2>2
    <3>2. c = i
      BY <2>2, <3>1 DEF Inv, TypeOK
    <3>3. reply'[i] = <<k, x>> /\ status'[i] = "done"
      BY <3>1, <3>2 DEF Inv, TypeOK
    <3> QED
      BY <1>6, <3>1, <3>2, <3>3
  <2> QED
    BY <2>1, <2>2
<1>12. QueuedCallsListen'
  <2>1. \A i \in Calls : status[i] # "idle" => status'[i] # "idle"
    BY <1>2 DEF Inv, TypeOK
  <2>2. \A l \in Keys : ToSet(waitingQueues[l]) \subseteq Calls
    BY ToSetInBase DEF Inv, TypeOK
  <2> QED
    BY <1>1, <2>1, <2>2 DEF Inv, QueuedCallsListen
<1>13. TakenWasPushed'
  BY <1>6 DEF Inv, TypeOK, TakenWasPushed
<1> QED
  BY <1>8, <1>10, <1>11, <1>12, <1>13 DEF Inv

\* A command that takes elements from one key keeps the invariant: LPOP, DEL
\* and SET.
LEMMA TakeKeepsInv ==
  ASSUME Inv, NEW k \in Keys,
         store' \in [Keys -> Values], replica' \in [Keys -> Values],
         \A l \in Keys \ {k} : store'[l] = store[l],
         store'[k] # StringValue => IsInjective(store'[k]) /\ ToSet(store'[k]) \subseteq ElementsAt(k),
         \A e \in Elements : Listed(e, k)' => e \notin taken',
         taken' \subseteq taken \cup ElementsAt(k),
         UNCHANGED <<waitingQueues, callVars, pushedTo>>
  PROVE  Inv'
<1>1. ElementsAt(k) \subseteq Elements
  <2>1. CASE HasElement(store, k)
    <3>1. store[k] \in Seq(Elements)
      BY <2>1, HasElementIsList DEF Inv, TypeOK
    <3> QED
      BY <2>1, <3>1, ToSetInBase DEF ElementsAt
  <2>2. CASE ~ HasElement(store, k)
    BY <2>2 DEF ElementsAt
  <2> QED
    BY <2>1, <2>2
<1>2. \A e \in ElementsAt(k) : Listed(e, k)
  BY DEF ElementsAt, HasElement, Listed
<1>3. \A l \in Keys, e \in Elements : Listed(e, l)' => Listed(e, l)
  BY <1>2 DEF Listed
<1>4. \A e \in taken' : e \in taken \/ Listed(e, k)
  BY <1>2
<1>5. \A i \in Calls, e \in Elements : Delivered(e, i)' = Delivered(e, i)
  BY DEF Delivered, callVars
<1>6. TypeOK'
  <2>1. taken' \subseteq Elements
    BY <1>1 DEF Inv, TypeOK
  <2> QED
    BY <2>1 DEF Inv, TypeOK, callVars
<1>7. AtMostOnePlace'
  <2>1. \A l \in Keys : store'[l] # StringValue => IsInjective(store'[l])
    BY DEF Inv, AtMostOnePlace
  <2>2. ASSUME NEW l \in Keys, NEW e \in Elements, Listed(e, l)'
        PROVE  /\ pushedTo'[e] = l /\ e \notin taken'
               /\ \A i \in Calls : ~ Delivered(e, i)'
    <3>1. /\ pushedTo[e] = l /\ e \notin taken
          /\ \A i \in Calls : ~ Delivered(e, i)
      BY <1>3, <2>2 DEF Inv, AtMostOnePlace
    <3>2. e \notin taken'
      <4>1. CASE l = k
        BY <2>2, <4>1
      <4>2. CASE l # k
        <5>1. ~ Listed(e, k)
          BY <3>1, <4>2 DEF Inv, AtMostOnePlace
        <5> QED
          BY <1>4, <3>1, <5>1
      <4> QED
        BY <4>1, <4>2
    <3> QED
      BY <1>5, <3>1, <3>2
  <2>3. ASSUME NEW i \in Calls, NEW e \in Elements, Delivered(e, i)'
        PROVE  e \notin taken' /\ \A j \in Calls \ {i} : ~ Delivered(e, j)'
    <3>1. Delivered(e, i)
      BY <1>5, <2>3
    <3>2. e \notin taken /\ ~ Listed(e, k) /\ \A j \in Calls \ {i} : ~ Delivered(e, j)
      BY <3>1 DEF Inv, AtMostOnePlace
    <3> QED
      BY <1>4, <1>5, <3>2
  <2> QED
    BY <2>1, <2>2, <2>3 DEF AtMostOnePlace
<1>8. ReplyIsHonest' /\ QueuedCallsListen'
  BY DEF Inv, ReplyIsHonest, QueuedCallsListen, callVars
<1>9. TakenWasPushed'
  <2>1. \A e \in ElementsAt(k) : pushedTo[e] = k
    BY <1>1, <1>2 DEF Inv, AtMostOnePlace
  <2> QED
    BY <2>1, ConstantsAssumption DEF Inv, TakenWasPushed
<1> QED
  BY <1>6, <1>7, <1>8, <1>9 DEF Inv

\* LPOP keeps the invariant.
LEMMA LPopKeepsInv ==
  ASSUME Inv, NEW k \in Keys, NEW n \in Nat, LPop(k, n)
  PROVE  Inv'
<1>1. /\ store' \in [Keys -> Values] /\ replica' \in [Keys -> Values]
      /\ \A l \in Keys \ {k} : store'[l] = store[l]
  <2>1. store' = PopN(store, k, n) /\ replica' = PopN(replica, k, n)
    BY DEF LPop
  <2>2. store \in [Keys -> Values] /\ replica \in [Keys -> Values]
    BY DEF Inv, TypeOK
  <2>3. /\ PopN(store, k, n) \in [Keys -> Values]
        /\ \A l \in Keys \ {k} : PopN(store, k, n)[l] = store[l]
    BY <2>2, PopNStore
  <2>4. PopN(replica, k, n) \in [Keys -> Values]
    BY <2>2, PopNStore
  <2> QED
    BY <2>1, <2>3, <2>4
<1>2. store[k] \in Seq(Elements) /\ IsInjective(store[k])
  BY HasElementIsList DEF LPop, Inv, TypeOK, AtMostOnePlace
<1>3. store'[k] \in Seq(Elements) /\ IsInjective(store'[k]) /\ ToSet(store'[k]) \subseteq ElementsAt(k)
  <2>1. CASE HasElement(store, k)
    <3>1. store'[k] = SubSeq(store[k], n + 1, Len(store[k]))
      BY <2>1, PopNStore DEF LPop, Inv, TypeOK
    <3>2. ElementsAt(k) = ToSet(store[k])
      BY <2>1 DEF ElementsAt
    <3> QED
      BY <1>2, <3>1, <3>2, DropFirst
  <2>2. CASE ~ HasElement(store, k)
    <3>1. store'[k] = store[k]
      BY <2>2, PopNStore DEF LPop, Inv, TypeOK
    <3>2. store[k] = << >>
      BY <1>2, <2>2 DEF LPop, HasElement
    <3> QED
      BY <1>2, <3>1, <3>2, ToSetEmpty
  <2> QED
    BY <2>1, <2>2
<1>4. taken' = taken \cup (ElementsAt(k) \ ToSet(store'[k]))
  BY DEF LPop
<1>5. \A e \in Elements : Listed(e, k)' => e \notin taken'
  <2>1. \A e \in Elements : Listed(e, k) => e \notin taken
    BY DEF Inv, AtMostOnePlace
  <2>2. \A e \in ElementsAt(k) : Listed(e, k)
    BY DEF ElementsAt, HasElement, Listed
  <2>3. \A e \in Elements : Listed(e, k)' => e \in ToSet(store'[k])
    BY DEF Listed
  <2> QED
    BY <1>3, <1>4, <2>1, <2>2, <2>3
<1> QED
  BY <1>1, <1>3, <1>4, <1>5, TakeKeepsInv DEF LPop

\* DEL keeps the invariant.
LEMMA DelKeepsInv ==
  ASSUME Inv, NEW k \in Keys, Del(k)
  PROVE  Inv'
<1>1. << >> \in Values
  BY EmptySeq DEF Values
<1>2. /\ store' \in [Keys -> Values] /\ replica' \in [Keys -> Values]
      /\ \A l \in Keys \ {k} : store'[l] = store[l]
      /\ store'[k] = << >>
  BY <1>1 DEF Del, Inv, TypeOK
<1>3. IsInjective(store'[k])
  BY <1>2 DEF IsInjective
<1>4. ToSet(store'[k]) = {}
  BY <1>2, ToSetEmpty
<1> QED
  BY <1>2, <1>3, <1>4, TakeKeepsInv DEF Del, Listed

\* SET keeps the invariant.
LEMMA SetStringKeepsInv ==
  ASSUME Inv, NEW k \in Keys, SetString(k)
  PROVE  Inv'
<1>1. /\ store' \in [Keys -> Values] /\ replica' \in [Keys -> Values]
      /\ \A l \in Keys \ {k} : store'[l] = store[l]
      /\ store'[k] = StringValue
  BY DEF SetString, Inv, TypeOK, Values
<1> QED
  BY <1>1, TakeKeepsInv DEF SetString, Listed

\* RPUSH keeps the invariant.
LEMMA RPushKeepsInv ==
  ASSUME Inv, NEW k \in Keys, NEW es \in Batches, RPush(k, es)
  PROVE  Inv'
<1> DEFINE list == store[k] \o es
<1>1. store[k] # StringValue /\ store[k] \in Seq(Elements) /\ IsInjective(store[k])
  BY HasElementIsList DEF RPush, Inv, TypeOK, AtMostOnePlace
<1>2. /\ es \in Seq(Elements) /\ es # << >> /\ IsInjective(es)
      /\ \A e \in ToSet(es) : e \in Elements /\ pushedTo[e] = None
  BY BatchIsFresh
<1>3. ToSet(store[k]) \cap ToSet(es) = {}
  BY <1>1, <1>2, ConstantsAssumption DEF Inv, AtMostOnePlace, Listed
<1>4. /\ list \in Seq(Elements) /\ list # << >> /\ IsInjective(list)
      /\ ToSet(list) = ToSet(store[k]) \cup ToSet(es)
  BY <1>1, <1>2, <1>3, ConcatLists
<1>5. replica' \in [Keys -> Values]
  <2>1. ReplicaBeforePush(k) \in [Keys -> Values]
    BY PopNStore DEF ReplicaBeforePush, Inv, TypeOK
  <2> QED
    BY <1>2, <2>1, AppendAllStore DEF RPush
<1>6. NotifyListPush(k, list) /\ MarkPushed(k, es)
  BY DEF RPush
<1> HIDE DEF list
<1> QED
  BY <1>1, <1>4, <1>5, <1>6, PushKeepsInv DEF RPush

\* LPUSH keeps the invariant.
LEMMA LPushKeepsInv ==
  ASSUME Inv, NEW k \in Keys, NEW es \in Batches, LPush(k, es)
  PROVE  Inv'
<1> DEFINE list == Reverse(es) \o store[k]
<1>1. store[k] # StringValue /\ store[k] \in Seq(Elements) /\ IsInjective(store[k])
  BY HasElementIsList DEF LPush, Inv, TypeOK, AtMostOnePlace
<1>2. /\ es \in Seq(Elements) /\ es # << >> /\ IsInjective(es)
      /\ \A e \in ToSet(es) : e \in Elements /\ pushedTo[e] = None
  BY BatchIsFresh
<1>3. ToSet(store[k]) \cap ToSet(es) = {}
  BY <1>1, <1>2, ConstantsAssumption DEF Inv, AtMostOnePlace, Listed
<1>4. /\ Reverse(es) \in Seq(Elements) /\ Reverse(es) # << >> /\ IsInjective(Reverse(es))
      /\ ToSet(Reverse(es)) = ToSet(es)
  BY <1>2, ReverseList
<1>5. /\ list \in Seq(Elements) /\ list # << >> /\ IsInjective(list)
      /\ ToSet(list) = ToSet(store[k]) \cup ToSet(es)
  BY <1>1, <1>3, <1>4, ConcatLists
<1>6. replica' \in [Keys -> Values]
  <2>1. ReplicaBeforePush(k) \in [Keys -> Values]
    BY PopNStore DEF ReplicaBeforePush, Inv, TypeOK
  <2> QED
    BY <1>2, <2>1, PrependAllStore DEF LPush
<1>7. NotifyListPush(k, list) /\ MarkPushed(k, es)
  BY DEF LPush
<1> HIDE DEF list
<1> QED
  BY <1>1, <1>5, <1>6, <1>7, PushKeepsInv DEF LPush

\* A dispatched BLPOP had not been dispatched before: it is in no queue and
\* has no reply.
LEMMA DispatchedIsNew ==
  ASSUME Inv, NEW i \in Calls, NEW c \in Conns, NEW ks \in KeyLists, NEW t \in Timeouts,
         Dispatched(i, c, ks, t)
  PROVE  /\ reply[i] = None /\ \A k \in Keys : i \notin ToSet(waitingQueues[k])
         /\ ks \in Seq(Keys) /\ listening' = [listening EXCEPT ![i] = ks]
         /\ listening' \in [Calls -> Seq(Keys)]
         /\ connectionIdentifier' \in [Calls -> Conns \cup {None}]
         /\ timeoutSeconds' \in [Calls -> Nat]
         /\ slot' \in [Calls -> SUBSET Calls]
<1>1. reply[i] = None /\ \A k \in Keys : i \notin ToSet(waitingQueues[k])
  BY DEF Dispatched, Inv, ReplyIsHonest, QueuedCallsListen
<1>2. ks \in Seq(Keys) /\ t \in Nat
  BY ConstantsAssumption
<1>3. Sliced(c) \in SUBSET Calls
  BY DEF Sliced
<1> QED
  BY <1>1, <1>2, <1>3 DEF Dispatched, Inv, TypeOK

\* A BLPOP that finds an element keeps the invariant.
LEMMA BLPopNowKeepsInv ==
  ASSUME Inv, NEW i \in Calls, NEW c \in Conns, NEW ks \in KeyLists, NEW t \in Timeouts,
         BLPopNow(i, c, ks, t)
  PROVE  Inv'
<1> DEFINE ready == {n \in DOMAIN ks : HasElement(store, ks[n])}
           k == ks[Min(ready)]
           e == Head(store[k])
<1>1. Dispatched(i, c, ks, t)
  BY DEF BLPopNow
<1>2. /\ reply[i] = None /\ \A l \in Keys : i \notin ToSet(waitingQueues[l])
      /\ ks \in Seq(Keys) /\ listening' = [listening EXCEPT ![i] = ks]
      /\ listening' \in [Calls -> Seq(Keys)]
      /\ connectionIdentifier' \in [Calls -> Conns \cup {None}]
      /\ timeoutSeconds' \in [Calls -> Nat]
      /\ slot' \in [Calls -> SUBSET Calls]
  BY <1>1, DispatchedIsNew
<1>3. k \in Keys /\ k \in ToSet(ks) /\ HasElement(store, k)
  <2>1. ready # {}
    BY DEF BLPopNow
  <2>2. DOMAIN ks \subseteq Nat
    BY <1>2, LenProperties
  <2>3. Min(ready) \in ready
    BY <2>1, <2>2, MinIsMember
  <2> HIDE DEF ready
  <2>4. Min(ready) \in DOMAIN ks /\ HasElement(store, k)
    BY <2>3 DEF ready
  <2> QED
    BY <1>2, <2>4, ToSetInBase DEF ToSet
<1>4. /\ store' = PopN(store, k, 1)
      /\ reply' = [reply EXCEPT ![i] = <<k, e>>]
      /\ replica' = PopN(replica, k, 1)
      /\ status' = [status EXCEPT ![i] = "done"]
      /\ UNCHANGED <<waitingQueues, arrival, pushedTo, taken>>
  BY DEF BLPopNow
<1> HIDE DEF k
<1>5. /\ store[k] \in Seq(Elements) /\ store[k] # << >> /\ IsInjective(store[k])
  BY <1>3, HasElementIsList DEF Inv, TypeOK, AtMostOnePlace, HasElement
<1>6. e \in ToSet(store[k]) /\ e \in Elements
  BY <1>5, HeadAndTail
<1>7. /\ store' \in [Keys -> Values] /\ replica' \in [Keys -> Values]
      /\ \A l \in Keys \ {k} : store'[l] = store[l]
      /\ store'[k] = SubSeq(store[k], 1 + 1, Len(store[k]))
  <2>1. store \in [Keys -> Values] /\ replica \in [Keys -> Values] /\ 1 \in Nat
    BY DEF Inv, TypeOK
  <2>2. /\ PopN(store, k, 1) \in [Keys -> Values]
        /\ \A l \in Keys \ {k} : PopN(store, k, 1)[l] = store[l]
        /\ PopN(store, k, 1)[k] = SubSeq(store[k], 1 + 1, Len(store[k]))
    BY <1>3, <2>1, PopNStore
  <2>3. PopN(replica, k, 1) \in [Keys -> Values]
    BY <1>3, <2>1, PopNStore
  <2> QED
    BY <1>4, <2>2, <2>3
<1>8. /\ store'[k] \in Seq(Elements) /\ IsInjective(store'[k])
      /\ ToSet(store'[k]) \subseteq ToSet(store[k]) /\ e \notin ToSet(store'[k])
  <2> DEFINE d == SubSeq(store[k], 1 + 1, Len(store[k]))
  <2>1. 1 \in Nat /\ 1 > 0
    OBVIOUS
  <2>2. /\ d \in Seq(Elements)
        /\ ToSet(d) \subseteq ToSet(store[k])
        /\ IsInjective(d)
        /\ Head(store[k]) \notin ToSet(d)
    BY <1>5, <2>1, DropFirst
  <2>3. store'[k] = d
    BY <1>7
  <2> QED
    BY <2>2, <2>3
<1>9. Listed(e, k) /\ pushedTo[e] = k /\ e \notin taken /\ \A j \in Calls : ~ Delivered(e, j)
  BY <1>3, <1>6 DEF Inv, AtMostOnePlace, Listed, HasElement
<1> HIDE DEF e
<1>10. TypeOK'
  <2>1. <<k, e>> \in Keys \X Elements
    BY <1>3, <1>6
  <2> QED
    BY <1>2, <1>4, <1>7, <2>1 DEF Inv, TypeOK
<1>11. /\ \A j \in Calls \ {i} : reply'[j] = reply[j]
       /\ reply'[i] = <<k, e>>
  BY <1>4 DEF Inv, TypeOK
<1>12. \A j \in Calls, x \in Elements : Delivered(x, j)' =>
         (Delivered(x, j) /\ j # i) \/ (x = e /\ j = i)
  BY <1>11 DEF Delivered
<1>13. \A l \in Keys, x \in Elements : Listed(x, l)' => Listed(x, l) /\ x # e
  <2> SUFFICES ASSUME NEW l \in Keys, NEW x \in Elements, Listed(x, l)'
               PROVE  Listed(x, l) /\ x # e
    OBVIOUS
  <2>1. Listed(x, l)
    BY <1>3, <1>7, <1>8 DEF Listed, HasElement
  <2>2. pushedTo[x] = l
    BY <2>1 DEF Inv, AtMostOnePlace
  <2> QED
    BY <1>8, <1>9, <2>1, <2>2 DEF Listed
<1>14. AtMostOnePlace'
  <2>1. \A l \in Keys : store'[l] # StringValue => IsInjective(store'[l])
    BY <1>7, <1>8 DEF Inv, AtMostOnePlace
  <2>2. ASSUME NEW l \in Keys, NEW x \in Elements, Listed(x, l)'
        PROVE  /\ pushedTo'[x] = l /\ x \notin taken'
               /\ \A j \in Calls : ~ Delivered(x, j)'
    <3>1. /\ pushedTo[x] = l /\ x \notin taken
          /\ \A j \in Calls : ~ Delivered(x, j)
      BY <1>13, <2>2 DEF Inv, AtMostOnePlace
    <3> QED
      BY <1>4, <1>12, <1>13, <2>2, <3>1
  <2>3. ASSUME NEW j \in Calls, NEW x \in Elements, Delivered(x, j)'
        PROVE  x \notin taken' /\ \A m \in Calls \ {j} : ~ Delivered(x, m)'
    <3>1. CASE Delivered(x, j) /\ j # i
      <4>1. x \notin taken /\ x # e /\ \A m \in Calls \ {j} : ~ Delivered(x, m)
        BY <1>9, <3>1 DEF Inv, AtMostOnePlace
      <4> QED
        BY <1>4, <1>12, <4>1
    <3>2. CASE x = e /\ j = i
      BY <1>4, <1>9, <1>12, <3>2
    <3> QED
      BY <1>12, <2>3, <3>1, <3>2
  <2> QED
    BY <2>1, <2>2, <2>3 DEF AtMostOnePlace
<1>15. ReplyIsHonest'
  <2> SUFFICES ASSUME NEW j \in Calls, reply'[j] # None
               PROVE  /\ status'[j] = "done"
                      /\ pushedTo'[reply'[j][2]] = reply'[j][1]
                      /\ reply'[j][1] \in ToSet(listening'[j])
    BY DEF ReplyIsHonest
  <2>1. CASE j = i
    BY <1>2, <1>3, <1>4, <1>9, <1>11, <2>1 DEF Inv, TypeOK
  <2>2. CASE j # i
    <3>1. /\ status[j] = "done" /\ pushedTo[reply[j][2]] = reply[j][1]
          /\ reply[j][1] \in ToSet(listening[j])
      BY <1>11, <2>2 DEF Inv, ReplyIsHonest
    <3> QED
      BY <1>2, <1>4, <1>11, <2>2, <3>1 DEF Inv, TypeOK
  <2> QED
    BY <2>1, <2>2
<1>16. QueuedCallsListen'
  <2>1. \A l \in Keys : ToSet(waitingQueues[l]) \subseteq Calls
    BY ToSetInBase DEF Inv, TypeOK
  <2> QED
    BY <1>2, <1>4, <2>1 DEF Inv, TypeOK, QueuedCallsListen
<1>17. TakenWasPushed'
  BY <1>4 DEF Inv, TakenWasPushed
<1> QED
  BY <1>10, <1>14, <1>15, <1>16, <1>17 DEF Inv

\* A BLPOP that parks keeps the invariant.
LEMMA BLPopBlockKeepsInv ==
  ASSUME Inv, NEW i \in Calls, NEW c \in Conns, NEW ks \in KeyLists, NEW t \in Timeouts,
         BLPopBlock(i, c, ks, t)
  PROVE  Inv'
<1>1. Dispatched(i, c, ks, t)
  BY DEF BLPopBlock
<1>2. /\ reply[i] = None /\ \A l \in Keys : i \notin ToSet(waitingQueues[l])
      /\ ks \in Seq(Keys) /\ listening' = [listening EXCEPT ![i] = ks]
      /\ listening' \in [Calls -> Seq(Keys)]
      /\ connectionIdentifier' \in [Calls -> Conns \cup {None}]
      /\ timeoutSeconds' \in [Calls -> Nat]
      /\ slot' \in [Calls -> SUBSET Calls]
  BY <1>1, DispatchedIsNew
<1>3. /\ waitingQueues' = Enqueue(i, ks)
      /\ status' = [status EXCEPT ![i] = "waiting"]
      /\ arrival' = Append(arrival, i)
      /\ UNCHANGED <<store, reply, pushedTo, taken, replica>>
  BY DEF BLPopBlock
<1>4. /\ waitingQueues' \in [Keys -> Seq(Calls)]
      /\ \A l \in Keys : \A j \in ToSet(waitingQueues'[l]) :
           j \in ToSet(waitingQueues[l]) \/ (j = i /\ l \in ToSet(ks))
  <2>1. \A l \in Keys : /\ Append(waitingQueues[l], i) \in Seq(Calls)
                        /\ ToSet(Append(waitingQueues[l], i)) \subseteq ToSet(waitingQueues[l]) \cup {i}
    BY AppendToList DEF Inv, TypeOK
  <2> QED
    BY <1>3, <2>1 DEF Enqueue, Inv, TypeOK
<1>5. TypeOK'
  <2>1. arrival' \in Seq(Calls)
    BY <1>3, AppendToList DEF Inv, TypeOK
  <2> QED
    BY <1>2, <1>3, <1>4, <2>1 DEF Inv, TypeOK
<1>6. AtMostOnePlace'
  BY <1>3 DEF Inv, AtMostOnePlace, Listed, Delivered
<1>7. ReplyIsHonest'
  BY <1>2, <1>3 DEF Inv, TypeOK, ReplyIsHonest
<1>8. QueuedCallsListen'
  <2>1. \A l \in Keys : ToSet(waitingQueues[l]) \subseteq Calls
    BY ToSetInBase DEF Inv, TypeOK
  <2> SUFFICES ASSUME NEW l \in Keys, NEW j \in ToSet(waitingQueues'[l])
               PROVE  status'[j] # "idle" /\ l \in ToSet(listening'[j])
    BY DEF QueuedCallsListen
  <2>2. CASE j \in ToSet(waitingQueues[l])
    <3>1. j # i /\ j \in Calls
      BY <1>2, <2>1, <2>2
    <3>2. status[j] # "idle" /\ l \in ToSet(listening[j])
      BY <2>2 DEF Inv, QueuedCallsListen
    <3> QED
      BY <1>2, <1>3, <3>1, <3>2 DEF Inv, TypeOK
  <2>3. CASE j = i /\ l \in ToSet(ks)
    BY <1>2, <1>3, <2>3 DEF Inv, TypeOK
  <2> QED
    BY <1>4, <2>2, <2>3
<1>9. TakenWasPushed'
  BY <1>3 DEF Inv, TakenWasPushed
<1> QED
  BY <1>5, <1>6, <1>7, <1>8, <1>9 DEF Inv

\* A timer keeps the invariant.
LEMMA TimeoutKeepsInv ==
  ASSUME Inv, NEW i \in Calls, Timeout(i)
  PROVE  Inv'
<1>1. /\ waitingQueues' = RemoveWaiter(waitingQueues, i)
      /\ status' = [status EXCEPT ![i] = "done"]
      /\ UNCHANGED <<store, listening, connectionIdentifier, timeoutSeconds, slot, reply,
                     arrival, pushedTo, taken, replica>>
  BY DEF Timeout
<1>2. /\ waitingQueues' \in [Keys -> Seq(Calls)]
      /\ \A l \in Keys : ToSet(waitingQueues'[l]) \subseteq ToSet(waitingQueues[l])
  BY <1>1, RemoveWaiterShrinks DEF Inv, TypeOK
<1>3. \A l \in Keys : ToSet(waitingQueues[l]) \subseteq Calls
  BY ToSetInBase DEF Inv, TypeOK
<1>4. TypeOK'
  BY <1>1, <1>2 DEF Inv, TypeOK
<1>5. AtMostOnePlace'
  BY <1>1 DEF Inv, AtMostOnePlace, Listed, Delivered
<1>6. ReplyIsHonest'
  BY <1>1 DEF Inv, TypeOK, ReplyIsHonest
<1>7. QueuedCallsListen'
  BY <1>1, <1>2, <1>3 DEF Inv, TypeOK, QueuedCallsListen
<1>8. TakenWasPushed'
  BY <1>1 DEF Inv, TakenWasPushed
<1> QED
  BY <1>4, <1>5, <1>6, <1>7, <1>8 DEF Inv

\* An empty master satisfies the invariant.
LEMMA InitInv == Init => Inv
<1> SUFFICES ASSUME Init
             PROVE  Inv
  OBVIOUS
<1>1. << >> \in Seq(Elements) /\ << >> \in Seq(Calls) /\ << >> \in Seq(Keys)
  BY EmptySeq
<1>2. TypeOK
  BY <1>1 DEF Init, TypeOK, Values
<1>3. \A i \in Calls, e \in Elements : ~ Delivered(e, i)
  BY ConstantsAssumption DEF Init, Delivered
<1>4. \A k \in Keys : ToSet(store[k]) = {} /\ IsInjective(store[k]) /\ ToSet(waitingQueues[k]) = {}
  BY ToSetEmpty DEF Init, IsInjective
<1>5. AtMostOnePlace
  BY <1>3, <1>4 DEF AtMostOnePlace, Listed
<1>6. ReplyIsHonest /\ TakenWasPushed
  BY DEF Init, ReplyIsHonest, TakenWasPushed
<1>7. QueuedCallsListen
  BY <1>4 DEF QueuedCallsListen
<1> QED
  BY <1>2, <1>5, <1>6, <1>7 DEF Inv

\* Every step keeps the invariant.
LEMMA NextInv == Inv /\ [Next]_vars => Inv'
<1> SUFFICES ASSUME Inv, [Next]_vars
             PROVE  Inv'
  OBVIOUS
<1>1. ASSUME NEW k \in Keys, NEW es \in Batches, RPush(k, es) \/ LPush(k, es)
      PROVE  Inv'
  BY <1>1, RPushKeepsInv, LPushKeepsInv
<1>2. ASSUME NEW k \in Keys, NEW n \in 0..Cardinality(Elements), LPop(k, n)
      PROVE  Inv'
  <2>1. n \in Nat
    OBVIOUS
  <2> QED
    BY <1>2, <2>1, LPopKeepsInv
<1>3. ASSUME NEW k \in Keys, Del(k) \/ SetString(k)
      PROVE  Inv'
  BY <1>3, DelKeepsInv, SetStringKeepsInv
<1>4. ASSUME NEW i \in Calls, NEW c \in Conns, NEW ks \in KeyLists, NEW t \in Timeouts,
             BLPopNow(i, c, ks, t) \/ BLPopBlock(i, c, ks, t)
      PROVE  Inv'
  BY <1>4, BLPopNowKeepsInv, BLPopBlockKeepsInv
<1>5. ASSUME NEW i \in Calls, Timeout(i)
      PROVE  Inv'
  BY <1>5, TimeoutKeepsInv
<1>6. CASE UNCHANGED vars
  BY <1>6 DEF vars, callVars, Inv, TypeOK, AtMostOnePlace, Listed, Delivered, ReplyIsHonest,
              QueuedCallsListen, TakenWasPushed
<1> QED
  BY <1>1, <1>2, <1>3, <1>4, <1>5, <1>6 DEF Next

-----------------------------------------------------------------------------
(* Clients that do not send a BLPOP while another of theirs is unanswered. *)

\* No connection has two unanswered calls.
OnePending ==
  \A i, j \in Calls :
    /\ status[i] = "waiting" /\ status[j] = "waiting"
    /\ connectionIdentifier[i] = connectionIdentifier[j]
    => i = j

\* QueuedIffWaiting without counting.
QueuesExact ==
  \A k \in Keys :
    /\ IsInjective(waitingQueues[k])
    /\ \A i \in Calls :
         i \in ToSet(waitingQueues[k]) <=> status[i] = "waiting" /\ k \in ToSet(listening[i])

\* The queue of each key is in the order in which its members were parked.
QueuesInOrder ==
  \A k \in Keys : \A i, j \in Calls : Before(waitingQueues[k], i, j) => ArrivedBefore(i, j)

\* Each call is parked once, and those that wait were.
ArrivalFaithful ==
  /\ IsInjective(arrival)
  /\ \A i \in Calls : status[i] = "waiting" => i \in ToSet(arrival)
  /\ \A i \in ToSet(arrival) : status[i] # "idle"

\* The queues, as far as they depend on no other part of the state.
QueueInv == OnePending /\ QueuesExact /\ QueuesInOrder /\ ArrivalFaithful

\* The inductive invariant for such clients.
OrderlyInv ==
  Inv /\ QueueInv /\ NoElementLost /\ ReplicaMatchesUnlessServed

\* When the queues hold no other call of the waiter's connection, removeWaiter
\* takes out just the waiter, of just the queues of its keys.
LEMMA RemoveWaiterExact ==
  ASSUME NEW queues \in [Keys -> Seq(Calls)], NEW w \in Calls,
         \A k \in Keys : IsInjective(queues[k]),
         \A k \in Keys : \A j \in ToSet(queues[k]) :
           connectionIdentifier[j] = connectionIdentifier[w] => j = w,
         NEW k \in Keys
  PROVE  /\ ToSet(RemoveWaiter(queues, w)[k]) =
              IF k \in ToSet(listening[w]) THEN ToSet(queues[k]) \ {w} ELSE ToSet(queues[k])
         /\ IsInjective(RemoveWaiter(queues, w)[k])
         /\ \A i, j : Before(RemoveWaiter(queues, w)[k], i, j) => Before(queues[k], i, j)
<1> DEFINE q == queues[k]
           c == connectionIdentifier[w]
           hits == {n \in DOMAIN q : connectionIdentifier[q[n]] = c}
           p == Min(hits)
<1>1. q \in Seq(Calls) /\ IsInjective(q)
  OBVIOUS
<1>2. \A n \in hits : n \in DOMAIN q /\ q[n] = w
  BY DEF ToSet
<1>3. hits = {} => w \notin ToSet(q)
  BY DEF ToSet
<1>4. /\ ToSet(RemoveFirstOf(q, c)) = ToSet(q) \ {w}
      /\ IsInjective(RemoveFirstOf(q, c))
      /\ \A i, j : Before(RemoveFirstOf(q, c), i, j) => Before(q, i, j)
  <2>1. CASE hits = {}
    <3>1. RemoveFirstOf(q, c) = q
      BY <2>1 DEF RemoveFirstOf
    <3> QED
      BY <1>1, <1>3, <2>1, <3>1
  <2>2. CASE hits # {}
    <3>1. RemoveFirstOf(q, c) = RemoveAt(q, p)
      BY <2>2 DEF RemoveFirstOf
    <3>2. DOMAIN q \subseteq Nat
      BY <1>1, LenProperties
    <3>3. p \in hits
      BY <2>2, <3>2, MinIsMember
    <3>4. p \in DOMAIN q /\ q[p] = w
      BY <1>2, <3>3
    <3> HIDE DEF hits, p, q
    <3> QED
      BY <1>1, <3>1, <3>4, RemoveExactly
  <2> QED
    BY <2>1, <2>2
<1>5. RemoveWaiter(queues, w)[k] = IF k \in ToSet(listening[w]) THEN RemoveFirstOf(q, c) ELSE q
  BY DEF RemoveWaiter
<1> HIDE DEF q, c
<1> QED
  BY <1>1, <1>4, <1>5 DEF q

\* A call that goes out of its queues and is answered leaves the queues as
\* exact, and in as good an order, as they were.
LEMMA QueuesWithout ==
  ASSUME Inv, QueueInv, NEW w \in Calls, status[w] = "waiting",
         NEW queues \in [Keys -> Seq(Calls)],
         \A k \in Keys : /\ IsInjective(queues[k])
                         /\ ToSet(queues[k]) \subseteq ToSet(waitingQueues[k])
                         /\ ToSet(waitingQueues[k]) \ {w} \subseteq ToSet(queues[k])
                         /\ \A i, j : Before(queues[k], i, j) => Before(waitingQueues[k], i, j),
         waitingQueues' = RemoveWaiter(queues, w),
         status' = [status EXCEPT ![w] = "done"],
         UNCHANGED <<listening, connectionIdentifier, arrival>>
  PROVE  QueueInv'
<1>1. status \in [Calls -> {"idle", "waiting", "done"}]
  BY DEF Inv, TypeOK
<1>2. \A i \in Calls : status'[i] = IF i = w THEN "done" ELSE status[i]
  BY <1>1
<1>3. \A k \in Keys : \A j \in ToSet(waitingQueues[k]) : j \in Calls /\ status[j] = "waiting"
  BY ToSetInBase DEF Inv, TypeOK, QueueInv, QueuesExact
<1>4. \A k \in Keys : \A j \in ToSet(queues[k]) :
        connectionIdentifier[j] = connectionIdentifier[w] => j = w
  BY <1>3 DEF QueueInv, OnePending
<1>5. ASSUME NEW k \in Keys
      PROVE  /\ ToSet(waitingQueues'[k]) =
                  IF k \in ToSet(listening[w]) THEN ToSet(queues[k]) \ {w} ELSE ToSet(queues[k])
             /\ IsInjective(waitingQueues'[k])
             /\ \A i, j : Before(waitingQueues'[k], i, j) => Before(queues[k], i, j)
  <2>1. /\ ToSet(RemoveWaiter(queues, w)[k]) =
             IF k \in ToSet(listening[w]) THEN ToSet(queues[k]) \ {w} ELSE ToSet(queues[k])
        /\ IsInjective(RemoveWaiter(queues, w)[k])
        /\ \A i, j : Before(RemoveWaiter(queues, w)[k], i, j) => Before(queues[k], i, j)
    <3>1. \A l \in Keys : IsInjective(queues[l])
      OBVIOUS
    <3> QED
      BY <1>4, <3>1, RemoveWaiterExact, Zenon
  <2> QED
    BY <2>1
<1>6. OnePending'
  BY <1>2 DEF QueueInv, OnePending
<1>7. QueuesExact'
  <2> SUFFICES ASSUME NEW k \in Keys, NEW i \in Calls
               PROVE  i \in ToSet(waitingQueues'[k]) <=>
                        status'[i] = "waiting" /\ k \in ToSet(listening[i])
    BY <1>5 DEF QueuesExact
  <2>1. \A j \in {i, w} :
          j \in ToSet(waitingQueues[k]) <=> status[j] = "waiting" /\ k \in ToSet(listening[j])
    BY DEF QueueInv, QueuesExact
  <2>2. i # w => (i \in ToSet(queues[k]) <=> i \in ToSet(waitingQueues[k]))
    OBVIOUS
  <2>3. w \in ToSet(queues[k]) => w \in ToSet(waitingQueues[k])
    OBVIOUS
  <2>4. i \in ToSet(waitingQueues'[k]) <=>
          i \in ToSet(queues[k]) /\ (i = w => k \notin ToSet(listening[w]))
    BY <1>5
  <2> QED
    BY <1>2, <2>1, <2>2, <2>3, <2>4
<1>8. QueuesInOrder'
  <2> SUFFICES ASSUME NEW k \in Keys, NEW i \in Calls, NEW j \in Calls,
                      Before(waitingQueues'[k], i, j)
               PROVE  ArrivedBefore(i, j)'
    BY DEF QueuesInOrder
  <2>1. Before(waitingQueues[k], i, j)
    BY <1>5
  <2>2. ArrivedBefore(i, j)
    BY <2>1 DEF QueueInv, QueuesInOrder
  <2> QED
    BY <2>2 DEF ArrivedBefore
<1>9. ArrivalFaithful'
  <2>1. ToSet(arrival) \subseteq Calls
    BY ToSetInBase DEF Inv, TypeOK
  <2> QED
    BY <1>2, <2>1 DEF QueueInv, ArrivalFaithful
<1> QED
  BY <1>6, <1>7, <1>8, <1>9 DEF QueueInv

\* Steps that leave the queues and the calls alone.
LEMMA QueuesUntouched ==
  ASSUME QueueInv, UNCHANGED <<waitingQueues, callVars>>
  PROVE  QueueInv'
BY DEF QueueInv, OnePending, QueuesExact, QueuesInOrder, ArrivalFaithful, ArrivedBefore, callVars

\* What notifyListPush does for such clients: it stores the list, or serves
\* the call that was parked first of those that wait on the key.
LEMMA NotifyExact ==
  ASSUME Inv, QueueInv, NEW k \in Keys, NEW list \in Seq(Elements), list # << >>,
         NotifyListPush(k, list), UNCHANGED <<listening, connectionIdentifier, arrival>>
  PROVE  /\ QueueInv'
         /\ \/ /\ ToSet(waitingQueues[k]) = {}
               /\ waitingQueues[k] = << >>
               /\ store' = [store EXCEPT ![k] = list]
               /\ UNCHANGED <<status, reply>>
            \/ \E w \in Calls :
                 /\ waitingQueues[k] # << >>
                 /\ status[w] = "waiting" /\ w \in ToSet(waitingQueues[k])
                 /\ store' = [store EXCEPT ![k] = Tail(list)]
                 /\ status' = [status EXCEPT ![w] = "done"]
                 /\ reply' = [reply EXCEPT ![w] = <<k, Head(list)>>]
                 /\ \A i \in ToSet(waitingQueues[k]) \ {w} : ArrivedBefore(w, i)
<1>1. CASE /\ waitingQueues[k] = << >>
           /\ store' = [store EXCEPT ![k] = list]
           /\ UNCHANGED <<waitingQueues, status, reply>>
  <2>1. QueueInv'
    BY <1>1 DEF QueueInv, OnePending, QueuesExact, QueuesInOrder, ArrivalFaithful, ArrivedBefore
  <2> QED
    BY <1>1, <2>1, ToSetEmpty
<1>2. CASE /\ waitingQueues[k] # << >>
           /\ LET waiter == Head(waitingQueues[k])
                  shifted == [waitingQueues EXCEPT ![k] = Tail(@)]
              IN  /\ store' = [store EXCEPT ![k] = Tail(list)]
                  /\ Resolve(waiter, Answer(waiter, k, Head(list)))
                  /\ waitingQueues' = RemoveWaiter(shifted, waiter)
  <2> DEFINE q == waitingQueues[k]
             w == Head(q)
             shifted == [waitingQueues EXCEPT ![k] = Tail(@)]
  <2>1. /\ store' = [store EXCEPT ![k] = Tail(list)]
        /\ Resolve(w, Answer(w, k, Head(list)))
        /\ waitingQueues' = RemoveWaiter(shifted, w)
    BY <1>2
  <2>2. waitingQueues \in [Keys -> Seq(Calls)] /\ q # << >>
    BY <1>2 DEF Inv, TypeOK
  <2>3. q \in Seq(Calls) /\ IsInjective(q)
    BY <2>2 DEF QueueInv, QueuesExact
  <2>4. /\ w \in ToSet(q) /\ w \in Calls
        /\ Tail(q) \in Seq(Calls) /\ IsInjective(Tail(q)) /\ w \notin ToSet(Tail(q))
    BY <2>2, <2>3, HeadAndTail
  <2>5. /\ ToSet(q) = {w} \cup ToSet(Tail(q))
        /\ \A i \in ToSet(Tail(q)) : Before(q, w, i)
        /\ \A i, j : Before(Tail(q), i, j) => Before(q, i, j)
    BY <2>2, <2>3, HeadIsFirst
  <2>6. status[w] = "waiting"
    BY <2>4 DEF QueueInv, QueuesExact
  <2>7. /\ status' = [status EXCEPT ![w] = "done"]
        /\ reply' = [reply EXCEPT ![w] = <<k, Head(list)>>]
    BY <2>1, <2>6 DEF Resolve, Answer
  <2>8. /\ shifted \in [Keys -> Seq(Calls)]
        /\ shifted[k] = Tail(q)
        /\ \A l \in Keys \ {k} : shifted[l] = waitingQueues[l]
    BY <2>2, <2>4
  <2>9. \A i \in ToSet(q) \ {w} : i \in Calls /\ ArrivedBefore(w, i)
    <3>1. ToSet(q) \subseteq Calls
      BY <2>3, ToSetInBase
    <3>2. \A i \in ToSet(q) \ {w} : Before(q, w, i)
      BY <2>5
    <3> QED
      BY <2>4, <3>1, <3>2 DEF QueueInv, QueuesInOrder
  <2> HIDE DEF shifted, w
  <2>10. QueueInv'
    <3>1. ASSUME NEW l \in Keys
          PROVE  /\ IsInjective(shifted[l])
                 /\ ToSet(shifted[l]) \subseteq ToSet(waitingQueues[l])
                 /\ ToSet(waitingQueues[l]) \ {w} \subseteq ToSet(shifted[l])
                 /\ \A i, j : Before(shifted[l], i, j) => Before(waitingQueues[l], i, j)
      <4>1. CASE l = k
        BY <2>4, <2>5, <2>8, <4>1
      <4>2. CASE l # k
        BY <2>8, <4>2 DEF QueueInv, QueuesExact
      <4> QED
        BY <4>1, <4>2
    <3> QED
      BY <2>1, <2>4, <2>6, <2>7, <2>8, <3>1, QueuesWithout
  <2> QED
    BY <2>1, <2>2, <2>4, <2>6, <2>7, <2>9, <2>10
<1> QED
  BY <1>1, <1>2 DEF NotifyListPush

\* A call that has a reply does not wait, and its reply is no nil.
LEMMA RepliesAreDone ==
  ASSUME Inv, NEW i \in Calls
  PROVE  /\ status[i] # "done" => reply[i] = None
         /\ \A e \in Elements : Delivered(e, i) => reply[i] # None
<1>1. \A e \in Elements, k \in Keys : <<k, e>> # None
  BY ConstantsAssumption
<1> QED
  BY <1>1 DEF Inv, ReplyIsHonest, Delivered

\* A push keeps the invariant, whichever end of the list it extends.
LEMMA PushKeepsOrderly ==
  ASSUME OrderlyInv, NEW k \in Keys, NEW es \in Batches, NEW list \in Seq(Elements),
         store[k] # StringValue,
         list # << >>, ToSet(list) = ToSet(store[k]) \cup ToSet(es),
         NotifyListPush(k, list), MarkPushed(k, es),
         waitingQueues[k] = << >> /\ replica = store => replica' = [store EXCEPT ![k] = list],
         UNCHANGED <<listening, connectionIdentifier, timeoutSeconds, slot, arrival, taken>>
  PROVE  QueueInv' /\ NoElementLost' /\ ReplicaMatchesUnlessServed'
<1> DEFINE Stored == /\ ToSet(waitingQueues[k]) = {}
                     /\ waitingQueues[k] = << >>
                     /\ store' = [store EXCEPT ![k] = list]
                     /\ UNCHANGED <<status, reply>>
           Served(w) == /\ waitingQueues[k] # << >>
                        /\ status[w] = "waiting" /\ w \in ToSet(waitingQueues[k])
                        /\ store' = [store EXCEPT ![k] = Tail(list)]
                        /\ status' = [status EXCEPT ![w] = "done"]
                        /\ reply' = [reply EXCEPT ![w] = <<k, Head(list)>>]
                        /\ \A i \in ToSet(waitingQueues[k]) \ {w} : ArrivedBefore(w, i)
<1>1. Inv /\ QueueInv
  BY DEF OrderlyInv
<1>2. QueueInv' /\ (Stored \/ \E w \in Calls : Served(w))
  BY <1>1, NotifyExact
<1>3. /\ store \in [Keys -> Values] /\ status \in [Calls -> {"idle", "waiting", "done"}]
      /\ reply \in [Calls -> (Keys \X Elements) \cup {None}]
      /\ pushedTo \in [Elements -> Keys \cup {None}]
  BY <1>1 DEF Inv, TypeOK
<1>4. \A l \in Keys \ {k} : store'[l] = store[l]
  BY <1>2, <1>3
<1>5. Head(list) \in Elements /\ <<k, Head(list)>> # None
  BY HeadAndTail, ConstantsAssumption
<1>6. \A i \in Calls : reply[i] # None => reply'[i] = reply[i] /\ reply'[i] # None
  <2> SUFFICES ASSUME NEW i \in Calls, reply[i] # None PROVE reply'[i] = reply[i]
    OBVIOUS
  <2>1. status[i] = "done"
    BY <1>1, RepliesAreDone
  <2> QED
    BY <1>2, <1>3, <2>1
<1>7. /\ ToSet(list) = {Head(list)} \cup ToSet(Tail(list))
      /\ list # StringValue /\ Tail(list) # StringValue
  BY HeadIsFirst, HeadAndTail, ConstantsAssumption
<1>8. ToSet(es) \subseteq Elements /\ \A e \in ToSet(es) : pushedTo'[e] = k
  BY BatchIsFresh DEF MarkPushed
<1>9. \A e \in Elements \ ToSet(es) : pushedTo'[e] = pushedTo[e]
  BY DEF MarkPushed
<1>10. NoElementLost'
  <2> SUFFICES ASSUME NEW e \in Elements, NEW l, pushedTo'[e] = l, l # None
               PROVE  Listed(e, l)' \/ e \in taken' \/ \E i \in Calls : Delivered(e, i)'
    BY DEF NoElementLost, Listed
  <2>1. CASE e \in ToSet(list)
    <3>1. l = k
      <4>1. e \in ToSet(store[k]) => pushedTo[e] = k
        BY <1>1 DEF Inv, AtMostOnePlace, Listed
      <4> QED
        BY <1>8, <1>9, <2>1, <4>1
    <3>2. CASE Stored
      <4>1. store'[k] = list
        BY <1>3, <3>2
      <4> QED
        BY <1>7, <2>1, <3>1, <4>1 DEF Listed
    <3>3. ASSUME NEW w \in Calls, Served(w)
          PROVE  Listed(e, k)' \/ Delivered(e, w)'
      <4>1. store'[k] = Tail(list) /\ reply'[w] = <<k, Head(list)>>
        BY <1>3, <3>3
      <4> QED
        BY <1>7, <2>1, <4>1 DEF Listed, Delivered
    <3> HIDE DEF Stored, Served
    <3> QED
      BY <1>2, <3>1, <3>2, <3>3
  <2>2. CASE e \notin ToSet(list)
    <3>1. pushedTo[e] = l /\ l \in Keys
      BY <1>3, <1>9, <2>2
    <3>2. ASSUME Listed(e, l)
          PROVE  Listed(e, l)'
      <4>1. l # k
        BY <2>2, <3>2 DEF Listed
      <4>2. store'[l] = store[l]
        BY <1>4, <3>1, <4>1
      <4> QED
        BY <3>2, <4>2 DEF Listed
    <3>3. ASSUME NEW i \in Calls, Delivered(e, i)
          PROVE  Delivered(e, i)'
      <4>1. reply'[i] = reply[i]
        BY <1>1, <1>6, <3>3, RepliesAreDone
      <4> QED
        BY <3>3, <4>1 DEF Delivered
    <3>4. Listed(e, l) \/ e \in taken \/ \E i \in Calls : Delivered(e, i)
      BY <3>1 DEF OrderlyInv, NoElementLost
    <3> QED
      BY <3>2, <3>3, <3>4
  <2> QED
    BY <2>1, <2>2
<1>11. ReplicaMatchesUnlessServed'
  <2> SUFFICES ASSUME \A i \in ToSet(arrival) : reply'[i] = None
               PROVE  replica' = store'
    BY DEF ReplicaMatchesUnlessServed
  <2>1. \A w \in Calls : ~ Served(w)
    <3> SUFFICES ASSUME NEW w \in Calls, Served(w) PROVE FALSE
      OBVIOUS
    <3>1. w \in ToSet(arrival)
      BY <1>1 DEF QueueInv, ArrivalFaithful
    <3> QED
      BY <1>3, <1>5, <3>1
  <2>2. Stored
    BY <1>2, <2>1
  <2>3. replica = store
    BY <2>2 DEF OrderlyInv, ReplicaMatchesUnlessServed
  <2> QED
    BY <2>2, <2>3
<1> QED
  BY <1>2, <1>10, <1>11

\* A command that takes elements from one key keeps the invariant.
LEMMA TakeKeepsOrderly ==
  ASSUME OrderlyInv, NEW k \in Keys,
         \A l \in Keys \ {k} : store'[l] = store[l],
         \A e \in Elements : Listed(e, k) => Listed(e, k)' \/ e \in taken',
         taken \subseteq taken',
         replica = store => replica' = store',
         UNCHANGED <<waitingQueues, callVars, pushedTo>>
  PROVE  QueueInv' /\ NoElementLost' /\ ReplicaMatchesUnlessServed'
<1>1. QueueInv'
  BY QueuesUntouched DEF OrderlyInv
<1>2. NoElementLost'
  <2> SUFFICES ASSUME NEW e \in Elements, pushedTo[e] # None
               PROVE  \/ Listed(e, pushedTo[e])' \/ e \in taken'
                      \/ \E i \in Calls : Delivered(e, i)
    BY DEF NoElementLost, Listed, Delivered, callVars
  <2>1. \/ Listed(e, pushedTo[e]) \/ e \in taken
        \/ \E i \in Calls : Delivered(e, i)
    BY DEF OrderlyInv, NoElementLost
  <2>2. pushedTo[e] \in Keys
    BY DEF OrderlyInv, Inv, TypeOK
  <2>3. Listed(e, pushedTo[e]) => Listed(e, pushedTo[e])' \/ e \in taken'
    BY <2>2 DEF Listed
  <2> QED
    BY <2>1, <2>3
<1>3. ReplicaMatchesUnlessServed'
  BY DEF OrderlyInv, ReplicaMatchesUnlessServed, callVars
<1> QED
  BY <1>1, <1>2, <1>3

\* LPOP, DEL and SET keep the invariant.
LEMMA LPopKeepsOrderly ==
  ASSUME OrderlyInv, NEW k \in Keys, NEW n \in Nat, LPop(k, n)
  PROVE  QueueInv' /\ NoElementLost' /\ ReplicaMatchesUnlessServed'
<1>1. /\ store' = PopN(store, k, n) /\ replica' = PopN(replica, k, n)
      /\ taken' = taken \cup (ElementsAt(k) \ ToSet(store'[k]))
      /\ store[k] # StringValue
      /\ UNCHANGED <<waitingQueues, callVars, pushedTo>>
  BY DEF LPop
<1>2. store \in [Keys -> Values]
  BY DEF OrderlyInv, Inv, TypeOK
<1>3. \A l \in Keys \ {k} : store'[l] = store[l]
  BY <1>1, <1>2, PopNStore
<1>4. CASE HasElement(store, k)
  <2>1. store'[k] # StringValue
    <3>1. store[k] \in Seq(Elements)
      BY <1>2, <1>4, HasElementIsList
    <3>2. store'[k] = SubSeq(store[k], n + 1, Len(store[k]))
      BY <1>1, <1>2, <1>4, PopNStore
    <3>3. SubSeq(store[k], n + 1, Len(store[k])) \in Seq(Elements)
      BY <3>1, DropFirst
    <3> QED
      BY <3>2, <3>3, ConstantsAssumption
  <2>2. \A e \in Elements : Listed(e, k) => Listed(e, k)' \/ e \in taken'
    BY <1>1, <1>4, <2>1 DEF Listed, ElementsAt
  <2> QED
    BY <1>1, <1>3, <1>4, <2>2, TakeKeepsOrderly
<1>5. CASE ~ HasElement(store, k)
  <2>1. store' = store
    BY <1>1, <1>2, <1>5, PopNStore
  <2>2. \A e \in Elements : Listed(e, k) => Listed(e, k)'
    BY <2>1 DEF Listed
  <2> QED
    BY <1>1, <1>3, <2>1, <2>2, TakeKeepsOrderly
<1> QED
  BY <1>4, <1>5

LEMMA OverwriteKeepsOrderly ==
  ASSUME OrderlyInv, NEW k \in Keys, Del(k) \/ SetString(k)
  PROVE  QueueInv' /\ NoElementLost' /\ ReplicaMatchesUnlessServed'
<1>1. PICK v \in {<< >>, StringValue} :
        /\ store' = [store EXCEPT ![k] = v]
        /\ taken' = taken \cup ElementsAt(k)
        /\ replica' = [replica EXCEPT ![k] = v]
        /\ UNCHANGED <<waitingQueues, callVars, pushedTo>>
  BY DEF Del, SetString
<1>2. store \in [Keys -> Values]
  BY DEF OrderlyInv, Inv, TypeOK
<1>3. store'[k] = v /\ \A l \in Keys \ {k} : store'[l] = store[l]
  BY <1>1, <1>2
<1>4. ~ HasElement(store', k)
  BY <1>3 DEF HasElement
<1>5. \A e \in Elements : Listed(e, k) => e \in taken'
  BY <1>1, ToSetEmpty DEF Listed, ElementsAt, HasElement
<1> QED
  BY <1>1, <1>3, <1>4, <1>5, TakeKeepsOrderly

\* RPUSH and LPUSH keep the invariant.
LEMMA RPushKeepsOrderly ==
  ASSUME OrderlyInv, NEW k \in Keys, NEW es \in Batches, RPush(k, es)
  PROVE  QueueInv' /\ NoElementLost' /\ ReplicaMatchesUnlessServed'
<1> DEFINE list == store[k] \o es
<1>1. store[k] # StringValue /\ store[k] \in Seq(Elements)
  BY HasElementIsList DEF RPush, OrderlyInv, Inv, TypeOK
<1>2. list \in Seq(Elements) /\ list # << >> /\ ToSet(list) = ToSet(store[k]) \cup ToSet(es)
  BY <1>1, BatchIsFresh, ConcatLists
<1>3. NotifyListPush(k, list) /\ MarkPushed(k, es)
  BY DEF RPush
<1>4. waitingQueues[k] = << >> /\ replica = store => replica' = [store EXCEPT ![k] = list]
  BY <1>1 DEF RPush, ReplicaBeforePush, AppendAll
<1> HIDE DEF list
<1> QED
  BY <1>1, <1>2, <1>3, <1>4, PushKeepsOrderly DEF RPush

LEMMA LPushKeepsOrderly ==
  ASSUME OrderlyInv, NEW k \in Keys, NEW es \in Batches, LPush(k, es)
  PROVE  QueueInv' /\ NoElementLost' /\ ReplicaMatchesUnlessServed'
<1> DEFINE list == Reverse(es) \o store[k]
<1>1. store[k] # StringValue /\ store[k] \in Seq(Elements)
  BY HasElementIsList DEF LPush, OrderlyInv, Inv, TypeOK
<1>2. list \in Seq(Elements) /\ list # << >> /\ ToSet(list) = ToSet(store[k]) \cup ToSet(es)
  <2>1. /\ Reverse(es) \in Seq(Elements) /\ Reverse(es) # << >>
        /\ ToSet(Reverse(es)) = ToSet(es)
    BY BatchIsFresh, ReverseList
  <2> QED
    BY <1>1, <2>1, ConcatLists
<1>3. NotifyListPush(k, list) /\ MarkPushed(k, es)
  BY DEF LPush
<1>4. waitingQueues[k] = << >> /\ replica = store => replica' = [store EXCEPT ![k] = list]
  BY <1>1 DEF LPush, ReplicaBeforePush, PrependAll
<1> HIDE DEF list
<1> QED
  BY <1>1, <1>2, <1>3, <1>4, PushKeepsOrderly DEF LPush

\* A connection of such a client dispatches a BLPOP only when it has none
\* that is unanswered.
LEMMA NonePending ==
  ASSUME MaxPending = 1, QueueInv, NEW i \in Calls, NEW c \in Conns, NEW ks, NEW t,
         Dispatched(i, c, ks, t)
  PROVE  \A j \in Calls : status[j] = "waiting" => connectionIdentifier[j] # c
<1> SUFFICES ASSUME NEW j \in Calls, status[j] = "waiting", connectionIdentifier[j] = c
             PROVE  FALSE
  OBVIOUS
<1>1. Pending(c) = {j}
  BY DEF Pending, QueueInv, OnePending
<1>2. Cardinality(Pending(c)) = 1
  BY <1>1, FS_Singleton
<1> QED
  BY <1>2 DEF Dispatched

\* A BLPOP that finds an element pops the key it answers with.
LEMMA BLPopNowPops ==
  ASSUME Inv, NEW i \in Calls, NEW c \in Conns, NEW ks \in KeyLists, NEW t \in Timeouts,
         BLPopNow(i, c, ks, t)
  PROVE  \E k \in Keys :
           /\ HasElement(store, k)
           /\ store' = [store EXCEPT ![k] = Tail(store[k])]
           /\ reply' = [reply EXCEPT ![i] = <<k, Head(store[k])>>]
           /\ replica' = PopN(replica, k, 1)
<1> DEFINE ready == {n \in DOMAIN ks : HasElement(store, ks[n])}
           k == ks[Min(ready)]
<1>1. /\ ready # {}
      /\ store' = PopN(store, k, 1)
      /\ reply' = [reply EXCEPT ![i] = <<k, Head(store[k])>>]
      /\ replica' = PopN(replica, k, 1)
  BY DEF BLPopNow
<1>2. ks \in Seq(Keys) /\ DOMAIN ks \subseteq Nat
  BY ConstantsAssumption, LenProperties
<1>3. Min(ready) \in ready
  BY <1>1, <1>2, MinIsMember
<1> HIDE DEF ready
<1>4. k \in Keys /\ HasElement(store, k)
  <2>1. Min(ready) \in DOMAIN ks /\ HasElement(store, k)
    BY <1>3 DEF ready
  <2> QED
    BY <1>2, <2>1, ElementOfSeq, LenProperties
<1> HIDE DEF k
<1>5. store[k] \in Seq(Elements) /\ store[k] # << >>
  BY <1>4, HasElementIsList DEF Inv, TypeOK, HasElement
<1>6. SubSeq(store[k], 1 + 1, Len(store[k])) = Tail(store[k])
  BY <1>5, TailIsSubSeq
<1>7. PopN(store, k, 1) = [store EXCEPT ![k] = Tail(store[k])]
  BY <1>4, <1>6 DEF PopN
<1> QED
  BY <1>1, <1>4, <1>7

\* A BLPOP that finds an element keeps the invariant.
LEMMA BLPopNowKeepsOrderly ==
  ASSUME OrderlyInv, NEW i \in Calls, NEW c \in Conns, NEW ks \in KeyLists,
         NEW t \in Timeouts, BLPopNow(i, c, ks, t)
  PROVE  QueueInv' /\ NoElementLost' /\ ReplicaMatchesUnlessServed'
<1>1. Inv /\ QueueInv
  BY DEF OrderlyInv
<1>2. PICK k \in Keys :
        /\ HasElement(store, k)
        /\ store' = [store EXCEPT ![k] = Tail(store[k])]
        /\ reply' = [reply EXCEPT ![i] = <<k, Head(store[k])>>]
        /\ replica' = PopN(replica, k, 1)
  BY <1>1, BLPopNowPops
<1>3. /\ status[i] = "idle"
      /\ listening' = [listening EXCEPT ![i] = ks]
      /\ connectionIdentifier' = [connectionIdentifier EXCEPT ![i] = c]
      /\ status' = [status EXCEPT ![i] = "done"]
      /\ UNCHANGED <<waitingQueues, arrival, pushedTo, taken>>
  BY DEF BLPopNow, Dispatched
<1>4. /\ store \in [Keys -> Values]
      /\ status \in [Calls -> {"idle", "waiting", "done"}]
      /\ reply \in [Calls -> (Keys \X Elements) \cup {None}]
      /\ listening \in [Calls -> Seq(Keys)]
      /\ connectionIdentifier \in [Calls -> Conns \cup {None}]
      /\ pushedTo \in [Elements -> Keys \cup {None}]
      /\ ToSet(arrival) \subseteq Calls
  BY <1>1, ToSetInBase DEF Inv, TypeOK
<1>5. /\ status'[i] = "done"
      /\ \A j \in Calls \ {i} : /\ status'[j] = status[j] /\ reply'[j] = reply[j]
                                /\ listening'[j] = listening[j]
                                /\ connectionIdentifier'[j] = connectionIdentifier[j]
  BY <1>2, <1>3, <1>4
<1>6. QueueInv'
  <2>1. OnePending'
    BY <1>1, <1>5 DEF QueueInv, OnePending
  <2>2. QueuesExact'
    BY <1>1, <1>3, <1>5 DEF QueueInv, QueuesExact
  <2>3. QueuesInOrder' /\ ArrivalFaithful'
    BY <1>1, <1>3, <1>4, <1>5 DEF QueueInv, QueuesInOrder, ArrivedBefore, ArrivalFaithful
  <2> QED
    BY <2>1, <2>2, <2>3 DEF QueueInv
<1>7. /\ store[k] \in Seq(Elements) /\ store[k] # << >>
      /\ ToSet(store[k]) = {Head(store[k])} \cup ToSet(Tail(store[k]))
      /\ Tail(store[k]) # StringValue
  <2>1. store[k] \in Seq(Elements) /\ store[k] # << >>
    BY <1>2, <1>4, HasElementIsList
  <2>2. ToSet(store[k]) = {Head(store[k])} \cup ToSet(Tail(store[k]))
    BY <2>1, HeadIsFirst
  <2>3. Tail(store[k]) \in Seq(Elements)
    BY <2>1, HeadAndTail
  <2> QED
    BY <2>1, <2>2, <2>3, ConstantsAssumption
<1>8. /\ store'[k] = Tail(store[k]) /\ \A l \in Keys \ {k} : store'[l] = store[l]
      /\ reply'[i] = <<k, Head(store[k])>>
  BY <1>2, <1>4
<1>9. NoElementLost'
  <2> SUFFICES ASSUME NEW e \in Elements, NEW l, pushedTo[e] = l, l # None
               PROVE  Listed(e, l)' \/ e \in taken \/ \E j \in Calls : Delivered(e, j)'
    BY <1>3 DEF NoElementLost, Listed, Delivered
  <2>1. l \in Keys /\ (Listed(e, l) \/ e \in taken \/ \E j \in Calls : Delivered(e, j))
    BY <1>4 DEF OrderlyInv, NoElementLost
  <2>2. ASSUME NEW j \in Calls, Delivered(e, j)
        PROVE  Delivered(e, j)'
    <3>1. j # i
      BY <1>1, <1>3, <2>2, RepliesAreDone
    <3> QED
      BY <1>5, <2>2, <3>1 DEF Delivered
  <2>3. ASSUME Listed(e, l)
        PROVE  Listed(e, l)' \/ Delivered(e, i)'
    BY <1>7, <1>8, <2>1, <2>3 DEF Listed, Delivered
  <2> QED
    BY <2>1, <2>2, <2>3
<1>10. ReplicaMatchesUnlessServed'
  <2> SUFFICES ASSUME \A j \in ToSet(arrival) : reply'[j] = None
               PROVE  replica' = store'
    BY <1>3 DEF ReplicaMatchesUnlessServed
  <2>1. \A j \in ToSet(arrival) : j # i /\ j \in Calls
    BY <1>1, <1>3, <1>4 DEF QueueInv, ArrivalFaithful
  <2>2. replica = store
    BY <1>5, <2>1 DEF OrderlyInv, ReplicaMatchesUnlessServed
  <2>3. PopN(store, k, 1) = [store EXCEPT ![k] = Tail(store[k])]
    <3>1. SubSeq(store[k], 1 + 1, Len(store[k])) = Tail(store[k])
      BY <1>7, TailIsSubSeq
    <3> QED
      BY <1>2, <3>1 DEF PopN
  <2> QED
    BY <1>2, <2>2, <2>3
<1> QED
  BY <1>6, <1>9, <1>10

\* A BLPOP that parks keeps the invariant.
LEMMA BLPopBlockKeepsOrderly ==
  ASSUME MaxPending = 1, OrderlyInv, NEW i \in Calls, NEW c \in Conns, NEW ks \in KeyLists,
         NEW t \in Timeouts, BLPopBlock(i, c, ks, t)
  PROVE  QueueInv' /\ NoElementLost' /\ ReplicaMatchesUnlessServed'
<1>1. Inv /\ QueueInv
  BY DEF OrderlyInv
<1>2. /\ status[i] = "idle"
      /\ listening' = [listening EXCEPT ![i] = ks]
      /\ connectionIdentifier' = [connectionIdentifier EXCEPT ![i] = c]
      /\ waitingQueues' = Enqueue(i, ks)
      /\ status' = [status EXCEPT ![i] = "waiting"]
      /\ arrival' = Append(arrival, i)
      /\ UNCHANGED <<store, reply, pushedTo, taken, replica>>
      /\ \A n \in DOMAIN ks : ~ HasElement(store, ks[n])
  BY DEF BLPopBlock, Dispatched
<1>3. /\ status \in [Calls -> {"idle", "waiting", "done"}]
      /\ listening \in [Calls -> Seq(Keys)]
      /\ connectionIdentifier \in [Calls -> Conns \cup {None}]
      /\ waitingQueues \in [Keys -> Seq(Calls)]
      /\ arrival \in Seq(Calls) /\ ToSet(arrival) \subseteq Calls
  BY <1>1, ToSetInBase DEF Inv, TypeOK
<1>4. /\ status'[i] = "waiting" /\ listening'[i] = ks /\ connectionIdentifier'[i] = c
      /\ \A j \in Calls \ {i} : /\ status'[j] = status[j] /\ listening'[j] = listening[j]
                                /\ connectionIdentifier'[j] = connectionIdentifier[j]
  BY <1>2, <1>3
<1>5. \A j \in Calls : status[j] = "waiting" => connectionIdentifier[j] # c
  BY <1>1, NonePending DEF BLPopBlock
<1>6. i \notin ToSet(arrival) /\ \A k \in Keys : i \notin ToSet(waitingQueues[k])
  BY <1>1, <1>2 DEF QueueInv, ArrivalFaithful, QueuesExact
<1>7. /\ ToSet(arrival') = ToSet(arrival) \cup {i}
      /\ IsInjective(arrival')
      /\ \A a, b : Before(arrival, a, b) => Before(arrival', a, b)
      /\ \A a \in ToSet(arrival) : Before(arrival', a, i)
  <2>1. IsInjective(arrival)
    BY <1>1 DEF QueueInv, ArrivalFaithful
  <2> QED
    BY <1>2, <1>3, <1>6, <2>1, AppendToList
<1>8. ASSUME NEW k \in Keys
      PROVE  /\ ToSet(waitingQueues'[k]) =
                  IF k \in ToSet(ks) THEN ToSet(waitingQueues[k]) \cup {i} ELSE ToSet(waitingQueues[k])
             /\ IsInjective(waitingQueues'[k])
             /\ \A a, b : Before(waitingQueues'[k], a, b) =>
                  Before(waitingQueues[k], a, b) \/ (a \in ToSet(waitingQueues[k]) /\ b = i)
  <2>1. waitingQueues[k] \in Seq(Calls) /\ IsInjective(waitingQueues[k])
    BY <1>1, <1>3 DEF QueueInv, QueuesExact
  <2>2. waitingQueues'[k] = IF k \in ToSet(ks) THEN Append(waitingQueues[k], i) ELSE waitingQueues[k]
    BY <1>2 DEF Enqueue
  <2> QED
    <3>1. CASE k \in ToSet(ks)
      BY <1>6, <2>1, <2>2, <3>1, AppendToList
    <3>2. CASE k \notin ToSet(ks)
      BY <2>1, <2>2, <3>2
    <3> QED
      BY <3>1, <3>2
<1>9. QueueInv'
  <2>1. OnePending'
    BY <1>1, <1>4, <1>5 DEF QueueInv, OnePending
  <2>2. QueuesExact'
    <3> SUFFICES ASSUME NEW k \in Keys, NEW j \in Calls
                 PROVE  j \in ToSet(waitingQueues'[k]) <=>
                          status'[j] = "waiting" /\ k \in ToSet(listening'[j])
      BY <1>8 DEF QueuesExact
    <3>1. j \in ToSet(waitingQueues[k]) <=> status[j] = "waiting" /\ k \in ToSet(listening[j])
      BY <1>1 DEF QueueInv, QueuesExact
    <3> QED
      <4>1. CASE j = i
        BY <1>4, <1>6, <1>8, <4>1
      <4>2. CASE j # i
        <5>1. status'[j] = status[j] /\ listening'[j] = listening[j]
          BY <1>4, <4>2
        <5>2. j \in ToSet(waitingQueues'[k]) <=> j \in ToSet(waitingQueues[k])
          BY <1>8, <4>2
        <5> QED
          BY <3>1, <5>1, <5>2
      <4> QED
        BY <4>1, <4>2
  <2>3. QueuesInOrder'
    <3> SUFFICES ASSUME NEW k \in Keys, NEW a \in Calls, NEW b \in Calls,
                        Before(waitingQueues'[k], a, b)
                 PROVE  Before(arrival', a, b)
      BY DEF QueuesInOrder, ArrivedBefore, Before
    <3>1. CASE Before(waitingQueues[k], a, b)
      <4>1. Before(arrival, a, b)
        BY <1>1, <3>1 DEF QueueInv, QueuesInOrder, ArrivedBefore, Before
      <4> QED
        BY <1>7, <4>1
    <3>2. CASE a \in ToSet(waitingQueues[k]) /\ b = i
      <4>1. a \in ToSet(arrival)
        BY <1>1, <3>2 DEF QueueInv, QueuesExact, ArrivalFaithful
      <4> QED
        BY <1>7, <3>2, <4>1
    <3>3. \/ Before(waitingQueues[k], a, b)
          \/ a \in ToSet(waitingQueues[k]) /\ b = i
      <4>1. \A x, y : Before(waitingQueues'[k], x, y) =>
              Before(waitingQueues[k], x, y) \/ (x \in ToSet(waitingQueues[k]) /\ y = i)
        BY ONLY <1>8, k \in Keys, Zenon
      <4> QED
        BY <4>1
    <3> QED
      BY <3>1, <3>2, <3>3
  <2>4. ArrivalFaithful'
    BY <1>1, <1>3, <1>4, <1>7 DEF QueueInv, ArrivalFaithful
  <2> QED
    BY <2>1, <2>2, <2>3, <2>4 DEF QueueInv
<1>10. NoElementLost'
  BY <1>2 DEF OrderlyInv, NoElementLost, Listed, Delivered
<1>11. ReplicaMatchesUnlessServed'
  BY <1>2, <1>7 DEF OrderlyInv, ReplicaMatchesUnlessServed
<1> QED
  BY <1>9, <1>10, <1>11

\* A timer keeps the invariant.
LEMMA TimeoutKeepsOrderly ==
  ASSUME OrderlyInv, NEW i \in Calls, Timeout(i)
  PROVE  QueueInv' /\ NoElementLost' /\ ReplicaMatchesUnlessServed'
<1>1. Inv /\ QueueInv /\ status[i] = "waiting"
  BY DEF OrderlyInv, Timeout, TimerDue
<1>2. /\ waitingQueues' = RemoveWaiter(waitingQueues, i)
      /\ status' = [status EXCEPT ![i] = "done"]
      /\ UNCHANGED <<store, listening, connectionIdentifier, reply, arrival, pushedTo, taken, replica>>
  BY DEF Timeout
<1>3. waitingQueues \in [Keys -> Seq(Calls)] /\ \A k \in Keys : IsInjective(waitingQueues[k])
  BY <1>1 DEF Inv, TypeOK, QueueInv, QueuesExact
<1>4. QueueInv'
  BY <1>1, <1>2, <1>3, QueuesWithout
<1>5. NoElementLost' /\ ReplicaMatchesUnlessServed'
  BY <1>2 DEF OrderlyInv, NoElementLost, Listed, Delivered, ReplicaMatchesUnlessServed
<1> QED
  BY <1>4, <1>5

\* An empty master satisfies the invariant, and every step keeps it.
LEMMA InitOrderly == Init => OrderlyInv
<1> SUFFICES ASSUME Init
             PROVE  OrderlyInv
  OBVIOUS
<1>1. Inv
  BY InitInv
<1>2. IsInjective(<< >>) /\ \A a, b : ~ Before(<< >>, a, b)
  BY DEF IsInjective, Before
<1>3. QueueInv
  BY <1>2, ToSetEmpty DEF Init, QueueInv, OnePending, QueuesExact, QueuesInOrder, ArrivalFaithful
<1>4. NoElementLost /\ ReplicaMatchesUnlessServed
  BY DEF Init, NoElementLost, ReplicaMatchesUnlessServed
<1> QED
  BY <1>1, <1>3, <1>4 DEF OrderlyInv

LEMMA NextOrderly ==
  ASSUME MaxPending = 1
  PROVE  OrderlyInv /\ [Next]_vars => OrderlyInv'
<1> SUFFICES ASSUME OrderlyInv, [Next]_vars
             PROVE  OrderlyInv'
  OBVIOUS
<1> DEFINE Goal == QueueInv' /\ NoElementLost' /\ ReplicaMatchesUnlessServed'
<1>1. ASSUME NEW k \in Keys, NEW es \in Batches, RPush(k, es) \/ LPush(k, es)
      PROVE  Goal
  BY <1>1, RPushKeepsOrderly, LPushKeepsOrderly
<1>2. ASSUME NEW k \in Keys, NEW n \in 0..Cardinality(Elements), LPop(k, n)
      PROVE  Goal
  BY <1>2, LPopKeepsOrderly
<1>3. ASSUME NEW k \in Keys, Del(k) \/ SetString(k)
      PROVE  Goal
  BY <1>3, OverwriteKeepsOrderly
<1>4. ASSUME NEW i \in Calls, NEW c \in Conns, NEW ks \in KeyLists, NEW t \in Timeouts,
             BLPopNow(i, c, ks, t) \/ BLPopBlock(i, c, ks, t)
      PROVE  Goal
  BY <1>4, BLPopNowKeepsOrderly, BLPopBlockKeepsOrderly
<1>5. ASSUME NEW i \in Calls, Timeout(i)
      PROVE  Goal
  BY <1>5, TimeoutKeepsOrderly
<1>6. ASSUME UNCHANGED vars
      PROVE  Goal
  <2>1. QueueInv'
    BY <1>6, QueuesUntouched DEF vars, OrderlyInv
  <2>2. NoElementLost' /\ ReplicaMatchesUnlessServed'
    BY <1>6 DEF vars, callVars, OrderlyInv, NoElementLost, Listed, Delivered,
                ReplicaMatchesUnlessServed
  <2> QED
    BY <2>1, <2>2
<1> HIDE DEF Goal
<1>7. Goal
  BY <1>1, <1>2, <1>3, <1>4, <1>5, <1>6 DEF Next
<1>8. Inv'
  BY NextInv DEF OrderlyInv
<1> QED
  BY <1>7, <1>8 DEF OrderlyInv, Goal

\* Only a push changes the reply of a call that waits: it hands the element to
\* the call that was parked first of those that wait on its key.
LEMMA PushServesFirst ==
  ASSUME OrderlyInv, NEW k \in Keys, NEW list \in Seq(Elements), list # << >>,
         NotifyListPush(k, list), UNCHANGED <<listening, connectionIdentifier, arrival>>,
         NEW i \in Calls, NEW j \in Calls,
         status[i] = "waiting", status[j] = "waiting", ArrivedBefore(i, j),
         reply'[j] # reply[j]
  PROVE  reply'[j][1] \notin ToSet(listening[i])
<1>1. Inv /\ QueueInv
  BY DEF OrderlyInv
<1>2. PICK w \in Calls :
        /\ reply' = [reply EXCEPT ![w] = <<k, Head(list)>>]
        /\ \A m \in ToSet(waitingQueues[k]) \ {w} : ArrivedBefore(w, m)
  BY <1>1, NotifyExact
<1>3. w = j /\ reply'[j][1] = k
  BY <1>1, <1>2 DEF Inv, TypeOK
<1>4. arrival \in Seq(Calls) /\ IsInjective(arrival)
  BY <1>1 DEF Inv, TypeOK, QueueInv, ArrivalFaithful
<1>5. ~ ArrivedBefore(j, i) /\ i # j
  BY <1>4, BeforeIsStrict DEF ArrivedBefore, Before
<1>6. i \notin ToSet(waitingQueues[k])
  BY <1>2, <1>3, <1>5
<1> QED
  BY <1>1, <1>3, <1>6 DEF QueueInv, QueuesExact

\* A push that adds an element beside a call that waits has served the call that
\* was parked first of those that wait on the key.
LEMMA PushWakesOne ==
  ASSUME OrderlyInv, NEW k \in Keys, NEW list \in Seq(Elements), list # << >>,
         NotifyListPush(k, list), UNCHANGED <<listening, connectionIdentifier, arrival>>,
         NEW i \in Calls, NEW l \in Keys, NEW e \in Elements,
         WaitsBeside(i, l, e)', ~ WaitsBeside(i, l, e)
  PROVE  \E j \in Calls : /\ ArrivedBefore(j, i)
                          /\ reply[j] = None
                          /\ reply'[j] # None /\ reply'[j][1] = l
<1>1. Inv /\ QueueInv
  BY DEF OrderlyInv
<1>2. /\ store \in [Keys -> Values] /\ status \in [Calls -> {"idle", "waiting", "done"}]
      /\ reply \in [Calls -> (Keys \X Elements) \cup {None}]
  BY <1>1 DEF Inv, TypeOK
<1>3. <<k, Head(list)>> # None
  BY HeadAndTail, ConstantsAssumption
<1>4. /\ status'[i] = "waiting" => status[i] = "waiting"
      /\ \A m \in Keys \ {k} : store'[m] = store[m]
  BY <1>1, <1>2, NotifyExact
<1>5. status[i] = "waiting" /\ status'[i] = "waiting" /\ l \in ToSet(listening[i])
  BY <1>4 DEF WaitsBeside
<1>6. l = k
  BY <1>4, <1>5 DEF WaitsBeside, Listed
<1>7. i \in ToSet(waitingQueues[k])
  BY <1>1, <1>5, <1>6 DEF QueueInv, QueuesExact
<1>8. PICK w \in Calls :
        /\ status[w] = "waiting"
        /\ status' = [status EXCEPT ![w] = "done"]
        /\ reply' = [reply EXCEPT ![w] = <<k, Head(list)>>]
        /\ \A m \in ToSet(waitingQueues[k]) \ {w} : ArrivedBefore(w, m)
  BY <1>1, <1>7, NotifyExact
<1>9. w # i
  BY <1>2, <1>5, <1>8
<1>10. reply[w] = None /\ reply'[w] = <<k, Head(list)>>
  BY <1>1, <1>2, <1>8, RepliesAreDone
<1> QED
  BY <1>3, <1>6, <1>7, <1>8, <1>9, <1>10

-----------------------------------------------------------------------------
(* The steps are steps of ListService.                                     *)

\* ListService uses the library operators that BlockingManager uses.
LEMMA LibraryOfService ==
  /\ \A s : Service!ToSet(s) = ToSet(s)
  /\ \A s : Service!Reverse(s) = Reverse(s)
BY DEF ToSet, Service!ToSet, Reverse, Service!Reverse

\* The queue of a key holds those who wait for it in the service.
LEMMA QueueIsWaiting ==
  ASSUME OrderlyInv, NEW k \in Keys
  PROVE  /\ ToSet(waitingQueues[k]) = Service!Waiting(k)
         /\ Service!Waiting(k) = {} <=> waitingQueues[k] = << >>
<1>1. waitingQueues[k] \in Seq(Calls)
  BY DEF OrderlyInv, Inv, TypeOK
<1>2. ToSet(waitingQueues[k]) \subseteq Calls
  BY <1>1, ToSetInBase
<1>3. ToSet(waitingQueues[k]) = Service!Waiting(k)
  <2>1. \A i \in Calls :
          i \in ToSet(waitingQueues[k]) <=> status[i] = "waiting" /\ k \in ToSet(listening[i])
    BY DEF OrderlyInv, QueueInv, QueuesExact
  <2> QED
    BY <1>2, <2>1, LibraryOfService, Zenon DEF Service!Waiting
<1>4. CASE waitingQueues[k] = << >>
  BY <1>3, <1>4, ToSetEmpty
<1>5. CASE waitingQueues[k] # << >>
  BY <1>1, <1>3, <1>5, HeadAndTail
<1> QED
  BY <1>3, <1>4, <1>5

\* A push gives its first element to the first in the line of those who wait.
LEMMA PushRefines ==
  ASSUME OrderlyInv, NEW k \in Keys, NEW list \in Seq(Elements), list # << >>,
         NotifyListPush(k, list),
         UNCHANGED <<listening, connectionIdentifier, timeoutSeconds, arrival>>
  PROVE  Service!Push(k, list)
<1>1. Inv /\ QueueInv
  BY DEF OrderlyInv
<1>2. /\ ToSet(waitingQueues[k]) = Service!Waiting(k)
      /\ Service!Waiting(k) = {} <=> waitingQueues[k] = << >>
  BY QueueIsWaiting
<1>3. CASE /\ waitingQueues[k] = << >>
           /\ store' = [store EXCEPT ![k] = list]
           /\ UNCHANGED <<status, reply>>
  BY <1>2, <1>3 DEF Service!Push
<1>4. ASSUME NEW w \in Calls,
             w \in ToSet(waitingQueues[k]),
             store' = [store EXCEPT ![k] = Tail(list)],
             status' = [status EXCEPT ![w] = "done"],
             reply' = [reply EXCEPT ![w] = <<k, Head(list)>>],
             \A i \in ToSet(waitingQueues[k]) \ {w} : ArrivedBefore(w, i)
      PROVE  Service!Push(k, list)
  <2>1. w \in Service!Waiting(k)
    BY <1>2, <1>4
  <2>2. \A j \in Service!Waiting(k) \ {w} : Service!Ahead(w, j)
    BY <1>2, <1>4 DEF ArrivedBefore, Service!Ahead
  <2> QED
    BY <1>4, <2>1, <2>2 DEF Service!Push
<1> QED
  BY <1>1, <1>3, <1>4, NotifyExact

\* What a push carries is what a push of the service may carry.
LEMMA BatchIsPush ==
  ASSUME NEW es \in Batches
  PROVE  es \in Pushes
<1> DEFINE Fresh == {e \in Elements : pushedTo[e] = None}
<1>1. PICK m \in 0..MaxPush : es \in [1..m -> Fresh]
  BY DEF Batches, SeqOf
<1>2. es \in [1..m -> Elements]
  BY <1>1
<1>3. es \in SeqOf(Elements, MaxPush)
  BY <1>1, <1>2 DEF SeqOf
<1>4. es # << >> /\ IsInjective(es)
  BY BatchIsFresh
<1> QED
  BY <1>3, <1>4 DEF Pushes

\* RPUSH and LPUSH are pushes of the service, each to its end of the list.
LEMMA ListPushRefines ==
  ASSUME OrderlyInv, NEW k \in Keys, NEW es \in Batches
  PROVE  /\ RPush(k, es) => Service!Push(k, store[k] \o es)
         /\ LPush(k, es) => Service!Push(k, Reverse(es) \o store[k])
<1>1. es \in Seq(Elements) /\ es # << >> /\ Reverse(es) \in Seq(Elements) /\ Reverse(es) # << >>
  BY BatchIsFresh, ReverseList
<1>2. ASSUME RPush(k, es)
      PROVE  Service!Push(k, store[k] \o es)
  <2>1. store[k] \in Seq(Elements)
    BY <1>2, HasElementIsList DEF OrderlyInv, Inv, TypeOK, RPush
  <2>2. store[k] \o es \in Seq(Elements) /\ store[k] \o es # << >>
    BY <1>1, <2>1, ConcatLists
  <2>3. /\ NotifyListPush(k, store[k] \o es)
        /\ UNCHANGED <<listening, connectionIdentifier, timeoutSeconds, arrival>>
    BY <1>2 DEF RPush
  <2> QED
    BY <2>2, <2>3, PushRefines
<1>3. ASSUME LPush(k, es)
      PROVE  Service!Push(k, Reverse(es) \o store[k])
  <2>1. store[k] \in Seq(Elements)
    BY <1>3, HasElementIsList DEF OrderlyInv, Inv, TypeOK, LPush
  <2>2. Reverse(es) \o store[k] \in Seq(Elements) /\ Reverse(es) \o store[k] # << >>
    BY <1>1, <2>1, ConcatLists
  <2>3. /\ NotifyListPush(k, Reverse(es) \o store[k])
        /\ UNCHANGED <<listening, connectionIdentifier, timeoutSeconds, arrival>>
    BY <1>3 DEF LPush
  <2> QED
    BY <2>2, <2>3, PushRefines
<1> QED
  BY <1>2, <1>3

\* A count beyond the end of a list takes as much as its length does.
LEMMA DropTooMany ==
  ASSUME NEW S, NEW s \in Seq(S), NEW n \in Nat, n >= Len(s)
  PROVE  SubSeq(s, n + 1, Len(s)) = SubSeq(s, Len(s) + 1, Len(s))
<1>1. Len(s) \in Nat
  BY LenProperties
<1>2. SubSeq(s, n + 1, Len(s)) = << >> /\ SubSeq(s, Len(s) + 1, Len(s)) = << >>
  BY <1>1, SubSeqEmpty
<1> QED
  BY <1>2

\* LPOP is a pop of the service, or finds nothing to take.
LEMMA LPopRefines ==
  ASSUME OrderlyInv, NEW k \in Keys, NEW n \in Nat, LPop(k, n)
  PROVE  Service!Next \/ UNCHANGED Service!vars
<1>1. /\ store' = PopN(store, k, n)
      /\ UNCHANGED callVars
  BY DEF LPop
<1>2. CASE ~ HasElement(store, k)
  BY <1>1, <1>2 DEF PopN, callVars, Service!vars
<1>3. CASE HasElement(store, k)
  <2>1. store[k] \in Seq(Elements) /\ store[k] # << >> /\ store \in [Keys -> Values]
    BY <1>3, HasElementIsList DEF OrderlyInv, Inv, TypeOK
  <2>2. Len(store[k]) \in Nat /\ Len(store[k]) > 0
    BY <2>1, LenProperties, EmptySeq
  <2>3. k \in {l \in Keys : Service!HasElement(l)}
    BY <1>3 DEF HasElement, Service!HasElement
  <2>4. store' = [store EXCEPT ![k] = SubSeq(store[k], n + 1, Len(store[k]))]
    BY <1>1, <1>3 DEF PopN
  <2>5. CASE n = 0
    <3>1. SubSeq(store[k], n + 1, Len(store[k])) = store[k]
      BY <2>1, <2>5, SubSeqFull
    <3>2. store' = store
      BY <2>1, <2>4, <3>1
    <3> QED
      BY <1>1, <3>2 DEF callVars, Service!vars
  <2>6. CASE n \in 1..Len(store[k])
    <3>1. Service!Pop(k, n)
      BY <1>1, <2>4 DEF callVars, Service!Pop
    <3> QED
      BY <2>3, <2>6, <3>1 DEF Service!Next
  <2>7. CASE n > Len(store[k])
    <3>1. SubSeq(store[k], n + 1, Len(store[k]))
            = SubSeq(store[k], Len(store[k]) + 1, Len(store[k]))
      <4>1. n >= Len(store[k])
        BY <2>2, <2>7
      <4> QED
        BY <2>1, <4>1, DropTooMany, Zenon
    <3>2. Service!Pop(k, Len(store[k]))
      BY <1>1, <2>4, <3>1 DEF callVars, Service!Pop
    <3>3. Len(store[k]) \in 1..Len(store[k])
      BY <2>2
    <3> QED
      BY <2>3, <3>2, <3>3 DEF Service!Next
  <2> QED
    BY <2>2, <2>5, <2>6, <2>7
<1> QED
  BY <1>2, <1>3

\* A BLPOP that is answered at once is answered from the first of its keys that
\* has an element.
LEMMA BLPopNowRefines ==
  ASSUME OrderlyInv, NEW i \in Calls, NEW c \in Conns, NEW ks \in KeyLists,
         NEW t \in Timeouts, BLPopNow(i, c, ks, t)
  PROVE  Service!Next
<1> DEFINE ready == {n \in DOMAIN ks : HasElement(store, ks[n])}
           first == Min(ready)
           k == ks[first]
<1>1. /\ ready # {}
      /\ store' = PopN(store, k, 1)
      /\ reply' = [reply EXCEPT ![i] = <<k, Head(store[k])>>]
      /\ status' = [status EXCEPT ![i] = "done"]
      /\ UNCHANGED arrival
  BY DEF BLPopNow
<1>2. Service!Ask(i, ks, t)
  BY DEF BLPopNow, Dispatched, Service!Ask
<1>3. ks \in Seq(Keys) /\ DOMAIN ks \subseteq Nat
  BY ConstantsAssumption, LenProperties
<1>4. first \in ready /\ \A m \in ready : first =< m
  BY <1>1, <1>3, MinIsMember
<1> HIDE DEF first
<1>5. first \in DOMAIN ks /\ HasElement(store, k)
  BY <1>4
<1>6. \A m \in DOMAIN ks : m < first => ~ HasElement(store, ks[m])
  BY <1>3, <1>4
<1> HIDE DEF ready
<1>7. k \in Keys
  BY <1>3, <1>5, ElementOfSeq, LenProperties
<1>8. store' = [store EXCEPT ![k] = Tail(store[k])]
  <2> HIDE DEF k
  <2>1. store[k] \in Seq(Elements) /\ store[k] # << >>
    BY <1>5, <1>7, HasElementIsList DEF OrderlyInv, Inv, TypeOK
  <2>2. SubSeq(store[k], 1 + 1, Len(store[k])) = Tail(store[k])
    BY <2>1, TailIsSubSeq
  <2> QED
    BY <1>1, <1>5, <2>2 DEF PopN
<1>9. Service!PopNow(i, ks, t)
  BY <1>1, <1>2, <1>5, <1>6, <1>8 DEF HasElement, Service!HasElement, Service!PopNow
<1> QED
  BY <1>9 DEF Service!Next

\* Every step of the program is a step of the service, or shows it nothing.
LEMMA NextRefines ==
  OrderlyInv /\ [Next]_vars => [Service!Next]_Service!vars
<1> SUFFICES ASSUME OrderlyInv, [Next]_vars
             PROVE  Service!Next \/ UNCHANGED Service!vars
  OBVIOUS
<1>1. ASSUME NEW k \in Keys, NEW es \in Batches, RPush(k, es) \/ LPush(k, es)
      PROVE  Service!Next
  <2>1. store[k] # StringValue
    BY <1>1 DEF RPush, LPush
  <2>2. es \in Pushes
    BY BatchIsPush
  <2>3. Service!Push(k, store[k] \o es) \/ Service!Push(k, Reverse(es) \o store[k])
    BY <1>1, ListPushRefines
  <2> QED
    BY <2>1, <2>2, <2>3, LibraryOfService, Zenon DEF Service!Next
<1>2. ASSUME NEW k \in Keys, NEW n \in 0..Cardinality(Elements), LPop(k, n)
      PROVE  Service!Next \/ UNCHANGED Service!vars
  <2>1. n \in Nat
    OBVIOUS
  <2> QED
    BY <1>2, <2>1, LPopRefines
<1>3. ASSUME NEW k \in Keys, Del(k)
      PROVE  Service!Next
  <2>1. Service!Overwrite(k, << >>)
    BY <1>3 DEF Del, callVars, Service!Overwrite
  <2> QED
    BY <2>1 DEF Service!Next
<1>4. ASSUME NEW k \in Keys, SetString(k)
      PROVE  Service!Next
  <2>1. Service!Overwrite(k, StringValue)
    BY <1>4 DEF SetString, callVars, Service!Overwrite
  <2> QED
    BY <2>1 DEF Service!Next
<1>5. ASSUME NEW i \in Calls, NEW c \in Conns, NEW ks \in KeyLists, NEW t \in Timeouts,
             BLPopNow(i, c, ks, t)
      PROVE  Service!Next
  BY <1>5, BLPopNowRefines
<1>6. ASSUME NEW i \in Calls, NEW c \in Conns, NEW ks \in KeyLists, NEW t \in Timeouts,
             BLPopBlock(i, c, ks, t)
      PROVE  Service!Next
  <2>1. Service!Wait(i, ks, t)
    BY <1>6 DEF BLPopBlock, Dispatched, HasElement, Service!HasElement, Service!Ask, Service!Wait
  <2> QED
    BY <2>1 DEF Service!Next
<1>7. ASSUME NEW i \in Calls, Timeout(i)
      PROVE  Service!Next
  <2>1. Service!GiveUp(i)
    BY <1>7 DEF Timeout, TimerDue, Service!GiveUp
  <2> QED
    BY <2>1 DEF Service!Next
<1>8. CASE UNCHANGED vars
  BY <1>8 DEF vars, callVars, Service!vars
<1> QED
  BY <1>1, <1>2, <1>3, <1>4, <1>5, <1>6, <1>7, <1>8 DEF Next

-----------------------------------------------------------------------------
(* The theorems.                                                           *)

\* The inductive invariant holds of every reachable state.
THEOREM Invariance == Spec => []Inv
  BY InitInv, NextInv, PTL DEF Spec

\* Type correctness of the list service, for every value of the constants.
THEOREM TypeCorrect == Spec => []TypeOK
<1>1. Inv => TypeOK
  BY DEF Inv
<1> QED
  BY <1>1, Invariance, PTL

\* No element is handed out twice: whatever pushes, pops, blocking pops and
\* timers do (BlockingManager.ts, RPushCommand.ts, LPushCommand.ts,
\* LPopCommand.ts), an element is in its list, taken, or with one call.
THEOREM ElementsInOnePlace == Spec => []AtMostOnePlace
<1>1. Inv => AtMostOnePlace
  BY DEF Inv
<1> QED
  BY <1>1, Invariance, PTL

\* A blocking pop that is answered with an element is answered with one that
\* was pushed to the key it names, a key it asked for (resolve in
\* BlockingManager.ts), even after a call was removed in another's stead.
THEOREM HonestReplies == Spec => []ReplyIsHonest
<1>1. Inv => ReplyIsHonest
  BY DEF Inv
<1> QED
  BY <1>1, Invariance, PTL

\* The same for the stronger invariant, when no client sends a BLPOP while
\* another of its own is unanswered.
THEOREM OrderlyInvariance == MaxPending = 1 => (Spec => []OrderlyInv)
<1> SUFFICES ASSUME MaxPending = 1
             PROVE  Spec => []OrderlyInv
  OBVIOUS
<1>1. OrderlyInv /\ [Next]_vars => OrderlyInv'
  BY NextOrderly
<1> QED
  BY <1>1, InitOrderly, PTL DEF Spec

\* For such clients a pushed element stays listed until somebody gets it:
\* notifyListPush pops none for a call that cannot take it.
THEOREM NothingLost == MaxPending = 1 => (Spec => []NoElementLost)
<1>1. OrderlyInv => NoElementLost
  BY DEF OrderlyInv
<1> QED
  BY <1>1, OrderlyInvariance, PTL

\* For such clients removeWaiter (BlockingManager.ts:112), which looks for a
\* connection, takes out the call that was answered or timed out, of all its
\* queues, and no other.
THEOREM QueuesAreExact == MaxPending = 1 => (Spec => []QueuedIffWaiting)
<1>1. OrderlyInv => QueuedIffWaiting
  <2> SUFFICES ASSUME OrderlyInv, NEW i \in Calls, NEW k \in Keys
               PROVE  Cardinality({n \in DOMAIN waitingQueues[k] : waitingQueues[k][n] = i})
                        = IF status[i] = "waiting" /\ k \in ToSet(listening[i]) THEN 1 ELSE 0
    BY DEF QueuedIffWaiting
  <2> DEFINE places == {n \in DOMAIN waitingQueues[k] : waitingQueues[k][n] = i}
  <2>1. /\ IsInjective(waitingQueues[k])
        /\ i \in ToSet(waitingQueues[k]) <=> status[i] = "waiting" /\ k \in ToSet(listening[i])
    BY DEF OrderlyInv, QueueInv, QueuesExact
  <2>2. CASE i \in ToSet(waitingQueues[k])
    <3>1. PICK n \in DOMAIN waitingQueues[k] : waitingQueues[k][n] = i
      BY <2>2 DEF ToSet
    <3>2. places = {n}
      BY <2>1, <3>1 DEF IsInjective
    <3>3. Cardinality(places) = 1
      BY <3>2, FS_Singleton
    <3> QED
      BY <2>1, <2>2, <3>3
  <2>3. CASE i \notin ToSet(waitingQueues[k])
    <3>1. places = {}
      BY <2>3 DEF ToSet
    <3>2. Cardinality(places) = 0
      BY <3>1, FS_EmptySet
    <3> QED
      BY <2>1, <2>3, <3>2
  <2> QED
    BY <2>2, <2>3
<1> QED
  BY <1>1, OrderlyInvariance, PTL

\* For such clients no wake-up is lost: when a push leaves an element beside a
\* call that waits, that push has answered a call that was parked before it
\* (notifyListPush), and blockOnLists parks no call beside a list.
THEOREM NobodyForgotten == MaxPending = 1 => (Spec => NoLostWakeUp)
<1> SUFFICES ASSUME MaxPending = 1
             PROVE  Spec => NoLostWakeUp
  OBVIOUS
<1> DEFINE Woken == \A i \in Calls, k \in Keys, e \in Elements :
                      WaitsBeside(i, k, e)' /\ ~ WaitsBeside(i, k, e) =>
                        \E j \in Calls : /\ ArrivedBefore(j, i)
                                         /\ reply[j] = None
                                         /\ reply'[j] # None /\ reply'[j][1] = k
<1>1. OrderlyInv /\ [Next]_vars => [Woken]_vars
  <2> SUFFICES ASSUME OrderlyInv, Next, NEW i \in Calls, NEW l \in Keys, NEW e \in Elements,
                      WaitsBeside(i, l, e)', ~ WaitsBeside(i, l, e)
               PROVE  \E j \in Calls : /\ ArrivedBefore(j, i)
                                       /\ reply[j] = None
                                       /\ reply'[j] # None /\ reply'[j][1] = l
    OBVIOUS
  <2>1. Inv /\ store \in [Keys -> Values]
    BY DEF OrderlyInv, Inv, TypeOK
  <2>2. ASSUME NEW k \in Keys, NEW es \in Batches, RPush(k, es) \/ LPush(k, es)
        PROVE  \E j \in Calls : /\ ArrivedBefore(j, i)
                                /\ reply[j] = None
                                /\ reply'[j] # None /\ reply'[j][1] = l
    <3>1. es \in Seq(Elements) /\ es # << >> /\ Reverse(es) \in Seq(Elements) /\ Reverse(es) # << >>
      BY BatchIsFresh, ReverseList
    <3>2. store[k] \in Seq(Elements)
      BY <2>1, <2>2, HasElementIsList DEF RPush, LPush
    <3>3. PICK list \in Seq(Elements) : list # << >> /\ NotifyListPush(k, list)
      <4>1. CASE RPush(k, es)
        BY <3>1, <3>2, <4>1, ConcatLists DEF RPush
      <4>2. CASE LPush(k, es)
        BY <3>1, <3>2, <4>2, ConcatLists DEF LPush
      <4> QED
        BY <2>2, <4>1, <4>2
    <3>4. UNCHANGED <<listening, connectionIdentifier, arrival>>
      BY <2>2 DEF RPush, LPush
    <3> QED
      BY <3>3, <3>4, PushWakesOne
  <2>3. ASSUME NEW k \in Keys, NEW n \in 0..Cardinality(Elements), LPop(k, n)
        PROVE  FALSE
    <3>1. Listed(e, l)' => Listed(e, l)
      <4>1. \A m \in Keys \ {k} : store'[m] = store[m]
        BY <2>1, <2>3, PopNStore DEF LPop
      <4>2. CASE HasElement(store, k)
        <5>1. store[k] \in Seq(Elements)
          BY <2>1, <4>2, HasElementIsList
        <5>2. store'[k] = SubSeq(store[k], n + 1, Len(store[k]))
          BY <2>1, <2>3, <4>2, PopNStore DEF LPop
        <5>3. ToSet(SubSeq(store[k], n + 1, Len(store[k]))) \subseteq ToSet(store[k])
          BY <5>1, DropFirst
        <5> QED
          BY <2>3, <4>1, <5>2, <5>3 DEF Listed, LPop
      <4>3. CASE ~ HasElement(store, k)
        BY <2>1, <2>3, <4>3, PopNStore DEF Listed, LPop
      <4> QED
        BY <4>2, <4>3
    <3> QED
      BY <2>3, <3>1 DEF WaitsBeside, LPop, callVars
  <2>4. ASSUME NEW k \in Keys, Del(k) \/ SetString(k)
        PROVE  FALSE
    <3>1. store'[k] \in {<< >>, StringValue} /\ \A m \in Keys \ {k} : store'[m] = store[m]
      BY <2>1, <2>4 DEF Del, SetString
    <3>2. Listed(e, l)' => Listed(e, l)
      BY <3>1, ToSetEmpty DEF Listed
    <3> QED
      BY <2>4, <3>2 DEF WaitsBeside, Del, SetString, callVars
  <2>5. ASSUME NEW m \in Calls, NEW c \in Conns, NEW ks \in KeyLists, NEW t \in Timeouts,
               BLPopNow(m, c, ks, t)
        PROVE  FALSE
    <3>1. /\ status' = [status EXCEPT ![m] = "done"]
          /\ listening' = [listening EXCEPT ![m] = ks]
      BY <2>5 DEF BLPopNow, Dispatched
    <3>2. status[i] = "waiting" /\ l \in ToSet(listening[i])
      BY <2>1, <3>1 DEF WaitsBeside, Inv, TypeOK
    <3>3. PICK k \in Keys : HasElement(store, k) /\ store' = [store EXCEPT ![k] = Tail(store[k])]
      BY <2>1, <2>5, BLPopNowPops
    <3>4. Listed(e, l)' => Listed(e, l)
      <4>1. store[k] \in Seq(Elements) /\ store[k] # << >>
        BY <2>1, <3>3, HasElementIsList DEF HasElement
      <4>2. ToSet(Tail(store[k])) \subseteq ToSet(store[k]) /\ store[k] # StringValue
        BY <3>3, <4>1, HeadIsFirst DEF HasElement
      <4>3. store'[k] = Tail(store[k]) /\ \A n \in Keys \ {k} : store'[n] = store[n]
        BY <2>1, <3>3
      <4> QED
        BY <4>2, <4>3 DEF Listed
    <3> QED
      BY <3>2, <3>4 DEF WaitsBeside
  <2>6. ASSUME NEW m \in Calls, NEW c \in Conns, NEW ks \in KeyLists, NEW t \in Timeouts,
               BLPopBlock(m, c, ks, t)
        PROVE  FALSE
    <3>1. /\ status' = [status EXCEPT ![m] = "waiting"]
          /\ listening' = [listening EXCEPT ![m] = ks]
          /\ store' = store
          /\ \A n \in DOMAIN ks : ~ HasElement(store, ks[n])
      BY <2>6 DEF BLPopBlock, Dispatched
    <3>2. HasElement(store, l)
      BY <3>1, ToSetEmpty DEF WaitsBeside, Listed, HasElement
    <3>3. i # m
      BY <2>1, <3>1, <3>2 DEF WaitsBeside, Inv, TypeOK, ToSet
    <3> QED
      BY <2>1, <3>1, <3>3 DEF WaitsBeside, Listed, Inv, TypeOK
  <2>7. ASSUME NEW m \in Calls, Timeout(m)
        PROVE  FALSE
    <3>1. status' = [status EXCEPT ![m] = "done"] /\ UNCHANGED <<store, listening>>
      BY <2>7 DEF Timeout
    <3> QED
      BY <2>1, <3>1 DEF WaitsBeside, Listed, Inv, TypeOK
  <2> QED
    BY <2>2, <2>3, <2>4, <2>5, <2>6, <2>7 DEF Next
<1> QED
  BY <1>1, OrderlyInvariance, PTL DEF Spec, NoLostWakeUp

\* A replica follows the lists of its master until a push serves a parked call:
\* that is the one command whose propagation does not repeat its effect.
THEOREM ReplicaFollows == MaxPending = 1 => (Spec => []ReplicaMatchesUnlessServed)
<1>1. OrderlyInv => ReplicaMatchesUnlessServed
  BY DEF OrderlyInv
<1> QED
  BY <1>1, OrderlyInvariance, PTL

\* Calls that wait on one key are served in the order they were parked, however
\* many keys each named and whatever became of the calls between them.
THEOREM ServedInOrder == MaxPending = 1 => (Spec => FirstComeFirstServed)
<1> SUFFICES ASSUME MaxPending = 1
             PROVE  Spec => FirstComeFirstServed
  OBVIOUS
<1> DEFINE Fair == \A i, j \in Calls :
                     /\ status[i] = "waiting" /\ status[j] = "waiting"
                     /\ ArrivedBefore(i, j)
                     /\ reply'[j] # reply[j]
                     => reply'[j][1] \notin ToSet(listening[i])
<1>1. OrderlyInv /\ [Next]_vars => [Fair]_vars
  <2> SUFFICES ASSUME OrderlyInv, Next, NEW i \in Calls, NEW j \in Calls,
                      status[i] = "waiting", status[j] = "waiting", ArrivedBefore(i, j),
                      reply'[j] # reply[j]
               PROVE  reply'[j][1] \notin ToSet(listening[i])
    OBVIOUS
  <2>1. ASSUME NEW k \in Keys, NEW es \in Batches, RPush(k, es) \/ LPush(k, es)
        PROVE  reply'[j][1] \notin ToSet(listening[i])
    <3>1. es \in Seq(Elements) /\ es # << >> /\ Reverse(es) \in Seq(Elements) /\ Reverse(es) # << >>
      BY BatchIsFresh, ReverseList
    <3>2. store[k] \in Seq(Elements)
      BY <2>1, HasElementIsList DEF OrderlyInv, Inv, TypeOK, RPush, LPush
    <3>3. CASE RPush(k, es)
      <4>1. store[k] \o es \in Seq(Elements) /\ store[k] \o es # << >>
        BY <3>1, <3>2, ConcatLists
      <4>2. /\ NotifyListPush(k, store[k] \o es)
            /\ UNCHANGED <<listening, connectionIdentifier, arrival>>
        BY <3>3 DEF RPush
      <4> QED
        BY <4>1, <4>2, PushServesFirst
    <3>4. CASE LPush(k, es)
      <4>1. Reverse(es) \o store[k] \in Seq(Elements) /\ Reverse(es) \o store[k] # << >>
        BY <3>1, <3>2, ConcatLists
      <4>2. /\ NotifyListPush(k, Reverse(es) \o store[k])
            /\ UNCHANGED <<listening, connectionIdentifier, arrival>>
        BY <3>4 DEF LPush
      <4> QED
        BY <4>1, <4>2, PushServesFirst
    <3> QED
      BY <2>1, <3>3, <3>4
  <2>2. ASSUME NEW m \in Calls, NEW c \in Conns, NEW ks \in KeyLists, NEW t \in Timeouts,
               BLPopNow(m, c, ks, t)
        PROVE  FALSE
    <3>1. status[m] = "idle"
      BY <2>2 DEF BLPopNow, Dispatched
    <3>2. \E e : reply' = [reply EXCEPT ![m] = e]
      BY <2>2 DEF BLPopNow
    <3> QED
      BY <3>1, <3>2 DEF OrderlyInv, Inv, TypeOK
  <2>3. CASE UNCHANGED reply
    BY <2>3
  <2> QED
    BY <2>1, <2>2, <2>3 DEF Next, LPop, Del, SetString, BLPopBlock, Timeout, callVars
<1> QED
  BY <1>1, OrderlyInvariance, PTL DEF Spec, FirstComeFirstServed

\* The queues, timers and clean-ups implement the service of one line, when no
\* client sends a BLPOP while another of its own waits: each step of the program
\* is a step a client of ListService may see, or changes nothing it can see.
THEOREM Implementation == MaxPending = 1 => (Spec => ImplementsListService)
<1> SUFFICES ASSUME MaxPending = 1
             PROVE  Spec => ImplementsListService
  OBVIOUS
<1>1. Init => Service!Init
  BY DEF Init, Service!Init
<1>2. OrderlyInv /\ [Next]_vars => [Service!Next]_Service!vars
  BY NextRefines
<1> QED
  BY <1>1, <1>2, OrderlyInvariance, PTL DEF Spec, ImplementsListService, Service!Spec

\* The refinement cannot see which command pushed: this says that an RPUSH is the
\* service's push to the right end and an LPUSH the one to the left end.
THEOREM PushesToTheirEnd == MaxPending = 1 => (Spec => PushesServeTheLine)
<1> SUFFICES ASSUME MaxPending = 1
             PROVE  Spec => PushesServeTheLine
  OBVIOUS
<1> DEFINE Served == \A k \in Keys, es \in Batches :
                       /\ RPush(k, es) => Service!Push(k, store[k] \o es)
                       /\ LPush(k, es) => Service!Push(k, Reverse(es) \o store[k])
<1>1. OrderlyInv /\ [Next]_vars => [Served]_vars
  BY ListPushRefines
<1> QED
  BY <1>1, OrderlyInvariance, PTL DEF Spec, PushesServeTheLine
=============================================================================
