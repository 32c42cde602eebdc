-------------------------- MODULE BlockingManager --------------------------
(***************************************************************************)
(* The list service of DIY-Redis: RPUSH, LPUSH, LPOP, DEL and SET on the   *)
(* keyspace of one master, and the clients that BLPOP parks until an       *)
(* element arrives or their timer fires (services/BlockingManager.ts).     *)
(*                                                                         *)
(* Every command handler here runs to its end without yielding to another  *)
(* command: it awaits only promises that are already resolved, and the     *)
(* handler resumes before the next socket or timer event.  One command is  *)
(* therefore one action.  A BLPOP that parks is the exception: its call    *)
(* is left in waitingQueues, and a later push or timer answers it.         *)
(*                                                                         *)
(* Elements are pushed at most once, so that an element's whereabouts can  *)
(* be followed: pushedTo and taken are history variables, as is arrival.   *)
(* replica is the keyspace of a replica that attached before the first     *)
(* write and has executed everything propagated so far, in order.  No key  *)
(* expires here: EXPIRE, and the GET that deletes an expired list without  *)
(* propagating that (GetCommand.ts:22), are left to Keyspace and Streams.  *)
(***************************************************************************)
EXTENDS Integers, SequencesExt

CONSTANTS
  Keys,         \* the keys of the keyspace
  Elements,     \* the list elements clients push
  Calls,        \* identities of BLPOP calls: one per dispatch of the command
  Conns,        \* client connections
  KeyLists,     \* the key arguments a BLPOP may carry, in order
  Timeouts,     \* the timeout arguments, in seconds; 0 waits for ever
  MaxPush,      \* bound on the elements one RPUSH or LPUSH carries
  MaxPending,   \* bound on the unanswered BLPOPs of one connection
  StringValue,  \* the value of a key that does not hold a list
  None          \* no key, no connection or a nil reply

ASSUME ConstantsAssumption ==
  /\ KeyLists \subseteq Seq(Keys)
  /\ \A ks \in KeyLists : ks # << >> /\ IsInjective(ks)
  /\ Timeouts \subseteq Nat
  /\ MaxPush \in Nat \ {0}
  /\ MaxPending \in Nat \ {0}
  /\ StringValue \notin Seq(Elements)
  /\ None \notin Keys
  /\ None \notin Keys \X Elements

VARIABLES
  store,                \* value of each key; << >> is a key that is absent
  waitingQueues,        \* for each key, the parked calls in FIFO order
  status,               \* of each call: "idle", "waiting" or "done"
  listening,            \* the key arguments of each call
  connectionIdentifier, \* the connection each call came from
  timeoutSeconds,       \* the timeout argument of each call
  slot,                 \* the calls its connection had had answered at dispatch
  reply,                \* what a call that is done returned
  arrival,              \* the calls in the order they were parked
  pushedTo,             \* the key each element was pushed to
  taken,                \* elements removed by LPOP, DEL or SET
  replica               \* the keyspace of the replica

callVars == <<status, listening, connectionIdentifier, timeoutSeconds, slot, reply,
              arrival>>
vars == <<store, waitingQueues, callVars, pushedTo, taken, replica>>

Values == Seq(Elements) \cup {StringValue}

Init ==
  /\ store = [k \in Keys |-> << >>]
  /\ waitingQueues = [k \in Keys |-> << >>]
  /\ status = [i \in Calls |-> "idle"]
  /\ listening = [i \in Calls |-> << >>]
  /\ connectionIdentifier = [i \in Calls |-> None]
  /\ timeoutSeconds = [i \in Calls |-> 0]
  /\ slot = [i \in Calls |-> {}]
  /\ reply = [i \in Calls |-> None]
  /\ arrival = << >>
  /\ pushedTo = [e \in Elements |-> None]
  /\ taken = {}
  /\ replica = [k \in Keys |-> << >>]

-----------------------------------------------------------------------------
(* The keyspace operations, on the master's store as on the replica's.     *)

\* A key holds a list that has an element: a list left empty is deleted.
HasElement(s, k) == s[k] \notin {StringValue, << >>}

\* Mutant: list.pop() for list.shift().
PopNFromTail(s, k, n) ==
  IF HasElement(s, k) THEN [s EXCEPT ![k] = SubSeq(@, 1, Len(@) - n)] ELSE s

\* LPOP k n: a key without a list is left alone, a short list is emptied.
PopN(s, k, n) ==
  IF HasElement(s, k) THEN [s EXCEPT ![k] = SubSeq(@, n + 1, Len(@))] ELSE s

\* RPUSH and LPUSH: a key that holds a string is refused with WRONGTYPE.
AppendAll(s, k, es) ==
  IF s[k] = StringValue THEN s ELSE [s EXCEPT ![k] = @ \o es]

\* Mutant: the reverse() that LPUSH does in place reaches the propagated payload.
PrependUnreversed(s, k, es) ==
  IF s[k] = StringValue THEN s ELSE [s EXCEPT ![k] = es \o @]

PrependAll(s, k, es) ==
  IF s[k] = StringValue THEN s ELSE [s EXCEPT ![k] = Reverse(es) \o @]

\* The elements of the list at k, none when k is absent or a string.
ElementsAt(k) == IF HasElement(store, k) THEN ToSet(store[k]) ELSE {}

-----------------------------------------------------------------------------
(* The queues of parked calls.                                             *)

\* Mutant: splice(index + 1, 1).
RemoveAfterFirstOf(q, c) ==
  LET hits == {n \in DOMAIN q : connectionIdentifier[q[n]] = c}
  IN  IF hits = {} THEN q ELSE RemoveAt(q, Min(hits) + 1)

\* removeWaiter takes out of each queue of the waiter's keys the first call
\* of the waiter's CONNECTION, whether that call is the waiter or not.
RemoveFirstOf(q, c) ==
  LET hits == {n \in DOMAIN q : connectionIdentifier[q[n]] = c}
  IN  IF hits = {} THEN q ELSE RemoveAt(q, Min(hits))

\* Mutant: no clean-up, the answered call stays in its queues.
KeepWaiter(queues, i) == queues

RemoveWaiter(queues, i) ==
  [k \in Keys |-> IF k \in ToSet(listening[i])
                  THEN RemoveFirstOf(queues[k], connectionIdentifier[i])
                  ELSE queues[k]]

\* Mutant: only the first key is registered.
EnqueueFirstKey(i, ks) == [waitingQueues EXCEPT ![ks[1]] = Append(@, i)]

\* Mutant: queue.unshift(waiter).
EnqueueInFront(i, ks) ==
  [k \in Keys |-> IF k \in ToSet(ks) THEN <<i>> \o waitingQueues[k] ELSE waitingQueues[k]]

\* The call joins the back of the queue of every key it listens on.
Enqueue(i, ks) ==
  [k \in Keys |-> IF k \in ToSet(ks) THEN Append(waitingQueues[k], i) ELSE waitingQueues[k]]

\* Mutant: the reply is [popped] without the key.
ResolveElement(i, r) ==
  IF status[i] = "waiting"
  THEN /\ status' = [status EXCEPT ![i] = "done"]
       /\ reply' = [reply EXCEPT ![i] = r[2]]
  ELSE UNCHANGED <<status, reply>>

\* waiter.resolve: settling a promise twice has no effect, so a call that
\* timed out keeps its nil whatever a later push resolves it with.
Resolve(i, r) ==
  IF status[i] = "waiting"
  THEN /\ status' = [status EXCEPT ![i] = "done"]
       /\ reply' = [reply EXCEPT ![i] = r]
  ELSE UNCHANGED <<status, reply>>

\* What call i is answered when element e is popped from key k.
Answer(i, k, e) == <<k, e>>

\* notifyListPush, called once per push with the list it stores: the first
\* parked call leaves the queue, gets the first element, and is removed from
\* its other queues.
NotifyListPush(k, list) ==
  \/ /\ waitingQueues[k] = << >>
     /\ store' = [store EXCEPT ![k] = list]
     /\ UNCHANGED <<waitingQueues, status, reply>>
  \/ /\ waitingQueues[k] # << >>
     /\ LET waiter == Head(waitingQueues[k])
            shifted == [waitingQueues EXCEPT ![k] = Tail(@)]
        IN  /\ store' = [store EXCEPT ![k] = Tail(list)]
            /\ Resolve(waiter, Answer(waiter, k, Head(list)))
            /\ waitingQueues' = RemoveWaiter(shifted, waiter)

\* The replica when the push itself reaches it: the pop of a served call was
\* propagated while the push handler ran, the push is propagated by the
\* dispatcher when the handler has returned.
ReplicaBeforePush(k) ==
  IF waitingQueues[k] = << >> THEN replica ELSE PopN(replica, k, 1)

-----------------------------------------------------------------------------
(* The commands.                                                           *)

\* What one push may carry: distinct elements nobody pushed before.
Batches ==
  {es \in SeqOf({e \in Elements : pushedTo[e] = None}, MaxPush) :
     es # << >> /\ IsInjective(es)}

MarkPushed(k, es) ==
  pushedTo' = [e \in Elements |-> IF e \in ToSet(es) THEN k ELSE pushedTo[e]]

RPush(k, es) ==
  /\ store[k] # StringValue
  /\ NotifyListPush(k, store[k] \o es)
  /\ replica' = AppendAll(ReplicaBeforePush(k), k, es)
  /\ MarkPushed(k, es)
  /\ UNCHANGED <<listening, connectionIdentifier, timeoutSeconds, slot, arrival, taken>>

LPush(k, es) ==
  /\ store[k] # StringValue
  /\ NotifyListPush(k, Reverse(es) \o store[k])
  /\ replica' = PrependAll(ReplicaBeforePush(k), k, es)
  /\ MarkPushed(k, es)
  /\ UNCHANGED <<listening, connectionIdentifier, timeoutSeconds, slot, arrival, taken>>

\* LPOP k [count].  A nil or empty reply is propagated like any other, a
\* WRONGTYPE error is not.
LPop(k, n) ==
  /\ store[k] # StringValue
  /\ store' = PopN(store, k, n)
  /\ taken' = taken \cup (ElementsAt(k) \ ToSet(store'[k]))
  /\ replica' = PopN(replica, k, n)
  /\ UNCHANGED <<waitingQueues, callVars, pushedTo>>

Del(k) ==
  /\ store' = [store EXCEPT ![k] = << >>]
  /\ taken' = taken \cup ElementsAt(k)
  /\ replica' = [replica EXCEPT ![k] = << >>]
  /\ UNCHANGED <<waitingQueues, callVars, pushedTo>>

\* SET overwrites whatever type the key had.
SetString(k) ==
  /\ store' = [store EXCEPT ![k] = StringValue]
  /\ taken' = taken \cup ElementsAt(k)
  /\ replica' = [replica EXCEPT ![k] = StringValue]
  /\ UNCHANGED <<waitingQueues, callVars, pushedTo>>

\* The calls of connection c that are still unanswered.
Pending(c) == {j \in Calls : status[j] = "waiting" /\ connectionIdentifier[j] = c}

\* The calls of c that returned: each sliced its command off c's buffer.
Sliced(c) == {j \in Calls : status[j] = "done" /\ connectionIdentifier[j] = c}

\* Connection c dispatches the BLPOP at the head of its buffer.  While the
\* command is unanswered its bytes stay there, and data that arrives makes
\* the data handler dispatch it once more; when one copy has returned, the
\* head is the next command although the other copies still wait.
Dispatched(i, c, ks, t) ==
  /\ status[i] = "idle"
  /\ Cardinality(Pending(c)) < MaxPending
  /\ \A j \in Pending(c) : slot[j] = Sliced(c) => listening[j] = ks /\ timeoutSeconds[j] = t
  /\ listening' = [listening EXCEPT ![i] = ks]
  /\ connectionIdentifier' = [connectionIdentifier EXCEPT ![i] = c]
  /\ timeoutSeconds' = [timeoutSeconds EXCEPT ![i] = t]
  /\ slot' = [slot EXCEPT ![i] = Sliced(c)]

\* blockOnLists finds an element: it pops the first key that has one, and
\* the pop is propagated as an LPOP.
BLPopNow(i, c, ks, t) ==
  /\ Dispatched(i, c, ks, t)
  /\ LET ready == {n \in DOMAIN ks : HasElement(store, ks[n])}
         k == ks[Min(ready)]
     IN  /\ ready # {}
         /\ store' = PopN(store, k, 1)
         /\ reply' = [reply EXCEPT ![i] = <<k, Head(store[k])>>]
         /\ replica' = PopN(replica, k, 1)
  /\ status' = [status EXCEPT ![i] = "done"]
  /\ UNCHANGED <<waitingQueues, arrival, pushedTo, taken>>

\* blockOnLists finds none: the call joins the queue of every key.
BLPopBlock(i, c, ks, t) ==
  /\ Dispatched(i, c, ks, t)
  /\ \A n \in DOMAIN ks : ~ HasElement(store, ks[n])
  /\ waitingQueues' = Enqueue(i, ks)
  /\ status' = [status EXCEPT ![i] = "waiting"]
  /\ arrival' = Append(arrival, i)
  /\ UNCHANGED <<store, reply, pushedTo, taken, replica>>

\* i was parked before j.
ArrivedBefore(i, j) ==
  \E m, n \in DOMAIN arrival : m < n /\ arrival[m] = i /\ arrival[n] = j

\* The timer of a parked call may fire: a served call has cleared its timer,
\* and timers of one duration fire in the order they were set.
TimerDue(i) ==
  /\ status[i] = "waiting"
  /\ timeoutSeconds[i] > 0
  /\ \A j \in Calls : status[j] = "waiting" /\ timeoutSeconds[j] = timeoutSeconds[i]
                        => ~ ArrivedBefore(j, i)

\* Mutant: whatever takes a call out of its queues clears its timer too.
TimeoutIfQueued(i) ==
  /\ TimerDue(i)
  /\ \E k \in Keys : i \in ToSet(waitingQueues[k])
  /\ waitingQueues' = RemoveWaiter(waitingQueues, i)
  /\ status' = [status EXCEPT ![i] = "done"]
  /\ UNCHANGED <<store, listening, connectionIdentifier, timeoutSeconds, slot, reply,
                 arrival, pushedTo, taken, replica>>

Timeout(i) ==
  /\ TimerDue(i)
  /\ waitingQueues' = RemoveWaiter(waitingQueues, i)
  /\ status' = [status EXCEPT ![i] = "done"]
  /\ UNCHANGED <<store, listening, connectionIdentifier, timeoutSeconds, slot, reply,
                 arrival, pushedTo, taken, replica>>

Next ==
  \/ \E k \in Keys, es \in Batches : RPush(k, es) \/ LPush(k, es)
  \/ \E k \in Keys, n \in 0..Cardinality(Elements) : LPop(k, n)
  \/ \E k \in Keys : Del(k) \/ SetString(k)
  \/ \E i \in Calls, c \in Conns, ks \in KeyLists, t \in Timeouts :
       BLPopNow(i, c, ks, t) \/ BLPopBlock(i, c, ks, t)
  \/ \E i \in Calls : Timeout(i)

Spec == Init /\ [][Next]_vars

\* Node runs every timer that is due, so an armed timer is not put off for
\* ever.  Nothing obliges a client to push.
FairSpec == Spec /\ \A i \in Calls : WF_vars(Timeout(i))

-----------------------------------------------------------------------------
(* Properties.                                                             *)

\* Type correctness of the state of the service and of its history.
TypeOK ==
  /\ store \in [Keys -> Values]
  /\ waitingQueues \in [Keys -> Seq(Calls)]
  /\ status \in [Calls -> {"idle", "waiting", "done"}]
  /\ listening \in [Calls -> Seq(Keys)]
  /\ connectionIdentifier \in [Calls -> Conns \cup {None}]
  /\ timeoutSeconds \in [Calls -> Nat]
  /\ slot \in [Calls -> SUBSET Calls]
  /\ reply \in [Calls -> (Keys \X Elements) \cup {None}]
  /\ arrival \in Seq(Calls)
  /\ pushedTo \in [Elements -> Keys \cup {None}]
  /\ taken \subseteq Elements
  /\ replica \in [Keys -> Values]

\* Element e lies in the list at key k.
Listed(e, k) == store[k] # StringValue /\ e \in ToSet(store[k])

\* Call i returned element e.
Delivered(e, i) == \E k \in Keys : reply[i] = <<k, e>>

\* No element is handed out twice, however pushes, pops, blocking pops and
\* timeouts interleave: a listed element is listed once, under the key it
\* was pushed to, and was neither taken nor delivered; a delivered element
\* was delivered to one call, and not taken by an LPOP, DEL or SET as well.
AtMostOnePlace ==
  /\ \A k \in Keys : store[k] # StringValue => IsInjective(store[k])
  /\ \A k \in Keys, e \in Elements : Listed(e, k) =>
       /\ pushedTo[e] = k
       /\ e \notin taken
       /\ \A i \in Calls : ~ Delivered(e, i)
  /\ \A i \in Calls, e \in Elements : Delivered(e, i) =>
       /\ e \notin taken
       /\ \A j \in Calls \ {i} : ~ Delivered(e, j)

\* A blocking pop answers with an element that was pushed to the key it
\* names, and that key is one the client asked for.
ReplyIsHonest ==
  \A i \in Calls : reply[i] # None =>
    /\ status[i] = "done"
    /\ pushedTo[reply[i][2]] = reply[i][1]
    /\ reply[i][1] \in ToSet(listening[i])

\* A pushed element stays listed until somebody gets it: serving a parked
\* call never drops the element it popped.  It holds when no connection has
\* two unanswered BLPOPs.
NoElementLost ==
  \A e \in Elements : pushedTo[e] # None =>
    \/ Listed(e, pushedTo[e])
    \/ e \in taken
    \/ \E i \in Calls : Delivered(e, i)

\* A call is parked in the queue of each of its keys exactly once while it
\* waits, and in no queue before or after, whichever of its keys served it
\* or whether it timed out.  It holds when no connection has two unanswered
\* BLPOPs.
QueuedIffWaiting ==
  \A i \in Calls, k \in Keys :
    Cardinality({n \in DOMAIN waitingQueues[k] : waitingQueues[k][n] = i})
      = IF status[i] = "waiting" /\ k \in ToSet(listening[i]) THEN 1 ELSE 0

\* While no push has met a parked call, a replica that executes the
\* propagated commands holds the master's keyspace: LPOP with its count,
\* LPUSH in its order, and each immediate BLPOP as one LPOP.  It is about keys
\* that do not expire, as all do here: the GET of an expired list deletes it on
\* one side only.
ReplicaMatchesUnlessServed ==
  (\A i \in ToSet(arrival) : reply[i] = None) => replica = store

\* README.md:19 gives BLPOP "replication support", and BlockingManager.ts:82
\* says "propagate the effect as an LPOP command": the replica that executed
\* everything propagated holds what the master holds.
ReplicaMatches == replica = store

\* Call i waits for key k, and element e lies in the list there.
WaitsBeside(i, k, e) ==
  status[i] = "waiting" /\ k \in ToSet(listening[i]) /\ Listed(e, k)

\* No wake-up is lost: a step that leaves a call waiting beside an element it did
\* not wait beside before, by adding the element or by parking the call, has
\* answered from that key another call, parked before it.  An earlier push that
\* served somebody excuses nothing.  It holds when no connection has two
\* unanswered BLPOPs.
NoLostWakeUp ==
  [][\A i \in Calls, k \in Keys, e \in Elements :
       WaitsBeside(i, k, e)' /\ ~ WaitsBeside(i, k, e) =>
         \E j \in Calls : /\ ArrivedBefore(j, i)
                          /\ reply[j] = None
                          /\ reply'[j] # None /\ reply'[j][1] = k]_vars

\* Among the calls that wait on a key, a step that hands an element of that
\* key to one of them hands it to the one parked first.
FirstComeFirstServed ==
  [][\A i, j \in Calls :
       /\ status[i] = "waiting" /\ status[j] = "waiting"
       /\ ArrivedBefore(i, j)
       /\ reply'[j] # reply[j]
       => reply'[j][1] \notin ToSet(listening[i])]_vars

\* What the clients see of the queues, the timers and the connections is the
\* service of one line: which call a push answers, with what, and what is
\* left in the lists.  It holds when no connection has two unanswered BLPOPs.
Pushes == {es \in SeqOf(Elements, MaxPush) : es # << >> /\ IsInjective(es)}

Service == INSTANCE ListService

ImplementsListService == Service!Spec

\* A push that is sent to the right end of a list, or to the left, is that push
\* of the service: the list is made longer at that end before its first element
\* is given away, so that of several elements the call gets the one LPOP would.
PushesServeTheLine ==
  [][\A k \in Keys, es \in Batches :
       /\ RPush(k, es) => Service!Push(k, store[k] \o es)
       /\ LPush(k, es) => Service!Push(k, Reverse(es) \o store[k])]_vars

\* A BLPOP with a timeout returns: it is answered by a push or by its timer,
\* even when another call of the same connection was removed in its stead.
TimedCallReturns ==
  \A i \in Calls :
    (status[i] = "waiting" /\ timeoutSeconds[i] > 0) ~> (status[i] = "done")
=============================================================================
