---------------------------- MODULE ListService ----------------------------
(***************************************************************************)
(* What the clients of DIY-Redis are promised of lists and BLPOP: pushes   *)
(* add elements, pops take the first ones, and a call that finds nothing   *)
(* stands in one line with all the others.  Whoever stands first in that   *)
(* line, among those who asked for a key, gets the first element that is   *)
(* pushed to the key.  There are no queues per key to keep in step here,   *)
(* no timers to clear and no connections.                                  *)
(***************************************************************************)
EXTENDS Integers, SequencesExt

CONSTANTS
  Keys,         \* the keys of the keyspace
  Pushes,       \* the sequences of elements one push may carry
  Calls,        \* identities of BLPOP calls
  KeyLists,     \* the key arguments a BLPOP may carry, in order
  Timeouts,     \* the timeout arguments; 0 waits for ever
  StringValue,  \* the value of a key that does not hold a list
  None          \* a nil reply

VARIABLES
  store,          \* value of each key; << >> is a key that is absent
  status,         \* of each call: "idle", "waiting" or "done"
  listening,      \* the key arguments of each call
  timeoutSeconds, \* the timeout argument of each call
  reply,          \* what a call that is done returned
  arrival         \* the line: the calls in the order they began to wait

vars == <<store, status, listening, timeoutSeconds, reply, arrival>>

Init ==
  /\ store = [k \in Keys |-> << >>]
  /\ status = [i \in Calls |-> "idle"]
  /\ listening = [i \in Calls |-> << >>]
  /\ timeoutSeconds = [i \in Calls |-> 0]
  /\ reply = [i \in Calls |-> None]
  /\ arrival = << >>

HasElement(k) == store[k] \notin {StringValue, << >>}

\* The calls that wait for an element of k.
Waiting(k) == {i \in Calls : status[i] = "waiting" /\ k \in ToSet(listening[i])}

\* i stands in the line before j.
Ahead(i, j) == \E m, n \in DOMAIN arrival : m < n /\ arrival[m] = i /\ arrival[n] = j

\* A push makes a longer list of the one at k.  When somebody waits for k, the
\* first in the line gets the first element, and the rest is stored.
Push(k, list) ==
  /\ UNCHANGED <<listening, timeoutSeconds, arrival>>
  /\ \/ /\ UNCHANGED <<status, reply>>
        /\ store' = [store EXCEPT ![k] = list]
        /\ Waiting(k) = {}
     \/ \E i \in Waiting(k) :
          /\ status' = [status EXCEPT ![i] = "done"]
          /\ reply' = [reply EXCEPT ![i] = <<k, Head(list)>>]
          /\ store' = [store EXCEPT ![k] = Tail(list)]
          /\ \A j \in Waiting(k) \ {i} : Ahead(i, j)

\* A pop takes the first n elements.
Pop(k, n) ==
  /\ store' = [store EXCEPT ![k] = SubSeq(@, n + 1, Len(@))]
  /\ UNCHANGED <<status, listening, timeoutSeconds, reply, arrival>>

\* DEL leaves nothing at k, SET a string; nobody who waits notices.
Overwrite(k, v) ==
  /\ store' = [store EXCEPT ![k] = v]
  /\ UNCHANGED <<status, listening, timeoutSeconds, reply, arrival>>

Ask(i, ks, t) ==
  /\ status[i] = "idle"
  /\ listening' = [listening EXCEPT ![i] = ks]
  /\ timeoutSeconds' = [timeoutSeconds EXCEPT ![i] = t]

\* A call is answered at once from the first of its keys that has an element.
PopNow(i, ks, t) ==
  /\ Ask(i, ks, t)
  /\ \E n \in DOMAIN ks :
       /\ HasElement(ks[n])
       /\ \A m \in DOMAIN ks : m < n => ~ HasElement(ks[m])
       /\ store' = [store EXCEPT ![ks[n]] = Tail(@)]
       /\ reply' = [reply EXCEPT ![i] = <<ks[n], Head(store[ks[n]])>>]
  /\ status' = [status EXCEPT ![i] = "done"]
  /\ UNCHANGED arrival

\* A call that finds none of its keys with an element joins the line.
Wait(i, ks, t) ==
  /\ Ask(i, ks, t)
  /\ \A n \in DOMAIN ks : ~ HasElement(ks[n])
  /\ status' = [status EXCEPT ![i] = "waiting"]
  /\ arrival' = Append(arrival, i)
  /\ UNCHANGED <<store, reply>>

\* A call that set a limit may stop waiting and return nil; no other may.
GiveUp(i) ==
  /\ status[i] = "waiting"
  /\ timeoutSeconds[i] > 0
  /\ status' = [status EXCEPT ![i] = "done"]
  /\ UNCHANGED <<store, listening, timeoutSeconds, reply, arrival>>

Next ==
  \/ \E i \in Calls : GiveUp(i)
  \/ \E i \in Calls, ks \in KeyLists, t \in Timeouts : PopNow(i, ks, t) \/ Wait(i, ks, t)
  \/ \E k \in {l \in Keys : HasElement(l)} : \E n \in 1..Len(store[k]) : Pop(k, n)
  \/ \E k \in Keys, v \in {<< >>, StringValue} : Overwrite(k, v)
  \/ \E k \in {l \in Keys : store[l] # StringValue}, es \in Pushes :
       Push(k, store[k] \o es) \/ Push(k, Reverse(es) \o store[k])

Spec == Init /\ [][Next]_vars
=============================================================================
