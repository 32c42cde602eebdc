---------------------------- MODULE StreamsProofs ----------------------------
(***************************************************************************)
(* A replica that executes the XADDs of its master holds the streams of    *)
(* its master, whatever its clock reads, for every key whose identifiers   *)
(* were not taken from a clock, of which no XADD threw, and which no GET   *)
(* found expired.  XREADs that wait are woken, and identifiers grow while  *)
(* they have as many digits.                                               *)
(***************************************************************************)
EXTENDS Streams, ListLemmas

\* The part of TypeOK about what the keys hold.
StreamsTyped ==
  /\ store \in [Keys -> Streams]
  /\ replica \in [Keys -> Streams]

\* The inductive invariant.
Inv == StreamsTyped /\ ReplicaHasStreams

-----------------------------------------------------------------------------
\* generateEntryId returns an identifier, or refuses.
LEMMA GeneratedId ==
  ASSUME NEW request \in Requests, NEW last \in Ids \cup {None}, NEW t \in Clock
  PROVE  GenerateEntryId(request, last, t) \in Ids \cup {None}
<1> DEFINE ms == IF request[1] = Star THEN t ELSE request[1]
           seq == request[2]
<1>1. ms \in Nat /\ (seq \in Nat \/ seq = Star) /\ t \in Nat
  <2>1. CASE request = <<Star, Star>>
    BY <2>1, ConstantsAssumption
  <2>2. CASE request # <<Star, Star>>
    <3>1. request \in Nat \X (Nat \cup {Star})
      BY <2>2, ConstantsAssumption
    <3> QED
      BY <3>1, ConstantsAssumption
  <2> QED
    BY <2>1, <2>2
<1> DEFINE first == IF seq # Star THEN seq ELSE IF ms = 0 THEN 1 ELSE 0
           next == IF seq = Star THEN 0 ELSE seq
<1>2. first \in Nat /\ next \in Nat
  BY <1>1
<1>3. last # None => last[2] + 1 \in Nat
  BY DEF Ids
<1>4. GenerateEntryId(request, last, t) =
        IF last = None THEN <<ms, first>>
        ELSE IF last[1] = ms
             THEN IF seq = Star THEN <<ms, last[2] + 1>>
                  ELSE IF StringLess(last[2], seq) THEN <<ms, seq>> ELSE None
        ELSE IF StringLess(ms, last[1]) THEN None
        ELSE <<ms, next>>
  BY DEF GenerateEntryId
<1> HIDE DEF ms, seq, first, next
<1> QED
  BY <1>1, <1>2, <1>3, <1>4 DEF Ids

\* It reads the clock only for a request that leaves the time to it.
LEMMA ClockUnread ==
  ASSUME NEW request \in Requests, request[1] # Star, NEW v, NEW t, NEW u
  PROVE  Added(v, request, t) = Added(v, request, u)
BY DEF Added, IdFor, GenerateEntryId

\* A key that holds a stream, or a string, holds one after XADD.
LEMMA AddedIsStream ==
  ASSUME NEW request \in Requests, NEW v \in Streams, NEW t \in Clock
  PROVE  Added(v, request, t) \in Streams
<1>1. CASE IdFor(v, request, t) = None
  BY <1>1 DEF Added
<1>2. CASE IdFor(v, request, t) # None
  <2>1. v # StringValue /\ v \in Seq(Ids)
    BY <1>2 DEF IdFor, Streams
  <2>2. LastId(v) \in Ids \cup {None}
    BY <2>1, LenProperties, ElementOfSeq, EmptySeq DEF LastId, Last
  <2>3. IdFor(v, request, t) \in Ids
    BY <2>1, <2>2, <1>2, GeneratedId DEF IdFor
  <2>4. Append(v, IdFor(v, request, t)) \in Seq(Ids)
    BY <2>1, <2>3, AppendProperties
  <2> QED
    BY <2>4, <1>2 DEF Added, Streams
<1> QED
  BY <1>1, <1>2

LEMMA InitInv == Init => Inv
<1>1. << >> \in Streams
  BY EmptySeq DEF Streams
<1> QED
  BY <1>1 DEF Init, Inv, StreamsTyped, ReplicaHasStreams

LEMMA XaddInv ==
  ASSUME Inv, NEW k \in Keys, NEW request \in Requests, NEW now \in Clock, NEW there \in Clock,
         Xadd(k, request, now, there)
  PROVE  Inv'
<1> DEFINE s == [store EXCEPT ![k] = Added(@, request, now)]
           p == [replica EXCEPT ![k] = Added(@, request, there)]
<1>1. store \in [Keys -> Streams] /\ replica \in [Keys -> Streams]
  BY DEF Inv, StreamsTyped
<1>2. /\ store' = s
      /\ replica' = IF Throwing(s, k) # {} THEN replica ELSE p
      /\ unsettled' = IF request[1] = Star \/ Throwing(s, k) # {}
                      THEN unsettled \cup {k} ELSE unsettled
  BY DEF Xadd
<1>3. s \in [Keys -> Streams] /\ p \in [Keys -> Streams]
  BY <1>1, AddedIsStream
<1>4. StreamsTyped'
  BY <1>1, <1>2, <1>3, Zenon DEF StreamsTyped
<1>5. ReplicaHasStreams'
  <2> SUFFICES ASSUME NEW j \in Keys, j \notin unsettled' PROVE replica'[j] = store'[j]
    BY DEF ReplicaHasStreams
  <2>1. j \notin unsettled
    BY <1>2
  <2>2. replica[j] = store[j]
    BY <2>1 DEF Inv, ReplicaHasStreams
  <2>3. CASE j # k
    BY <2>2, <2>3, <1>1, <1>2
  <2>4. CASE j = k
    <3>1. request[1] # Star /\ Throwing(s, k) = {}
      BY <2>4, <1>2
    <3>2. replica' = p
      BY <3>1, <1>2
    <3>3. Added(store[k], request, now) = Added(store[k], request, there)
      BY <3>1, ClockUnread
    <3> QED
      BY <2>2, <2>4, <3>2, <3>3, <1>1, <1>2
  <2> QED
    BY <2>3, <2>4
<1> QED
  BY <1>4, <1>5 DEF Inv

LEMMA OverwriteInv ==
  ASSUME Inv, NEW k \in Keys, NEW v \in {<< >>, StringValue}, Overwrite(k, v)
  PROVE  Inv'
<1>1. v \in Streams
  BY EmptySeq DEF Streams
<1>2. store \in [Keys -> Streams] /\ replica \in [Keys -> Streams]
  BY DEF Inv, StreamsTyped
<1>3. /\ store' = [store EXCEPT ![k] = v] /\ replica' = [replica EXCEPT ![k] = v]
      /\ unsettled' = unsettled \ {k}
  BY DEF Overwrite
<1>4. StreamsTyped'
  BY <1>1, <1>2, <1>3 DEF StreamsTyped
<1>5. ReplicaHasStreams'
  BY <1>2, <1>3 DEF Inv, ReplicaHasStreams
<1> QED
  BY <1>4, <1>5 DEF Inv

\* A GET deletes an expired key on one side, which unsettles it.
LEMMA GetExpiredInv ==
  ASSUME Inv, NEW k \in Keys, GetExpired(k) \/ ReplicaGetExpired(k)
  PROVE  Inv'
<1>1. << >> \in Streams
  BY EmptySeq DEF Streams
<1>2. store \in [Keys -> Streams] /\ replica \in [Keys -> Streams]
  BY DEF Inv, StreamsTyped
<1>3. /\ unsettled' = unsettled \cup {k}
      /\ \/ store' = [store EXCEPT ![k] = << >>] /\ replica' = replica
         \/ replica' = [replica EXCEPT ![k] = << >>] /\ store' = store
  BY DEF GetExpired, ReplicaGetExpired
<1>4. StreamsTyped'
  BY <1>1, <1>2, <1>3 DEF StreamsTyped
<1>5. ReplicaHasStreams'
  BY <1>2, <1>3 DEF Inv, ReplicaHasStreams
<1> QED
  BY <1>4, <1>5 DEF Inv

LEMMA Invariance == Spec => []Inv
<1>1. Inv /\ [Next]_vars => Inv'
  <2> SUFFICES ASSUME Inv, [Next]_vars PROVE Inv'
    OBVIOUS
  <2>1. CASE \E k \in Keys, request \in Requests, now, there \in Clock :
               (request[1] # Star => now = there) /\ Xadd(k, request, now, there)
    BY <2>1, XaddInv
  <2>2. CASE \E k \in Keys, v \in {<< >>, StringValue} : Overwrite(k, v)
    BY <2>2, OverwriteInv
  <2>3. ASSUME UNCHANGED <<store, replica, unsettled>> PROVE Inv'
    BY <2>3 DEF Inv, StreamsTyped, ReplicaHasStreams
  <2>4. CASE \E r \in Readers, ids \in Xreads : XreadBlock(r, ids)
    BY <2>3, <2>4 DEF XreadBlock
  <2>5. CASE \E r \in Readers : Timeout(r)
    BY <2>3, <2>5 DEF Timeout
  <2>6. CASE \E k \in Keys : GetExpired(k) \/ ReplicaGetExpired(k)
    BY <2>6, GetExpiredInv
  <2>7. CASE UNCHANGED vars
    BY <2>3, <2>7 DEF vars
  <2> QED
    BY <2>1, <2>2, <2>4, <2>5, <2>6, <2>7 DEF Next
<1> QED
  BY <1>1, InitInv, PTL DEF Spec

-----------------------------------------------------------------------------
\* A replica holds the streams of its master although it generates the
\* identifiers of propagated XADDs again, by a clock of its own: but for keys
\* whose identifiers came from a clock, of which an XADD threw after its entry
\* was stored and was therefore not propagated, or which expired and were deleted
\* by a GET (GetCommand.ts:22-23), on the master or on the replica, that is not
\* propagated either.  SET and DEL bring such a key back in step.
THEOREM ReplicaStreams == Spec => []ReplicaHasStreams
<1>1. Inv => ReplicaHasStreams
  BY DEF Inv
<1> QED
  BY <1>1, Invariance, PTL

-----------------------------------------------------------------------------
(* The XREADs that wait.                                                   *)

\* The inductive invariant behind NoReaderLeftBehind.
ReaderInv == TypeOK /\ ListensWhileWaiting /\ NoReaderLeftBehind

\* An XREAD finds nothing when no stream it names has an entry behind its
\* identifier.
LEMMA FindsNothing ==
  ASSUME NEW s, NEW keys, NEW ids
  PROVE  Results(s, keys, ids) = {} <=> \A k \in keys : \A e \in ToSet(s[k]) : ~ After(e, ids[k])
<1>1. ASSUME NEW k \in keys, NEW e \in ToSet(s[k]), After(e, ids[k])
      PROVE  Results(s, keys, ids) # {}
  <2>1. <<k, e>> \in Results(s, keys, ids)
    BY <1>1 DEF Results
  <2> QED
    BY <2>1
<1>2. ASSUME NEW x \in Results(s, keys, ids)
      PROVE  \E k \in keys : \E e \in ToSet(s[k]) : After(e, ids[k])
  BY DEF Results
<1> QED
  BY <1>1, <1>2

\* What is true of the readers that go on waiting when some return.
LEMMA ReturnFacts ==
  ASSUME ReaderInv, NEW woken \in SUBSET waiting, Return(woken)
  PROVE  /\ waiting' = waiting \ woken
         /\ streamKeys' \in [Readers -> SUBSET Keys]
         /\ resolvedStreamIds' \in [Readers -> [Keys -> Ids]]
         /\ listeners' \in Seq(Readers)
         /\ ListensWhileWaiting'
         /\ \A r \in waiting' : /\ streamKeys'[r] = streamKeys[r]
                                /\ resolvedStreamIds'[r] = resolvedStreamIds[r]
<1>1. /\ waiting' = waiting \ woken
      /\ streamKeys' = [r \in Readers |-> IF r \in woken THEN {} ELSE streamKeys[r]]
      /\ resolvedStreamIds' = [r \in Readers |-> IF r \in woken THEN NoIds ELSE resolvedStreamIds[r]]
      /\ listeners' = Only(listeners, Readers \ woken)
  BY DEF Return
<1>2. /\ waiting \subseteq Readers /\ streamKeys \in [Readers -> SUBSET Keys]
      /\ resolvedStreamIds \in [Readers -> [Keys -> Ids]] /\ listeners \in Seq(Readers)
      /\ IsInjective(listeners) /\ ToSet(listeners) = waiting
  BY DEF ReaderInv, TypeOK, ListensWhileWaiting
<1>3. NoIds \in [Keys -> Ids]
  BY DEF NoIds, Ids
<1>4. /\ listeners' \in Seq(Readers) /\ IsInjective(listeners')
      /\ ToSet(listeners') = waiting \cap (Readers \ woken)
  BY <1>1, <1>2, OnlyMembers
<1>5. ToSet(listeners') = waiting'
  BY <1>1, <1>2, <1>4
<1> QED
  BY <1>1, <1>2, <1>3, <1>4, <1>5 DEF ListensWhileWaiting

\* The readers a new entry wakes were waiting.
LEMMA WokenWait ==
  ASSUME ReaderInv, NEW s, NEW k \in Keys
  PROVE  Woken(s, k) \in SUBSET waiting
BY DEF Woken, ReaderInv, ListensWhileWaiting, ToSet

\* Readers that are left alone are still not left behind.
LEMMA TimeoutKeepsReaders ==
  ASSUME ReaderInv, NEW r \in Readers, Timeout(r)
  PROVE  ReaderInv'
<1>1. /\ r \in waiting /\ Return({r}) /\ disturbed' = disturbed \ {r}
      /\ UNCHANGED <<store, replica, unsettled>>
  BY DEF Timeout
<1>2. /\ waiting' = waiting \ {r}
      /\ streamKeys' \in [Readers -> SUBSET Keys]
      /\ resolvedStreamIds' \in [Readers -> [Keys -> Ids]]
      /\ listeners' \in Seq(Readers)
      /\ ListensWhileWaiting'
      /\ \A q \in waiting' : /\ streamKeys'[q] = streamKeys[q]
                             /\ resolvedStreamIds'[q] = resolvedStreamIds[q]
  BY <1>1, ReturnFacts
<1>3. TypeOK'
  BY <1>1, <1>2 DEF ReaderInv, TypeOK
<1>4. NoReaderLeftBehind'
  <2> SUFFICES ASSUME NEW q \in waiting', q \notin disturbed', NEW k \in streamKeys'[q],
                      store'[k] # StringValue
               PROVE  Results(store', {k}, resolvedStreamIds'[q]) = {}
    BY DEF NoReaderLeftBehind
  <2>1. q \in waiting \ disturbed /\ k \in streamKeys[q] /\ store[k] # StringValue
    BY <1>1, <1>2
  <2>2. Results(store, {k}, resolvedStreamIds[q]) = {}
    BY <2>1 DEF ReaderInv, NoReaderLeftBehind
  <2> QED
    BY <1>1, <1>2, <2>2
<1> QED
  BY <1>2, <1>3, <1>4 DEF ReaderInv

\* XREAD waits only when it has found nothing, and reads behind identifiers.
LEMMA XreadKeepsReaders ==
  ASSUME ReaderInv, NEW r \in Readers, NEW ids \in Xreads, XreadBlock(r, ids)
  PROVE  ReaderInv'
<1> PICK keys \in SUBSET Keys : ids \in [keys -> (Nat \X Nat) \cup {Dollar}]
  BY ConstantsAssumption
<1>1. /\ r \notin waiting
      /\ \A k \in keys : store[k] # StringValue
      /\ Results(store, keys, Resolved(ids)) = {}
      /\ waiting' = waiting \cup {r}
      /\ streamKeys' = [streamKeys EXCEPT ![r] = keys]
      /\ resolvedStreamIds' = [resolvedStreamIds EXCEPT ![r] = Resolved(ids)]
      /\ listeners' = Append(listeners, r)
      /\ UNCHANGED <<store, replica, disturbed, unsettled>>
  BY DEF XreadBlock, Throws
<1>2. keys \subseteq Keys
  OBVIOUS
<1>3. Resolved(ids) \in [Keys -> Ids]
  <2> SUFFICES ASSUME NEW k \in keys
               PROVE  Resolve(store[k], ids[k]) \in Ids
    BY DEF Resolved, Ids
  <2>1. ids[k] \in Ids \cup {Dollar} /\ store[k] \in Seq(Ids)
    BY <1>1, <1>2, ConstantsAssumption DEF ReaderInv, TypeOK, Streams, Ids
  <2>2. store[k] # << >> => Last(store[k]) \in Ids
    BY <2>1, LenProperties, ElementOfSeq, EmptySeq DEF Last
  <2> QED
    BY <2>1, <2>2 DEF Resolve, Ids
<1>4. listeners \in Seq(Readers) /\ IsInjective(listeners) /\ ToSet(listeners) = waiting
  BY DEF ReaderInv, TypeOK, ListensWhileWaiting
<1>5. /\ listeners' \in Seq(Readers) /\ IsInjective(listeners')
      /\ ToSet(listeners') = waiting'
  BY <1>1, <1>4, AppendToList
<1>6. TypeOK'
  BY <1>1, <1>2, <1>3, <1>5 DEF ReaderInv, TypeOK
<1>7. NoReaderLeftBehind'
  <2> SUFFICES ASSUME NEW q \in waiting', q \notin disturbed', NEW k \in streamKeys'[q],
                      store'[k] # StringValue
               PROVE  Results(store', {k}, resolvedStreamIds'[q]) = {}
    BY DEF NoReaderLeftBehind
  <2>1. CASE q = r
    <3>1. streamKeys'[r] = keys /\ resolvedStreamIds'[r] = Resolved(ids) /\ store' = store
      BY <1>1 DEF ReaderInv, TypeOK
    <3>2. \A e \in ToSet(store[k]) : ~ After(e, Resolved(ids)[k])
      BY <1>1, <2>1, <3>1, FindsNothing
    <3> QED
      BY <2>1, <3>1, <3>2, FindsNothing
  <2>2. CASE q # r
    <3>1. /\ q \in waiting \ disturbed /\ streamKeys'[q] = streamKeys[q] /\ store' = store
          /\ resolvedStreamIds'[q] = resolvedStreamIds[q]
      BY <1>1, <2>2 DEF ReaderInv, TypeOK
    <3> QED
      BY <3>1 DEF ReaderInv, NoReaderLeftBehind
  <2> QED
    BY <2>1, <2>2
<1> QED
  BY <1>5, <1>6, <1>7 DEF ReaderInv, ListensWhileWaiting

\* XADD wakes all whose streams have a new entry, unless a listener throws.
LEMMA XaddKeepsReaders ==
  ASSUME ReaderInv, NEW k \in Keys, NEW request \in Requests, NEW now \in Clock, NEW there \in Clock,
         Xadd(k, request, now, there)
  PROVE  ReaderInv'
<1> DEFINE s == [store EXCEPT ![k] = Added(@, request, now)]
           p == [replica EXCEPT ![k] = Added(@, request, there)]
           woken == Woken(s, k)
           throwing == Throwing(s, k)
<1>1. /\ store' = s
      /\ Return(woken)
      /\ disturbed' = (IF throwing # {} THEN disturbed \cup ToSet(listeners) ELSE disturbed) \ woken
      /\ replica' = IF throwing # {} THEN replica ELSE p
      /\ unsettled' = IF request[1] = Star \/ throwing # {} THEN unsettled \cup {k} ELSE unsettled
  BY DEF Xadd
<1>2. /\ store \in [Keys -> Streams] /\ replica \in [Keys -> Streams] /\ disturbed \subseteq waiting
      /\ waiting \subseteq Readers /\ unsettled \subseteq Keys
      /\ ToSet(listeners) = waiting
  BY DEF ReaderInv, TypeOK, ListensWhileWaiting
<1>3. s \in [Keys -> Streams] /\ p \in [Keys -> Streams]
  BY <1>2, AddedIsStream
<1>4. woken \in SUBSET waiting
  BY WokenWait
<1>5. \A j \in Keys \ {k} : s[j] = store[j]
  BY <1>2
<1>6. \A q \in waiting \ woken : throwing = {} /\ k \in streamKeys[q] =>
        Results(s, streamKeys[q], resolvedStreamIds[q]) = {}
  <2> SUFFICES ASSUME NEW n \in DOMAIN listeners, throwing = {}, k \in streamKeys[listeners[n]],
                      Results(s, streamKeys[listeners[n]], resolvedStreamIds[listeners[n]]) # {}
               PROVE  listeners[n] \in woken
    BY <1>2 DEF ToSet
  <2> HIDE DEF s
  <2> QED
    BY DEF Woken
<1> HIDE DEF s, p, woken, throwing
<1>7. /\ waiting' = waiting \ woken
      /\ streamKeys' \in [Readers -> SUBSET Keys]
      /\ resolvedStreamIds' \in [Readers -> [Keys -> Ids]]
      /\ listeners' \in Seq(Readers)
      /\ ListensWhileWaiting'
      /\ \A q \in waiting' : /\ streamKeys'[q] = streamKeys[q]
                             /\ resolvedStreamIds'[q] = resolvedStreamIds[q]
  BY <1>1, <1>4, ReturnFacts
<1>8. TypeOK'
  BY <1>1, <1>2, <1>3, <1>7 DEF TypeOK
<1>9. NoReaderLeftBehind'
  <2> SUFFICES ASSUME NEW q \in waiting', q \notin disturbed', NEW j \in streamKeys'[q],
                      store'[j] # StringValue
               PROVE  Results(store', {j}, resolvedStreamIds'[q]) = {}
    BY DEF NoReaderLeftBehind
  <2>1. /\ q \in waiting \ woken /\ j \in streamKeys[q] /\ j \in Keys
        /\ resolvedStreamIds'[q] = resolvedStreamIds[q] /\ store' = s
    BY <1>1, <1>7 DEF ReaderInv, TypeOK
  <2>2. throwing = {} /\ q \notin disturbed
    BY <1>1, <1>2, <2>1
  <2>3. CASE k \in streamKeys[q]
    <3>1. \A e \in ToSet(s[j]) : ~ After(e, resolvedStreamIds[q][j])
      BY <1>6, <2>1, <2>2, <2>3, FindsNothing
    <3> QED
      BY <2>1, <3>1, FindsNothing
  <2>4. CASE k \notin streamKeys[q]
    <3>1. s[j] = store[j]
      BY <1>5, <2>1, <2>4
    <3>2. Results(store, {j}, resolvedStreamIds[q]) = {}
      BY <2>1, <2>2, <3>1 DEF ReaderInv, NoReaderLeftBehind
    <3>3. \A e \in ToSet(s[j]) : ~ After(e, resolvedStreamIds[q][j])
      BY <3>1, <3>2, FindsNothing
    <3> QED
      BY <2>1, <3>3, FindsNothing
  <2> QED
    BY <2>3, <2>4
<1> QED
  BY <1>7, <1>8, <1>9 DEF ReaderInv

\* SET and DEL leave no entry to be found.
LEMMA OverwriteKeepsReaders ==
  ASSUME ReaderInv, NEW k \in Keys, NEW v \in {<< >>, StringValue}, Overwrite(k, v)
  PROVE  ReaderInv'
<1>1. /\ store' = [store EXCEPT ![k] = v] /\ replica' = [replica EXCEPT ![k] = v]
      /\ unsettled' = unsettled \ {k}
      /\ UNCHANGED <<waiting, streamKeys, resolvedStreamIds, listeners, disturbed>>
  BY DEF Overwrite, readVars
<1>2. v \in Streams
  BY EmptySeq DEF Streams
<1>3. TypeOK'
  BY <1>1, <1>2 DEF ReaderInv, TypeOK
<1>4. NoReaderLeftBehind'
  <2> SUFFICES ASSUME NEW q \in waiting', q \notin disturbed', NEW j \in streamKeys'[q],
                      store'[j] # StringValue
               PROVE  Results(store', {j}, resolvedStreamIds'[q]) = {}
    BY DEF NoReaderLeftBehind
  <2>1. q \in waiting \ disturbed /\ j \in streamKeys[q] /\ j \in Keys
    BY <1>1 DEF ReaderInv, TypeOK
  <2>2. \A e \in ToSet(store'[j]) : ~ After(e, resolvedStreamIds[q][j])
    <3>1. CASE j = k
      BY <1>1, <2>1, <3>1, ToSetEmpty DEF ReaderInv, TypeOK
    <3>2. CASE j # k
      <4>1. store'[j] = store[j]
        BY <1>1, <2>1, <3>2 DEF ReaderInv, TypeOK
      <4> QED
        BY <2>1, <4>1, FindsNothing DEF ReaderInv, NoReaderLeftBehind
    <3> QED
      BY <3>1, <3>2
  <2> QED
    BY <1>1, <2>2, FindsNothing
<1>5. ListensWhileWaiting'
  BY <1>1 DEF ReaderInv, ListensWhileWaiting
<1> QED
  BY <1>3, <1>4, <1>5 DEF ReaderInv

\* So does a GET of an expired key.
LEMMA GetExpiredKeepsReaders ==
  ASSUME ReaderInv, NEW k \in Keys, GetExpired(k) \/ ReplicaGetExpired(k)
  PROVE  ReaderInv'
<1>1. /\ unsettled' = unsettled \cup {k}
      /\ \/ store' = [store EXCEPT ![k] = << >>] /\ replica' = replica
         \/ replica' = [replica EXCEPT ![k] = << >>] /\ store' = store
      /\ UNCHANGED <<waiting, streamKeys, resolvedStreamIds, listeners, disturbed>>
  BY DEF GetExpired, ReplicaGetExpired, readVars
<1>2. << >> \in Streams
  BY EmptySeq DEF Streams
<1>3. TypeOK'
  BY <1>1, <1>2 DEF ReaderInv, TypeOK
<1>4. NoReaderLeftBehind'
  <2> SUFFICES ASSUME NEW q \in waiting', q \notin disturbed', NEW j \in streamKeys'[q],
                      store'[j] # StringValue
               PROVE  Results(store', {j}, resolvedStreamIds'[q]) = {}
    BY DEF NoReaderLeftBehind
  <2>1. q \in waiting \ disturbed /\ j \in streamKeys[q] /\ j \in Keys
    BY <1>1 DEF ReaderInv, TypeOK
  <2>2. store'[j] = << >> \/ store'[j] = store[j]
    BY <1>1, <2>1 DEF ReaderInv, TypeOK
  <2>3. \A e \in ToSet(store'[j]) : ~ After(e, resolvedStreamIds[q][j])
    <3>1. CASE store'[j] = << >>
      BY <3>1, ToSetEmpty
    <3>2. CASE store'[j] = store[j]
      BY <2>1, <3>2, FindsNothing DEF ReaderInv, NoReaderLeftBehind
    <3> QED
      BY <2>2, <3>1, <3>2
  <2> QED
    BY <1>1, <2>3, FindsNothing
<1>5. ListensWhileWaiting'
  BY <1>1 DEF ReaderInv, ListensWhileWaiting
<1> QED
  BY <1>3, <1>4, <1>5 DEF ReaderInv

LEMMA ReaderInvariance == Spec => []ReaderInv
<1>1. Init => ReaderInv
  <2> SUFFICES ASSUME Init PROVE ReaderInv
    OBVIOUS
  <2>1. << >> \in Streams /\ NoIds \in [Keys -> Ids] /\ << >> \in Seq(Readers)
    BY EmptySeq DEF Streams, NoIds, Ids
  <2>2. TypeOK
    BY <2>1 DEF Init, TypeOK
  <2>3. ListensWhileWaiting /\ NoReaderLeftBehind
    BY ToSetEmpty DEF Init, ListensWhileWaiting, NoReaderLeftBehind, IsInjective
  <2> QED
    BY <2>2, <2>3 DEF ReaderInv
<1>2. ReaderInv /\ [Next]_vars => ReaderInv'
  <2> SUFFICES ASSUME ReaderInv, [Next]_vars PROVE ReaderInv'
    OBVIOUS
  <2>1. CASE \E k \in Keys, request \in Requests, now, there \in Clock :
               (request[1] # Star => now = there) /\ Xadd(k, request, now, there)
    BY <2>1, XaddKeepsReaders
  <2>2. CASE \E k \in Keys, v \in {<< >>, StringValue} : Overwrite(k, v)
    BY <2>2, OverwriteKeepsReaders
  <2>3. CASE \E r \in Readers, ids \in Xreads : XreadBlock(r, ids)
    BY <2>3, XreadKeepsReaders
  <2>4. CASE \E r \in Readers : Timeout(r)
    BY <2>4, TimeoutKeepsReaders
  <2>5. CASE \E k \in Keys : GetExpired(k) \/ ReplicaGetExpired(k)
    BY <2>5, GetExpiredKeepsReaders
  <2>6. CASE UNCHANGED vars
    BY <2>6 DEF vars, readVars, ReaderInv, TypeOK, ListensWhileWaiting, NoReaderLeftBehind
  <2> QED
    BY <2>1, <2>2, <2>3, <2>4, <2>5, <2>6 DEF Next
<1> QED
  BY <1>1, <1>2, PTL DEF Spec

\* Type correctness of the streams, the XREADs and the history.
THEOREM TypeCorrect == Spec => []TypeOK
<1>1. ReaderInv => TypeOK
  BY DEF ReaderInv
<1> QED
  BY <1>1, ReaderInvariance, PTL

\* An XREAD has one listener on StreamEventManager while it waits, and none
\* before and after: neither its timer nor an XADD leaves one behind.
THEOREM ReadersListen == Spec => []ListensWhileWaiting
<1>1. ReaderInv => ListensWhileWaiting
  BY DEF ReaderInv
<1> QED
  BY <1>1, ReaderInvariance, PTL

\* No XREAD waits while a stream it names has an entry behind its identifier,
\* but those that listened when a listener threw inside XADD.
THEOREM ReadersAreWoken == Spec => []NoReaderLeftBehind
<1>1. ReaderInv => NoReaderLeftBehind
  BY DEF ReaderInv
<1> QED
  BY <1>1, ReaderInvariance, PTL

-----------------------------------------------------------------------------
(* Decimal digits, and their order.                                        *)

\* One step of Digits.
OneDigit(d, n) == IF n < 10 THEN <<n>> ELSE Append(d[n \div 10], n % 10)

\* d is what Digits is defined to be, up to N.
DigitsUpTo(N, d) == d = [n \in 0..N |-> OneDigit(d, n)]

LEMMA DigitFacts ==
  ASSUME NEW n \in Nat
  PROVE  /\ n \div 10 \in Nat /\ n % 10 \in Nat
         /\ n = 10 * (n \div 10) + (n % 10)
         /\ n >= 10 => n \div 10 < n
         /\ \A m \in Nat : m < n <=> \/ m \div 10 < n \div 10
                                     \/ m \div 10 = n \div 10 /\ m % 10 < n % 10
OBVIOUS

LEMMA DigitsExistUpTo ==
  ASSUME NEW N \in Nat
  PROVE  \E d : DigitsUpTo(N, d)
<1> DEFINE P == {n \in 0..N : \E d : DigitsUpTo(n, d)}
<1>1. 0 \in P
  <2> DEFINE d == [n \in 0..0 |-> <<n>>]
  <2>1. DigitsUpTo(0, d)
    BY DEF DigitsUpTo, OneDigit
  <2>2. 0 \in 0..N
    OBVIOUS
  <2> QED
    BY <2>1, <2>2
<1>2. ASSUME NEW n \in 0..(N - 1), n \in P
      PROVE  n + 1 \in P
  <2>1. PICK d : DigitsUpTo(n, d)
    BY <1>2
  <2> DEFINE e == [m \in 0..(n + 1) |-> OneDigit(d, m)]
  <2>2. \A m \in 0..n : e[m] = d[m]
    BY <2>1 DEF DigitsUpTo
  <2>6. e = [m \in 0..(n + 1) |-> OneDigit(d, m)]
    OBVIOUS
  <2> HIDE DEF e
  <2>3. \A m \in 0..(n + 1) : OneDigit(e, m) = OneDigit(d, m)
    <3> SUFFICES ASSUME NEW m \in 0..(n + 1), m >= 10
                 PROVE  e[m \div 10] = d[m \div 10]
      BY DEF OneDigit
    <3>1. m \div 10 \in 0..n
      BY DigitFacts
    <3> QED
      BY <2>2, <3>1
  <2>4. DigitsUpTo(n + 1, e)
    BY <2>3, <2>6 DEF DigitsUpTo
  <2>5. n + 1 \in 0..N
    OBVIOUS
  <2> QED
    BY <2>4, <2>5
<1> HIDE DEF P
<1>3. \A n \in 0..N : n \in P
  BY <1>1, <1>2, InductionUpTo
<1>4. N \in 0..N
  OBVIOUS
<1> QED
  BY <1>3, <1>4 DEF P

LEMMA DigitsAgree ==
  ASSUME NEW M \in Nat, NEW N \in Nat, M <= N, NEW d, DigitsUpTo(M, d), NEW e, DigitsUpTo(N, e)
  PROVE  \A n \in 0..M : d[n] = e[n]
<1> DEFINE P == {n \in 0..M : \A m \in 0..n : d[m] = e[m]}
<1>1. ASSUME NEW n \in 0..M
      PROVE  d[n] = OneDigit(d, n) /\ e[n] = OneDigit(e, n)
  <2>1. n \in 0..N
    OBVIOUS
  <2>2. d[n] = [m \in 0..M |-> OneDigit(d, m)][n]
    BY Zenon DEF DigitsUpTo
  <2>3. e[n] = [m \in 0..N |-> OneDigit(e, m)][n]
    BY Zenon DEF DigitsUpTo
  <2> QED
    BY <2>1, <2>2, <2>3
<1>2. 0 \in P
  <2>1. 0 \in 0..M /\ \A m \in 0..0 : m = 0
    OBVIOUS
  <2>2. OneDigit(d, 0) = OneDigit(e, 0)
    BY DEF OneDigit
  <2>3. d[0] = e[0]
    BY <1>1, <2>1, <2>2
  <2> QED
    BY <2>1, <2>3
<1>3. ASSUME NEW n \in 0..(M - 1), n \in P
      PROVE  n + 1 \in P
  <2>1. n + 1 >= 10 => (n + 1) \div 10 \in 0..n
    BY DigitFacts
  <2>2. n + 1 >= 10 => d[(n + 1) \div 10] = e[(n + 1) \div 10]
    BY <1>3, <2>1
  <2>3. d[n + 1] = e[n + 1]
    <3>1. OneDigit(d, n + 1) = OneDigit(e, n + 1)
      BY <2>2 DEF OneDigit
    <3>2. n + 1 \in 0..M
      OBVIOUS
    <3> QED
      BY <1>1, <3>1, <3>2
  <2>4. \A m \in 0..(n + 1) : m \in 0..n \/ m = n + 1
    OBVIOUS
  <2> QED
    BY <1>3, <2>3, <2>4
<1> HIDE DEF P
<1>4. \A n \in 0..M : n \in P
  BY <1>2, <1>3, InductionUpTo
<1> QED
  BY <1>4 DEF P

\* Digits is what its definition says.
LEMMA DigitsUnfold == \A n \in Nat : Digits[n] = OneDigit(Digits, n)
<1> DEFINE upTo(n) == CHOOSE d : DigitsUpTo(n, d)
           all == [n \in Nat |-> upTo(n)[n]]
<1>1. \A n \in Nat : DigitsUpTo(n, upTo(n))
  BY DigitsExistUpTo, Zenon
<1> HIDE DEF upTo
<1>2. ASSUME NEW n \in Nat
      PROVE  all[n] = OneDigit(all, n)
  <2>1. upTo(n)[n] = OneDigit(upTo(n), n)
    BY <1>1 DEF DigitsUpTo
  <2>2. ASSUME n >= 10
        PROVE  upTo(n)[n \div 10] = upTo(n \div 10)[n \div 10]
    <3>1. n \div 10 \in Nat /\ n \div 10 <= n
      BY DigitFacts
    <3>2. DigitsUpTo(n, upTo(n)) /\ DigitsUpTo(n \div 10, upTo(n \div 10))
      BY <1>1, <3>1
    <3>3. \A m \in 0..(n \div 10) : upTo(n \div 10)[m] = upTo(n)[m]
      BY <3>1, <3>2, DigitsAgree
    <3> QED
      BY <3>1, <3>3
  <2>3. n >= 10 => all[n \div 10] = upTo(n)[n \div 10]
    BY <2>2, DigitFacts
  <2> QED
    BY <2>1, <2>3 DEF OneDigit
<1>3. all = [n \in Nat |-> OneDigit(all, n)]
  <2>1. all = [n \in Nat |-> all[n]]
    OBVIOUS
  <2> HIDE DEF all
  <2> QED
    BY <1>2, <2>1
<1> HIDE DEF all
<1>4. Digits = CHOOSE d : d = [n \in Nat |-> OneDigit(d, n)]
  BY DEF Digits, OneDigit
<1>5. Digits = [n \in Nat |-> OneDigit(Digits, n)]
  BY <1>3, <1>4, Zenon
<1> QED
  BY <1>5

\* Digits of a number, and of one with a digit more.
LEMMA DigitsType ==
  ASSUME NEW n \in Nat
  PROVE  /\ Digits[n] \in Seq(Nat) /\ Len(Digits[n]) >= 1
         /\ n < 10 => Digits[n] = <<n>>
         /\ n >= 10 => Digits[n] = Append(Digits[n \div 10], n % 10)
<1> DEFINE P == {m \in 0..n : \A l \in 0..m : Digits[l] \in Seq(Nat) /\ Len(Digits[l]) >= 1}
<1>1. \A m \in Nat : /\ m < 10 => Digits[m] = <<m>>
                     /\ m >= 10 => Digits[m] = Append(Digits[m \div 10], m % 10)
  <2> SUFFICES ASSUME NEW m \in Nat
               PROVE  /\ m < 10 => Digits[m] = <<m>>
                      /\ m >= 10 => Digits[m] = Append(Digits[m \div 10], m % 10)
    OBVIOUS
  <2>1. Digits[m] = IF m < 10 THEN <<m>> ELSE Append(Digits[m \div 10], m % 10)
    BY DigitsUnfold, Zenon DEF OneDigit
  <2> QED
    BY <2>1
<1>2. \A m \in Nat : m < 10 => Digits[m] \in Seq(Nat) /\ Len(Digits[m]) >= 1
  <2> SUFFICES ASSUME NEW m \in Nat
               PROVE  <<m>> \in Seq(Nat) /\ Len(<<m>>) >= 1
    BY <1>1
  <2> QED
    BY SingletonList
<1>3. 0 \in P
  BY <1>2
<1>4. ASSUME NEW m \in 0..(n - 1), m \in P
      PROVE  m + 1 \in P
  <2>1. ASSUME m + 1 >= 10
        PROVE  Digits[m + 1] \in Seq(Nat) /\ Len(Digits[m + 1]) >= 1
    <3>1. (m + 1) \div 10 \in 0..m /\ (m + 1) % 10 \in Nat
      BY <2>1, DigitFacts
    <3>2. Digits[(m + 1) \div 10] \in Seq(Nat) /\ Len(Digits[(m + 1) \div 10]) >= 1
      BY <1>4, <3>1
    <3>3. Digits[m + 1] = Append(Digits[(m + 1) \div 10], (m + 1) % 10)
      BY <1>1, <2>1
    <3> QED
      BY <3>1, <3>2, <3>3, AppendProperties
  <2>2. Digits[m + 1] \in Seq(Nat) /\ Len(Digits[m + 1]) >= 1
    BY <1>2, <2>1
  <2>3. \A l \in 0..(m + 1) : l \in 0..m \/ l = m + 1
    OBVIOUS
  <2> QED
    BY <1>4, <2>2, <2>3
<1> HIDE DEF P
<1>5. \A m \in 0..n : m \in P
  BY <1>3, <1>4, InductionUpTo
<1>6. n \in 0..n
  OBVIOUS
<1> QED
  BY <1>1, <1>5, <1>6 DEF P

\* How long these strings are, and what they end with.
LEMMA OneDigitLong ==
  ASSUME NEW n \in Nat, n < 10
  PROVE  Digits[n] = <<n>> /\ Len(Digits[n]) = 1
<1>1. Digits[n] = <<n>>
  BY DigitsType
<1>2. Len(<<n>>) = 1
  OBVIOUS
<1> QED
  BY <1>1, <1>2

LEMMA ManyDigits ==
  ASSUME NEW n \in Nat, n >= 10
  PROVE  \E q, r \in Nat :
           /\ q = n \div 10 /\ r = n % 10 /\ q < n
           /\ Digits[q] \in Seq(Nat) /\ Digits[n] = Append(Digits[q], r)
           /\ Len(Digits[q]) \in Nat /\ Len(Digits[q]) >= 1
           /\ Len(Digits[n]) = Len(Digits[q]) + 1
<1>1. PICK q, r \in Nat : q = n \div 10 /\ r = n % 10 /\ q < n
  BY DigitFacts
<1>2. Digits[n] = Append(Digits[q], r)
  BY <1>1, DigitsType
<1>3. Digits[q] \in Seq(Nat) /\ Len(Digits[q]) >= 1
  BY DigitsType
<1>4. Len(Digits[q]) \in Nat
  BY <1>3, LenProperties
<1>5. Len(Digits[n]) = Len(Digits[q]) + 1
  BY <1>2, <1>3, AppendProperties
<1> QED
  BY <1>1, <1>2, <1>3, <1>4, <1>5

\* The first member that differs decides.
FirstLess(s, t) ==
  \E n \in DOMAIN s \cap DOMAIN t : s[n] < t[n] /\ \A m \in 1..(n - 1) : s[m] = t[m]

\* Among numbers of as many digits no string begins with another.
LEMMA StringLessIsFirstLess ==
  ASSUME NEW a \in Nat, NEW b \in Nat, Len(Digits[a]) = Len(Digits[b])
  PROVE  StringLess(a, b) <=> FirstLess(Digits[a], Digits[b])
<1>1. Digits[a] \in Seq(Nat) /\ Digits[b] \in Seq(Nat)
  BY DigitsType
<1>2. ~ IsStrictPrefix(Digits[a], Digits[b])
  <2>1. SubSeq(Digits[a], 1, Len(Digits[a])) = Digits[a] /\ SubSeq(Digits[b], 1, Len(Digits[b])) = Digits[b]
    BY <1>1, SubSeqFull
  <2> QED
    BY <2>1 DEF IsStrictPrefix, IsPrefix
<1> QED
  BY <1>2 DEF StringLess, FirstLess

\* A last digit decides only when those in front of it are the same.
LEMMA FirstLessOfAppend ==
  ASSUME NEW s \in Seq(Nat), NEW t \in Seq(Nat), Len(s) = Len(t), NEW x \in Nat, NEW y \in Nat
  PROVE  FirstLess(Append(s, x), Append(t, y)) <=> FirstLess(s, t) \/ (s = t /\ x < y)
<1> DEFINE p == Append(s, x)
           q == Append(t, y)
           l == Len(s)
<1>1. /\ l \in Nat /\ DOMAIN s = 1..l /\ DOMAIN t = 1..l
      /\ DOMAIN p = 1..(l + 1) /\ DOMAIN q = 1..(l + 1)
      /\ p[l + 1] = x /\ q[l + 1] = y
      /\ \A n \in 1..l : p[n] = s[n] /\ q[n] = t[n]
  BY LenProperties, AppendProperties
<1>2. s = t <=> \A n \in 1..l : s[n] = t[n]
  BY <1>1, SeqEqual
<1> HIDE DEF p, q, l
<1>3. /\ \A n \in 1..l : n \in 1..(l + 1) /\ \A m \in 1..(n - 1) : m \in 1..l
      /\ l + 1 \in 1..(l + 1) /\ (l + 1) - 1 = l
      /\ \A n \in 1..(l + 1) : n \in 1..l \/ n = l + 1
  BY <1>1
<1>4. ASSUME FirstLess(s, t)
      PROVE  FirstLess(p, q)
  BY <1>1, <1>3, <1>4 DEF FirstLess
<1>5. ASSUME s = t, x < y
      PROVE  FirstLess(p, q)
  BY <1>1, <1>3, <1>5 DEF FirstLess
<1>6. ASSUME FirstLess(p, q)
      PROVE  FirstLess(s, t) \/ (s = t /\ x < y)
  <2>1. PICK n \in 1..(l + 1) : p[n] < q[n] /\ \A m \in 1..(n - 1) : p[m] = q[m]
    BY <1>1, <1>6 DEF FirstLess
  <2>2. CASE n \in 1..l
    <3>1. s[n] < t[n] /\ \A m \in 1..(n - 1) : s[m] = t[m]
      BY <1>1, <1>3, <2>1, <2>2
    <3> QED
      BY <1>1, <2>2, <3>1 DEF FirstLess
  <2>3. CASE n = l + 1
    BY <1>1, <1>2, <1>3, <2>1, <2>3
  <2> QED
    BY <1>3, <2>2, <2>3
<1> QED
  BY <1>4, <1>5, <1>6 DEF p, q

\* Of two numbers, the quotients decide and then the last digits.
LEMMA LastDigitDecides ==
  ASSUME NEW n \in Nat, NEW m \in Nat, NEW q \in Nat, NEW r \in Nat, NEW o \in Nat, NEW x \in Nat,
         q = n \div 10, r = n % 10, o = m \div 10, x = m % 10
  PROVE  n < m <=> q < o \/ (q = o /\ r < x)
BY DigitFacts

\* No string comes before itself.
LEMMA FirstLessIrreflexive ==
  ASSUME NEW s \in Seq(Nat)
  PROVE  ~ FirstLess(s, s)
BY LenProperties, ElementOfSeq DEF FirstLess

\* Strings of as many digits are in the order of their numbers.
LEMMA StringsAreNumbers ==
  ASSUME NEW a \in Nat, NEW b \in Nat, Len(Digits[a]) = Len(Digits[b])
  PROVE  StringLess(a, b) <=> a < b
<1> DEFINE Right(n, m) == Len(Digits[n]) = Len(Digits[m]) => (FirstLess(Digits[n], Digits[m]) <=> n < m)
           P == {j \in 0..a : \A n \in 0..j : \A m \in Nat : Right(n, m) /\ Right(m, n)}
<1>1. ASSUME NEW n \in Nat, NEW m \in Nat, n < 10
      PROVE  Right(n, m) /\ Right(m, n)
  <2>1. Digits[n] = <<n>> /\ Len(Digits[n]) = 1
    BY <1>1, OneDigitLong
  <2>2. CASE m < 10
    <3>1. Digits[m] = <<m>> /\ Len(Digits[m]) = 1
      BY <2>2, OneDigitLong
    <3>2. ASSUME NEW i \in Nat, NEW j \in Nat
          PROVE  FirstLess(<<i>>, <<j>>) <=> i < j
      <4>1. /\ DOMAIN <<i>> = 1..1 /\ DOMAIN <<j>> = 1..1 /\ <<i>>[1] = i /\ <<j>>[1] = j
            /\ 1..1 = {1} /\ 1..(1 - 1) = {}
        OBVIOUS
      <4> QED
        BY <4>1 DEF FirstLess
    <3> QED
      BY <2>1, <3>1, <3>2
  <2>3. CASE m >= 10
    <3>1. PICK l \in Nat : l >= 1 /\ Len(Digits[m]) = l + 1
      BY <2>3, ManyDigits
    <3>2. l + 1 # 1
      BY <3>1
    <3> QED
      BY <2>1, <3>1, <3>2, Zenon
  <2> QED
    BY <2>2, <2>3
<1>2. ASSUME NEW j \in 0..(a - 1), j \in P
      PROVE  j + 1 \in P
  <2>1. ASSUME NEW n \in Nat, n = j + 1, NEW m \in Nat, n >= 10, Len(Digits[n]) = Len(Digits[m])
        PROVE  /\ FirstLess(Digits[n], Digits[m]) <=> n < m
               /\ FirstLess(Digits[m], Digits[n]) <=> m < n
    <3>1. PICK q, r \in Nat :
            /\ q = n \div 10 /\ r = n % 10 /\ q < n
            /\ Digits[q] \in Seq(Nat) /\ Digits[n] = Append(Digits[q], r)
            /\ Len(Digits[q]) \in Nat /\ Len(Digits[q]) >= 1
            /\ Len(Digits[n]) = Len(Digits[q]) + 1
      BY <2>1, ManyDigits
    <3>2. m >= 10
      BY SMTT(30), <2>1, <3>1, OneDigitLong
    <3>3. PICK o, x \in Nat :
            /\ o = m \div 10 /\ x = m % 10 /\ o < m
            /\ Digits[o] \in Seq(Nat) /\ Digits[m] = Append(Digits[o], x)
            /\ Len(Digits[o]) \in Nat /\ Len(Digits[o]) >= 1
            /\ Len(Digits[m]) = Len(Digits[o]) + 1
      BY <3>2, ManyDigits
    <3>4. Len(Digits[q]) = Len(Digits[o])
      <4>1. \A k, l \in Nat : k + 1 = l + 1 => k = l
        OBVIOUS
      <4>2. Len(Digits[q]) + 1 = Len(Digits[o]) + 1
        BY <2>1, <3>1, <3>3, Zenon
      <4> QED
        BY <3>1, <3>3, <4>1, <4>2, Zenon
    <3>5. q \in 0..j
      BY <2>1, <3>1
    <3>6. Right(q, o) /\ Right(o, q)
      BY <1>2, <3>5
    <3>7. Digits[q] = Digits[o] <=> q = o
      <4>1. ~ FirstLess(Digits[q], Digits[q])
        BY <3>1, FirstLessIrreflexive
      <4> QED
        BY <3>4, <3>6, <4>1
    <3>8. /\ FirstLess(Digits[n], Digits[m]) <=> FirstLess(Digits[q], Digits[o]) \/ (Digits[q] = Digits[o] /\ r < x)
          /\ FirstLess(Digits[m], Digits[n]) <=> FirstLess(Digits[o], Digits[q]) \/ (Digits[o] = Digits[q] /\ x < r)
      <4>1. Digits[q] \in Seq(Nat) /\ Digits[o] \in Seq(Nat)
        BY <3>1, <3>3, Zenon
      <4>2. FirstLess(Append(Digits[q], r), Append(Digits[o], x))
            <=> FirstLess(Digits[q], Digits[o]) \/ (Digits[q] = Digits[o] /\ r < x)
        BY <3>4, <4>1, FirstLessOfAppend
      <4>3. FirstLess(Append(Digits[o], x), Append(Digits[q], r))
            <=> FirstLess(Digits[o], Digits[q]) \/ (Digits[o] = Digits[q] /\ x < r)
        BY <3>4, <4>1, FirstLessOfAppend
      <4> QED
        BY <3>1, <3>3, <4>2, <4>3, Zenon
    <3>9. /\ n < m <=> q < o \/ (q = o /\ r < x)
          /\ m < n <=> o < q \/ (o = q /\ x < r)
      BY SMTT(30), <3>1, <3>3, LastDigitDecides
    <3> QED
      <4>1. /\ FirstLess(Digits[q], Digits[o]) <=> q < o
            /\ FirstLess(Digits[o], Digits[q]) <=> o < q
        BY <3>4, <3>6
      <4> QED
        BY <3>7, <3>8, <3>9, <4>1, Zenon
  <2>2. j + 1 \in Nat /\ j + 1 \in 0..a
    OBVIOUS
  <2>3. \A m \in Nat : Right(j + 1, m) /\ Right(m, j + 1)
    BY <1>1, <2>1, <2>2
  <2>4. \A n \in 0..(j + 1) : n \in 0..j \/ n = j + 1
    OBVIOUS
  <2> QED
    BY <1>2, <2>2, <2>3, <2>4
<1>3. 0 \in P
  BY <1>1
<1> HIDE DEF P
<1>4. \A j \in 0..a : j \in P
  BY <1>2, <1>3, InductionUpTo
<1>5. Right(a, b)
  <2>1. a \in 0..a
    OBVIOUS
  <2> QED
    BY <1>4, <2>1 DEF P
<1> QED
  BY <1>5, StringLessIsFirstLess

-----------------------------------------------------------------------------
(* The identifiers of a stream.                                            *)

\* The inductive invariant behind SameWidthIdsIncrease.
IncreaseInv == StreamsTyped /\ SameWidthIdsIncrease

\* What generateEntryId makes behind an entry is behind it, when as long.
LEMMA GeneratedBehindLast ==
  ASSUME NEW request \in Requests, NEW last \in Ids, NEW t \in Clock,
         GenerateEntryId(request, last, t) # None,
         SameWidth(GenerateEntryId(request, last, t), last)
  PROVE  After(GenerateEntryId(request, last, t), last)
<1> DEFINE id == GenerateEntryId(request, last, t)
           ms == IF request[1] = Star THEN t ELSE request[1]
           seq == request[2]
<1>1. id \in Ids
  BY GeneratedId
<1>2. ms \in Nat /\ (seq \in Nat \/ seq = Star)
  <2>1. CASE request = <<Star, Star>>
    BY <2>1, ConstantsAssumption
  <2>2. CASE request # <<Star, Star>>
    <3>1. request \in Nat \X (Nat \cup {Star})
      BY <2>2, ConstantsAssumption
    <3> QED
      BY <3>1, ConstantsAssumption
  <2> QED
    BY <2>1, <2>2
<1>3. last # None
  BY ConstantsAssumption DEF Ids
<1>4. id = IF last[1] = ms
           THEN IF seq = Star THEN <<ms, last[2] + 1>>
                ELSE IF StringLess(last[2], seq) THEN <<ms, seq>> ELSE None
           ELSE IF StringLess(ms, last[1]) THEN None
           ELSE <<ms, IF seq = Star THEN 0 ELSE seq>>
  BY <1>3 DEF GenerateEntryId
<1>5. /\ last[1] \in Nat /\ last[2] \in Nat
      /\ Len(Digits[id[1]]) = Len(Digits[last[1]]) /\ Len(Digits[id[2]]) = Len(Digits[last[2]])
  BY DEF Ids, SameWidth
<1>6. id # None
  OBVIOUS
<1> HIDE DEF id, ms, seq
<1>7. CASE last[1] = ms /\ seq = Star
  BY <1>4, <1>5, <1>7 DEF After, id
<1>8. CASE last[1] = ms /\ seq # Star
  <2>1. id = <<ms, seq>> /\ StringLess(last[2], seq) /\ seq \in Nat
    BY <1>2, <1>4, <1>6, <1>8
  <2>2. last[2] < seq
    BY <1>5, <2>1, StringsAreNumbers
  <2> QED
    BY <1>5, <1>8, <2>1, <2>2 DEF After, id
<1>9. CASE last[1] # ms
  <2>1. id[1] = ms /\ ~ StringLess(ms, last[1])
    BY <1>4, <1>6, <1>9
  <2>2. ~ ms < last[1]
    BY <1>2, <1>5, <2>1, StringsAreNumbers
  <2>3. ms > last[1]
    BY <1>2, <1>5, <1>9, <2>2
  <2> QED
    BY <2>1, <2>3 DEF After, id
<1> QED
  BY <1>7, <1>8, <1>9

\* The identifiers of v increase, if they are as long.
Increases(v) ==
  (\A a, b \in ToSet(v) : SameWidth(a, b)) => \A m, n \in DOMAIN v : m < n => After(v[n], v[m])

\* XADD keeps them increasing.
LEMMA AddedIncreases ==
  ASSUME NEW request \in Requests, NEW v \in Seq(Ids), NEW t \in Clock, v # StringValue,
         IdFor(v, request, t) # None, Increases(v)
  PROVE  Increases(Added(v, request, t))
<1> DEFINE id == IdFor(v, request, t)
           w == Append(v, id)
           l == Len(v)
<1>1. LastId(v) \in Ids \cup {None}
  BY LenProperties, ElementOfSeq, EmptySeq DEF LastId, Last
<1>2. id = GenerateEntryId(request, LastId(v), t) /\ Added(v, request, t) = w
  BY DEF IdFor, Added
<1>3. id \in Ids
  BY <1>1, <1>2, GeneratedId
<1>4. /\ l \in Nat /\ DOMAIN v = 1..l /\ DOMAIN w = 1..(l + 1) /\ w[l + 1] = id
      /\ \A n \in 1..l : w[n] = v[n] /\ v[n] \in Ids
  BY <1>3, LenProperties, AppendProperties, ElementOfSeq
<1> HIDE DEF w, id, l
<1> SUFFICES ASSUME \A a, b \in ToSet(w) : SameWidth(a, b),
                    NEW m \in DOMAIN w, NEW n \in DOMAIN w, m < n
             PROVE  After(w[n], w[m])
  BY <1>2 DEF Increases
<1>5. \A i \in 1..(l + 1) : w[i] \in ToSet(w)
  BY <1>4 DEF ToSet
<1>6. \A i, j \in 1..l : i < j => After(v[j], v[i])
  <2>1. \A i \in 1..l : v[i] \in ToSet(w)
    BY <1>4, <1>5
  <2>2. \A a \in ToSet(v) : a \in ToSet(w)
    BY <1>4, <2>1 DEF ToSet
  <2> QED
    BY <1>4, <2>2 DEF Increases
<1>7. CASE n \in 1..l
  <2>1. m \in 1..l
    BY <1>4, <1>7
  <2> QED
    BY <1>4, <1>6, <1>7, <2>1
<1>8. CASE n = l + 1
  <2>1. m \in 1..l /\ l \in 1..l
    BY <1>4, <1>8
  <2>2. v # << >> /\ LastId(v) = v[l]
    BY <1>4, <2>1, EmptySeq DEF LastId, Last, l
  <2>3. SameWidth(id, v[l])
    BY <1>4, <1>5, <2>1
  <2>4. After(id, v[l])
    <3>1. v[l] \in Ids
      BY <1>4, <2>1
    <3>2. id # None
      BY DEF id
    <3> QED
      BY <1>2, <2>2, <2>3, <3>1, <3>2, GeneratedBehindLast
  <2>5. CASE m = l
    BY <1>4, <1>8, <2>1, <2>4, <2>5
  <2>6. CASE m # l
    <3>1. After(v[l], v[m]) /\ v[l] \in Ids /\ v[m] \in Ids
      BY <1>4, <1>6, <2>1, <2>6
    <3>2. After(id, v[m])
      BY SMTT(30), <1>3, <2>4, <3>1 DEF After, Ids
    <3> QED
      BY <1>4, <1>8, <2>1, <3>2
  <2> QED
    BY <2>5, <2>6
<1> QED
  BY <1>4, <1>7, <1>8

LEMMA IncreaseInvariance == Spec => []IncreaseInv
<1>1. SameWidthIdsIncrease <=> \A k \in Keys : store[k] # StringValue => Increases(store[k])
  BY DEF SameWidthIdsIncrease, Increases
<1>2. Increases(<< >>)
  BY EmptySeq DEF Increases
<1>3. Init => IncreaseInv
  BY <1>2, InitInv DEF Init, Inv, IncreaseInv, SameWidthIdsIncrease, Increases
<1>4. IncreaseInv /\ Inv /\ Inv' /\ [Next]_vars => IncreaseInv'
  <2> SUFFICES ASSUME IncreaseInv, Inv, Inv', [Next]_vars
               PROVE  SameWidthIdsIncrease'
    BY DEF IncreaseInv, Inv
  <2>1. store \in [Keys -> Streams] /\ \A k \in Keys : store[k] # StringValue => Increases(store[k])
    BY <1>1 DEF IncreaseInv, StreamsTyped
  <2> SUFFICES ASSUME NEW j \in Keys, store'[j] # StringValue
               PROVE  Increases(store'[j])
    BY DEF SameWidthIdsIncrease, Increases
  <2>2. ASSUME NEW k \in Keys, NEW request \in Requests, NEW now \in Clock, NEW there \in Clock,
               Xadd(k, request, now, there)
        PROVE  Increases(store'[j])
    <3>1. IdFor(store[k], request, now) # None /\ store' = [store EXCEPT ![k] = Added(@, request, now)]
      BY <2>2 DEF Xadd
    <3>2. store[k] # StringValue /\ store[k] \in Seq(Ids)
      BY <2>1, <3>1 DEF IdFor, Streams
    <3>3. Increases(Added(store[k], request, now))
      BY <2>1, <3>1, <3>2, AddedIncreases
    <3> QED
      BY <2>1, <3>1, <3>3
  <2>3. ASSUME NEW k \in Keys, NEW v \in {<< >>, StringValue}, Overwrite(k, v)
        PROVE  Increases(store'[j])
    BY <1>2, <2>1, <2>3 DEF Overwrite
  <2>4. ASSUME UNCHANGED store
        PROVE  Increases(store'[j])
    BY <2>1, <2>4
  <2>5. CASE \E r \in Readers, ids \in Xreads : XreadBlock(r, ids)
    BY <2>4, <2>5 DEF XreadBlock
  <2>6. CASE \E r \in Readers : Timeout(r)
    BY <2>4, <2>6 DEF Timeout
  <2>7. ASSUME NEW k \in Keys, GetExpired(k) \/ ReplicaGetExpired(k)
        PROVE  Increases(store'[j])
    <3>1. store'[j] = << >> \/ store'[j] = store[j]
      BY <2>1, <2>7 DEF GetExpired, ReplicaGetExpired
    <3> QED
      BY <1>2, <2>1, <3>1
  <2>8. CASE UNCHANGED vars
    BY <2>4, <2>8 DEF vars
  <2> QED
    BY <2>2, <2>3, <2>5, <2>6, <2>7, <2>8 DEF Next
<1> QED
  BY <1>3, <1>4, Invariance, PTL DEF Spec

\* Whatever requests and clocks identifiers came from, those of a stream
\* increase as numbers as long as they have as many digits: where the string
\* comparison of generateEntryId is that of numbers.
THEOREM SameWidthIncrease == Spec => []SameWidthIdsIncrease
<1>1. IncreaseInv => SameWidthIdsIncrease
  BY DEF IncreaseInv
<1> QED
  BY <1>1, IncreaseInvariance, PTL
=============================================================================
