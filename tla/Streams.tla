------------------------------ MODULE Streams ------------------------------
(***************************************************************************)
(* Streams on a master and one replica that executes what is propagated:   *)
(* XADD with its identifiers, and XREAD BLOCK with its listener and timer  *)
(* (commands/streamCommands, StreamEventManager.ts, generateEntryId and    *)
(* getEntryRange in utilities.ts).                                         *)
(*                                                                         *)
(* An identifier is a pair of numbers in decimal.  generateEntryId         *)
(* compares them as strings, getEntryRange as numbers.  A handler runs to  *)
(* its end without yielding; XADD emits an event whose listeners run       *)
(* inside it, so that what a listener throws, XADD throws.                 *)
(*                                                                         *)
(* Numbers are written without leading zeros.  A key is absent, holds a    *)
(* stream, of which only the identifiers matter, or a string.  Expiration  *)
(* times are left out: EXPIRE keeps the value of a key and SET EX sets it, *)
(* with a time that may have passed at the next GET, so that any GET of a  *)
(* key that is present may be the one that deletes it.                     *)
(***************************************************************************)
EXTENDS Integers, Lists, SequencesExt

CONSTANTS
  Keys,        \* the keys of the keyspace
  Requests,    \* the identifiers clients send to XADD; either part may be Star
  Xreads,      \* what an XREAD may ask for: from its streams to the identifiers sent
  Readers,     \* identities of XREAD BLOCK calls
  Clock,       \* the times Date.now() may read
  MaxEntries,  \* bound on the entries of a stream
  MaxTotal,    \* bound on the entries of all streams of a server
  StringValue, \* the value of a key that does not hold a stream
  Star,        \* the part of an identifier the server chooses
  Dollar,      \* the identifier of the last entry
  None         \* no identifier

ASSUME ConstantsAssumption ==
  /\ Requests \subseteq (Nat \X (Nat \cup {Star})) \cup {<<Star, Star>>}
  /\ <<0, 0>> \notin Requests
  /\ \A ids \in Xreads :
       \E keys \in SUBSET Keys \ {{}} : ids \in [keys -> (Nat \X Nat) \cup {Dollar}]
  /\ Clock \subseteq Nat \ {0} /\ Clock # {}
  /\ MaxEntries \in Nat /\ MaxTotal \in Nat
  /\ Star \notin Nat
  /\ Dollar \notin Nat \X Nat
  /\ None \notin Nat \X Nat
  /\ StringValue \notin Seq(Nat \X Nat)

VARIABLES
  store,     \* the master's keys; << >> is a key that is absent
  replica,   \* the replica's keys
  waiting,   \* the XREADs that have not been answered
  streamKeys,        \* the streams each XREAD names
  resolvedStreamIds, \* and the identifier after which it reads each
  listeners, \* the XREADs that listen to new entries, in the order they began
  disturbed, \* history: the waiting XREADs that listened when a listener threw
  unsettled  \* history: keys whose entries depend on a clock, were not
             \* propagated, or were deleted by a GET on one side only

readVars == <<waiting, streamKeys, resolvedStreamIds, listeners>>
vars == <<store, replica, readVars, disturbed, unsettled>>

Ids == Nat \X Nat

\* What an XREAD that does not wait reads behind.
NoIds == [k \in Keys |-> <<0, 0>>]

Init ==
  /\ store = [k \in Keys |-> << >>]
  /\ replica = [k \in Keys |-> << >>]
  /\ waiting = {}
  /\ streamKeys = [r \in Readers |-> {}]
  /\ resolvedStreamIds = [r \in Readers |-> NoIds]
  /\ listeners = << >>
  /\ disturbed = {}
  /\ unsettled = {}

-----------------------------------------------------------------------------
(* Identifiers.                                                            *)

\* The decimal digits of n.
Digits[n \in Nat] == IF n < 10 THEN <<n>> ELSE Append(Digits[n \div 10], n % 10)

\* The order of the strings of a and b: the first digit that differs decides,
\* and a string comes behind those it begins with.
StringLess(a, b) ==
  LET s == Digits[a]
      t == Digits[b]
  IN  \/ IsStrictPrefix(s, t)
      \/ \E n \in DOMAIN s \cap DOMAIN t :
           /\ s[n] < t[n]
           /\ \A m \in 1..(n - 1) : s[m] = t[m]

\* The order of identifiers, as getEntryRange compares them.
After(id, start) == id[1] > start[1] \/ (id[1] = start[1] /\ id[2] > start[2])

\* Mutant: an equal sequence number is let pass.
GenerateEntryIdEqual(request, last, t) ==
  LET ms == IF request[1] = Star THEN t ELSE request[1]
      seq == request[2]
  IN  IF last = None THEN <<ms, IF seq # Star THEN seq ELSE IF ms = 0 THEN 1 ELSE 0>>
      ELSE IF last[1] = ms
           THEN IF seq = Star THEN <<ms, last[2] + 1>>
                ELSE IF StringLess(seq, last[2]) THEN None ELSE <<ms, seq>>
      ELSE IF StringLess(ms, last[1]) THEN None
      ELSE <<ms, IF seq = Star THEN 0 ELSE seq>>

\* Mutant: the first entry keeps the request as its identifier.
GenerateEntryIdAsSent(request, last, t) ==
  LET ms == IF request[1] = Star THEN t ELSE request[1]
      seq == request[2]
  IN  IF last = None THEN <<ms, seq>>
      ELSE IF last[1] = ms
           THEN IF seq = Star THEN <<ms, last[2] + 1>>
                ELSE IF StringLess(last[2], seq) THEN <<ms, seq>> ELSE None
      ELSE IF StringLess(ms, last[1]) THEN None
      ELSE <<ms, IF seq = Star THEN 0 ELSE seq>>

\* generateEntryId at time t: the identifier of the new entry behind the
\* entry last, None if the request is refused.
GenerateEntryId(request, last, t) ==
  LET ms == IF request[1] = Star THEN t ELSE request[1]
      seq == request[2]
  IN  IF last = None THEN <<ms, IF seq # Star THEN seq ELSE IF ms = 0 THEN 1 ELSE 0>>
      ELSE IF last[1] = ms
           THEN IF seq = Star THEN <<ms, last[2] + 1>>
                ELSE IF StringLess(last[2], seq) THEN <<ms, seq>> ELSE None
      ELSE IF StringLess(ms, last[1]) THEN None
      ELSE <<ms, IF seq = Star THEN 0 ELSE seq>>

LastId(stream) == IF stream = << >> THEN None ELSE Last(stream)

\* The identifier XADD request gives at a key of value v, None if it is
\* refused: WRONGTYPE, or not behind the top item.
IdFor(v, request, t) ==
  IF v = StringValue THEN None ELSE GenerateEntryId(request, LastId(v), t)

\* A key of value v after XADD request.
Added(v, request, t) ==
  LET id == IdFor(v, request, t)
  IN  IF id = None THEN v ELSE Append(v, id)

-----------------------------------------------------------------------------
(* XREAD BLOCK.                                                            *)

\* What processXRead finds in keys s, of those it names, behind ids.
Results(s, keys, ids) ==
  UNION {{<<k, id>> : id \in {e \in ToSet(s[k]) : After(e, ids[k])}} : k \in keys}

\* processXRead throws: JSON.parse of a string, whatever key it was woken for.
Throws(s, keys) == \E k \in keys : s[k] = StringValue

\* The identifier behind which a stream of value v is read.
Resolve(v, id) ==
  IF id # Dollar THEN id ELSE IF v = << >> THEN <<0, 0>> ELSE Last(v)

\* The identifiers behind which an XREAD of ids reads its streams.
Resolved(ids) ==
  [k \in Keys |-> IF k \in DOMAIN ids THEN Resolve(store[k], ids[k]) ELSE <<0, 0>>]

\* Mutant: an XREAD that returns still listens.
ReturnListening(woken) ==
  /\ waiting' = waiting \ woken
  /\ streamKeys' = [r \in Readers |-> IF r \in woken THEN {} ELSE streamKeys[r]]
  /\ resolvedStreamIds' =
       [r \in Readers |-> IF r \in woken THEN NoIds ELSE resolvedStreamIds[r]]
  /\ UNCHANGED listeners

\* The waiting XREADs that return: they listen no more, and their variables go.
Return(woken) ==
  /\ waiting' = waiting \ woken
  /\ streamKeys' = [r \in Readers |-> IF r \in woken THEN {} ELSE streamKeys[r]]
  /\ resolvedStreamIds' =
       [r \in Readers |-> IF r \in woken THEN NoIds ELSE resolvedStreamIds[r]]
  /\ listeners' = Only(listeners, Readers \ woken)

\* XREAD BLOCK of these identifiers, its streams holding no entry behind them:
\* it listens.  An XREAD that finds some answers with them and leaves nothing.
XreadBlock(r, ids) ==
  /\ r \notin waiting
  /\ ~ Throws(store, DOMAIN ids)
  /\ Results(store, DOMAIN ids, Resolved(ids)) = {}
  /\ waiting' = waiting \cup {r}
  /\ streamKeys' = [streamKeys EXCEPT ![r] = DOMAIN ids]
  /\ resolvedStreamIds' = [resolvedStreamIds EXCEPT ![r] = Resolved(ids)]
  /\ listeners' = Append(listeners, r)
  /\ UNCHANGED <<store, replica, disturbed, unsettled>>

\* The timer of an XREAD, which is cleared when it is resolved: it returns nil.
\* An XREAD with BLOCK 0 has none, and is one that never takes this step.
Timeout(r) ==
  /\ r \in waiting
  /\ Return({r})
  /\ disturbed' = disturbed \ {r}
  /\ UNCHANGED <<store, replica, unsettled>>

-----------------------------------------------------------------------------
(* XADD, SET and DEL, and the GET of a key that has expired.               *)

\* Where in the list of listeners a new entry at k makes one throw, s being
\* the keys with the new entry.
Throwing(s, k) ==
  {n \in DOMAIN listeners : k \in streamKeys[listeners[n]] /\ Throws(s, streamKeys[listeners[n]])}

\* Mutant: each entry wakes the first XREAD that waits for it.
WokenFirst(s, k) ==
  LET hits == {n \in DOMAIN listeners :
                 /\ k \in streamKeys[listeners[n]]
                 /\ \A m \in Throwing(s, k) : n < m}
  IN  IF hits = {} THEN {} ELSE {listeners[Min(hits)]}

\* The XREADs a new entry at k answers: those that listen on k, are called
\* before any that throws, and find entries in their streams.
Woken(s, k) ==
  LET throwing == Throwing(s, k)
  IN  {listeners[n] : n \in
         {n \in DOMAIN listeners :
            LET r == listeners[n]
            IN  /\ k \in streamKeys[r]
                /\ \A m \in throwing : n < m
                /\ Results(s, streamKeys[r], resolvedStreamIds[r]) # {}}}

\* The number of entries at a key of value v, and of those of all streams of a server.
Size(v) == IF v = StringValue THEN 0 ELSE Len(v)
Entries(s) == MapThenSumSet(LAMBDA k : Size(s[k]), Keys)

\* XADD k request at time now, accepted.  Its listeners run before it returns,
\* and then it is propagated as it was sent: the replica generates the
\* identifier again, at the time there that it reads.  An XADD that throws
\* is not propagated, although its entry was stored.
Xadd(k, request, now, there) ==
  /\ IdFor(store[k], request, now) # None
  /\ \A s \in {store, replica} : Size(s[k]) < MaxEntries /\ Entries(s) < MaxTotal
  /\ LET s == [store EXCEPT ![k] = Added(@, request, now)]
         woken == Woken(s, k)
         throws == Throwing(s, k) # {}
     IN  /\ store' = s
         /\ Return(woken)
         /\ disturbed' = (IF throws THEN disturbed \cup ToSet(listeners)
                          ELSE disturbed) \ woken
         /\ replica' = IF throws THEN replica
                       ELSE [replica EXCEPT ![k] = Added(@, request, there)]
         /\ unsettled' = IF request[1] = Star \/ throws
                         THEN unsettled \cup {k} ELSE unsettled

\* Mutant: they are not among the commands that are propagated.
OverwriteUnsent(k, v) ==
  /\ store' = [store EXCEPT ![k] = v]
  /\ unsettled' = unsettled \ {k}
  /\ UNCHANGED <<replica, readVars, disturbed>>

\* SET k and DEL k: the key is what they make it on either side.
Overwrite(k, v) ==
  /\ store' = [store EXCEPT ![k] = v]
  /\ replica' = [replica EXCEPT ![k] = v]
  /\ unsettled' = unsettled \ {k}
  /\ UNCHANGED <<readVars, disturbed>>

\* GET of a key that has expired, on the master: it deletes the key, a stream
\* like any other, and a GET is not propagated.
GetExpired(k) ==
  /\ store[k] # << >>
  /\ store' = [store EXCEPT ![k] = << >>]
  /\ unsettled' = unsettled \cup {k}
  /\ UNCHANGED <<replica, readVars, disturbed>>

\* The same GET sent by a client of the replica.
ReplicaGetExpired(k) ==
  /\ replica[k] # << >>
  /\ replica' = [replica EXCEPT ![k] = << >>]
  /\ unsettled' = unsettled \cup {k}
  /\ UNCHANGED <<store, readVars, disturbed>>

Next ==
  \/ \E k \in Keys, request \in Requests, now, there \in Clock :
       /\ request[1] # Star => now = there  \* the time is not read
       /\ Xadd(k, request, now, there)
  \/ \E k \in Keys, v \in {<< >>, StringValue} : Overwrite(k, v)
  \/ \E k \in Keys : GetExpired(k) \/ ReplicaGetExpired(k)
  \/ \E r \in Readers, ids \in Xreads : XreadBlock(r, ids)
  \/ \E r \in Readers : Timeout(r)

Spec == Init /\ [][Next]_vars

-----------------------------------------------------------------------------
(* Properties.                                                             *)

Streams == Seq(Ids) \cup {StringValue}

\* Type correctness of the streams, of the XREADs and of the history.
TypeOK ==
  /\ store \in [Keys -> Streams]
  /\ replica \in [Keys -> Streams]
  /\ waiting \subseteq Readers
  /\ streamKeys \in [Readers -> SUBSET Keys]
  /\ resolvedStreamIds \in [Readers -> [Keys -> Ids]]
  /\ listeners \in Seq(Readers)
  /\ disturbed \subseteq waiting
  /\ unsettled \subseteq Keys

\* Two identifiers with as many digits in either part: where the order of
\* strings is that of numbers.
SameWidth(a, b) ==
  /\ Len(Digits[a[1]]) = Len(Digits[b[1]])
  /\ Len(Digits[a[2]]) = Len(Digits[b[2]])

\* The identifiers of a stream increase as numbers, however those that were
\* sent and those the server chose mix, if all have as many digits.
SameWidthIdsIncrease ==
  \A k \in Keys : store[k] # StringValue /\ (\A a, b \in ToSet(store[k]) : SameWidth(a, b)) =>
    \A m, n \in DOMAIN store[k] : m < n => After(store[k][n], store[k][m])

\* No XREAD waits while a stream it names holds an entry behind its
\* identifier: whichever key an XADD touched and whoever it woke first.
\* Only a listener that threw can leave one waiting.
NoReaderLeftBehind ==
  \A r \in waiting \ disturbed :
    \A k \in streamKeys[r] : store[k] # StringValue =>
      Results(store, {k}, resolvedStreamIds[r]) = {}

\* An XREAD listens exactly while it waits, and has one listener.
ListensWhileWaiting ==
  /\ IsInjective(listeners)
  /\ ToSet(listeners) = waiting

\* A replica holds the streams of the master, the identifiers the server
\* chose from those before them included, but for three kinds of key, until SET
\* or DEL overwrites it: one with an identifier that was taken from a clock, one
\* of which an XADD threw and was not propagated, and one that expired and was
\* deleted by a GET of a client of the one server or the other.
ReplicaHasStreams == \A k \in Keys \ unsettled : replica[k] = store[k]
=============================================================================
