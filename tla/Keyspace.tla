------------------------------ MODULE Keyspace ------------------------------
(***************************************************************************)
(* String keys with expirations on a master and on one replica that        *)
(* attached before the first write (commands/simpleCommands, and           *)
(* store/RedisStore.ts on both sides).                                     *)
(*                                                                         *)
(* A command is propagated as it was sent: a relative expiration is        *)
(* computed again, later, when the replica executes it, and the conditions *)
(* NX and XX are evaluated again on the replica's own keys.  A key that    *)
(* expired stays in the store until a GET of its own process deletes it,   *)
(* and that deletion is not propagated.  Clients write to the master and   *)
(* read from either.  Both read one clock, as processes of one host do.    *)
(***************************************************************************)
EXTENDS Integers, Sequences, Expirations

CONSTANTS
  Numbers,   \* values that are numbers
  Lifetimes, \* the relative expirations of SET EX, SET PX and EXPIRE
  MaxLink,   \* bound on the commands in flight to the replica
  MaxNumber, \* bound on the numbers a client increments
  Absent     \* no entry

ASSUME KeyspaceAssumption ==
  /\ Numbers \subseteq Int
  /\ Lifetimes \subseteq Int
  /\ Instants \subseteq Int
  /\ Texts \cap Int = {}
  /\ Never \notin Int
  /\ MaxTime \in Nat
  /\ MaxLink \in Nat \ {0}
  /\ MaxNumber \in Int

Values == Texts \cup Int
KeyEntries == [value : Values, expiration : Int \cup {Never}]

ASSUME AbsentAssumption == Absent \notin KeyEntries

VARIABLES
  master,           \* the master's store
  replica,          \* the replica's store
  link,             \* propagated commands the replica has not executed
  droppedByMaster,  \* keys a GET of the master deleted since their last plain write
  droppedByReplica  \* keys a GET of the replica deleted since it executed one

keyspaceVars == <<now, master, replica, link, droppedByMaster, droppedByReplica>>

KeyspaceInit ==
  /\ now = 0
  /\ master = [k \in Keys |-> Absent]
  /\ replica = [k \in Keys |-> Absent]
  /\ link = << >>
  /\ droppedByMaster = {}
  /\ droppedByReplica = {}

-----------------------------------------------------------------------------
(* The commands, on the entry of their key.                                *)

\* The arguments of EX and PX, of EXAT and PXAT, or neither.
Expiries ==
  [how : {"in"}, time : Lifetimes] \cup [how : {"at"}, time : Instants]
    \cup [how : {"never"}, time : {0}]

Sets ==
  [name : {"set"}, key : Keys, value : Texts \cup Numbers, expires : Expiries,
   mode : {"NX", "XX", "any"}, keepTTL : BOOLEAN]
\* A DEL of several keys (DelCommand.ts:13) deletes one after the other and is
\* taken for as many DELs of one key.
Dels == [name : {"del"}, key : Keys]
Incrs == [name : {"incr"}, key : Keys]
Expires == [name : {"expire"}, key : Keys, time : Lifetimes]
Commands == Sets \cup Dels \cup Incrs \cup Expires

\* The expiration a SET at time t gives.
ExpirationOf(expires, t) ==
  CASE expires.how = "in" -> t + expires.time
    [] expires.how = "at" -> expires.time
    [] expires.how = "never" -> Never

\* A key is expired only after the time it was given, not at it.
IsExpired(entry, t) == entry.expiration # Never /\ t > entry.expiration

\* Mutant: KEEPTTL looks whether the key has expired.
SetEntryKeepLive(entry, c, t) ==
  [value |-> c.value,
   expiration |-> IF c.keepTTL /\ entry # Absent /\ ~ IsExpired(entry, t)
                  THEN entry.expiration
                  ELSE ExpirationOf(c.expires, t)]

\* Mutant: KEEPTTL takes what it keeps from a key that has no entry, too.
SetEntryKeepNothing(entry, c, t) ==
  [value |-> c.value,
   expiration |-> IF ~ c.keepTTL THEN ExpirationOf(c.expires, t)
                  ELSE IF entry = Absent THEN Absent ELSE entry.expiration]

\* What SET stores: KEEPTTL keeps the expiration of any entry, one that has
\* expired included.
SetEntry(entry, c, t) ==
  [value |-> c.value,
   expiration |-> IF c.keepTTL /\ entry # Absent
                  THEN entry.expiration
                  ELSE ExpirationOf(c.expires, t)]

\* Mutant: NX and XX take an entry that has expired for none.
RefusedIfLive(entry, c) ==
  LET live == entry # Absent /\ ~ IsExpired(entry, now)
  IN  (c.mode = "NX" /\ live) \/ (c.mode = "XX" /\ ~ live)

\* SET answers nil: NX and XX ask for an entry, expired or not.
Refused(entry, c) == \/ c.mode = "NX" /\ entry # Absent
                     \/ c.mode = "XX" /\ entry = Absent

\* INCR makes a number of a key without an entry, keeps the expiration of
\* one that has an entry, and answers with an error if that is not a number.
IncrEntry(entry) ==
  IF entry = Absent THEN [value |-> 1, expiration |-> Never]
  ELSE [entry EXCEPT !.value = @ + 1]

\* Texts are the values that parseInt refuses; one that it takes for a number,
\* such as 12abc, is left out.
Fails(entry, c) == c.name = "incr" /\ entry # Absent /\ entry.value \in Texts

\* The entry of c's key when c has been executed at time t.  EXPIRE gives
\* an entry that has expired a new expiration.
After(entry, c, t) ==
  CASE c.name = "set" -> IF Refused(entry, c) THEN entry ELSE SetEntry(entry, c, t)
    [] c.name = "del" -> Absent
    [] c.name = "incr" -> IF Fails(entry, c) THEN entry ELSE IncrEntry(entry)
    [] c.name = "expire" ->
         IF entry = Absent THEN entry ELSE [entry EXCEPT !.expiration = t + c.time]

Execute(store, c, t) == [store EXCEPT ![c.key] = After(@, c, t)]

\* A SET without condition and KEEPTTL, or a DEL: its effect does not depend
\* on the entry it finds.
Plain(c) == c.name = "del" \/ (c.name = "set" /\ c.mode = "any" /\ ~ c.keepTTL)

-----------------------------------------------------------------------------
(* The steps.                                                              *)

\* The dispatcher propagates unless the answer is an error: a SET that was
\* refused, a DEL and an EXPIRE of nothing are propagated.
Propagates(entry, c) == ~ Fails(entry, c)

\* The bound on numbers: clients stop incrementing a key that has reached it.
AtBound(entry) ==
  entry # Absent /\ entry.value \notin Texts /\ entry.value >= MaxNumber

\* The master executes a command of a client and propagates it.
ClientWrite(c) ==
  /\ Len(link) < MaxLink
  /\ ~ (c.name = "incr" /\ (AtBound(master[c.key]) \/ AtBound(replica[c.key])))
  /\ master' = Execute(master, c, now)
  /\ link' = IF Propagates(master[c.key], c) THEN Append(link, c) ELSE link
  /\ droppedByMaster' = IF Plain(c) THEN droppedByMaster \ {c.key} ELSE droppedByMaster
  /\ UNCHANGED <<now, replica, droppedByReplica>>

\* The replica executes the next command that was propagated.
ReplicaWrite ==
  /\ link # << >>
  /\ LET c == Head(link)
     IN  /\ replica' = Execute(replica, c, now)
         /\ droppedByReplica' =
              IF Plain(c) THEN droppedByReplica \ {c.key} ELSE droppedByReplica
  /\ link' = Tail(link)
  /\ UNCHANGED <<now, master, droppedByMaster>>

\* GET of a key that has expired deletes it; other GETs change nothing.
Get(k) ==
  /\ master[k] # Absent
  /\ IsExpired(master[k], now)
  /\ master' = [master EXCEPT ![k] = Absent]
  /\ droppedByMaster' = droppedByMaster \cup {k}
  /\ UNCHANGED <<now, replica, link, droppedByReplica>>

ReplicaGet(k) ==
  /\ replica[k] # Absent
  /\ IsExpired(replica[k], now)
  /\ replica' = [replica EXCEPT ![k] = Absent]
  /\ droppedByReplica' = droppedByReplica \cup {k}
  /\ UNCHANGED <<now, master, link, droppedByMaster>>

KeyspaceTick ==
  /\ now < MaxTime
  /\ now' = now + 1
  /\ UNCHANGED <<master, replica, link, droppedByMaster, droppedByReplica>>

KeyspaceNext ==
  \/ \E c \in Commands : ClientWrite(c)
  \/ ReplicaWrite
  \/ \E k \in Keys : Get(k) \/ ReplicaGet(k)
  \/ KeyspaceTick

KeyspaceSpec == KeyspaceInit /\ [][KeyspaceNext]_keyspaceVars

-----------------------------------------------------------------------------
(* Properties.                                                             *)

Stores == [Keys -> KeyEntries \cup {Absent}]

\* Type correctness of the two stores and of what is between them.
KeyspaceTypeOK ==
  /\ now \in Int
  /\ master \in Stores
  /\ replica \in Stores
  /\ link \in Seq(Commands)
  /\ droppedByMaster \subseteq Keys
  /\ droppedByReplica \subseteq Keys

Dropped == droppedByMaster \cup droppedByReplica

\* GET k at time t answers with the value of the entry.
Serves(store, k, t) == store[k] # Absent /\ ~ IsExpired(store[k], t)

\* A replica that has executed everything holds a key exactly when the
\* master does, and with its value, whatever conditions, increments and
\* expirations the writes had and however late it executed them: unless a
\* GET deleted the key, on either side, after its last plain write.
ReplicaHoldsKeys ==
  link = << >> =>
    \A k \in Keys \ Dropped :
      /\ master[k] = Absent <=> replica[k] = Absent
      /\ master[k] # Absent => replica[k].value = master[k].value

\* Under the same condition a read of the replica never misses a key that
\* the master still serves, although each computed the expiration by itself.
ReplicaServesLonger ==
  link = << >> =>
    \A k \in Keys \ Dropped : Serves(master, k, now) => Serves(replica, k, now)
=============================================================================
