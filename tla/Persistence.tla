---------------------------- MODULE Persistence ----------------------------
(***************************************************************************)
(* The dump file of one server: SAVE writes it (persistence/RDBWriter.ts,  *)
(* SaveCommand.ts), a restart loads it (persistence/RDBParser.ts,          *)
(* Server.loadRDB), and the process may die at any moment, in the middle   *)
(* of writing the file too.  The write may also fail there, with the disk  *)
(* full or broken: SAVE then answers an error, and the process goes on.    *)
(*                                                                         *)
(* The store is a JavaScript Map, here the sequence of its entries in the  *)
(* order they were inserted.  The file is the sequence of what the parser  *)
(* reads at once: an opcode, a length, an expiration or a string.  A file  *)
(* cut inside one of these fails to be read where it fails when cut in     *)
(* front of it, so that cuts lie between them.                             *)
(*                                                                         *)
(* The file is overwritten in place, so that nothing of the old one is     *)
(* left when the write ends before its end.  snapshot and cut are history: *)
(* the strings of the store when the last SAVE opened the file, and        *)
(* whether less than all of them was written.                              *)
(***************************************************************************)
EXTENDS Integers, Lists, SequencesExt, Expirations

CONSTANTS
  Size,        \* the length in bytes of each key and text
  LengthLimit, \* encodeLength refuses lengths from here on: 64
  Invalid,     \* the invalid Date of a SET EXAT with no number
  None         \* the value of a key of another type; no argument

ASSUME ConstantsAssumption ==
  /\ Size \in [Keys \cup Texts -> Nat]
  /\ LengthLimit \in Nat
  /\ Instants \subseteq Int
  /\ MaxTime \in Nat
  /\ Never \notin Int /\ Invalid \notin Int /\ Never # Invalid
  /\ None \notin Texts

VARIABLES
  up,       \* the process runs
  store,    \* the entries of the store, in the order of insertion
  dump,     \* the contents of the dump file; << >> when there is none
  snapshot, \* the strings of the store that was last written, or was to be
  cut       \* not all of it was written

vars == <<up, now, store, dump, snapshot, cut>>

\* Strings with their expirations, and the entries of any other type.
Strings ==
  [key : Keys, type : {"string"}, value : Texts, expiration : Instants \cup {Never, Invalid}]
Entries == Strings \cup [key : Keys, type : {"list"}, value : {None}, expiration : {Never}]

Init ==
  /\ up = TRUE
  /\ now = 0
  /\ store = << >>
  /\ dump = << >>
  /\ snapshot = << >>
  /\ cut = FALSE

-----------------------------------------------------------------------------
(* RDBWriter.                                                              *)

Opcode(o) == [op |-> o, arg |-> None]
Length(n) == [op |-> "length", arg |-> n]
Expiry(t) == [op |-> "expiry", arg |-> t]
String(x) == [op |-> "string", arg |-> x]

\* A time that has been reached has passed: an invalid Date compares with
\* nothing, and is never reached.
Reached(expiration, t) == expiration \notin {Never, Invalid} /\ expiration <= t

\* The entries that are written: strings that have not expired.
Written(s, t) == Only(s, {e \in Strings : ~ Reached(e.expiration, t)})

\* A key with its value, behind its expiration.
Pair(e) ==
  (IF e.expiration = Never THEN << >> ELSE <<Opcode("FC"), Expiry(e.expiration)>>)
    \o <<Opcode("00"), String(e.key), String(e.value)>>

\* buildRDB for store s at time t.
RDB(s, t) ==
  LET entries == Written(s, t)
  IN  <<Opcode("REDIS"), Opcode("FE"), Length(0), Opcode("FB"), Length(Len(s)), Length(0)>>
        \o FlattenSeq([n \in DOMAIN entries |-> Pair(entries[n])])
        \o <<Opcode("FF"), Opcode("checksum")>>

\* buildRDB throws: there are too many keys, of any type, or what is to be
\* written has too long a key or text, or an expiration that is no number.
Throws(s, t) ==
  \/ Len(s) >= LengthLimit
  \/ \E e \in ToSet(Written(s, t)) :
       \/ Size[e.key] >= LengthLimit
       \/ Size[e.value] >= LengthLimit
       \/ e.expiration = Invalid

-----------------------------------------------------------------------------
(* RDBParser, on a file f of which the end may be missing.                 *)

Reads(f, c, op) == c \in DOMAIN f /\ f[c].op = op

\* The database selector at c, with the sizes that follow it.
SelectorIsWhole(f, c) ==
  /\ Reads(f, c + 1, "length")
  /\ Reads(f, c + 2, "FB") => Reads(f, c + 3, "length") /\ Reads(f, c + 4, "length")

AfterSelector(f, c) == IF Reads(f, c + 2, "FB") THEN c + 5 ELSE c + 2

\* Where the type of the pair at c is, behind an expiration if it has one.
TypeAt(f, c) == IF Reads(f, c, "FC") THEN c + 2 ELSE c

PairIsWhole(f, c) ==
  /\ Reads(f, c, "FC") => Reads(f, c + 1, "expiry")
  /\ Reads(f, TypeAt(f, c), "00")
  /\ Reads(f, TypeAt(f, c) + 1, "string")
  /\ Reads(f, TypeAt(f, c) + 2, "string")

\* The pair at c.
EntryAt(f, c) ==
  [key |-> f[TypeAt(f, c) + 1].arg,
   type |-> "string",
   value |-> f[TypeAt(f, c) + 2].arg,
   expiration |-> IF Reads(f, c, "FC") THEN f[c + 1].arg ELSE Never]

\* Mutant: expired pairs are loaded, to be deleted when they are read.
KeepAll(e, t) == <<e>>

Keep(e, t) == IF Reached(e.expiration, t) THEN << >> ELSE <<e>>

\* One turn of the parser's loops at time t: from where it is in f and what
\* it has put into the store, to where it is next.  It stays where it is at the
\* end of the file, and where a read fails.  The files of RDB have their selector
\* in front of the pairs, so that it does not matter in which loop a turn is.
Turn(f, at, t) ==
  IF Reads(f, at.cursor, "FE") /\ SelectorIsWhole(f, at.cursor)
  THEN [at EXCEPT !.cursor = AfterSelector(f, at.cursor)]
  ELSE IF PairIsWhole(f, at.cursor)
  THEN [cursor |-> TypeAt(f, at.cursor) + 3, entries |-> at.entries \o Keep(EntryAt(f, at.cursor), t)]
  ELSE at

\* The entries that loading f at time t puts into the store: those in front
\* of the first read that fails, as each is stored when it has been read.
Load(f, t) ==
  LET parsed[n \in 0..Len(f)] ==
        IF n = 0 THEN [cursor |-> 2, entries |-> << >>] ELSE Turn(f, parsed[n - 1], t)
  IN  IF Reads(f, 1, "REDIS") THEN parsed[Len(f)].entries ELSE << >>

-----------------------------------------------------------------------------
(* The steps.                                                              *)

\* Mutant: entries are kept in a list.
PutAtEnd(s, e) == Append(s, e)

\* Map.set: an entry keeps its place, a new one goes to the end.
Put(s, e) ==
  IF \E n \in DOMAIN s : s[n].key = e.key
  THEN [n \in DOMAIN s |-> IF s[n].key = e.key THEN e ELSE s[n]]
  ELSE Append(s, e)

Without(s, k) == Only(s, {e \in Entries : e.key # k})

\* A command that writes an entry.
Write(e) ==
  /\ up
  /\ store' = Put(store, e)
  /\ UNCHANGED <<up, now, dump, snapshot, cut>>

\* DEL, LPOP of the last element, GET of a key that has expired.
Delete(k) ==
  /\ up
  /\ store' = Without(store, k)
  /\ UNCHANGED <<up, now, dump, snapshot, cut>>

\* Mutant: the file is opened before it is known what to write.
SaveFailsTruncating ==
  /\ up
  /\ Throws(store, now)
  /\ dump' = << >>
  /\ UNCHANGED <<up, now, store, snapshot, cut>>

\* SAVE answers with an error and has not touched the file: buildRDB has thrown, or
\* the file could not be opened.
SaveFails ==
  /\ up
  /\ UNCHANGED vars

\* SAVE empties the file and writes the first n of what buildRDB made.  It answers
\* OK when that is all.  When it is not, the process has died, or writeFileSync
\* has thrown: SAVE answers with an error, and the part is what stays on disk.
SaveUpTo(file, n) ==
  /\ dump' = SubSeq(file, 1, n)
  /\ cut' = (n < Len(file))
  /\ up' \in {TRUE, n = Len(file)}
  /\ snapshot' = Only(store, Strings)
  /\ UNCHANGED <<now, store>>

Save ==
  /\ up
  /\ ~ Throws(store, now)
  /\ LET file == RDB(store, now)
     IN  \E n \in 0..Len(file) : SaveUpTo(file, n)

Crash ==
  /\ up
  /\ up' = FALSE
  /\ UNCHANGED <<now, store, dump, snapshot, cut>>

\* A new process loads the dump into an empty store.
Restart ==
  /\ ~ up
  /\ up' = TRUE
  /\ store' = Load(dump, now)
  /\ UNCHANGED <<now, dump, snapshot, cut>>

Tick ==
  /\ now < MaxTime
  /\ now' = now + 1
  /\ UNCHANGED <<up, store, dump, snapshot, cut>>

Next ==
  \/ \E e \in Entries : Write(e)
  \/ \E k \in Keys : Delete(k)
  \/ SaveFails \/ Save
  \/ Crash \/ Restart \/ Tick

Spec == Init /\ [][Next]_vars

-----------------------------------------------------------------------------
(* Properties.                                                             *)

Tokens ==
  [op : {"REDIS", "FE", "FB", "FC", "00", "FF", "checksum", "length", "expiry", "string"},
   arg : {None} \cup Nat \cup Instants \cup Keys \cup Texts]

\* Type correctness: the store is a map, and so is what was saved of it.
TypeOK ==
  /\ up \in BOOLEAN
  /\ now \in 0..MaxTime
  /\ \A s \in {store, snapshot} :
       /\ s \in Seq(Entries)
       /\ \A m, n \in DOMAIN s : s[m].key = s[n].key => m = n
  /\ dump \in Seq(Tokens)
  /\ cut \in BOOLEAN

\* The strings of s whose expiration lies after time t.
Lasting(s, t) ==
  Only(s, {e \in Entries : e.expiration \in {Never, Invalid} \/ e.expiration > t})

\* A restart, at any time after a SAVE that answered OK, gives back every
\* string it saved that has not expired by then, with its value and its
\* expiration, and no other key.  Later SAVEs that buildRDB refuses, or that
\* cannot open the file, do not change that; one whose write fails ends it.
RestartRestores == ~ cut => Load(dump, now) = Lasting(snapshot, now)

\* A SAVE that is cut short, by the end of the process or by a write that fails
\* while the process goes on, gives back at a restart a part of what it was to
\* save, without the keys after some place; never a key that has expired, a text
\* of another key, or an expiring key that no longer expires.
CutRestoresPart == cut => IsPrefix(Load(dump, now), Lasting(snapshot, now))

\* What the users of the server see is a store that survives it: the order of
\* the entries, the encoding of the file, where a cut falls in it, and the
\* SAVEs that fail before they open the file do not matter to them.
User == INSTANCE DurableStore WITH
  store <- ToSet(store), saved <- ToSet(snapshot), whole <- ~ cut

ImplementsDurableStore == User!Spec
=============================================================================
