---------------------------- MODULE DurableStore ----------------------------
(***************************************************************************)
(* What a user of SAVE is promised.  The store is a set of entries, at     *)
(* most one for each key.  SAVE keeps its strings; whatever time passes,   *)
(* and however the process ends, the next one begins with those that have  *)
(* not expired, or with some of them when that SAVE was cut short, by the  *)
(* end of its process or by a write that failed.  What earlier SAVEs kept  *)
(* is gone either way.  There is no file here, and entries have no order.  *)
(***************************************************************************)
EXTENDS Integers

CONSTANTS
  Keys,     \* the keys of the store
  Entries,  \* what may be stored: records with a key and an expiration
  Strings,  \* those of them that SAVE keeps
  MaxTime,  \* bound on the clock
  Never,    \* no expiration
  Invalid   \* an expiration that is no time, and never comes

VARIABLES
  up,    \* a process runs
  now,   \* the clock
  store, \* the entries of the process that runs, or ran last
  saved, \* the strings of the last SAVE that began to write
  whole  \* it wrote all of them

vars == <<up, now, store, saved, whole>>

Init == up = TRUE /\ now = 0 /\ store = {} /\ saved = {} /\ whole = TRUE

\* What is left of some entries without those of a key.
Without(entries, k) == {e \in entries : e.key # k}

\* Those that have not expired at time t.
Live(entries, t) == {e \in entries : e.expiration \in {Never, Invalid} \/ e.expiration > t}

\* An entry takes the place of the one its key had.
Write(e) ==
  /\ up
  /\ UNCHANGED <<up, now, whole, saved>>
  /\ store' = Without(store, e.key) \cup {e}

Delete(k) ==
  /\ up
  /\ UNCHANGED <<up, now, whole, saved>>
  /\ store' = Without(store, k)

\* SAVE keeps the strings, or is cut short: by the end of the process, or by a
\* write that fails and leaves the process running.
Save ==
  /\ up
  /\ whole' \in BOOLEAN
  /\ up' \in {TRUE, whole'}
  /\ UNCHANGED <<now, store>>
  /\ saved' = store \cap Strings

Crash ==
  /\ up
  /\ up' = FALSE
  /\ UNCHANGED <<now, store, saved, whole>>

Restart ==
  /\ ~ up
  /\ up' = TRUE
  /\ store' \in SUBSET Live(saved, now)
  /\ whole => store' = Live(saved, now)
  /\ UNCHANGED <<now, saved, whole>>

Tick ==
  /\ now < MaxTime
  /\ now' = now + 1
  /\ UNCHANGED <<up, whole, store, saved>>

Next ==
  \/ Tick \/ Crash \/ Save \/ Restart
  \/ \E e \in Entries : Write(e)
  \/ \E k \in Keys : Delete(k)

Spec == Init /\ [][Next]_vars
=============================================================================
