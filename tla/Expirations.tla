---------------------------- MODULE Expirations ----------------------------
(***************************************************************************)
(* What Keyspace and Persistence both speak of: keys, the strings they     *)
(* hold, and expirations on one clock.                                     *)
(***************************************************************************)

CONSTANTS
  Keys,     \* the keys of the keyspace
  Texts,    \* the values of strings, apart from numbers
  Instants, \* the absolute expirations a key may have
  MaxTime,  \* bound on the clock
  Never     \* no expiration

VARIABLE
  now       \* the time every process reads
=============================================================================
