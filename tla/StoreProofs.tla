----------------------------- MODULE StoreProofs -----------------------------
(***************************************************************************)
(* The store of a server outlives its process, and is the store of its     *)
(* replica too, for all keys, values, expirations and delays.              *)
(***************************************************************************)
EXTENDS Persistence, Keyspace, ListLemmas

-----------------------------------------------------------------------------
(* The parts of a dump file.                                               *)

\* The entries buildRDB writes without throwing.
Sound == {e \in Strings : e.expiration # Invalid}

\* What comes before the pairs, the pairs, and what comes behind them.
Header(count) == <<Opcode("REDIS"), Opcode("FE"), Length(0), Opcode("FB"), Length(count), Length(0)>>
Body(v) == FlattenSeq([n \in DOMAIN v |-> Pair(v[n])])
Trailer == <<Opcode("FF"), Opcode("checksum")>>
File(count, v) == (Header(count) \o Body(v)) \o Trailer

\* An expiration in front of a pair.
LEMMA TwoAndThree ==
  ASSUME NEW a, NEW b, NEW c, NEW d, NEW e
  PROVE  <<a, b>> \o <<c, d, e>> = <<a, b, c, d, e>>
<1> DEFINE T == {a, b, c, d, e}
<1>1. <<a, b>> \in Seq(T) /\ <<c, d, e>> \in Seq(T) /\ <<a, b, c, d, e>> \in Seq(T)
  OBVIOUS
<1>2. Len(<<a, b>>) = 2 /\ Len(<<c, d, e>>) = 3 /\ Len(<<a, b, c, d, e>>) = 5
  OBVIOUS
<1>3. /\ <<a, b>> \o <<c, d, e>> \in Seq(T) /\ Len(<<a, b>> \o <<c, d, e>>) = 5
      /\ \A i \in 1..5 : (<<a, b>> \o <<c, d, e>>)[i] = IF i <= 2 THEN <<a, b>>[i] ELSE <<c, d, e>>[i - 2]
  BY <1>1, <1>2, ConcatProperties
<1>4. \A i \in 1..5 : (<<a, b>> \o <<c, d, e>>)[i] = <<a, b, c, d, e>>[i]
  <2> SUFFICES ASSUME NEW i \in 1..5
               PROVE  (IF i <= 2 THEN <<a, b>>[i] ELSE <<c, d, e>>[i - 2]) = <<a, b, c, d, e>>[i]
    BY <1>3
  <2>1. i = 1 \/ i = 2 \/ i = 3 \/ i = 4 \/ i = 5
    OBVIOUS
  <2> QED
    BY <2>1
<1> HIDE DEF T
<1> QED
  BY <1>1, <1>2, <1>3, <1>4, SeqEqual

\* What buildRDB writes for an entry.
LEMMA PairTokens ==
  ASSUME NEW e \in Sound
  PROVE  /\ Pair(e) \in Seq(Tokens)
         /\ e.expiration = Never =>
              /\ Len(Pair(e)) = 3
              /\ Pair(e)[1] = Opcode("00")
              /\ Pair(e)[2] = String(e.key)
              /\ Pair(e)[3] = String(e.value)
         /\ e.expiration # Never =>
              /\ Len(Pair(e)) = 5
              /\ Pair(e)[1] = Opcode("FC")
              /\ Pair(e)[2] = Expiry(e.expiration)
              /\ Pair(e)[3] = Opcode("00")
              /\ Pair(e)[4] = String(e.key)
              /\ Pair(e)[5] = String(e.value)
<1>1. /\ Opcode("00") \in Tokens /\ Opcode("FC") \in Tokens
      /\ String(e.key) \in Tokens /\ String(e.value) \in Tokens
      /\ e.expiration # Never => Expiry(e.expiration) \in Tokens
  BY DEF Opcode, String, Expiry, Tokens, Sound, Strings
<1>2. CASE e.expiration = Never
  <2>1. Pair(e) = <<Opcode("00"), String(e.key), String(e.value)>>
    BY <1>2 DEF Pair
  <2> QED
    BY <1>1, <1>2, <2>1
<1>3. CASE e.expiration # Never
  <2>1. Pair(e) = <<Opcode("FC"), Expiry(e.expiration)>> \o <<Opcode("00"), String(e.key), String(e.value)>>
    BY <1>3 DEF Pair
  <2>2. Pair(e) = <<Opcode("FC"), Expiry(e.expiration), Opcode("00"), String(e.key), String(e.value)>>
    BY <2>1, TwoAndThree
  <2> QED
    BY <1>1, <1>3, <2>2
<1> QED
  BY <1>2, <1>3

\* The pairs are written one behind the other.
LEMMA BodyOfAppend ==
  ASSUME NEW v \in Seq(Sound), NEW e \in Sound
  PROVE  Body(Append(v, e)) = Body(v) \o Pair(e)
<1> DEFINE pairs(w) == [n \in DOMAIN w |-> Pair(w[n])]
           w == Append(v, e)
           l == Len(v)
<1>1. /\ l \in Nat /\ DOMAIN v = 1..l /\ DOMAIN w = 1..(l + 1) /\ w[l + 1] = e
      /\ \A n \in 1..l : w[n] = v[n] /\ v[n] \in Sound
  BY LenProperties, AppendProperties, ElementOfSeq
<1> HIDE DEF w, l
<1>2. pairs(v) \in Seq(Seq(Tokens)) /\ Len(pairs(v)) = l
  <2>1. \A n \in 1..l : Pair(v[n]) \in Seq(Tokens)
    BY <1>1, PairTokens
  <2> QED
    BY <1>1, <2>1, IsASeq, LenProperties
<1>3. pairs(w) = Append(pairs(v), Pair(e))
  <2>1. pairs(w) \in Seq(Seq(Tokens)) /\ Len(pairs(w)) = l + 1
    <3>1. \A n \in 1..(l + 1) : Pair(w[n]) \in Seq(Tokens)
      BY <1>1, PairTokens
    <3> QED
      BY <1>1, <3>1, IsASeq, LenProperties
  <2>2. /\ Append(pairs(v), Pair(e)) \in Seq(Seq(Tokens))
        /\ Len(Append(pairs(v), Pair(e))) = l + 1
        /\ Append(pairs(v), Pair(e))[l + 1] = Pair(e)
        /\ \A n \in 1..l : Append(pairs(v), Pair(e))[n] = pairs(v)[n]
    BY <1>2, PairTokens, AppendProperties
  <2>3. \A n \in 1..(l + 1) : pairs(w)[n] = Append(pairs(v), Pair(e))[n]
    BY <1>1, <2>2
  <2> HIDE DEF pairs
  <2> QED
    BY <2>1, <2>2, <2>3, SeqEqual
<1> HIDE DEF pairs
<1>4. FlattenSeq(Append(pairs(v), Pair(e))) = FlattenSeq(pairs(v)) \o Pair(e)
  BY <1>2, PairTokens, FlattenOfAppend
<1> QED
  BY <1>3, <1>4 DEF Body, pairs, w

\* No entries, no pairs.
LEMMA BodyEmpty == Body(<< >>) = << >>
<1>1. [n \in DOMAIN << >> |-> Pair(<< >>[n])] = << >>
  OBVIOUS
<1> QED
  BY <1>1, FlattenEmpty DEF Body

\* The tokens in front of the pair that follows the first k entries.
SizeBefore(v, k) == Len(Body(SubSeq(v, 1, k)))

\* Where in the body each pair is.
LEMMA PairPlaces ==
  ASSUME NEW v \in Seq(Sound)
  PROVE  /\ Body(v) \in Seq(Tokens)
         /\ SizeBefore(v, 0) = 0
         /\ SizeBefore(v, Len(v)) = Len(Body(v))
         /\ \A k \in 0..Len(v) : SizeBefore(v, k) \in 0..Len(Body(v))
         /\ \A k \in 0..(Len(v) - 1) :
              /\ SizeBefore(v, k + 1) = SizeBefore(v, k) + Len(Pair(v[k + 1]))
              /\ \A j \in 1..Len(Pair(v[k + 1])) : Body(v)[SizeBefore(v, k) + j] = Pair(v[k + 1])[j]
<1> DEFINE Placed(w, k) == /\ SizeBefore(w, k + 1) = SizeBefore(w, k) + Len(Pair(w[k + 1]))
                           /\ \A j \in 1..Len(Pair(w[k + 1])) : Body(w)[SizeBefore(w, k) + j] = Pair(w[k + 1])[j]
           P == {w \in Seq(Sound) :
                   /\ Body(w) \in Seq(Tokens)
                   /\ \A k \in 0..Len(w) : SizeBefore(w, k) \in 0..Len(Body(w))
                   /\ \A k \in 0..(Len(w) - 1) : Placed(w, k)}
<1>1. ASSUME NEW w \in Seq(Sound)
      PROVE  /\ SizeBefore(w, 0) = 0
             /\ SizeBefore(w, Len(w)) = Len(Body(w))
  <2>1. SubSeq(w, 1, 0) = << >> /\ SubSeq(w, 1, Len(w)) = w
    BY SubSeqEmpty, SubSeqFull
  <2>2. Len(<< >>) = 0
    OBVIOUS
  <2> QED
    BY <2>1, <2>2, BodyEmpty DEF SizeBefore
<1>2. << >> \in P
  <2>1. << >> \in Seq(Sound) /\ << >> \in Seq(Tokens) /\ Len(<< >>) = 0
    BY EmptySeq
  <2>2. SizeBefore(<< >>, 0) = 0
    BY <1>1, <2>1
  <2>3. /\ \A k \in 0..Len(<< >>) : k = 0
        /\ 0..(Len(<< >>) - 1) = {} /\ 0 \in 0..0
    BY <2>1
  <2> QED
    BY <2>1, <2>2, <2>3, BodyEmpty
<1>3. ASSUME NEW w \in Seq(Sound), NEW e \in Sound, w \in P
      PROVE  Append(w, e) \in P
  <2> DEFINE x == Append(w, e)
             l == Len(w)
             b == Body(w)
             p == Pair(e)
  <2>1. /\ l \in Nat /\ Len(x) = l + 1 /\ x[l + 1] = e /\ x \in Seq(Sound)
        /\ \A k \in 1..l : x[k] = w[k] /\ w[k] \in Sound
    BY LenProperties, AppendProperties, ElementOfSeq
  <2>2. /\ b \in Seq(Tokens) /\ Len(b) \in Nat /\ p \in Seq(Tokens) /\ Len(p) \in Nat
        /\ \A k \in 0..l : SizeBefore(w, k) \in 0..Len(b)
        /\ \A k \in 0..(l - 1) : Placed(w, k)
    BY <1>3, PairTokens, LenProperties
  <2>3. Body(x) = b \o p
    BY BodyOfAppend
  <2>4. /\ Body(x) \in Seq(Tokens) /\ Len(Body(x)) = Len(b) + Len(p)
        /\ \A i \in 1..Len(b) : Body(x)[i] = b[i]
        /\ \A j \in 1..Len(p) : Body(x)[Len(b) + j] = p[j]
    <3>1. /\ b \o p \in Seq(Tokens) /\ Len(b \o p) = Len(b) + Len(p)
          /\ \A i \in 1..(Len(b) + Len(p)) : (b \o p)[i] = IF i <= Len(b) THEN b[i] ELSE p[i - Len(b)]
      BY <2>2, ConcatProperties
    <3>2. /\ \A i \in 1..Len(b) : i \in 1..(Len(b) + Len(p)) /\ i <= Len(b)
          /\ \A j \in 1..Len(p) : /\ Len(b) + j \in 1..(Len(b) + Len(p)) /\ ~ (Len(b) + j <= Len(b))
                                  /\ (Len(b) + j) - Len(b) = j
      BY <2>2
    <3> HIDE DEF b, p
    <3> QED
      BY <2>3, <3>1, <3>2
  <2>5. \A k \in 0..l : SizeBefore(x, k) = SizeBefore(w, k)
    <3>1. \A k \in 0..l : SubSeq(x, 1, k) = SubSeq(w, 1, k)
      BY SubSeqOfAppend
    <3> QED
      BY <3>1 DEF SizeBefore
  <2>6. SizeBefore(x, l + 1) = Len(b) + Len(p) /\ SizeBefore(x, l) = Len(b)
    <3>1. l \in 0..l
      BY <2>1
    <3> QED
      BY <1>1, <2>1, <2>4, <2>5, <3>1
  <2> HIDE DEF x, l, b, p
  <2>7. \A k \in 0..Len(x) : SizeBefore(x, k) \in 0..Len(Body(x))
    <3>1. \A k \in 0..Len(x) : k \in 0..l \/ k = l + 1
      BY <2>1
    <3>2. \A k \in 0..l : SizeBefore(x, k) \in 0..Len(Body(x))
      <4> SUFFICES ASSUME NEW k \in 0..l
                   PROVE  SizeBefore(w, k) \in 0..(Len(b) + Len(p))
        BY <2>4, <2>5
      <4>1. SizeBefore(w, k) \in 0..Len(b)
        BY <2>2
      <4> QED
        BY <2>2, <4>1
    <3>3. Len(b) + Len(p) \in 0..(Len(b) + Len(p))
      BY <2>2
    <3> QED
      BY <2>4, <2>6, <3>1, <3>2, <3>3
  <2>8. ASSUME NEW k \in 0..(l - 1)
        PROVE  Placed(x, k)
    <3>1. k + 1 \in 1..l /\ k \in 0..l /\ k + 1 \in 0..l
      BY <2>1
    <3>2. x[k + 1] = w[k + 1] /\ SizeBefore(x, k) = SizeBefore(w, k) /\ SizeBefore(x, k + 1) = SizeBefore(w, k + 1)
      BY <2>1, <2>5, <3>1
    <3>3. Placed(w, k)
      BY <2>2
    <3>4. Len(Pair(w[k + 1])) \in Nat
      BY <2>1, <3>1, PairTokens, LenProperties
    <3>5. ASSUME NEW j \in 1..Len(Pair(w[k + 1]))
          PROVE  Body(x)[SizeBefore(w, k) + j] = Pair(w[k + 1])[j]
      <4>1. SizeBefore(w, k) \in 0..Len(b) /\ SizeBefore(w, k + 1) \in 0..Len(b)
        BY <2>2, <3>1
      <4>2. SizeBefore(w, k) + j \in 1..Len(b)
        BY <2>2, <3>3, <3>4, <4>1
      <4> QED
        BY <2>4, <3>3, <4>2 DEF b
    <3> QED
      BY <3>2, <3>3, <3>5
  <2>9. Placed(x, l)
    BY <2>1, <2>4, <2>6 DEF p
  <2>10. \A k \in 0..(Len(x) - 1) : k \in 0..(l - 1) \/ k = l
    BY <2>1
  <2> QED
    BY <2>1, <2>4, <2>7, <2>8, <2>9, <2>10 DEF x
<1> HIDE DEF P
<1>4. v \in P
  BY <1>2, <1>3, ListInduction
<1> QED
  BY <1>1, <1>4 DEF P
-----------------------------------------------------------------------------
(* The file, and one turn of the parser on a part of it.                   *)

\* Where the parts of a file are.
LEMMA FileTokens ==
  ASSUME NEW v \in Seq(Sound), NEW count \in Nat
  PROVE  /\ File(count, v) \in Seq(Tokens)
         /\ Len(Body(v)) \in Nat
         /\ Len(File(count, v)) = 8 + Len(Body(v))
         /\ File(count, v)[1] = Opcode("REDIS")
         /\ File(count, v)[2] = Opcode("FE")
         /\ File(count, v)[3] = Length(0)
         /\ File(count, v)[4] = Opcode("FB")
         /\ File(count, v)[5] = Length(count)
         /\ File(count, v)[6] = Length(0)
         /\ \A i \in 1..Len(Body(v)) : File(count, v)[6 + i] = Body(v)[i]
         /\ File(count, v)[7 + Len(Body(v))] = Opcode("FF")
<1> DEFINE h == Header(count)
           b == Body(v)
           r == Trailer
<1>1. /\ h \in Seq(Tokens) /\ Len(h) = 6
      /\ h[1] = Opcode("REDIS") /\ h[2] = Opcode("FE") /\ h[3] = Length(0)
      /\ h[4] = Opcode("FB") /\ h[5] = Length(count) /\ h[6] = Length(0)
  <2>1. /\ Opcode("REDIS") \in Tokens /\ Opcode("FE") \in Tokens /\ Opcode("FB") \in Tokens
        /\ Length(0) \in Tokens /\ Length(count) \in Tokens
    BY DEF Opcode, Length, Tokens
  <2> QED
    BY <2>1 DEF Header
<1>2. r \in Seq(Tokens) /\ Len(r) = 2 /\ r[1] = Opcode("FF")
  <2>1. Opcode("FF") \in Tokens /\ Opcode("checksum") \in Tokens
    BY DEF Opcode, Tokens
  <2> QED
    BY <2>1 DEF Trailer
<1>3. b \in Seq(Tokens) /\ Len(b) \in Nat
  BY PairPlaces, LenProperties
<1>4. File(count, v) = (h \o b) \o r
  BY DEF File
<1> HIDE DEF h, b, r
<1>5. /\ h \o b \in Seq(Tokens) /\ Len(h \o b) = 6 + Len(b)
      /\ \A i \in 1..(6 + Len(b)) : (h \o b)[i] = IF i <= 6 THEN h[i] ELSE b[i - 6]
  <2>1. /\ h \o b \in Seq(Tokens) /\ Len(h \o b) = Len(h) + Len(b)
        /\ \A i \in 1..(Len(h) + Len(b)) : (h \o b)[i] = IF i <= Len(h) THEN h[i] ELSE b[i - Len(h)]
    BY <1>1, <1>3, ConcatProperties
  <2> QED
    BY <1>1, <2>1
<1>6. /\ (h \o b) \o r \in Seq(Tokens) /\ Len((h \o b) \o r) = Len(h \o b) + Len(r)
      /\ \A i \in 1..(Len(h \o b) + Len(r)) :
           ((h \o b) \o r)[i] = IF i <= Len(h \o b) THEN (h \o b)[i] ELSE r[i - Len(h \o b)]
  <2> DEFINE hb == h \o b
  <2>1. hb \in Seq(Tokens)
    BY <1>5
  <2> HIDE DEF hb
  <2>2. /\ hb \o r \in Seq(Tokens) /\ Len(hb \o r) = Len(hb) + Len(r)
        /\ \A i \in 1..(Len(hb) + Len(r)) :
             (hb \o r)[i] = IF i <= Len(hb) THEN hb[i] ELSE r[i - Len(hb)]
    BY <1>2, <2>1, ConcatProperties
  <2> QED
    BY <2>2, Zenon DEF hb
<1>7. /\ Len(File(count, v)) = 8 + Len(b)
      /\ \A i \in 1..(6 + Len(b)) : File(count, v)[i] = IF i <= 6 THEN h[i] ELSE b[i - 6]
      /\ File(count, v)[7 + Len(b)] = r[1]
  <2>1. Len(h \o b) + Len(r) = 8 + Len(b)
    BY <1>2, <1>3, <1>5
  <2>2. /\ \A i \in 1..(6 + Len(b)) : i \in 1..(8 + Len(b)) /\ i <= 6 + Len(b)
        /\ 7 + Len(b) \in 1..(8 + Len(b)) /\ ~ (7 + Len(b) <= 6 + Len(b))
        /\ (7 + Len(b)) - (6 + Len(b)) = 1
    BY <1>3
  <2> QED
    BY <1>4, <1>5, <1>6, <2>1, <2>2
<1>8. \A i \in 1..6 : i \in 1..(6 + Len(b)) /\ i <= 6
  BY <1>3
<1>9. \A i \in 1..Len(b) : 6 + i \in 1..(6 + Len(b)) /\ ~ (6 + i <= 6) /\ (6 + i) - 6 = i
  BY <1>3
<1>10. \A i \in 1..6 : File(count, v)[i] = h[i]
  BY <1>7, <1>8
<1>11. \A i \in 1..Len(b) : File(count, v)[6 + i] = b[i]
  BY <1>7, <1>9
<1> QED
  BY SMTT(30), <1>1, <1>2, <1>3, <1>4, <1>6, <1>7, <1>10, <1>11 DEF b

\* The first n of a file.
LEMMA CutTokens ==
  ASSUME NEW file \in Seq(Tokens), NEW n \in 0..Len(file)
  PROVE  /\ SubSeq(file, 1, n) \in Seq(Tokens)
         /\ Len(SubSeq(file, 1, n)) = n
         /\ DOMAIN SubSeq(file, 1, n) = 1..n
         /\ \A i \in 1..n : SubSeq(file, 1, n)[i] = file[i]
BY LenProperties

\* In the n tokens of f, those from c on are the pair of e.
PairFollows(f, n, c, e) ==
  \A j \in 1..Len(Pair(e)) : (c + j) - 1 <= n => f[(c + j) - 1] = Pair(e)[j]

\* A pair at c is read as the entry it was written for, if all of it is there.
LEMMA TurnOnPair ==
  ASSUME NEW f, NEW n \in Nat, DOMAIN f = 1..n, NEW e \in Sound, NEW t,
         NEW at, at.cursor \in Nat \ {0}, PairFollows(f, n, at.cursor, e)
  PROVE  IF (at.cursor + Len(Pair(e))) - 1 <= n
         THEN Turn(f, at, t) = [cursor |-> at.cursor + Len(Pair(e)), entries |-> at.entries \o Keep(e, t)]
         ELSE Turn(f, at, t) = at
<1> DEFINE c == at.cursor
           list == at.entries
<1>1. at.cursor = c /\ at.entries = list /\ c \in Nat \ {0} /\ PairFollows(f, n, c, e)
  OBVIOUS
<1> HIDE DEF c, list
<1>2. e = [key |-> e.key, type |-> "string", value |-> e.value, expiration |-> e.expiration]
  BY DEF Sound, Strings
<1>3. CASE e.expiration = Never
  <2>1. /\ Len(Pair(e)) = 3
        /\ c <= n => f[c] = Opcode("00")
        /\ c + 1 <= n => f[c + 1] = String(e.key)
        /\ c + 2 <= n => f[c + 2] = String(e.value)
    <3>1. /\ Len(Pair(e)) = 3 /\ Pair(e)[1] = Opcode("00")
          /\ Pair(e)[2] = String(e.key) /\ Pair(e)[3] = String(e.value)
      BY <1>3, PairTokens
    <3>2. \A j \in 1..3 : (c + j) - 1 <= n => f[(c + j) - 1] = Pair(e)[j]
      BY <1>1, <3>1 DEF PairFollows
    <3>3. (c + 1) - 1 = c /\ (c + 2) - 1 = c + 1 /\ (c + 3) - 1 = c + 2
      BY <1>1
    <3>4. /\ c <= n => f[c] = Pair(e)[1]
          /\ c + 1 <= n => f[c + 1] = Pair(e)[2]
          /\ c + 2 <= n => f[c + 2] = Pair(e)[3]
      BY <3>2, <3>3
    <3> QED
      BY <3>1, <3>4
  <2>2. ~ Reads(f, c, "FE") /\ ~ Reads(f, c, "FC")
    BY <2>1 DEF Reads, Opcode
  <2>3. TypeAt(f, c) = c
    BY <2>2 DEF TypeAt
  <2>4. CASE c + 2 <= n
    <3>1. c \in 1..n /\ c + 1 \in 1..n /\ c + 2 \in 1..n
      BY <1>1, <2>4
    <3>2. /\ f[c] = Opcode("00") /\ f[c + 1] = String(e.key) /\ f[c + 2] = String(e.value)
      BY <2>1, <3>1
    <3>3. PairIsWhole(f, c)
      BY <2>2, <2>3, <3>1, <3>2 DEF PairIsWhole, Reads, Opcode, String
    <3>4. EntryAt(f, c) = e
      BY <1>2, <1>3, <2>2, <2>3, <3>2 DEF EntryAt, String
    <3>5. Turn(f, at, t) = [cursor |-> c + 3, entries |-> list \o Keep(e, t)]
      BY <1>1, <2>2, <2>3, <3>3, <3>4 DEF Turn
    <3> QED
      BY <1>1, <2>1, <2>4, <3>5
  <2>5. CASE ~ (c + 2 <= n)
    <3>1. ~ PairIsWhole(f, c)
      BY <1>1, <2>3, <2>5 DEF PairIsWhole, Reads
    <3>2. Turn(f, at, t) = at
      BY <1>1, <2>2, <3>1 DEF Turn
    <3> QED
      BY <1>1, <2>1, <2>5, <3>2
  <2> QED
    BY <2>4, <2>5
<1>4. CASE e.expiration # Never
  <2>1. /\ Len(Pair(e)) = 5
        /\ c <= n => f[c] = Opcode("FC")
        /\ c + 1 <= n => f[c + 1] = Expiry(e.expiration)
        /\ c + 2 <= n => f[c + 2] = Opcode("00")
        /\ c + 3 <= n => f[c + 3] = String(e.key)
        /\ c + 4 <= n => f[c + 4] = String(e.value)
    <3>1. /\ Len(Pair(e)) = 5 /\ Pair(e)[1] = Opcode("FC") /\ Pair(e)[2] = Expiry(e.expiration)
          /\ Pair(e)[3] = Opcode("00") /\ Pair(e)[4] = String(e.key) /\ Pair(e)[5] = String(e.value)
      BY <1>4, PairTokens
    <3>2. \A j \in 1..5 : (c + j) - 1 <= n => f[(c + j) - 1] = Pair(e)[j]
      BY <1>1, <3>1 DEF PairFollows
    <3>3. /\ (c + 1) - 1 = c /\ (c + 2) - 1 = c + 1 /\ (c + 3) - 1 = c + 2
          /\ (c + 4) - 1 = c + 3 /\ (c + 5) - 1 = c + 4
      BY <1>1
    <3>4. /\ c <= n => f[c] = Pair(e)[1]
          /\ c + 1 <= n => f[c + 1] = Pair(e)[2]
          /\ c + 2 <= n => f[c + 2] = Pair(e)[3]
          /\ c + 3 <= n => f[c + 3] = Pair(e)[4]
          /\ c + 4 <= n => f[c + 4] = Pair(e)[5]
      BY <3>2, <3>3
    <3> QED
      BY <3>1, <3>4
  <2>2. ~ Reads(f, c, "FE") /\ (c <= n => Reads(f, c, "FC"))
    BY <1>1, <2>1 DEF Reads, Opcode
  <2>3. c <= n => TypeAt(f, c) = c + 2
    BY <2>2 DEF TypeAt
  <2>4. CASE c + 4 <= n
    <3>1. /\ c \in 1..n /\ c + 1 \in 1..n /\ c + 2 \in 1..n /\ c + 3 \in 1..n /\ c + 4 \in 1..n
          /\ (c + 2) + 1 = c + 3 /\ (c + 2) + 2 = c + 4 /\ (c + 2) + 3 = c + 5
      BY <1>1, <2>4
    <3>2. /\ f[c + 1] = Expiry(e.expiration) /\ f[c + 2] = Opcode("00")
          /\ f[c + 3] = String(e.key) /\ f[c + 4] = String(e.value)
          /\ Reads(f, c, "FC") /\ TypeAt(f, c) = c + 2
      BY <2>1, <2>2, <2>3, <3>1
    <3>3. PairIsWhole(f, c)
      BY <3>1, <3>2 DEF PairIsWhole, Reads, Opcode, String, Expiry
    <3>4. EntryAt(f, c) = e
      BY SMTT(30), <1>2, <3>1, <3>2 DEF EntryAt, String, Expiry
    <3>5. Turn(f, at, t) = [cursor |-> c + 5, entries |-> list \o Keep(e, t)]
      BY <1>1, <2>2, <3>1, <3>2, <3>3, <3>4 DEF Turn
    <3> QED
      BY <1>1, <2>1, <2>4, <3>5
  <2>5. CASE ~ (c + 4 <= n)
    <3>1. ~ PairIsWhole(f, c)
      <4>1. CASE c <= n
        <5>1. TypeAt(f, c) = c + 2 /\ (c + 2) + 2 = c + 4 /\ c + 4 \notin 1..n
          BY <1>1, <2>3, <2>5, <4>1
        <5> QED
          BY <5>1 DEF PairIsWhole, Reads
      <4>2. CASE ~ (c <= n)
        <5>1. c \notin 1..n /\ TypeAt(f, c) = c
          BY <1>1, <4>2 DEF TypeAt, Reads
        <5> QED
          BY <5>1 DEF PairIsWhole, Reads
      <4> QED
        BY <4>1, <4>2
    <3>2. Turn(f, at, t) = at
      BY <1>1, <2>2, <3>1 DEF Turn
    <3> QED
      BY <1>1, <2>1, <2>5, <3>2
  <2> QED
    BY <2>4, <2>5
<1> QED
  BY <1>3, <1>4

\* It stays at the end of the file.
LEMMA TurnAtEnd ==
  ASSUME NEW f, NEW n \in Nat, DOMAIN f = 1..n, NEW c \in Nat \ {0},
         c <= n => f[c] = Opcode("FF"), NEW list, NEW t, NEW at, at = [cursor |-> c, entries |-> list]
  PROVE  Turn(f, at, t) = at
<1>1. at.cursor = c
  OBVIOUS
<1>2. ~ Reads(f, c, "FE") /\ ~ Reads(f, c, "FC") /\ ~ Reads(f, c, "00")
  BY DEF Reads, Opcode
<1>3. ~ PairIsWhole(f, c)
  BY <1>2 DEF PairIsWhole, TypeAt
<1> QED
  BY <1>1, <1>2, <1>3 DEF Turn

\* The database selector is read, or nothing behind it.
LEMMA TurnOnSelector ==
  ASSUME NEW v \in Seq(Sound), NEW count \in Nat, NEW n \in 0..Len(File(count, v)), NEW f,
         DOMAIN f = 1..n, \A i \in 1..n : f[i] = File(count, v)[i], NEW t,
         NEW at, at = [cursor |-> 2, entries |-> << >>]
  PROVE  IF 6 <= n THEN Turn(f, at, t) = [cursor |-> 7, entries |-> << >>]
         ELSE /\ Turn(f, at, t).entries = << >>
              /\ Turn(f, Turn(f, at, t), t) = Turn(f, at, t)
<1> DEFINE list == << >>
<1> HIDE DEF list
<1>0. at = [cursor |-> 2, entries |-> list]
  BY DEF list
<1>1. at.cursor = 2 /\ at.entries = list /\ \A c : [at EXCEPT !.cursor = c] = [cursor |-> c, entries |-> list]
  BY <1>0
<1>2. n \in Nat /\ n <= Len(File(count, v))
  BY FileTokens
<1>3. /\ 2 <= n => f[2] = Opcode("FE")
      /\ 3 <= n => f[3] = Length(0)
      /\ 4 <= n => f[4] = Opcode("FB")
      /\ 5 <= n => f[5] = Length(count)
      /\ 6 <= n => f[6] = Length(0)
  <2>1. /\ File(count, v)[2] = Opcode("FE") /\ File(count, v)[3] = Length(0)
        /\ File(count, v)[4] = Opcode("FB") /\ File(count, v)[5] = Length(count)
        /\ File(count, v)[6] = Length(0)
    BY FileTokens
  <2>2. /\ 2 <= n => 2 \in 1..n
        /\ 3 <= n => 3 \in 1..n
        /\ 4 <= n => 4 \in 1..n
        /\ 5 <= n => 5 \in 1..n
        /\ 6 <= n => 6 \in 1..n
    BY <1>2
  <2> QED
    BY <2>1, <2>2
<1>4. /\ 2 \in DOMAIN f <=> 2 <= n
      /\ 3 \in DOMAIN f <=> 3 <= n
      /\ 4 \in DOMAIN f <=> 4 <= n
      /\ 5 \in DOMAIN f <=> 5 <= n
      /\ 6 \in DOMAIN f <=> 6 <= n
  BY <1>2
<1>5. /\ Reads(f, 2, "FE") <=> 2 <= n
      /\ Reads(f, 3, "length") <=> 3 <= n
      /\ Reads(f, 4, "FB") <=> 4 <= n
      /\ Reads(f, 5, "length") <=> 5 <= n
      /\ Reads(f, 6, "length") <=> 6 <= n
      /\ ~ Reads(f, 2, "FC") /\ ~ Reads(f, 2, "00")
  BY <1>3, <1>4 DEF Reads, Opcode, Length
<1>6. /\ SelectorIsWhole(f, 2) <=> 3 <= n /\ (4 <= n => 5 <= n /\ 6 <= n)
      /\ AfterSelector(f, 2) = IF 4 <= n THEN 7 ELSE 4
  <2>1. 2 + 1 = 3 /\ 2 + 2 = 4 /\ 2 + 3 = 5 /\ 2 + 4 = 6 /\ 2 + 5 = 7
    OBVIOUS
  <2> QED
    BY <1>5, <2>1 DEF SelectorIsWhole, AfterSelector
<1>7. ~ PairIsWhole(f, 2)
  BY <1>5 DEF PairIsWhole, TypeAt
<1>8. CASE 6 <= n
  <2>1. Turn(f, at, t) = [cursor |-> 7, entries |-> list]
    <3>1. 2 <= n /\ 3 <= n /\ 4 <= n /\ 5 <= n
      BY <1>2, <1>8
    <3> QED
      BY <1>1, <1>5, <1>6, <1>8, <3>1 DEF Turn
  <2> QED
    BY <1>8, <2>1 DEF list
<1>9. CASE n = 3
  <2>1. Turn(f, at, t) = [cursor |-> 4, entries |-> list]
    BY <1>1, <1>5, <1>6, <1>9 DEF Turn
  <2> DEFINE stop == [cursor |-> 4, entries |-> list]
             c == 4
  <2>2. Turn(f, stop, t) = stop
    <3>1. c \in Nat \ {0} /\ (c <= n => f[c] = Opcode("FF")) /\ stop = [cursor |-> c, entries |-> list]
      BY <1>9
    <3> HIDE DEF stop, c
    <3> QED
      BY <1>2, <3>1, TurnAtEnd
  <2> QED
    BY <1>9, <2>1, <2>2 DEF list
<1>10. CASE ~ (6 <= n) /\ n # 3
  <2>1. Turn(f, at, t) = at
    <3>1. ~ (3 <= n) \/ (4 <= n /\ ~ (6 <= n))
      BY <1>2, <1>10
    <3> QED
      BY <1>1, <1>6, <1>7, <3>1 DEF Turn
  <2> QED
    BY <1>1, <1>10, <2>1 DEF list
<1> QED
  BY <1>8, <1>9, <1>10

-----------------------------------------------------------------------------
(* The whole of the parser's loop.                                         *)

\* Where the parser is after each turn.
OneParsed(f, p, n, t) == IF n = 0 THEN [cursor |-> 2, entries |-> << >>] ELSE Turn(f, p[n - 1], t)
Parsed(f, t) == CHOOSE p : p = [n \in 0..Len(f) |-> OneParsed(f, p, n, t)]

\* Each turn starts where the one before it ended: the places of a file are
\* well-founded, so that the definition has a solution.
LEMMA ParsedUnfolds ==
  ASSUME NEW f, NEW t, Len(f) \in Nat
  PROVE  Parsed(f, t) = [n \in 0..Len(f) |-> OneParsed(f, Parsed(f, t), n, t)]
<1> DEFINE Good == {n \in 0..Len(f) : \E p : p = [i \in 0..n |-> OneParsed(f, p, i, t)]}
<1>1. 0 \in Good
  <2> DEFINE p == [i \in 0..0 |-> [cursor |-> 2, entries |-> << >>]]
  <2>1. p = [i \in 0..0 |-> OneParsed(f, p, i, t)]
    BY DEF OneParsed
  <2>2. 0 \in 0..Len(f)
    OBVIOUS
  <2> HIDE DEF p
  <2> QED
    BY <2>1, <2>2
<1>2. ASSUME NEW n \in 0..(Len(f) - 1), n \in Good
      PROVE  n + 1 \in Good
  <2>1. PICK p : p = [i \in 0..n |-> OneParsed(f, p, i, t)]
    BY <1>2
  <2> DEFINE g == [i \in 0..(n + 1) |-> IF i = n + 1 THEN OneParsed(f, p, i, t) ELSE p[i]]
  <2>2. \A i \in 0..n : g[i] = p[i]
    OBVIOUS
  <2>3. \A i \in 0..(n + 1) : OneParsed(f, g, i, t) = OneParsed(f, p, i, t)
    <3> SUFFICES ASSUME NEW i \in 0..(n + 1), i # 0
                 PROVE  g[i - 1] = p[i - 1]
      BY DEF OneParsed
    <3>1. i - 1 \in 0..n
      OBVIOUS
    <3> QED
      BY <2>2, <3>1
  <2>4. \A i \in 0..n : p[i] = OneParsed(f, p, i, t)
    BY <2>1
  <2>5. g = [i \in 0..(n + 1) |-> OneParsed(f, p, i, t)]
    BY <2>4
  <2>6. g = [i \in 0..(n + 1) |-> OneParsed(f, g, i, t)]
    <3> HIDE DEF g
    <3> QED
      BY <2>3, <2>5
  <2>7. n + 1 \in 0..Len(f)
    OBVIOUS
  <2> HIDE DEF g
  <2> QED
    BY <2>6, <2>7
<1>3. Len(f) \in Good
  <2> HIDE DEF Good
  <2>1. \A n \in 0..Len(f) : n \in Good
    BY <1>1, <1>2, InductionUpTo
  <2>2. Len(f) \in 0..Len(f)
    OBVIOUS
  <2> QED
    BY <2>1, <2>2
<1>4. PICK p : p = [n \in 0..Len(f) |-> OneParsed(f, p, n, t)]
  BY <1>3
<1> HIDE DEF Good
<1> QED
  BY <1>4, Zenon DEF Parsed

\* Load goes through these turns.
LEMMA LoadIsParsed ==
  ASSUME NEW f, NEW t
  PROVE  Load(f, t) = IF Reads(f, 1, "REDIS") THEN Parsed(f, t)[Len(f)].entries ELSE << >>
BY DEF Load, Parsed, OneParsed

\* The entries that loading at time t keeps.
Live(t) == {e \in Entries : e.expiration \in {Never, Invalid} \/ e.expiration > t}

\* One more entry of v has been read.
LEMMA KeepsLive ==
  ASSUME NEW v \in Seq(Sound), NEW k \in 0..(Len(v) - 1), NEW t \in Int
  PROVE  Only(SubSeq(v, 1, k), Live(t)) \o Keep(v[k + 1], t) = Only(SubSeq(v, 1, k + 1), Live(t))
<1>1. Len(v) \in Nat /\ k + 1 \in 1..Len(v) /\ \A i \in 1..Len(v) : v[i] \in Sound
  BY LenProperties, ElementOfSeq
<1>2. SubSeq(v, 1, k) \in Seq(Sound)
  BY <1>1
<1>3. SubSeq(v, 1, k + 1) = Append(SubSeq(v, 1, k), v[k + 1])
  <2>1. 1 \in 1..Len(v) /\ k + 1 \in 1..Len(v) /\ (k + 1) - 1 = k
    BY <1>1
  <2>2. SubSeq(v, 1, k + 1) = SubSeq(v, 1, k) \o <<v[k + 1]>>
    BY <2>1, SubSeqRecursiveSecond
  <2> QED
    BY <1>1, <1>2, <2>2, AppendIsConcat
<1> DEFINE w == SubSeq(v, 1, k)
           e == v[k + 1]
           list == Only(w, Live(t))
<1>4. w \in Seq(Sound) /\ e \in Sound /\ list \in Seq(Sound)
  <2>1. w \in Seq(Sound) /\ e \in Sound
    BY <1>1, <1>2
  <2> HIDE DEF w, e
  <2> QED
    BY <2>1, OnlyMembers
<1>5. Only(Append(w, e), Live(t)) = IF e \in Live(t) THEN Append(list, e) ELSE list
  <2> HIDE DEF w, e
  <2> QED
    BY <1>4, OnlyOfAppend
<1>6. e \in Live(t) <=> ~ Reached(e.expiration, t)
  <2>1. e \in Entries /\ e.expiration # Invalid /\ (e.expiration \in Instants \/ e.expiration = Never)
    <3> HIDE DEF e
    <3> QED
      BY <1>4 DEF Sound, Strings, Entries
  <2>2. CASE e.expiration = Never
    BY <2>1, <2>2 DEF Live, Reached
  <2>3. CASE e.expiration # Never
    <3>1. e.expiration \in Int
      BY <2>1, <2>3, ConstantsAssumption
    <3>2. e.expiration > t <=> ~ (e.expiration <= t)
      <4> HIDE DEF e
      <4> QED
        BY <3>1
    <3>3. e.expiration \notin {Never, Invalid}
      BY <2>1, <2>3
    <3> QED
      BY <2>1, <3>2, <3>3 DEF Live, Reached
  <2> QED
    BY <2>2, <2>3
<1>7. list \o <<e>> = Append(list, e) /\ list \o << >> = list
  BY <1>4, AppendIsConcat, ConcatEmptySeq
<1> HIDE DEF w, e, list
<1>8. list \o Keep(e, t) = Only(Append(w, e), Live(t))
  BY <1>5, <1>6, <1>7 DEF Keep
<1> QED
  BY <1>3, <1>8 DEF w, e, list

\* Where the parser is when k entries have been read.
At(v, k, t) == [cursor |-> 7 + SizeBefore(v, k), entries |-> Only(SubSeq(v, 1, k), Live(t))]

\* On the first n tokens of a file, a turn reads the next entry, or stays where
\* it is because nothing is left of the file.
LEMMA TurnOnFile ==
  ASSUME NEW v \in Seq(Sound), NEW count \in Nat, NEW n \in 0..Len(File(count, v)), NEW f,
         DOMAIN f = 1..n, \A i \in 1..n : f[i] = File(count, v)[i], NEW t \in Int,
         NEW k \in 0..Len(v)
  PROVE  \/ k < Len(v) /\ Turn(f, At(v, k, t), t) = At(v, k + 1, t)
         \/ /\ Turn(f, At(v, k, t), t) = At(v, k, t)
            /\ k < Len(v) => n < Len(File(count, v))
<1> DEFINE c == 7 + SizeBefore(v, k)
           list == Only(SubSeq(v, 1, k), Live(t))
<1>1. /\ Len(v) \in Nat /\ Len(Body(v)) \in Nat /\ n \in Nat
      /\ Len(File(count, v)) = 8 + Len(Body(v))
      /\ SizeBefore(v, k) \in 0..Len(Body(v))
  <2>1. Len(v) \in Nat
    BY LenProperties
  <2>2. Len(Body(v)) \in Nat /\ Len(File(count, v)) = 8 + Len(Body(v))
    BY FileTokens
  <2>3. SizeBefore(v, k) \in 0..Len(Body(v))
    BY PairPlaces
  <2>4. n \in Nat
    BY <2>2
  <2> QED
    BY <2>1, <2>2, <2>3, <2>4
<1>2. c \in Nat \ {0}
  BY <1>1
<1>3. CASE k < Len(v)
  <2> DEFINE e == v[k + 1]
  <2>1. k \in 0..(Len(v) - 1) /\ k + 1 \in 1..Len(v) /\ k + 1 \in 0..Len(v)
    BY <1>1, <1>3
  <2>2. e \in Sound
    BY <2>1, ElementOfSeq
  <2>3. Len(Pair(e)) \in Nat
    BY <2>2, PairTokens, LenProperties
  <2>4. /\ SizeBefore(v, k + 1) = SizeBefore(v, k) + Len(Pair(e))
        /\ \A j \in 1..Len(Pair(e)) : Body(v)[SizeBefore(v, k) + j] = Pair(e)[j]
        /\ SizeBefore(v, k + 1) \in 0..Len(Body(v))
    BY <2>1, PairPlaces
  <2> HIDE DEF e
  <2>5. ASSUME NEW j \in 1..Len(Pair(e)), (c + j) - 1 <= n
        PROVE  f[(c + j) - 1] = Pair(e)[j]
    <3>1. (c + j) - 1 = 6 + (SizeBefore(v, k) + j) /\ SizeBefore(v, k) + j \in 1..Len(Body(v))
      BY SMTT(30), <1>1, <2>3, <2>4
    <3>2. (c + j) - 1 \in 1..n
      BY SMTT(30), <1>1, <2>3, <2>5, <3>1
    <3>3. File(count, v)[6 + (SizeBefore(v, k) + j)] = Body(v)[SizeBefore(v, k) + j]
      BY <3>1, FileTokens
    <3>4. Body(v)[SizeBefore(v, k) + j] = Pair(e)[j]
      BY <2>4
    <3>5. f[(c + j) - 1] = File(count, v)[(c + j) - 1]
      BY <3>2
    <3> HIDE DEF c
    <3> QED
      BY <3>1, <3>3, <3>4, <3>5
  <2> DEFINE at == At(v, k, t)
  <2>6. at = [cursor |-> c, entries |-> list]
    BY DEF At
  <2>7. At(v, k + 1, t) = [cursor |-> c + Len(Pair(e)), entries |-> list \o Keep(e, t)]
    <3>1. 7 + SizeBefore(v, k + 1) = c + Len(Pair(e))
      BY <1>1, <2>3, <2>4
    <3>2. list \o Keep(e, t) = Only(SubSeq(v, 1, k + 1), Live(t))
      BY <2>1, KeepsLive DEF e
    <3> HIDE DEF c, list
    <3> QED
      BY <3>1, <3>2 DEF At
  <2>8. (c + Len(Pair(e))) - 1 <= n \/ n < Len(File(count, v))
    BY <1>1, <2>3, <2>4
  <2> HIDE DEF c, list, at
  <2>9. IF (c + Len(Pair(e))) - 1 <= n
        THEN Turn(f, at, t) = [cursor |-> c + Len(Pair(e)), entries |-> list \o Keep(e, t)]
        ELSE Turn(f, at, t) = at
    <3>1. PairFollows(f, n, c, e)
      BY <2>5 DEF PairFollows
    <3>2. n \in Nat /\ DOMAIN f = 1..n
      BY <1>1
    <3> QED
      <4>1. at.cursor = c /\ at.entries = list
        BY <2>6
      <4>2. at.cursor \in Nat \ {0} /\ PairFollows(f, n, at.cursor, e)
        BY <1>2, <3>1, <4>1
      <4>3. IF (at.cursor + Len(Pair(e))) - 1 <= n
            THEN Turn(f, at, t) = [cursor |-> at.cursor + Len(Pair(e)), entries |-> at.entries \o Keep(e, t)]
            ELSE Turn(f, at, t) = at
        BY <2>2, <3>2, <4>2, TurnOnPair
      <4> QED
        BY <4>1, <4>3
  <2> QED
    BY <1>3, <2>7, <2>8, <2>9 DEF at
<1>4. CASE ~ (k < Len(v))
  <2>1. k = Len(v)
    BY <1>1, <1>4
  <2>2. c = 7 + Len(Body(v))
    BY <2>1, PairPlaces
  <2>3. c <= n => f[c] = Opcode("FF")
    <3>1. c <= n => c \in 1..n
      BY <1>1, <1>2
    <3>2. File(count, v)[7 + Len(Body(v))] = Opcode("FF")
      BY FileTokens
    <3> HIDE DEF c
    <3> QED
      BY <2>2, <3>1, <3>2
  <2>4. At(v, k, t) = [cursor |-> c, entries |-> list]
    BY DEF At
  <2> HIDE DEF c, list
  <2>5. Turn(f, At(v, k, t), t) = At(v, k, t)
    BY <1>1, <1>2, <2>3, <2>4, TurnAtEnd
  <2> QED
    BY <1>4, <2>5
<1> QED
  BY <1>3, <1>4

\* Behind the selector, no entry has been read.
LEMMA AtFirst ==
  ASSUME NEW v \in Seq(Sound), NEW t
  PROVE  /\ At(v, 0, t) = [cursor |-> 7, entries |-> << >>]
         /\ Only(SubSeq(v, 1, 0), Live(t)) = << >>
<1>1. SubSeq(v, 1, 0) = << >>
  BY SubSeqEmpty
<1>2. SizeBefore(v, 0) = 0 /\ 7 + 0 = 7
  BY PairPlaces
<1> QED
  BY <1>1, <1>2, OnlyEmpty DEF At

\* What loading the first n tokens of a file does: it puts the first entries
\* into the store that are live.
LEMMA CutLoads ==
  ASSUME NEW v \in Seq(Sound), NEW count \in Nat, NEW n \in 0..Len(File(count, v)), NEW f,
         Len(f) = n, DOMAIN f = 1..n, \A i \in 1..n : f[i] = File(count, v)[i], NEW t \in Int
  PROVE  \E k \in 0..Len(v) : Load(f, t) = Only(SubSeq(v, 1, k), Live(t))
<1> DEFINE p == Parsed(f, t)
           first == [cursor |-> 2, entries |-> << >>]
           Fine(a) == \/ a = first
                      \/ \E k \in 0..Len(v) : a = At(v, k, t)
                      \/ a.entries = << >> /\ Turn(f, a, t) = a
           P == {i \in 0..n : Fine(p[i])}
<1>1. Len(f) = n /\ DOMAIN f = 1..n /\ \A i \in 1..n : f[i] = File(count, v)[i]
  OBVIOUS
<1>2. n \in Nat /\ Len(v) \in Nat /\ 0 \in 0..Len(v)
  BY FileTokens, LenProperties
<1>3. p = [i \in 0..n |-> OneParsed(f, p, i, t)]
  <2>1. Parsed(f, t) = [i \in 0..Len(f) |-> OneParsed(f, Parsed(f, t), i, t)]
    BY <1>1, <1>2, ParsedUnfolds
  <2> QED
    BY <1>1, <2>1
<1>4. first.entries = << >>
  OBVIOUS
<1> HIDE DEF p, first
<1>5. ASSUME NEW a, Fine(a)
      PROVE  Fine(Turn(f, a, t))
  <2>1. CASE a = first
    <3>1. IF 6 <= n THEN Turn(f, a, t) = [cursor |-> 7, entries |-> << >>]
          ELSE /\ Turn(f, a, t).entries = << >>
               /\ Turn(f, Turn(f, a, t), t) = Turn(f, a, t)
      BY <1>1, <2>1, TurnOnSelector DEF first
    <3> QED
      BY <1>2, <3>1, AtFirst
  <2>2. ASSUME NEW k \in 0..Len(v), a = At(v, k, t)
        PROVE  Fine(Turn(f, a, t))
    <3>1. \/ k < Len(v) /\ Turn(f, a, t) = At(v, k + 1, t)
          \/ Turn(f, a, t) = a
      BY <1>1, <2>2, TurnOnFile
    <3>2. k < Len(v) => k + 1 \in 0..Len(v)
      BY <1>2
    <3> QED
      BY <2>2, <3>1, <3>2
  <2>3. CASE a.entries = << >> /\ Turn(f, a, t) = a
    BY <2>3
  <2> QED
    BY <1>5, <2>1, <2>2, <2>3
<1>6. ASSUME NEW a, Fine(a)
      PROVE  \E k \in 0..Len(v) : a.entries = Only(SubSeq(v, 1, k), Live(t))
  <2>1. CASE a.entries = << >>
    BY <1>2, <2>1, AtFirst
  <2>2. ASSUME NEW k \in 0..Len(v), a = At(v, k, t)
        PROVE  a.entries = Only(SubSeq(v, 1, k), Live(t))
    BY <2>2 DEF At
  <2> QED
    BY <1>4, <1>6, <2>1, <2>2
<1> HIDE DEF Fine
<1>7. 0 \in P
  <2>1. 0 \in 0..n
    BY <1>2
  <2>2. p[0] = first
    BY <1>3, <2>1 DEF OneParsed, first
  <2> QED
    BY <2>1, <2>2 DEF Fine
<1>8. ASSUME NEW i \in 0..(n - 1), i \in P
      PROVE  i + 1 \in P
  <2>1. i + 1 \in 0..n /\ i + 1 # 0 /\ (i + 1) - 1 = i
    BY <1>2
  <2>2. p[i + 1] = Turn(f, p[i], t)
    BY <1>3, <2>1 DEF OneParsed
  <2> QED
    BY <1>5, <1>8, <2>1, <2>2
<1> HIDE DEF P
<1>9. n \in P
  <2>1. \A i \in 0..n : i \in P
    BY <1>2, <1>7, <1>8, InductionUpTo
  <2>2. n \in 0..n
    BY <1>2
  <2> QED
    BY <2>1, <2>2
<1>10. \E k \in 0..Len(v) : p[n].entries = Only(SubSeq(v, 1, k), Live(t))
  BY <1>6, <1>9 DEF P
<1>11. \E k \in 0..Len(v) : << >> = Only(SubSeq(v, 1, k), Live(t))
  BY <1>2, AtFirst
<1> QED
  BY <1>1, <1>10, <1>11, LoadIsParsed DEF p

\* The file is long enough for a turn on each of its pairs.
LEMMA BodyIsLong ==
  ASSUME NEW v \in Seq(Sound)
  PROVE  Len(v) <= Len(Body(v))
<1> DEFINE P == {k \in 0..Len(v) : k <= SizeBefore(v, k)}
<1>1. /\ Len(v) \in Nat /\ SizeBefore(v, 0) = 0 /\ SizeBefore(v, Len(v)) = Len(Body(v))
      /\ \A k \in 0..Len(v) : SizeBefore(v, k) \in Nat
  BY PairPlaces, LenProperties
<1>2. 0 \in P
  BY <1>1
<1>3. ASSUME NEW k \in 0..(Len(v) - 1), k \in P
      PROVE  k + 1 \in P
  <2>1. k + 1 \in 1..Len(v) /\ k + 1 \in 0..Len(v) /\ k \in 0..Len(v)
    BY <1>1
  <2>2. v[k + 1] \in Sound
    BY <2>1, ElementOfSeq
  <2>3. Len(Pair(v[k + 1])) \in Nat /\ Len(Pair(v[k + 1])) >= 1
    <3> DEFINE long == Len(Pair(v[k + 1]))
    <3>1. long = 3 \/ long = 5
      BY <2>2, PairTokens
    <3> HIDE DEF long
    <3>2. long \in Nat /\ long >= 1
      BY <3>1
    <3> QED
      BY <3>2 DEF long
  <2>4. SizeBefore(v, k + 1) = SizeBefore(v, k) + Len(Pair(v[k + 1]))
    BY PairPlaces
  <2>5. k <= SizeBefore(v, k) /\ SizeBefore(v, k) \in Nat
    BY <1>1, <1>3, <2>1
  <2> QED
    BY <2>1, <2>3, <2>4, <2>5
<1> HIDE DEF P
<1>4. Len(v) \in P
  <2>1. \A k \in 0..Len(v) : k \in P
    BY <1>1, <1>2, <1>3, InductionUpTo
  <2> QED
    BY <1>1, <2>1
<1> QED
  BY <1>1, <1>4 DEF P

\* Loading a whole file puts every entry into the store that is live.
LEMMA WholeLoads ==
  ASSUME NEW v \in Seq(Sound), NEW count \in Nat, NEW t \in Int
  PROVE  Load(File(count, v), t) = Only(v, Live(t))
<1> DEFINE f == File(count, v)
           n == Len(f)
           l == Len(v)
           p == Parsed(f, t)
           read(i) == IF i - 1 <= l THEN i - 1 ELSE l
           P == {i \in 0..n : i # 0 => p[i] = At(v, read(i), t)}
<1>1. /\ f \in Seq(Tokens) /\ n \in Nat /\ DOMAIN f = 1..n /\ l \in Nat /\ l < n - 1 /\ 8 <= n
      /\ f[1] = Opcode("REDIS")
  <2>1. Len(Body(v)) \in Nat /\ n = 8 + Len(Body(v)) /\ l \in Nat /\ l <= Len(Body(v)) /\ f \in Seq(Tokens)
    BY FileTokens, LenProperties, BodyIsLong
  <2>2. DOMAIN f = 1..n
    BY <2>1, LenProperties
  <2>3. f[1] = Opcode("REDIS")
    BY FileTokens
  <2> QED
    BY <2>1, <2>2, <2>3
<1>2. p = [i \in 0..n |-> OneParsed(f, p, i, t)]
  BY <1>1, ParsedUnfolds
<1>3. n \in 0..Len(File(count, v)) /\ \A i \in 1..n : f[i] = File(count, v)[i]
  BY <1>1
<1>4. ~ (n < Len(File(count, v)))
  BY <1>1
<1> HIDE DEF p, f, n, l
<1>5. 0 \in P
  BY <1>1
<1>6. ASSUME NEW i \in 0..(n - 1), i \in P
      PROVE  i + 1 \in P
  <2>1. i + 1 \in 0..n /\ i + 1 # 0 /\ (i + 1) - 1 = i
    BY <1>1
  <2>2. p[i + 1] = IF i = 0 THEN Turn(f, [cursor |-> 2, entries |-> << >>], t) ELSE Turn(f, p[i], t)
    <3>1. p[i + 1] = Turn(f, p[i], t)
      BY <1>2, <2>1 DEF OneParsed
    <3>2. i = 0 => p[i] = [cursor |-> 2, entries |-> << >>]
      BY <1>1, <1>2 DEF OneParsed
    <3> QED
      BY <3>1, <3>2
  <2>3. CASE i = 0
    <3> DEFINE first == [cursor |-> 2, entries |-> << >>]
    <3>1. first = [cursor |-> 2, entries |-> << >>] /\ 6 <= n
      BY <1>1
    <3> HIDE DEF first
    <3>2. Turn(f, first, t) = [cursor |-> 7, entries |-> << >>]
      <4>1. DOMAIN f = 1..n
        BY <1>1
      <4>2. IF 6 <= n THEN Turn(f, first, t) = [cursor |-> 7, entries |-> << >>]
            ELSE /\ Turn(f, first, t).entries = << >>
                 /\ Turn(f, Turn(f, first, t), t) = Turn(f, first, t)
        BY <1>3, <3>1, <4>1, TurnOnSelector
      <4> QED
        BY <3>1, <4>2
    <3>3. read(i + 1) = 0
      BY <1>1, <2>3
    <3> QED
      BY <2>1, <2>2, <2>3, <3>2, <3>3, AtFirst DEF first
  <2>4. CASE i # 0
    <3> DEFINE k == read(i)
    <3>1. k \in 0..l /\ (k < l => read(i + 1) = k + 1) /\ (~ (k < l) => read(i + 1) = k)
      BY <1>1, <2>4
    <3>2. p[i] = At(v, k, t)
      BY <1>6, <2>4
    <3> HIDE DEF k
    <3>3. \/ k < l /\ Turn(f, At(v, k, t), t) = At(v, k + 1, t)
          \/ /\ Turn(f, At(v, k, t), t) = At(v, k, t)
             /\ k < l => n < Len(File(count, v))
      BY <1>1, <1>3, <3>1, TurnOnFile DEF l
    <3>4. Turn(f, p[i], t) = At(v, read(i + 1), t)
      BY <1>4, <3>1, <3>2, <3>3
    <3> QED
      BY <2>1, <2>2, <2>4, <3>4
  <2> QED
    BY <2>3, <2>4
<1> HIDE DEF P
<1>7. n \in P
  <2>1. \A i \in 0..n : i \in P
    BY <1>1, <1>5, <1>6, InductionUpTo
  <2>2. n \in 0..n
    BY <1>1
  <2> QED
    BY <2>1, <2>2
<1>8. p[n] = At(v, l, t)
  <2>1. n # 0 /\ read(n) = l
    BY <1>1
  <2> QED
    BY <1>7, <2>1 DEF P
<1>9. SubSeq(v, 1, l) = v
  BY SubSeqFull DEF l
<1>10. Reads(f, 1, "REDIS")
  <2>1. 1 \in DOMAIN f /\ f[1].op = "REDIS"
    BY <1>1 DEF Opcode
  <2> QED
    BY <2>1 DEF Reads
<1>11. p[n].entries = Only(v, Live(t))
  <2>1. At(v, l, t).entries = Only(SubSeq(v, 1, l), Live(t))
    BY DEF At
  <2> QED
    BY <1>8, <1>9, <2>1, Zenon
<1> QED
  BY <1>10, <1>11, LoadIsParsed DEF p, n, f

-----------------------------------------------------------------------------
(* Stores are maps.                                                        *)

\* No two entries of s have the same key.
IsMap(s) == s \in Seq(Entries) /\ \A m, n \in DOMAIN s : s[m].key = s[n].key => m = n

\* An entry can be added to a map that does not have its key.
LEMMA MapOfAppend ==
  ASSUME NEW s \in Seq(Entries), NEW e \in Entries
  PROVE  IsMap(Append(s, e)) <=> IsMap(s) /\ \A d \in ToSet(s) : d.key # e.key
<1> DEFINE l == Len(s)
           w == Append(s, e)
<1>1. /\ l \in Nat /\ DOMAIN s = 1..l /\ DOMAIN w = 1..(l + 1) /\ w \in Seq(Entries) /\ w[l + 1] = e
      /\ \A n \in 1..l : w[n] = s[n]
  BY LenProperties, AppendProperties
<1>2. ToSet(s) = {s[n] : n \in 1..l}
  BY <1>1 DEF ToSet
<1>3. /\ \A n \in 1..l : n \in 1..(l + 1) /\ n # l + 1
      /\ l + 1 \in 1..(l + 1)
      /\ \A n \in 1..(l + 1) : n \in 1..l \/ n = l + 1
  BY <1>1
<1> HIDE DEF l, w
<1>4. ASSUME IsMap(w)
      PROVE  IsMap(s) /\ \A d \in ToSet(s) : d.key # e.key
  BY <1>1, <1>2, <1>3, <1>4 DEF IsMap
<1>5. ASSUME IsMap(s), \A d \in ToSet(s) : d.key # e.key
      PROVE  IsMap(w)
  BY <1>1, <1>2, <1>3, <1>5 DEF IsMap
<1> QED
  BY <1>4, <1>5 DEF w

\* Nothing is a map.
LEMMA EmptyMap == IsMap(<< >>)
BY EmptySeq DEF IsMap

\* Some entries of a map are a map.
LEMMA MapOfOnly ==
  ASSUME NEW s, IsMap(s), NEW S
  PROVE  IsMap(Only(s, S))
<1> DEFINE P == {q \in Seq(Entries) : IsMap(q) => IsMap(Only(q, S))}
<1>1. << >> \in P
  BY EmptySeq, OnlyEmpty, EmptyMap
<1>2. ASSUME NEW q \in Seq(Entries), NEW e \in Entries, q \in P
      PROVE  Append(q, e) \in P
  <2> DEFINE o == Only(q, S)
  <2>1. Append(q, e) \in Seq(Entries) /\ o \in Seq(Entries) /\ ToSet(o) \subseteq ToSet(q)
    BY AppendProperties, OnlyMembers
  <2>2. Only(Append(q, e), S) = IF e \in S THEN Append(o, e) ELSE o
    BY OnlyOfAppend
  <2> HIDE DEF o
  <2>3. ASSUME IsMap(Append(q, e))
        PROVE  IsMap(Only(Append(q, e), S))
    <3>1. IsMap(q) /\ \A d \in ToSet(q) : d.key # e.key
      BY <2>3, MapOfAppend
    <3>2. IsMap(o)
      BY <1>2, <3>1 DEF o
    <3>3. IsMap(Append(o, e))
      BY <2>1, <3>1, <3>2, MapOfAppend
    <3> QED
      BY <2>2, <3>2, <3>3
  <2> QED
    BY <2>1, <2>3
<1> HIDE DEF P
<1>3. s \in Seq(Entries)
  BY DEF IsMap
<1>4. s \in P
  BY <1>1, <1>2, <1>3, ListInduction
<1> QED
  BY <1>4 DEF P

\* So are its first ones.
LEMMA MapOfFirst ==
  ASSUME NEW s, IsMap(s), NEW k \in 0..Len(s)
  PROVE  IsMap(SubSeq(s, 1, k))
<1>1. s \in Seq(Entries) /\ Len(s) \in Nat /\ DOMAIN s = 1..Len(s)
  BY LenProperties DEF IsMap
<1> DEFINE w == SubSeq(s, 1, k)
<1>2. w \in Seq(Entries) /\ DOMAIN w = 1..k /\ \A i \in 1..k : w[i] = s[i]
  BY <1>1
<1>3. \A i \in 1..k : i \in 1..Len(s)
  BY <1>1
<1> HIDE DEF w
<1>4. IsMap(w)
  BY <1>1, <1>2, <1>3 DEF IsMap
<1> QED
  BY <1>4 DEF w

\* Map.set leaves a map.
LEMMA MapOfPut ==
  ASSUME NEW s, IsMap(s), NEW e \in Entries
  PROVE  IsMap(Put(s, e))
<1>1. s \in Seq(Entries) /\ Len(s) \in Nat /\ DOMAIN s = 1..Len(s) /\ \A n \in 1..Len(s) : s[n] \in Entries
  BY LenProperties, ElementOfSeq DEF IsMap
<1>2. CASE \E n \in DOMAIN s : s[n].key = e.key
  <2> DEFINE w == [n \in DOMAIN s |-> IF s[n].key = e.key THEN e ELSE s[n]]
  <2>1. Put(s, e) = w
    BY <1>2 DEF Put
  <2>2. w \in Seq(Entries)
    <3>1. \A n \in 1..Len(s) : (IF s[n].key = e.key THEN e ELSE s[n]) \in Entries
      BY <1>1
    <3> QED
      BY <1>1, <3>1, IsASeq
  <2>3. DOMAIN w = DOMAIN s /\ \A n \in DOMAIN s : w[n].key = s[n].key
    OBVIOUS
  <2> HIDE DEF w
  <2> QED
    BY <2>1, <2>2, <2>3 DEF IsMap
<1>3. CASE ~ \E n \in DOMAIN s : s[n].key = e.key
  <2>1. Put(s, e) = Append(s, e)
    BY <1>3 DEF Put
  <2>2. \A d \in ToSet(s) : d.key # e.key
    BY <1>3 DEF ToSet
  <2> QED
    BY <1>1, <2>1, <2>2, MapOfAppend
<1> QED
  BY <1>2, <1>3

-----------------------------------------------------------------------------
(* What SAVE wrote.                                                        *)

\* The strings that have not expired at time t.
Current(t) == {e \in Strings : ~ Reached(e.expiration, t)}

\* A sequence is one of whatever all its members belong to.
LEMMA MembersAre ==
  ASSUME NEW T, NEW S, NEW s \in Seq(T), ToSet(s) \subseteq S
  PROVE  s \in Seq(S)
<1>1. Len(s) \in Nat /\ DOMAIN s = 1..Len(s) /\ s = [i \in 1..Len(s) |-> s[i]]
  BY LenProperties
<1>2. \A i \in 1..Len(s) : s[i] \in S
  BY <1>1 DEF ToSet
<1>3. [i \in 1..Len(s) |-> s[i]] \in Seq(S)
  BY <1>1, <1>2, IsASeq
<1> QED
  BY <1>1, <1>3

\* Of the strings of a store, what is written of the store.
LEMMA WrittenOfStrings ==
  ASSUME NEW s \in Seq(Entries), NEW t
  PROVE  /\ Written(Only(s, Strings), t) = Written(s, t)
         /\ Only(s, Strings) \in Seq(Strings)
         /\ Written(s, t) \in Seq(Entries)
<1>1. Strings \cap Current(t) = Current(t)
  BY DEF Current
<1>2. Only(Only(s, Strings), Current(t)) = Only(s, Current(t))
  BY <1>1, OnlyTwice
<1>3. /\ Only(s, Strings) \in Seq(Entries) /\ ToSet(Only(s, Strings)) \subseteq Strings
      /\ Only(s, Current(t)) \in Seq(Entries)
  BY OnlyMembers
<1> QED
  BY <1>2, <1>3, MembersAre DEF Written, Current

\* When buildRDB does not throw, all it writes can be read.
LEMMA WrittenIsSound ==
  ASSUME NEW s \in Seq(Entries), NEW t, ~ Throws(s, t)
  PROVE  Written(s, t) \in Seq(Sound)
<1>1. Written(s, t) \in Seq(Entries) /\ ToSet(Written(s, t)) \subseteq Strings
  BY OnlyMembers DEF Written
<1>2. \A e \in ToSet(Written(s, t)) : e.expiration # Invalid
  BY DEF Throws
<1>3. ToSet(Written(s, t)) \subseteq Sound
  BY <1>1, <1>2 DEF Sound
<1> QED
  BY <1>1, <1>3, MembersAre

\* What lasts of what was written at an earlier time is what lasts of all.
LEMMA LastingOfWritten ==
  ASSUME NEW s \in Seq(Strings), NEW t \in Int, NEW u \in Int, t <= u
  PROVE  Only(Written(s, t), Live(u)) = Lasting(s, u)
<1>1. Only(Written(s, t), Live(u)) = Only(s, Current(t) \cap Live(u))
  BY OnlyTwice DEF Written, Current
<1>2. ToSet(s) \cap (Current(t) \cap Live(u)) = ToSet(s) \cap Live(u)
  <2> SUFFICES ASSUME NEW e \in ToSet(s), e \in Live(u)
               PROVE  e \in Current(t)
    OBVIOUS
  <2>1. e \in Strings
    BY ToSetInBase
  <2>2. e.expiration \in Instants \cup {Never, Invalid}
    BY <2>1 DEF Strings
  <2>3. CASE e.expiration \in {Never, Invalid}
    BY <2>1, <2>3 DEF Current, Reached
  <2>4. CASE e.expiration \notin {Never, Invalid}
    <3>1. e.expiration \in Int /\ e.expiration > u
      BY <2>2, <2>4, ConstantsAssumption DEF Live
    <3>2. ~ (e.expiration <= t)
      BY <3>1
    <3> QED
      BY <2>1, <3>2 DEF Current, Reached
  <2> QED
    BY <2>3, <2>4
<1>3. Only(s, Current(t) \cap Live(u)) = Only(s, Live(u))
  BY <1>2, OnlySame
<1> QED
  BY <1>1, <1>3 DEF Lasting, Live

\* The first part of a filter is a filter of the first part.
LEMMA OnlyOfFirst ==
  ASSUME NEW T, NEW S, NEW s \in Seq(T), NEW k \in 0..Len(s)
  PROVE  IsPrefix(Only(SubSeq(s, 1, k), S), Only(s, S))
<1> DEFINE a == SubSeq(s, 1, k)
           b == SubSeq(s, k + 1, Len(s))
<1>1. Len(s) \in Nat
  BY LenProperties
<1>2. a \in Seq(T) /\ b \in Seq(T) /\ s = a \o b
  <2>1. a \in Seq(T) /\ b \in Seq(T) /\ Len(a) = k /\ Len(b) = Len(s) - k
        /\ (\A i \in 1..k : a[i] = s[i]) /\ \A i \in 1..(Len(s) - k) : b[i] = s[k + i]
    BY <1>1
  <2> HIDE DEF a, b
  <2>2. /\ a \o b \in Seq(T) /\ Len(a \o b) = Len(s)
        /\ \A i \in 1..Len(s) : (a \o b)[i] = IF i <= k THEN a[i] ELSE b[i - k]
    BY <1>1, <2>1, ConcatProperties
  <2>3. \A i \in 1..Len(s) : (a \o b)[i] = s[i]
    <3> SUFFICES ASSUME NEW i \in 1..Len(s)
                 PROVE  (IF i <= k THEN a[i] ELSE b[i - k]) = s[i]
      BY <2>2
    <3>1. i <= k => i \in 1..k
      BY <1>1
    <3>2. ~ (i <= k) => i - k \in 1..(Len(s) - k) /\ k + (i - k) = i
      BY <1>1
    <3> QED
      BY <2>1, <3>1, <3>2
  <2> QED
    BY <2>1, <2>2, <2>3, SeqEqual
<1> HIDE DEF a, b
<1> DEFINE c == Only(a, S)
           d == Only(b, S)
<1> HIDE DEF c, d
<1>3. c \in Seq(T) /\ d \in Seq(T) /\ Only(s, S) = c \o d
  <2>1. c \in Seq(T) /\ d \in Seq(T)
    BY <1>2, OnlyMembers DEF c, d
  <2>2. Only(a \o b, S) = Only(a, S) \o Only(b, S)
    BY <1>2, OnlyOfConcat
  <2> QED
    BY <1>2, <2>1, <2>2, Zenon DEF c, d
<1>4. IsPrefix(c, c \o d)
  <2>1. /\ c \o d \in Seq(T) /\ Len(c \o d) = Len(c) + Len(d) /\ Len(c) \in Nat /\ Len(d) \in Nat
        /\ \A i \in 1..(Len(c) + Len(d)) : (c \o d)[i] = IF i <= Len(c) THEN c[i] ELSE d[i - Len(c)]
    BY <1>3, ConcatProperties, LenProperties
  <2>2. SubSeq(c, 1, Len(c)) = c
    BY <1>3, SubSeqFull
  <2> DEFINE e == c \o d
             l == Len(c)
  <2> HIDE DEF e, l
  <2>3. e \in Seq(T) /\ l \in Nat /\ l \in 0..Len(e) /\ Len(e) \in Nat /\ \A i \in 1..l : e[i] = c[i]
    BY <2>1 DEF e, l
  <2>4. /\ SubSeq(e, 1, l) \in Seq(T) /\ Len(SubSeq(e, 1, l)) = l
        /\ \A i \in 1..l : SubSeq(e, 1, l)[i] = e[i]
    BY <2>3
  <2>5. SubSeq(e, 1, l) = c
    BY <1>3, <2>3, <2>4, SeqEqual DEF l
  <2> QED
    BY <2>2, <2>3, <2>5 DEF IsPrefix, e, l
<1> QED
  BY <1>3, <1>4 DEF c, a

-----------------------------------------------------------------------------
(* The invariant.                                                          *)

\* The dump is what was written, up to where the write ended, of the file
\* that buildRDB made at some time before.
SavedAt(t) ==
  /\ Written(snapshot, t) \in Seq(Sound)
  /\ \E count \in Nat, n \in Nat :
       LET file == File(count, Written(snapshot, t))
       IN  n <= Len(file) /\ dump = SubSeq(file, 1, n) /\ (cut <=> n < Len(file))

\* There is no dump, or it is what was saved.
SavedInv ==
  /\ snapshot \in Seq(Strings)
  /\ \/ dump = << >> /\ snapshot = << >> /\ ~ cut
     \/ \E t \in 0..now : SavedAt(t)

\* The inductive invariant behind RestartRestores and CutRestoresPart.
DumpInv == TypeOK /\ SavedInv

\* The first n tokens of a file load some of its first entries.
LEMMA LoadOfCut ==
  ASSUME NEW v \in Seq(Sound), NEW count \in Nat, NEW n \in 0..Len(File(count, v)), NEW t \in Int
  PROVE  \E k \in 0..Len(v) : Load(SubSeq(File(count, v), 1, n), t) = Only(SubSeq(v, 1, k), Live(t))
<1> DEFINE f == SubSeq(File(count, v), 1, n)
<1>1. Len(f) = n /\ DOMAIN f = 1..n /\ \A i \in 1..n : f[i] = File(count, v)[i]
  BY FileTokens, CutTokens
<1> HIDE DEF f
<1>2. \E k \in 0..Len(v) : Load(f, t) = Only(SubSeq(v, 1, k), Live(t))
  BY ZenonT(30), <1>1, CutLoads
<1> QED
  BY <1>2 DEF f

\* No file, or an empty one, loads nothing.
LEMMA LoadOfNothing ==
  ASSUME NEW t
  PROVE  Load(<< >>, t) = << >>
<1>1. ~ Reads(<< >>, 1, "REDIS")
  BY DEF Reads
<1> QED
  BY <1>1, LoadIsParsed

\* What a dump loads.
LEMMA LoadIsMap ==
  ASSUME DumpInv
  PROVE  IsMap(Load(dump, now))
<1>1. now \in Int /\ snapshot \in Seq(Entries) /\ IsMap(snapshot)
  BY DEF DumpInv, TypeOK, IsMap
<1>2. CASE dump = << >>
  BY <1>2, LoadOfNothing, EmptyMap
<1>3. ASSUME NEW t \in 0..now, SavedAt(t)
      PROVE  IsMap(Load(dump, now))
  <2> DEFINE v == Written(snapshot, t)
  <2>1. v \in Seq(Sound) /\ IsMap(v)
    BY <1>1, <1>3, MapOfOnly DEF SavedAt, Written
  <2> HIDE DEF v
  <2>2. PICK count \in Nat, n \in Nat : n <= Len(File(count, v)) /\ dump = SubSeq(File(count, v), 1, n)
    BY <1>3 DEF SavedAt, v
  <2>3. n \in 0..Len(File(count, v))
    BY <2>1, <2>2, FileTokens
  <2>4. PICK k \in 0..Len(v) : Load(dump, now) = Only(SubSeq(v, 1, k), Live(now))
    BY <1>1, <2>1, <2>2, <2>3, LoadOfCut
  <2> QED
    BY <2>1, <2>4, MapOfFirst, MapOfOnly
<1> QED
  BY <1>2, <1>3 DEF DumpInv, SavedInv

\* What a dump loads, when all of it was written and when not.
LEMMA LoadRestores ==
  ASSUME DumpInv
  PROVE  RestartRestores /\ CutRestoresPart
<1>1. now \in Int /\ snapshot \in Seq(Strings) /\ snapshot \in Seq(Entries)
  BY DEF DumpInv, TypeOK, SavedInv
<1>2. CASE dump = << >> /\ snapshot = << >> /\ ~ cut
  <2>1. Lasting(<< >>, now) = << >>
    BY OnlyEmpty DEF Lasting
  <2> QED
    BY <1>2, <2>1, LoadOfNothing DEF RestartRestores, CutRestoresPart
<1>3. ASSUME NEW t \in 0..now, SavedAt(t)
      PROVE  RestartRestores /\ CutRestoresPart
  <2> DEFINE v == Written(snapshot, t)
  <2>1. v \in Seq(Sound)
    BY <1>3 DEF SavedAt
  <2>2. Only(v, Live(now)) = Lasting(snapshot, now)
    BY <1>1, LastingOfWritten
  <2> HIDE DEF v
  <2>3. PICK count \in Nat, n \in Nat :
          /\ n <= Len(File(count, v))
          /\ dump = SubSeq(File(count, v), 1, n)
          /\ cut <=> n < Len(File(count, v))
    BY <1>3 DEF SavedAt, v
  <2>4. n \in 0..Len(File(count, v)) /\ File(count, v) \in Seq(Tokens) /\ Len(File(count, v)) \in Nat
    BY <2>1, <2>3, FileTokens
  <2>5. ASSUME ~ cut
        PROVE  Load(dump, now) = Lasting(snapshot, now)
    <3>1. n = Len(File(count, v))
      BY <2>3, <2>4, <2>5
    <3>2. dump = File(count, v)
      BY <2>3, <2>4, <3>1, SubSeqFull
    <3> QED
      BY <1>1, <2>1, <2>2, <3>2, WholeLoads
  <2>6. IsPrefix(Load(dump, now), Lasting(snapshot, now))
    <3>1. PICK k \in 0..Len(v) : Load(dump, now) = Only(SubSeq(v, 1, k), Live(now))
      BY <1>1, <2>1, <2>3, <2>4, LoadOfCut
    <3>2. IsPrefix(Only(SubSeq(v, 1, k), Live(now)), Only(v, Live(now)))
      BY <2>1, OnlyOfFirst
    <3> QED
      BY <2>2, <3>1, <3>2
  <2> QED
    BY <2>5, <2>6 DEF RestartRestores, CutRestoresPart
<1> QED
  BY <1>2, <1>3 DEF DumpInv, SavedInv

\* The dump of a new server.
LEMMA InitDump == Init => DumpInv
<1> SUFFICES ASSUME Init
             PROVE  DumpInv
  OBVIOUS
<1>1. << >> \in Seq(Entries) /\ << >> \in Seq(Strings) /\ << >> \in Seq(Tokens)
  BY EmptySeq
<1>2. store = << >> /\ snapshot = << >> /\ dump = << >> /\ up = TRUE /\ now = 0 /\ cut = FALSE
  BY DEF Init
<1>3. IsMap(store) /\ IsMap(snapshot)
  BY <1>2, EmptyMap
<1>4. 0 \in 0..MaxTime
  BY ConstantsAssumption
<1>5. TypeOK
  BY <1>1, <1>2, <1>3, <1>4, Zenon DEF TypeOK, IsMap
<1> QED
  BY <1>1, <1>2, <1>5, Zenon DEF DumpInv, SavedInv

\* Steps that do not touch the dump.
LEMMA StoreChanges ==
  ASSUME DumpInv, IsMap(store'), up' \in BOOLEAN, UNCHANGED <<now, dump, snapshot, cut>>
  PROVE  DumpInv'
<1>1. TypeOK'
  BY DEF DumpInv, TypeOK, IsMap
<1>2. SavedInv'
  BY DEF DumpInv, SavedInv, SavedAt
<1> QED
  BY <1>1, <1>2 DEF DumpInv

\* SAVE, whether all of it is written or not, and whether the process survives it.
LEMMA SaveWritesIt ==
  ASSUME DumpInv, Save
  PROVE  DumpInv'
<1> DEFINE v == Written(store, now)
           file == File(Len(store), v)
<1>1. now \in 0..MaxTime /\ store \in Seq(Entries) /\ IsMap(store) /\ Len(store) \in Nat
  BY LenProperties DEF DumpInv, TypeOK, IsMap
<1>2. v \in Seq(Sound)
  BY <1>1, WrittenIsSound DEF Save
<1>3. file \in Seq(Tokens) /\ Len(file) \in Nat
  BY <1>1, <1>2, FileTokens
<1>4. RDB(store, now) = file
  BY DEF RDB, File, Header, Body, Trailer
<1>5. PICK n \in 0..Len(file) : SaveUpTo(file, n)
  BY <1>4, Zenon DEF Save
<1>6. /\ dump' = SubSeq(file, 1, n) /\ (cut' <=> n < Len(file)) /\ up' \in BOOLEAN
      /\ cut' \in BOOLEAN /\ now' = now /\ store' = store
      /\ snapshot' = Only(store, Strings)
  <2>1. /\ dump' = SubSeq(file, 1, n) /\ cut' = (n < Len(file)) /\ up' \in {TRUE, n = Len(file)}
        /\ now' = now /\ store' = store /\ snapshot' = Only(store, Strings)
    BY <1>5, Zenon DEF SaveUpTo
  <2>2. up' \in BOOLEAN /\ cut' \in BOOLEAN /\ (cut' <=> n < Len(file))
    <3> DEFINE l == Len(file)
    <3>1. l \in Nat /\ n \in 0..l /\ cut' = (n < l) /\ (up' = TRUE \/ up' = (n = l))
      BY <1>3, <2>1, Zenon
    <3> HIDE DEF l
    <3>2. (n < l) \in BOOLEAN /\ (n = l) \in BOOLEAN
      BY <3>1
    <3>3. up' \in BOOLEAN /\ cut' \in BOOLEAN /\ (cut' <=> n < l)
      BY <3>1, <3>2, Zenon
    <3> QED
      BY <3>3 DEF l
  <2> QED
    BY <2>1, <2>2, Zenon
<1>7. Written(snapshot', now) = v /\ snapshot' \in Seq(Strings)
  BY <1>1, <1>6, WrittenOfStrings
<1>8. SavedAt(now)'
  <2> HIDE DEF v
  <2>1. Written(snapshot', now') \in Seq(Sound)
    BY <1>2, <1>6, <1>7
  <2>2. n \in Nat /\ n <= Len(file)
    BY <1>3
  <2>3. file = File(Len(store), Written(snapshot', now'))
    BY <1>6, <1>7
  <2> HIDE DEF file
  <2> QED
    BY <1>1, <1>6, <2>1, <2>2, <2>3 DEF SavedAt
<1>9. TypeOK'
  <2>1. IsMap(snapshot')
    BY <1>1, <1>6, MapOfOnly
  <2>2. dump' \in Seq(Tokens)
    BY <1>3, <1>6, CutTokens
  <2> HIDE DEF v, file
  <2> QED
    BY <1>1, <1>6, <2>1, <2>2 DEF TypeOK, IsMap
<1>10. SavedInv'
  <2> HIDE DEF v, file
  <2>1. now' \in 0..now'
    BY <1>1, <1>6
  <2> QED
    BY <1>7, <1>8, <2>1 DEF SavedInv
<1> QED
  BY <1>9, <1>10 DEF DumpInv

\* The older the dump, the more of it has expired.
LEMMA TickKeepsDump ==
  ASSUME DumpInv, Tick
  PROVE  DumpInv'
<1>1. TypeOK'
  BY ConstantsAssumption DEF DumpInv, TypeOK, Tick
<1>2. \A t \in 0..now : t \in 0..now'
  BY DEF DumpInv, TypeOK, Tick
<1>3. \A t : SavedAt(t) => SavedAt(t)'
  BY DEF Tick, SavedAt
<1>4. SavedInv'
  BY <1>2, <1>3 DEF DumpInv, SavedInv, Tick
<1> QED
  BY <1>1, <1>4 DEF DumpInv

\* Each step.
LEMMA NextDump == DumpInv /\ [Next]_vars => DumpInv'
<1> SUFFICES ASSUME DumpInv, [Next]_vars
             PROVE  DumpInv'
  OBVIOUS
<1>1. IsMap(store) /\ up \in BOOLEAN
  BY DEF DumpInv, TypeOK, IsMap
<1>2. CASE UNCHANGED vars
  BY <1>1, <1>2, StoreChanges DEF vars
<1>3. ASSUME NEW e \in Entries, Write(e)
      PROVE  DumpInv'
  <2>1. IsMap(store')
    BY <1>1, <1>3, MapOfPut DEF Write
  <2> QED
    BY <1>1, <1>3, <2>1, StoreChanges DEF Write
<1>4. ASSUME NEW k \in Keys, Delete(k)
      PROVE  DumpInv'
  <2>1. IsMap(store')
    BY <1>1, <1>4, MapOfOnly DEF Delete, Without
  <2> QED
    BY <1>1, <1>4, <2>1, StoreChanges DEF Delete
<1>5. CASE SaveFails
  BY <1>1, <1>5, StoreChanges DEF SaveFails, vars
<1>6. CASE Save
  BY <1>6, SaveWritesIt
<1>7. CASE Crash
  BY <1>1, <1>7, StoreChanges DEF Crash
<1>8. CASE Restart
  <2>1. IsMap(store')
    BY <1>8, LoadIsMap DEF Restart
  <2> QED
    BY <1>8, <2>1, StoreChanges DEF Restart
<1>9. CASE Tick
  BY <1>9, TickKeepsDump
<1> QED
  BY <1>2, <1>3, <1>4, <1>5, <1>6, <1>7, <1>8, <1>9 DEF Next

\* The dump is always the file of some earlier store, or the start of it.
THEOREM DumpInvariance == Spec => []DumpInv
<1>1. Init => DumpInv
  BY InitDump
<1>2. DumpInv /\ [Next]_vars => DumpInv'
  BY NextDump
<1> QED
  BY <1>1, <1>2, PTL DEF Spec

\* Type correctness: neither the store nor what was saved of it ever has two
\* entries of one key, also after a restart that parsed a damaged dump.
THEOREM StoreIsAMap == Spec => []TypeOK
<1>1. DumpInv => TypeOK
  BY DEF DumpInv
<1> QED
  BY <1>1, DumpInvariance, PTL

\* A restart, however late, gives back what a SAVE that answered OK saved and
\* that has not expired, in its order: what RDBParser reads is what RDBWriter
\* wrote.  A later SAVE changes that only when it writes to the file.
THEOREM SavedIsRestored == Spec => []RestartRestores
<1>1. DumpInv => RestartRestores
  BY LoadRestores
<1> QED
  BY <1>1, DumpInvariance, PTL

\* A restart after a SAVE that the process did not survive, or that answered an
\* error after it had truncated the file, gives back the first of the entries
\* that were to be saved, whole.
THEOREM CutIsRestoredInPart == Spec => []CutRestoresPart
<1>1. DumpInv => CutRestoresPart
  BY LoadRestores
<1> QED
  BY <1>1, DumpInvariance, PTL

-----------------------------------------------------------------------------
(* The store and its dump are the set of entries that a user of SAVE sees. *)

\* Map.set changes the members as a write does: what the key had is gone.
LEMMA MembersOfPut ==
  ASSUME NEW s, IsMap(s), NEW e \in Entries
  PROVE  ToSet(Put(s, e)) = User!Without(ToSet(s), e.key) \cup {e}
<1>1. s \in Seq(Entries) /\ Len(s) \in Nat /\ DOMAIN s = 1..Len(s)
  BY LenProperties DEF IsMap
<1>2. CASE \E n \in DOMAIN s : s[n].key = e.key
  <2> DEFINE w == [n \in DOMAIN s |-> IF s[n].key = e.key THEN e ELSE s[n]]
  <2>1. Put(s, e) = w
    BY <1>2 DEF Put
  <2>2. DOMAIN w = DOMAIN s /\ \A n \in DOMAIN s : w[n] = IF s[n].key = e.key THEN e ELSE s[n]
    OBVIOUS
  <2> HIDE DEF w
  <2>3. ASSUME NEW x \in ToSet(w)
        PROVE  x = e \/ x \in User!Without(ToSet(s), e.key)
    BY <2>2, <2>3 DEF ToSet, User!Without
  <2>4. e \in ToSet(w)
    BY <1>2, <2>2 DEF ToSet
  <2>5. ASSUME NEW x \in User!Without(ToSet(s), e.key)
        PROVE  x \in ToSet(w)
    BY <2>2, <2>5 DEF ToSet, User!Without
  <2> QED
    BY <2>1, <2>3, <2>4, <2>5
<1>3. CASE ~ \E n \in DOMAIN s : s[n].key = e.key
  <2>1. Put(s, e) = Append(s, e)
    BY <1>3 DEF Put
  <2>2. ToSet(Append(s, e)) = ToSet(s) \cup {e}
    BY <1>1, AppendToList
  <2>3. User!Without(ToSet(s), e.key) = ToSet(s)
    BY <1>3 DEF ToSet, User!Without
  <2> QED
    BY <2>1, <2>2, <2>3
<1> QED
  BY <1>2, <1>3

\* DEL changes the members as a deletion does.
LEMMA MembersOfWithout ==
  ASSUME NEW s \in Seq(Entries), NEW k
  PROVE  ToSet(Without(s, k)) = User!Without(ToSet(s), k)
<1>1. ToSet(Without(s, k)) = ToSet(s) \cap {e \in Entries : e.key # k}
  BY OnlyMembers DEF Without
<1>2. ToSet(s) \subseteq Entries
  BY ToSetInBase
<1> QED
  BY <1>1, <1>2 DEF User!Without

\* What of a sequence is to last is what of its members is live.
LEMMA MembersOfLasting ==
  ASSUME NEW s \in Seq(Entries), NEW t
  PROVE  /\ ToSet(Lasting(s, t)) = User!Live(ToSet(s), t)
         /\ Lasting(s, t) \in Seq(Entries)
<1>1. /\ ToSet(Lasting(s, t))
           = ToSet(s) \cap {e \in Entries : e.expiration \in {Never, Invalid} \/ e.expiration > t}
      /\ Lasting(s, t) \in Seq(Entries)
  BY OnlyMembers DEF Lasting
<1>2. ToSet(s) \subseteq Entries
  BY ToSetInBase
<1> QED
  BY <1>1, <1>2 DEF User!Live

\* A prefix has no other members.
LEMMA MembersOfPrefix ==
  ASSUME NEW T, NEW s \in Seq(T), NEW t \in Seq(T), IsPrefix(s, t)
  PROVE  ToSet(s) \subseteq ToSet(t)
<1>1. /\ Len(s) \in Nat /\ DOMAIN s = 1..Len(s)
      /\ Len(t) \in Nat /\ DOMAIN t = 1..Len(t)
      /\ Len(s) <= Len(t) /\ SubSeq(s, 1, Len(s)) = SubSeq(t, 1, Len(s))
  BY LenProperties DEF IsPrefix
<1>2. SubSeq(s, 1, Len(s)) = s
  BY SubSeqFull
<1>3. \A i \in 1..Len(s) : SubSeq(t, 1, Len(s))[i] = t[i]
  BY <1>1
<1>4. \A i \in DOMAIN s : i \in DOMAIN t /\ s[i] = t[i]
  BY <1>1, <1>2, <1>3
<1> QED
  BY <1>4 DEF ToSet

\* A restart loads the strings that were saved and are live, or some of them.
LEMMA RestartRefines ==
  ASSUME DumpInv, Restart
  PROVE  User!Restart
<1>1. /\ store' = Load(dump, now) /\ up = FALSE /\ up' = TRUE
      /\ UNCHANGED <<now, dump, snapshot, cut>>
      /\ snapshot \in Seq(Entries) /\ cut \in BOOLEAN
  BY DEF DumpInv, TypeOK, Restart
<1>2. /\ ToSet(Lasting(snapshot, now)) = User!Live(ToSet(snapshot), now)
      /\ Lasting(snapshot, now) \in Seq(Entries)
  BY <1>1, MembersOfLasting
<1>3. RestartRestores /\ CutRestoresPart
  BY LoadRestores
<1>4. CASE ~ cut
  <2>1. store' = Lasting(snapshot, now)
    BY <1>1, <1>3, <1>4 DEF RestartRestores
  <2> QED
    BY <1>1, <1>2, <2>1 DEF User!Restart
<1>5. CASE cut
  <2>1. IsPrefix(store', Lasting(snapshot, now))
    BY <1>1, <1>3, <1>5 DEF CutRestoresPart
  <2>2. store' \in Seq(Entries)
    BY <1>1, LoadIsMap DEF IsMap
  <2>3. ToSet(store') \subseteq ToSet(Lasting(snapshot, now))
    BY <1>2, <2>1, <2>2, MembersOfPrefix
  <2> QED
    BY <1>1, <1>2, <1>5, <2>3 DEF User!Restart
<1> QED
  BY <1>1, <1>4, <1>5

\* What buildRDB made has a length.
LEMMA FileHasLength ==
  ASSUME DumpInv, Save
  PROVE  Len(RDB(store, now)) \in Nat
<1> DEFINE v == Written(store, now)
           file == File(Len(store), v)
<1>1. store \in Seq(Entries) /\ Len(store) \in Nat /\ v \in Seq(Sound)
  BY LenProperties, WrittenIsSound DEF DumpInv, TypeOK, Save
<1>2. Len(file) \in Nat
  BY <1>1, FileTokens
<1>3. RDB(store, now) = file
  BY DEF RDB, File, Header, Body, Trailer
<1> QED
  BY <1>2, <1>3

\* SAVE keeps the strings, or is cut short, and is survived or not.
LEMMA SaveRefines ==
  ASSUME DumpInv, Save
  PROVE  User!Save
<1>1. DumpInv'
  BY SaveWritesIt
<1> DEFINE file == RDB(store, now)
<1>2. PICK n \in 0..Len(file) : SaveUpTo(file, n)
  BY DEF Save
<1>3. /\ snapshot' = Only(store, Strings) /\ UNCHANGED <<now, store>> /\ up
      /\ cut' = (n < Len(file)) /\ up' \in {TRUE, n = Len(file)}
  BY <1>2, Zenon DEF SaveUpTo, Save
<1>4. ToSet(snapshot') = ToSet(store) \cap Strings
  BY <1>3, OnlyMembers DEF DumpInv, TypeOK
<1>5. up' \in {TRUE, ~ cut'} /\ (~ cut') \in BOOLEAN
  <2> DEFINE l == Len(file)
  <2>1. l \in Nat /\ n \in 0..l /\ cut' = (n < l) /\ (up' = TRUE \/ up' = (n = l))
    BY <1>3, FileHasLength
  <2> HIDE DEF l
  <2>2. (n < l) \in BOOLEAN /\ (n = l) \in BOOLEAN /\ ((n = l) <=> ~ (n < l))
    BY <2>1
  <2>3. up' \in BOOLEAN /\ cut' \in BOOLEAN /\ (up' = TRUE \/ (up' <=> ~ cut'))
    BY <2>1, <2>2, Zenon
  <2> QED
    BY <2>3
<1> QED
  BY <1>3, <1>4, <1>5 DEF User!Save

\* Each step is one of the abstract store, or nothing a user sees.
LEMMA NextRefines ==
  DumpInv /\ [Next]_vars => [User!Next]_User!vars
<1> SUFFICES ASSUME DumpInv, [Next]_vars
             PROVE  User!Next \/ UNCHANGED User!vars
  OBVIOUS
<1>1. IsMap(store) /\ store \in Seq(Entries)
  BY DEF DumpInv, TypeOK, IsMap
<1>2. CASE UNCHANGED vars
  BY <1>2 DEF vars, User!vars
<1>3. ASSUME NEW e \in Entries, Write(e)
      PROVE  User!Next
  <2>1. ToSet(store') = User!Without(ToSet(store), e.key) \cup {e}
    BY <1>1, <1>3, MembersOfPut DEF Write
  <2>2. User!Write(e)
    BY <1>3, <2>1 DEF Write, User!Write
  <2> QED
    BY <2>2 DEF User!Next
<1>4. ASSUME NEW k \in Keys, Delete(k)
      PROVE  User!Next
  <2>1. ToSet(store') = User!Without(ToSet(store), k)
    BY <1>1, <1>4, MembersOfWithout DEF Delete
  <2>2. User!Delete(k)
    BY <1>4, <2>1 DEF Delete, User!Delete
  <2> QED
    BY <2>2 DEF User!Next
<1>5. CASE SaveFails
  BY <1>2, <1>5 DEF SaveFails
<1>6. CASE Save
  BY <1>6, SaveRefines DEF User!Next
<1>7. CASE Crash
  BY <1>7 DEF Crash, User!Crash, User!Next
<1>8. CASE Restart
  BY <1>8, RestartRefines DEF User!Next
<1>9. CASE Tick
  BY <1>9 DEF Tick, User!Tick, User!Next
<1> QED
  BY <1>2, <1>3, <1>4, <1>5, <1>6, <1>7, <1>8, <1>9 DEF Next

\* The file, its parser and the Map in memory implement a set of entries that
\* survives the process: what a SAVE that answered OK kept is there after any
\* restart, until it expires or another SAVE begins to write, and what one that
\* was cut short kept, by a crash or by a write that failed, is there in part;
\* nothing else ever is.
THEOREM Durability == Spec => ImplementsDurableStore
<1>1. Init => User!Init
  BY ToSetEmpty DEF Init, User!Init
<1>2. DumpInv /\ [Next]_vars => [User!Next]_User!vars
  BY NextRefines
<1> QED
  BY <1>1, <1>2, DumpInvariance, PTL DEF Spec, ImplementsDurableStore, User!Spec

-----------------------------------------------------------------------------
(* A replica that evaluates every command again, later, holds the keys its *)
(* master holds.                                                           *)

\* What a store holds for a key.
Results == KeyEntries \cup {Absent}

\* Entry r of the replica stands for entry m of the master: it has its value
\* and expires when the master's does or later.
Matches(m, r) ==
  \/ m = Absent /\ r = Absent
  \/ /\ m # Absent /\ r # Absent
     /\ m.value = r.value
     /\ m.expiration = Never <=> r.expiration = Never
     /\ m.expiration # Never => m.expiration <= r.expiration

\* What a command leaves of entry e of key k.
OnKey(k, c, e, t) == IF c.key = k THEN After(e, c, t) ELSE e

\* From place p of the link on, entries is what the replica's entry of k is
\* going to be when it executes each command at the time of the same place.
\* It is known where this starts: in front of the link with what the replica
\* holds, unless it dropped the key, and behind any plain command.
Predicts(k, entries, times, p) ==
  /\ \/ p = 0 /\ k \notin droppedByReplica /\ entries[0] = replica[k]
     \/ /\ p \in DOMAIN link /\ link[p].key = k /\ Plain(link[p])
        /\ entries[p] = After(Absent, link[p], times[p])
  /\ \A i \in (p + 1)..Len(link) : entries[i] = OnKey(k, link[i], entries[i - 1], times[i])

\* However late the replica executes what is in flight, and whatever it
\* dropped before: it ends with entries that stand for the master's.
WillMatch ==
  \A k \in Keys \ droppedByMaster :
    \A entries \in [Nat -> Results], times \in [Nat -> Int], p \in Nat :
      p <= Len(link) /\ (\A i \in Nat : now <= times[i]) /\ Predicts(k, entries, times, p)
        => Matches(master[k], entries[Len(link)])

\* The inductive invariant behind ReplicaHoldsKeys and ReplicaServesLonger.
KeysInv == KeyspaceTypeOK /\ WillMatch

-----------------------------------------------------------------------------
(* Commands.                                                               *)

\* The fields of each command.
LEMMA CommandFields ==
  ASSUME NEW c \in Commands
  PROVE  /\ c.key \in Keys
         /\ \/ /\ c.name = "set" /\ c.value \in Texts \cup Int /\ c.keepTTL \in BOOLEAN
               /\ c.mode \in {"NX", "XX", "any"} /\ c.expires \in Expiries
            \/ c.name = "del"
            \/ c.name = "incr"
            \/ c.name = "expire" /\ c.time \in Int
  BY KeyspaceAssumption DEF Commands, Sets, Dels, Incrs, Expires

\* An expiration is a time or never, and a relative one is later the later
\* it is computed.
LEMMA ExpirationFacts ==
  ASSUME NEW x \in Expiries, NEW t \in Int
  PROVE  /\ ExpirationOf(x, t) \in Int \cup {Never}
         /\ \A u \in Int : t <= u =>
              /\ ExpirationOf(x, t) = Never <=> ExpirationOf(x, u) = Never
              /\ ExpirationOf(x, t) # Never => ExpirationOf(x, t) <= ExpirationOf(x, u)
<1>1. CASE x.how = "in" /\ x.time \in Int
  BY <1>1, KeyspaceAssumption DEF ExpirationOf
<1>2. CASE x.how = "at" /\ x.time \in Int
  BY <1>2, KeyspaceAssumption DEF ExpirationOf
<1>3. CASE x.how = "never"
  BY <1>3, KeyspaceAssumption DEF ExpirationOf
<1> QED
  BY <1>1, <1>2, <1>3, KeyspaceAssumption DEF Expiries

\* A command leaves an entry, or none.
LEMMA AfterType ==
  ASSUME NEW e \in Results, NEW c \in Commands, NEW t \in Int
  PROVE  After(e, c, t) \in Results
<1>1. e = Absent \/ (e \in KeyEntries /\ e # Absent)
  BY AbsentAssumption DEF Results
<1>2. CASE c.name = "set"
  <2>1. c.value \in Values /\ c.expires \in Expiries
    BY <1>2, CommandFields DEF Values
  <2>2. SetEntry(e, c, t) \in KeyEntries
    BY <1>1, <2>1, ExpirationFacts DEF SetEntry, KeyEntries
  <2> QED
    BY <1>2, <2>2 DEF After, Results
<1>3. CASE c.name = "del"
  BY <1>3 DEF After, Results
<1>4. CASE c.name = "incr"
  <2>1. CASE e = Absent
    BY <1>4, <2>1 DEF After, Fails, IncrEntry, Results, KeyEntries, Values
  <2>2. CASE e \in KeyEntries /\ e # Absent
    BY <1>4, <2>2 DEF After, Fails, IncrEntry, Results, KeyEntries, Values
  <2> QED
    BY <1>1, <2>1, <2>2
<1>5. CASE c.name = "expire"
  <2>1. c.time \in Int
    BY <1>5, CommandFields
  <2> QED
    BY <1>1, <1>5, <2>1 DEF After, Results, KeyEntries
<1> QED
  BY <1>2, <1>3, <1>4, <1>5, CommandFields

\* A plain command does not look at the entry it finds.
LEMMA PlainForgets ==
  ASSUME NEW d, NEW e, NEW c \in Commands, NEW t, Plain(c)
  PROVE  After(d, c, t) = After(e, c, t)
<1>1. CASE c.name = "del"
  BY <1>1 DEF After
<1>2. CASE c.name = "set" /\ c.mode = "any" /\ ~ c.keepTTL
  BY <1>2 DEF After, Refused, SetEntry
<1> QED
  BY <1>1, <1>2 DEF Plain

\* Executed on an entry that stands for the master's, and not before the
\* master executed it, a command leaves such an entry.
LEMMA LaterMatches ==
  ASSUME NEW m \in Results, NEW r \in Results, Matches(m, r),
         NEW c \in Commands, NEW t \in Int, NEW u \in Int, t <= u
  PROVE  Matches(After(m, c, t), After(r, c, u))
<1>1. \/ m = Absent /\ r = Absent
      \/ /\ m \in KeyEntries /\ m # Absent /\ r \in KeyEntries /\ r # Absent
         /\ m.value = r.value
         /\ m.expiration = Never <=> r.expiration = Never
         /\ m.expiration # Never => m.expiration <= r.expiration
  BY DEF Matches, Results
<1>2. \A e \in KeyEntries : e # Absent
  BY AbsentAssumption
<1>3. CASE c.name = "set"
  <2> DEFINE x == ExpirationOf(c.expires, t)
             y == ExpirationOf(c.expires, u)
  <2>1. c.value \in Values /\ c.expires \in Expiries
    BY <1>3, CommandFields DEF Values
  <2>2. /\ x \in Int \cup {Never} /\ y \in Int \cup {Never}
        /\ x = Never <=> y = Never
        /\ x # Never => x <= y
    BY <2>1, ExpirationFacts
  <2> HIDE DEF x, y
  <2>3. Refused(m, c) <=> Refused(r, c)
    BY <1>1 DEF Refused
  <2>4. CASE Refused(m, c)
    BY <1>3, <2>3, <2>4 DEF After
  <2>5. CASE ~ Refused(m, c)
    <3>1. /\ SetEntry(m, c, t) = [value |-> c.value, expiration |->
                                    IF c.keepTTL /\ m # Absent THEN m.expiration ELSE x]
          /\ SetEntry(r, c, u) = [value |-> c.value, expiration |->
                                    IF c.keepTTL /\ r # Absent THEN r.expiration ELSE y]
      BY DEF SetEntry, x, y
    <3>2. SetEntry(m, c, t) \in KeyEntries /\ SetEntry(r, c, u) \in KeyEntries
      BY <1>1, <2>1, <2>2, <3>1 DEF KeyEntries
    <3>3. Matches(SetEntry(m, c, t), SetEntry(r, c, u))
      BY <1>1, <1>2, <2>2, <3>1, <3>2 DEF Matches
    <3> QED
      BY <1>3, <2>3, <2>5, <3>3 DEF After
  <2> QED
    BY <2>4, <2>5
<1>4. CASE c.name = "del"
  BY <1>4 DEF After, Matches
<1>5. CASE c.name = "incr"
  <2>1. CASE m = Absent
    <3>1. [value |-> 1, expiration |-> Never] \in KeyEntries
      BY DEF KeyEntries, Values
    <3> QED
      BY <1>1, <1>2, <1>5, <2>1, <3>1 DEF After, Fails, IncrEntry, Matches
  <2>2. CASE m # Absent /\ m.value \in Texts
    BY <1>1, <1>5, <2>2 DEF After, Fails
  <2>3. CASE m # Absent /\ m.value \notin Texts
    <3>1. /\ After(m, c, t) = [m EXCEPT !.value = @ + 1]
          /\ After(r, c, u) = [r EXCEPT !.value = @ + 1]
      BY <1>1, <1>5, <2>3 DEF After, Fails, IncrEntry
    <3>2. After(m, c, t) \in KeyEntries /\ After(r, c, u) \in KeyEntries
      BY <1>1, <2>3, <3>1 DEF KeyEntries, Values
    <3> QED
      BY <1>1, <1>2, <2>3, <3>1, <3>2 DEF Matches, KeyEntries
  <2> QED
    BY <2>1, <2>2, <2>3
<1>6. CASE c.name = "expire"
  <2>1. c.time \in Int
    BY <1>6, CommandFields
  <2>2. CASE m = Absent
    BY <1>1, <1>6, <2>2 DEF After, Matches
  <2>3. CASE m # Absent
    <3>1. /\ After(m, c, t) = [m EXCEPT !.expiration = t + c.time]
          /\ After(r, c, u) = [r EXCEPT !.expiration = u + c.time]
      BY <1>1, <1>6, <2>3 DEF After
    <3>2. After(m, c, t) \in KeyEntries /\ After(r, c, u) \in KeyEntries
      BY <1>1, <2>1, <2>3, <3>1 DEF KeyEntries
    <3> QED
      BY <1>1, <1>2, <2>1, <2>3, <3>1, <3>2, KeyspaceAssumption DEF Matches, KeyEntries
  <2> QED
    BY <2>2, <2>3
<1> QED
  BY <1>3, <1>4, <1>5, <1>6, CommandFields

-----------------------------------------------------------------------------
(* The steps.                                                              *)

\* Executing a command changes the entry of its key.
LEMMA ExecuteFacts ==
  ASSUME NEW held \in Stores, NEW c \in Commands, NEW t \in Int
  PROVE  /\ Execute(held, c, t) \in Stores
         /\ \A k \in Keys : Execute(held, c, t)[k] = OnKey(k, c, held[k], t)
<1>1. c.key \in Keys /\ held[c.key] \in Results
  BY CommandFields DEF Stores, Results
<1>2. After(held[c.key], c, t) \in Results
  BY <1>1, AfterType
<1> QED
  BY <1>1, <1>2 DEF Execute, Stores, Results, OnKey

\* The head and the tail of a sequence that is not empty.
LEMMA HeadOfLink ==
  ASSUME NEW S, NEW q \in Seq(S), q # << >>
  PROVE  /\ Head(q) = q[1] /\ q[1] \in S /\ Len(q) >= 1
         /\ Tail(q) \in Seq(S) /\ Len(Tail(q)) = Len(q) - 1
         /\ \A i \in 1..(Len(q) - 1) : Tail(q)[i] = q[i + 1]
  BY HeadTailProperties

\* Every step keeps the types.
LEMMA TypeNext ==
  ASSUME KeyspaceTypeOK, [KeyspaceNext]_keyspaceVars
  PROVE  KeyspaceTypeOK'
<1>1. ASSUME NEW c \in Commands, ClientWrite(c)
      PROVE  KeyspaceTypeOK'
  BY <1>1, ExecuteFacts DEF ClientWrite, KeyspaceTypeOK
<1>2. CASE ReplicaWrite
  <2>1. Head(link) \in Commands /\ Tail(link) \in Seq(Commands)
    BY <1>2, HeadOfLink DEF ReplicaWrite, KeyspaceTypeOK
  <2> QED
    BY <1>2, <2>1, ExecuteFacts DEF ReplicaWrite, KeyspaceTypeOK
<1>3. ASSUME NEW k \in Keys, Get(k) \/ ReplicaGet(k)
      PROVE  KeyspaceTypeOK'
  BY <1>3 DEF Get, ReplicaGet, KeyspaceTypeOK, Stores
<1>4. CASE KeyspaceTick
  BY <1>4 DEF KeyspaceTick, KeyspaceTypeOK
<1>5. CASE UNCHANGED keyspaceVars
  BY <1>5 DEF keyspaceVars, KeyspaceTypeOK
<1> QED
  BY <1>1, <1>2, <1>3, <1>4, <1>5 DEF KeyspaceNext

\* A write of the master: what it propagates is executed last, and not
\* earlier than now.
LEMMA WriteMatches ==
  ASSUME KeysInv, NEW c \in Commands, ClientWrite(c)
  PROVE  WillMatch'
<1> SUFFICES ASSUME NEW k \in Keys, k \notin droppedByMaster',
                    NEW entries \in [Nat -> Results], NEW times \in [Nat -> Int], NEW p \in Nat,
                    p <= Len(link'), \A i \in Nat : now' <= times[i],
                    Predicts(k, entries, times, p)'
             PROVE  Matches(master'[k], entries[Len(link')])
  BY DEF WillMatch
<1> DEFINE n == Len(link)
<1>1. /\ now \in Int /\ master \in Stores /\ link \in Seq(Commands) /\ n \in Nat
      /\ master[k] \in Results /\ master[c.key] \in Results
  BY CommandFields DEF KeysInv, KeyspaceTypeOK, Stores, Results
<1>2. /\ master' = Execute(master, c, now)
      /\ link' = IF Propagates(master[c.key], c) THEN Append(link, c) ELSE link
      /\ droppedByMaster' = IF Plain(c) THEN droppedByMaster \ {c.key} ELSE droppedByMaster
      /\ now' = now /\ droppedByReplica' = droppedByReplica /\ replica' = replica
  BY DEF ClientWrite
<1>3. master'[k] = OnKey(k, c, master[k], now)
  BY <1>1, <1>2, ExecuteFacts
<1>4. k \notin droppedByMaster /\ Predicts(k, entries, times, p) /\ p <= n => Matches(master[k], entries[n])
  BY <1>2 DEF KeysInv, WillMatch
<1>5. CASE Propagates(master[c.key], c)
  <2>1. link' = Append(link, c) /\ Len(link') = n + 1 /\ link'[n + 1] = c
        /\ \A i \in 1..n : link'[i] = link[i]
    BY <1>1, <1>2, <1>5
  <2>2. \/ p = 0 /\ k \notin droppedByReplica /\ entries[0] = replica[k]
        \/ /\ p \in 1..(n + 1) /\ link'[p].key = k /\ Plain(link'[p])
           /\ entries[p] = After(Absent, link'[p], times[p])
    BY <1>2, <2>1 DEF Predicts, Plain
  <2>3. \A i \in (p + 1)..(n + 1) : entries[i] = OnKey(k, link'[i], entries[i - 1], times[i])
    BY <2>1 DEF Predicts, OnKey, After, Refused, SetEntry, ExpirationOf, Fails, IncrEntry
  <2>4. p <= n => Predicts(k, entries, times, p)
    <3> SUFFICES ASSUME p <= n
                 PROVE  Predicts(k, entries, times, p)
      OBVIOUS
    <3>1. \A i \in (p + 1)..n : i \in 1..n /\ i \in (p + 1)..(n + 1)
      BY <1>1
    <3>2. \A i \in (p + 1)..n : entries[i] = OnKey(k, link[i], entries[i - 1], times[i])
      BY <2>1, <2>3, <3>1
    <3>3. \/ p = 0 /\ k \notin droppedByReplica /\ entries[0] = replica[k]
          \/ /\ p \in 1..n /\ link[p].key = k /\ Plain(link[p])
             /\ entries[p] = After(Absent, link[p], times[p])
      BY <1>1, <2>1, <2>2
    <3> QED
      BY <1>1, <3>2, <3>3 DEF Predicts
  <2>5. /\ entries[n] \in Results /\ entries[n + 1] \in Results /\ times[n + 1] \in Int
        /\ now <= times[n + 1]
    BY <1>1, <1>2
  <2>6. p <= n => entries[n + 1] = OnKey(k, c, entries[n], times[n + 1])
    <3>1. p <= n => n + 1 \in (p + 1)..(n + 1) /\ (n + 1) - 1 = n
      BY <1>1
    <3> QED
      BY <2>1, <2>3, <3>1
  <2>7. CASE c.key # k
    <3>1. k \notin droppedByMaster
      BY <1>2, <2>7
    <3>2. p <= n
      BY <1>1, <2>1, <2>2, <2>7
    <3>3. entries[n + 1] = entries[n]
      BY <2>7, <2>6, <3>2 DEF OnKey
    <3> QED
      BY <1>3, <1>4, <2>1, <2>4, <2>7, <3>1, <3>2, <3>3 DEF OnKey
  <2>8. CASE c.key = k /\ Plain(c)
    <3>1. After(master[k], c, now) = After(Absent, c, now)
      BY <2>8, PlainForgets
    <3>2. entries[n + 1] = After(Absent, c, times[n + 1])
      <4>1. CASE p = n + 1
        BY <1>1, <2>1, <2>2, <4>1
      <4>2. CASE p <= n
        <5>1. entries[n + 1] = After(entries[n], c, times[n + 1])
          BY <2>8, <2>6, <4>2 DEF OnKey
        <5> QED
          BY <2>8, <5>1, PlainForgets
      <4> QED
        BY <1>1, <2>1, <4>1, <4>2
    <3>3. Absent \in Results /\ Matches(Absent, Absent)
      BY DEF Results, Matches
    <3>4. Matches(After(Absent, c, now), After(Absent, c, times[n + 1]))
      BY <1>1, <2>5, <3>3, LaterMatches
    <3> QED
      BY <1>3, <2>1, <2>8, <3>1, <3>2, <3>4 DEF OnKey
  <2>9. CASE c.key = k /\ ~ Plain(c)
    <3>1. p <= n
      BY <1>1, <2>1, <2>2, <2>9
    <3>2. Matches(master[k], entries[n])
      BY <1>2, <1>4, <2>4, <2>9, <3>1
    <3>3. entries[n + 1] = After(entries[n], c, times[n + 1])
      BY <2>9, <2>6, <3>1 DEF OnKey
    <3>4. Matches(After(master[k], c, now), After(entries[n], c, times[n + 1]))
      BY <1>1, <2>5, <3>2, LaterMatches
    <3> QED
      BY <1>3, <2>1, <2>9, <3>3, <3>4 DEF OnKey
  <2> QED
    BY <2>7, <2>8, <2>9
<1>6. CASE ~ Propagates(master[c.key], c)
  <2>1. c.name = "incr" /\ Fails(master[c.key], c)
    BY <1>6 DEF Propagates, Fails
  <2>2. master'[k] = master[k]
    BY <1>3, <2>1 DEF OnKey, After
  <2>3. link' = link /\ droppedByMaster' = droppedByMaster
    BY <1>2, <1>6, <2>1 DEF Plain
  <2>4. Predicts(k, entries, times, p)
    BY <1>2, <2>3 DEF Predicts
  <2> QED
    BY <1>4, <2>2, <2>3, <2>4
<1> QED
  BY <1>5, <1>6

\* The replica executes a command now, which its entries were predicted for.
LEMMA ReplicaWriteMatches ==
  ASSUME KeysInv, ReplicaWrite
  PROVE  WillMatch'
<1> SUFFICES ASSUME NEW k \in Keys, k \notin droppedByMaster',
                    NEW entries \in [Nat -> Results], NEW times \in [Nat -> Int], NEW p \in Nat,
                    p <= Len(link'), \A i \in Nat : now' <= times[i],
                    Predicts(k, entries, times, p)'
             PROVE  Matches(master'[k], entries[Len(link')])
  BY DEF WillMatch
<1> DEFINE n == Len(link')
           c == Head(link)
           es == [i \in Nat |-> IF i = 0 THEN replica[k] ELSE entries[i - 1]]
           ts == [i \in Nat |-> IF i <= 1 THEN now ELSE times[i - 1]]
<1>1. /\ now \in Int /\ replica \in Stores /\ link \in Seq(Commands) /\ link # << >>
      /\ replica[k] \in Results
  BY DEF KeysInv, KeyspaceTypeOK, ReplicaWrite, Stores, Results
<1>2. /\ c = link[1] /\ c \in Commands /\ n \in Nat /\ Len(link) = n + 1
      /\ \A i \in 1..n : link'[i] = link[i + 1]
      /\ link' = Tail(link) /\ DOMAIN link' = 1..n /\ DOMAIN link = 1..(n + 1)
      /\ n = Len(link')
  BY <1>1, HeadOfLink DEF ReplicaWrite
<1>3. /\ replica'[k] = OnKey(k, c, replica[k], now)
      /\ droppedByReplica' = IF Plain(c) THEN droppedByReplica \ {c.key} ELSE droppedByReplica
      /\ master' = master /\ droppedByMaster' = droppedByMaster /\ now' = now
  <2>1. /\ replica' = Execute(replica, c, now)
        /\ droppedByReplica' = IF Plain(c) THEN droppedByReplica \ {c.key} ELSE droppedByReplica
        /\ master' = master /\ droppedByMaster' = droppedByMaster /\ now' = now
    BY DEF ReplicaWrite
  <2>2. Execute(replica, c, now)[k] = OnKey(k, c, replica[k], now)
    BY <1>1, <1>2, ExecuteFacts
  <2> QED
    BY <2>1, <2>2, Zenon
<1>4. /\ es \in [Nat -> Results] /\ ts \in [Nat -> Int] /\ \A i \in Nat : now <= ts[i]
      /\ es[0] = replica[k] /\ ts[1] = now
      /\ \A i \in Nat : es[i + 1] = entries[i]
      /\ \A i \in Nat : i >= 1 => ts[i + 1] = times[i]
  <2>1. \A i \in Nat : i + 1 \in Nat /\ (i + 1) - 1 = i /\ i + 1 # 0 /\ (i # 0 => i - 1 \in Nat)
    OBVIOUS
  <2> QED
    BY <1>1, <1>3, <2>1
<1> HIDE DEF n, c, es, ts
<1>5. /\ \/ p = 0 /\ k \notin droppedByReplica' /\ entries[0] = replica'[k]
         \/ /\ p \in 1..n /\ link'[p].key = k /\ Plain(link'[p])
            /\ entries[p] = After(Absent, link'[p], times[p])
      /\ \A i \in (p + 1)..n : entries[i] = OnKey(k, link'[i], entries[i - 1], times[i])
  BY <1>2 DEF Predicts, Plain, OnKey, After, Refused, SetEntry, ExpirationOf, Fails, IncrEntry, n
<1>6. n \in Nat /\ n = Len(link') /\ Len(link) = n + 1 /\ DOMAIN link = 1..(n + 1)
  BY <1>2
<1>7. ASSUME NEW i \in Nat, p + 2 <= i, i <= n + 1
      PROVE  es[i] = OnKey(k, link[i], es[i - 1], ts[i])
  <2> DEFINE j == i - 1
  <2>1. j \in (p + 1)..n /\ j \in 1..n /\ j - 1 \in Nat /\ j >= 1 /\ j \in Nat
    BY <1>6, <1>7
  <2>2. j + 1 = i /\ (j - 1) + 1 = j
    BY <1>7
  <2> HIDE DEF j
  <2>3. entries[j] = OnKey(k, link'[j], entries[j - 1], times[j])
    BY <1>5, <2>1
  <2>4. es[j + 1] = entries[j] /\ es[(j - 1) + 1] = entries[j - 1] /\ ts[j + 1] = times[j]
    BY <1>4, <2>1
  <2>5. link'[j] = link[j + 1]
    BY <1>2, <2>1
  <2> QED
    BY <2>2, <2>3, <2>4, <2>5 DEF j
<1>8. ASSUME NEW q \in Nat, q <= n + 1, Predicts(k, es, ts, q)
      PROVE  Matches(master'[k], entries[Len(link')])
  <2>1. es[n + 1] = entries[n] /\ master'[k] = master[k]
    BY <1>3, <1>4, <1>6
  <2>2. Matches(master[k], es[Len(link)])
    BY <1>3, <1>4, <1>6, <1>8 DEF KeysInv, WillMatch
  <2> QED
    BY <1>6, <2>1, <2>2
<1>9. ASSUME NEW q \in Nat, q = p + 1, q <= n + 1, link[q].key = k, Plain(link[q]),
             es[q] = After(Absent, link[q], ts[q])
      PROVE  Predicts(k, es, ts, q)
  <2>1. \A i \in (q + 1)..Len(link) : i \in Nat /\ p + 2 <= i /\ i <= n + 1
    BY <1>6, <1>9
  <2>2. q \in DOMAIN link
    BY <1>6, <1>9
  <2> QED
    BY <1>7, <1>9, <2>1, <2>2 DEF Predicts
<1>10. CASE p # 0
  <2>1. p + 1 \in Nat /\ p \in 1..n /\ p + 1 <= n + 1 /\ p >= 1
    BY <1>6, <1>10
  <2>2. /\ link[p + 1].key = k /\ Plain(link[p + 1])
        /\ es[p + 1] = After(Absent, link[p + 1], ts[p + 1])
    BY <1>2, <1>4, <1>5, <1>10, <2>1
  <2> QED
    BY <1>8, <1>9, <2>1, <2>2
<1>11. es[1] = entries[0]
  <2>1. es[0 + 1] = entries[0]
    BY <1>4
  <2> QED
    BY <2>1
<1>12. CASE p = 0 /\ c.key = k /\ Plain(c)
  <2>1. entries[0] = After(replica[k], c, now)
    BY <1>3, <1>5, <1>12 DEF OnKey
  <2>2. es[1] = After(Absent, link[1], ts[1])
    <3>1. link[1] \in Commands /\ Plain(link[1])
      BY <1>2, <1>12
    <3>2. After(replica[k], link[1], now) = After(Absent, link[1], now)
      BY <3>1, PlainForgets
    <3> QED
      BY <1>2, <1>4, <1>11, <2>1, <3>2
  <2>3. 1 \in Nat /\ 1 = p + 1 /\ 1 <= n + 1
    BY <1>6, <1>12
  <2> QED
    BY <1>2, <1>8, <1>9, <1>12, <2>2, <2>3
<1>13. CASE p = 0 /\ ~ (c.key = k /\ Plain(c))
  <2>1. k \notin droppedByReplica
    BY <1>3, <1>5, <1>13
  <2>2. es[1] = OnKey(k, link[1], es[0], ts[1])
    <3>1. entries[0] = replica'[k]
      BY <1>5, <1>6, <1>13
    <3>2. es[1] = OnKey(k, c, replica[k], now)
      BY <1>3, <1>11, <3>1
    <3> QED
      BY <1>2, <1>4, <3>2
  <2>3. \A i \in (0 + 1)..Len(link) : i = 1 \/ (i \in Nat /\ p + 2 <= i /\ i <= n + 1)
    BY <1>6, <1>13
  <2>4. \A i \in (0 + 1)..Len(link) : es[i] = OnKey(k, link[i], es[i - 1], ts[i])
    <3>1. 1 - 1 = 0
      OBVIOUS
    <3> QED
      BY <1>7, <2>2, <2>3, <3>1
  <2>5. Predicts(k, es, ts, 0)
    BY <1>4, <2>1, <2>4 DEF Predicts
  <2>6. 0 \in Nat /\ 0 <= n + 1
    BY <1>6
  <2> QED
    BY <1>8, <2>5, <2>6
<1> QED
  BY <1>10, <1>12, <1>13

\* GETs that delete leave less to be known, and time only passes.
LEMMA OtherStepsMatch ==
  ASSUME KeysInv, (\E k \in Keys : Get(k) \/ ReplicaGet(k)) \/ KeyspaceTick \/ UNCHANGED keyspaceVars
  PROVE  WillMatch'
<1> SUFFICES ASSUME NEW k \in Keys, k \notin droppedByMaster',
                    NEW entries \in [Nat -> Results], NEW times \in [Nat -> Int], NEW p \in Nat,
                    p <= Len(link'), \A i \in Nat : now' <= times[i],
                    Predicts(k, entries, times, p)'
             PROVE  Matches(master'[k], entries[Len(link')])
  BY DEF WillMatch
<1>1. /\ link' = link /\ droppedByMaster \subseteq droppedByMaster'
      /\ droppedByReplica \subseteq droppedByReplica'
      /\ now \in Int /\ now <= now' /\ master'[k] = master[k]
      /\ k \notin droppedByReplica' => replica'[k] = replica[k]
  BY DEF KeysInv, KeyspaceTypeOK, Stores, Get, ReplicaGet, KeyspaceTick, keyspaceVars
<1>2. Predicts(k, entries, times, p)
  BY <1>1 DEF Predicts
<1>3. now' \in Int /\ \A i \in Nat : now <= times[i]
  BY <1>1 DEF KeysInv, KeyspaceTypeOK, Get, ReplicaGet, KeyspaceTick, keyspaceVars
<1> QED
  BY <1>1, <1>2, <1>3 DEF KeysInv, WillMatch

-----------------------------------------------------------------------------
(* The theorems.                                                           *)

\* Two servers without keys.
LEMMA InitKeys == KeyspaceInit => KeysInv
<1> SUFFICES ASSUME KeyspaceInit
             PROVE  KeysInv
  OBVIOUS
<1>1. KeyspaceTypeOK
  BY DEF KeyspaceInit, KeyspaceTypeOK, Stores
<1>2. WillMatch
  BY DEF KeyspaceInit, WillMatch, Predicts, Matches
<1> QED
  BY <1>1, <1>2 DEF KeysInv

\* Each step.
LEMMA NextKeys == KeysInv /\ [KeyspaceNext]_keyspaceVars => KeysInv'
<1> SUFFICES ASSUME KeysInv, [KeyspaceNext]_keyspaceVars
             PROVE  KeysInv'
  OBVIOUS
<1>1. KeyspaceTypeOK'
  BY TypeNext DEF KeysInv
<1>2. WillMatch'
  BY WriteMatches, ReplicaWriteMatches, OtherStepsMatch DEF KeyspaceNext
<1> QED
  BY <1>1, <1>2 DEF KeysInv

\* However late the replica executes what is in flight, it will hold what the
\* master holds.
THEOREM KeysInvariance == KeyspaceSpec => []KeysInv
<1>1. KeyspaceInit => KeysInv
  BY InitKeys
<1>2. KeysInv /\ [KeyspaceNext]_keyspaceVars => KeysInv'
  BY NextKeys
<1> QED
  BY <1>1, <1>2, PTL DEF KeyspaceSpec

\* When nothing is in flight, what is held stands for the master's entries.
LEMMA NothingInFlight ==
  ASSUME KeysInv, link = << >>, NEW k \in Keys \ Dropped
  PROVE  Matches(master[k], replica[k])
<1> DEFINE entries == [i \in Nat |-> replica[k]]
           times == [i \in Nat |-> now]
<1>1. /\ entries \in [Nat -> Results] /\ times \in [Nat -> Int]
      /\ \A i \in Nat : now <= times[i]
      /\ k \notin droppedByMaster /\ k \notin droppedByReplica /\ Len(link) = 0
  BY DEF KeysInv, KeyspaceTypeOK, Stores, Results, Dropped
<1>2. Predicts(k, entries, times, 0)
  BY <1>1 DEF Predicts
<1>3. Matches(master[k], entries[Len(link)])
  BY <1>1, <1>2 DEF KeysInv, WillMatch
<1> QED
  BY <1>1, <1>3

\* Type correctness: both stores hold entries, and the link commands.
THEOREM KeyspaceTypeCorrect == KeyspaceSpec => []KeyspaceTypeOK
<1>1. KeysInv => KeyspaceTypeOK
  BY DEF KeysInv
<1> QED
  BY <1>1, KeysInvariance, PTL

\* A replica that executed everything that was propagated, at whatever
\* times, holds the keys and values its master holds, apart from keys that a
\* GET deleted since their last plain write.
THEOREM HoldsTheSameKeys == KeyspaceSpec => []ReplicaHoldsKeys
<1>1. KeysInv => ReplicaHoldsKeys
  BY NothingInFlight DEF ReplicaHoldsKeys, Matches
<1> QED
  BY <1>1, KeysInvariance, PTL

\* And it still answers every GET the master answers.
THEOREM ServesAsLong == KeyspaceSpec => []ReplicaServesLonger
<1>1. KeysInv => ReplicaServesLonger
  <2> SUFFICES ASSUME KeysInv, link = << >>, NEW k \in Keys \ Dropped, Serves(master, k, now)
               PROVE  Serves(replica, k, now)
    BY DEF ReplicaServesLonger
  <2>1. Matches(master[k], replica[k])
    BY NothingInFlight
  <2>2. now \in Int /\ master[k] \in Results /\ replica[k] \in Results
    BY DEF KeysInv, KeyspaceTypeOK, Stores, Results
  <2> QED
    BY <2>1, <2>2, KeyspaceAssumption DEF Serves, IsExpired, Matches, Results, KeyEntries
<1> QED
  BY <1>1, KeysInvariance, PTL
=============================================================================
