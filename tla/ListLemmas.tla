----------------------------- MODULE ListLemmas -----------------------------
(***************************************************************************)
(* What the sequence operators of the modules do to the members of a       *)
(* list, to their order and to their being distinct; and induction over    *)
(* lists, for predicates that are given as sets.                           *)
(***************************************************************************)
EXTENDS Integers, Lists, SequencesExt, SequenceTheorems, WellFoundedInduction, TLAPS

\* x lies in front of y in sequence s.
Before(s, x, y) == \E m, n \in DOMAIN s : m < n /\ s[m] = x /\ s[n] = y

\* A queue or list only holds members of its base set.
LEMMA ToSetInBase ==
  ASSUME NEW S, NEW s \in Seq(S)
  PROVE  ToSet(s) \subseteq S
BY LenProperties, ElementOfSeq DEF ToSet

\* An absent key has no elements.
LEMMA ToSetEmpty == ToSet(<< >>) = {}
BY DEF ToSet

\* Concatenation, as in RPUSH: the elements of both, distinct when those of
\* each are distinct and none is in both.
LEMMA ConcatLists ==
  ASSUME NEW S, NEW s \in Seq(S), NEW t \in Seq(S)
  PROVE  /\ s \o t \in Seq(S)
         /\ ToSet(s \o t) = ToSet(s) \cup ToSet(t)
         /\ IsInjective(s) /\ IsInjective(t) /\ ToSet(s) \cap ToSet(t) = {}
              => IsInjective(s \o t)
         /\ t # << >> => s \o t # << >>
         /\ s # << >> => s \o t # << >>
<1> DEFINE c == s \o t
<1>1. /\ c \in Seq(S)
      /\ DOMAIN c = 1..(Len(s) + Len(t))
      /\ DOMAIN s = 1..Len(s) /\ DOMAIN t = 1..Len(t)
      /\ Len(s) \in Nat /\ Len(t) \in Nat
      /\ \A i \in 1..(Len(s) + Len(t)) : c[i] = IF i <= Len(s) THEN s[i] ELSE t[i - Len(s)]
  BY ConcatProperties, LenProperties
<1>2. ToSet(c) \subseteq ToSet(s) \cup ToSet(t)
  <2> SUFFICES ASSUME NEW i \in 1..(Len(s) + Len(t))
               PROVE  c[i] \in ToSet(s) \cup ToSet(t)
    BY <1>1 DEF ToSet
  <2>1. CASE i <= Len(s)
    BY <1>1, <2>1 DEF ToSet
  <2>2. CASE ~ (i <= Len(s))
    <3>1. i - Len(s) \in 1..Len(t)
      BY <1>1, <2>2
    <3> QED
      BY <1>1, <2>2, <3>1 DEF ToSet
  <2> QED
    BY <2>1, <2>2
<1>3. ToSet(s) \cup ToSet(t) \subseteq ToSet(c)
  <2>1. ASSUME NEW i \in 1..Len(s)
        PROVE  s[i] \in ToSet(c)
    <3>1. i \in 1..(Len(s) + Len(t)) /\ i <= Len(s)
      BY <1>1
    <3> QED
      BY <1>1, <3>1 DEF ToSet
  <2>2. ASSUME NEW i \in 1..Len(t)
        PROVE  t[i] \in ToSet(c)
    <3>1. /\ i + Len(s) \in 1..(Len(s) + Len(t))
          /\ ~ (i + Len(s) <= Len(s))
          /\ (i + Len(s)) - Len(s) = i
      BY <1>1
    <3> QED
      BY <1>1, <3>1 DEF ToSet
  <2> QED
    BY <1>1, <2>1, <2>2 DEF ToSet
<1>4. ASSUME IsInjective(s), IsInjective(t), ToSet(s) \cap ToSet(t) = {}
      PROVE  IsInjective(c)
  <2> SUFFICES ASSUME NEW i \in 1..(Len(s) + Len(t)), NEW j \in 1..(Len(s) + Len(t)),
                      c[i] = c[j]
               PROVE  i = j
    BY <1>1 DEF IsInjective
  <2>1. CASE i <= Len(s) /\ j <= Len(s)
    BY <1>1, <1>4, <2>1 DEF IsInjective
  <2>2. CASE ~ (i <= Len(s)) /\ ~ (j <= Len(s))
    <3>1. i - Len(s) \in 1..Len(t) /\ j - Len(s) \in 1..Len(t)
      BY <1>1, <2>2
    <3>2. t[i - Len(s)] = t[j - Len(s)]
      BY <1>1, <2>2
    <3>3. i - Len(s) = j - Len(s)
      BY <1>1, <1>4, <3>1, <3>2 DEF IsInjective
    <3> QED
      BY <1>1, <3>3
  <2>3. CASE i <= Len(s) /\ ~ (j <= Len(s))
    <3>1. j - Len(s) \in 1..Len(t) /\ i \in 1..Len(s)
      BY <1>1, <2>3
    <3>2. s[i] = t[j - Len(s)]
      BY <1>1, <2>3
    <3> QED
      BY <1>1, <1>4, <3>1, <3>2 DEF ToSet
  <2>4. CASE ~ (i <= Len(s)) /\ j <= Len(s)
    <3>1. i - Len(s) \in 1..Len(t) /\ j \in 1..Len(s)
      BY <1>1, <2>4
    <3>2. s[j] = t[i - Len(s)]
      BY <1>1, <2>4
    <3> QED
      BY <1>1, <1>4, <3>1, <3>2 DEF ToSet
  <2> QED
    BY <2>1, <2>2, <2>3, <2>4
<1>5. (t # << >> => c # << >>) /\ (s # << >> => c # << >>)
  BY ConcatSimplifications, EmptySeq, <1>1, ConcatProperties
<1> QED
  BY <1>1, <1>2, <1>3, <1>4, <1>5

\* Reverse, as in LPUSH: the same elements, as distinct as they were.
LEMMA ReverseList ==
  ASSUME NEW S, NEW s \in Seq(S)
  PROVE  /\ Reverse(s) \in Seq(S)
         /\ ToSet(Reverse(s)) = ToSet(s)
         /\ IsInjective(s) => IsInjective(Reverse(s))
         /\ s # << >> => Reverse(s) # << >>
<1>1. Len(s) \in Nat /\ DOMAIN s = 1..Len(s) /\ \A i \in 1..Len(s) : s[i] \in S
  BY LenProperties, ElementOfSeq
<1>2. \A i \in 1..Len(s) : Len(s) - i + 1 \in 1..Len(s)
  BY <1>1
<1>3. Reverse(s) \in [1..Len(s) -> S]
  BY <1>1, <1>2 DEF Reverse
<1>4. Reverse(s) \in Seq(S)
  BY <1>1, <1>3, SeqDef
<1>5. DOMAIN Reverse(s) = 1..Len(s)
  BY <1>3
<1>6. ToSet(Reverse(s)) \subseteq ToSet(s)
  BY <1>1, <1>2, <1>5 DEF ToSet, Reverse
<1>7. ToSet(s) \subseteq ToSet(Reverse(s))
  <2> SUFFICES ASSUME NEW i \in 1..Len(s)
               PROVE  s[i] \in ToSet(Reverse(s))
    BY <1>1 DEF ToSet
  <2>1. Len(s) - i + 1 \in 1..Len(s) /\ Len(s) - (Len(s) - i + 1) + 1 = i
    BY <1>1
  <2>2. Reverse(s)[Len(s) - i + 1] = s[i]
    BY <1>1, <2>1 DEF Reverse
  <2> QED
    BY <1>5, <2>1, <2>2 DEF ToSet
<1>8. ASSUME IsInjective(s)
      PROVE  IsInjective(Reverse(s))
  <2> SUFFICES ASSUME NEW i \in 1..Len(s), NEW j \in 1..Len(s), Reverse(s)[i] = Reverse(s)[j]
               PROVE  i = j
    BY <1>5 DEF IsInjective
  <2>1. s[Len(s) - i + 1] = s[Len(s) - j + 1]
    BY DEF Reverse
  <2>2. Len(s) - i + 1 = Len(s) - j + 1
    BY <1>1, <1>2, <1>8, <2>1 DEF IsInjective
  <2> QED
    BY <1>1, <2>2
<1>9. s # << >> => Reverse(s) # << >>
  <2>1. s # << >> => 1 \in DOMAIN Reverse(s)
    BY <1>1, <1>5, EmptySeq
  <2> QED
    BY <2>1
<1> QED
  BY <1>4, <1>6, <1>7, <1>8, <1>9

\* What is left of a list when its first n elements are popped.
LEMMA DropFirst ==
  ASSUME NEW S, NEW s \in Seq(S), NEW n \in Nat
  PROVE  LET d == SubSeq(s, n + 1, Len(s))
         IN  /\ d \in Seq(S)
             /\ ToSet(d) \subseteq ToSet(s)
             /\ IsInjective(s) => IsInjective(d)
             /\ IsInjective(s) /\ n > 0 /\ s # << >> => Head(s) \notin ToSet(d)
<1> DEFINE d == SubSeq(s, n + 1, Len(s))
<1>1. Len(s) \in Nat /\ DOMAIN s = 1..Len(s) /\ \A i \in 1..Len(s) : s[i] \in S
  BY LenProperties, ElementOfSeq
<1>2. /\ d \in Seq(S)
      /\ \A i \in 1..(Len(s) - (n + 1) + 1) : d[i] = s[(n + 1) + i - 1]
      /\ Len(d) = IF n + 1 <= Len(s) THEN Len(s) - (n + 1) + 1 ELSE 0
  <2>1. \A i \in (n + 1)..Len(s) : s[i] \in S
    BY <1>1
  <2> QED
    BY <1>1, <2>1, SubSeqProperties
<1> HIDE DEF d
<1>3. DOMAIN d = 1..Len(d) /\ Len(d) \in Nat
  BY <1>2, LenProperties
<1>4. \A i \in DOMAIN d : i + n \in 1..Len(s) /\ d[i] = s[i + n] /\ i \in 1..Len(d)
  <2> SUFFICES ASSUME NEW i \in DOMAIN d
               PROVE  i + n \in 1..Len(s) /\ d[i] = s[i + n] /\ i \in 1..Len(d)
    OBVIOUS
  <2>1. i \in 1..Len(d)
    BY <1>3
  <2>2. n + 1 <= Len(s) /\ Len(d) = Len(s) - (n + 1) + 1
    <3>1. Len(d) # 0
      BY <2>1
    <3> QED
      BY <1>2, <3>1
  <2>3. i \in 1..(Len(s) - (n + 1) + 1)
    BY <2>1, <2>2
  <2>4. i + n \in 1..Len(s) /\ (n + 1) + i - 1 = i + n
    BY <1>1, <2>3
  <2>5. d[i] = s[(n + 1) + i - 1]
    BY <1>2, <2>3
  <2> QED
    BY <2>1, <2>4, <2>5
<1>5. ToSet(d) \subseteq ToSet(s)
  BY <1>1, <1>4 DEF ToSet
<1>6. ASSUME IsInjective(s)
      PROVE  IsInjective(d)
  <2> SUFFICES ASSUME NEW i \in DOMAIN d, NEW j \in DOMAIN d, d[i] = d[j]
               PROVE  i = j
    BY DEF IsInjective
  <2>1. i + n = j + n
    BY <1>1, <1>4, <1>6 DEF IsInjective
  <2> QED
    BY <1>3, <2>1
<1>7. ASSUME IsInjective(s), n > 0, s # << >>, Head(s) \in ToSet(d)
      PROVE  FALSE
  <2>1. PICK i \in DOMAIN d : d[i] = Head(s)
    BY <1>7 DEF ToSet
  <2>2. Head(s) = s[1] /\ 1 \in 1..Len(s)
    BY <1>1, <1>7, EmptySeq
  <2>3. i + n = 1
    BY <1>1, <1>4, <1>7, <2>1, <2>2 DEF IsInjective
  <2> QED
    BY <1>3, <2>3, <1>7
<1>8. /\ d \in Seq(S)
      /\ ToSet(d) \subseteq ToSet(s)
      /\ IsInjective(s) => IsInjective(d)
      /\ IsInjective(s) /\ n > 0 /\ s # << >> => Head(s) \notin ToSet(d)
  BY <1>2, <1>5, <1>6, <1>7
<1> QED
  BY <1>8 DEF d

\* Head and Tail of a list that is not empty, as in a push that serves a call.
LEMMA HeadAndTail ==
  ASSUME NEW S, NEW s \in Seq(S), s # << >>
  PROVE  /\ Head(s) \in ToSet(s)
         /\ Head(s) \in S
         /\ Tail(s) \in Seq(S)
         /\ ToSet(Tail(s)) \subseteq ToSet(s)
         /\ IsInjective(s) => IsInjective(Tail(s)) /\ Head(s) \notin ToSet(Tail(s))
<1>1. Tail(s) = SubSeq(s, 1 + 1, Len(s))
  BY TailIsSubSeq
<1>2. Head(s) \in ToSet(s) /\ Head(s) \in S
  <2>1. Head(s) = s[1] /\ 1 \in DOMAIN s
    BY LenProperties, EmptySeq
  <2> QED
    BY <2>1, HeadTailProperties DEF ToSet
<1>3. /\ Tail(s) \in Seq(S)
      /\ ToSet(Tail(s)) \subseteq ToSet(s)
      /\ IsInjective(s) => IsInjective(Tail(s)) /\ Head(s) \notin ToSet(Tail(s))
  <2> DEFINE d == SubSeq(s, 1 + 1, Len(s))
  <2>1. /\ d \in Seq(S)
        /\ ToSet(d) \subseteq ToSet(s)
        /\ IsInjective(s) => IsInjective(d)
        /\ IsInjective(s) /\ 1 > 0 /\ s # << >> => Head(s) \notin ToSet(d)
    BY DropFirst, 1 \in Nat
  <2>2. d = Tail(s)
    BY <1>1
  <2> HIDE DEF d
  <2> QED
    BY <2>1, <2>2
<1> QED
  BY <1>2, <1>3

\* Splicing one entry out of a queue.
LEMMA RemoveOne ==
  ASSUME NEW S, NEW s \in Seq(S), NEW i \in DOMAIN s
  PROVE  /\ RemoveAt(s, i) \in Seq(S)
         /\ ToSet(RemoveAt(s, i)) \subseteq ToSet(s)
<1>1. Len(s) \in Nat /\ DOMAIN s = 1..Len(s) /\ \A j \in 1..Len(s) : s[j] \in S
  BY LenProperties, ElementOfSeq
<1> DEFINE a == SubSeq(s, 1, i - 1)
           b == SubSeq(s, i + 1, Len(s))
<1>2. /\ a \in Seq(S)
      /\ Len(a) = i - 1
      /\ \A j \in 1..(i - 1) : a[j] = s[j]
  <2>1. \A j \in 1..(i - 1) : s[j] \in S
    BY <1>1
  <2> QED
    BY <1>1, <2>1, SubSeqProperties
<1>3. DOMAIN a = 1..(i - 1)
  BY <1>2, LenProperties
<1>4. ToSet(a) \subseteq ToSet(s)
  <2>1. \A j \in 1..(i - 1) : j \in 1..Len(s)
    BY <1>1
  <2> QED
    BY <1>1, <1>2, <1>3, <2>1 DEF ToSet
<1>5. b \in Seq(S) /\ ToSet(b) \subseteq ToSet(s)
  BY <1>1, DropFirst
<1>6. RemoveAt(s, i) = a \o b
  BY DEF RemoveAt
<1> HIDE DEF a, b
<1> QED
  BY <1>2, <1>4, <1>5, <1>6, ConcatLists

\* A queue that one more joins at the back.
LEMMA AppendToList ==
  ASSUME NEW S, NEW s \in Seq(S), NEW x \in S
  PROVE  /\ Append(s, x) \in Seq(S)
         /\ ToSet(Append(s, x)) = ToSet(s) \cup {x}
         /\ IsInjective(s) /\ x \notin ToSet(s) => IsInjective(Append(s, x))
         /\ \A a, b : Before(s, a, b) => Before(Append(s, x), a, b)
         /\ \A a, b : Before(Append(s, x), a, b) => Before(s, a, b) \/ (a \in ToSet(s) /\ b = x)
         /\ \A a \in ToSet(s) : Before(Append(s, x), a, x)
<1> DEFINE t == Append(s, x)
<1>1. /\ t \in Seq(S)
      /\ DOMAIN s = 1..Len(s) /\ Len(s) \in Nat
      /\ DOMAIN t = 1..(Len(s) + 1)
      /\ \A n \in 1..Len(s) : t[n] = s[n]
      /\ t[Len(s) + 1] = x
  BY AppendProperties, LenProperties
<1> HIDE DEF t
<1>2. \A n \in DOMAIN t : n \in DOMAIN s \/ n = Len(s) + 1
  BY <1>1
<1>3. DOMAIN s \subseteq DOMAIN t /\ Len(s) + 1 \in DOMAIN t
  BY <1>1
<1>4. \A n \in DOMAIN s : n < Len(s) + 1
  BY <1>1
<1>5. ToSet(t) = ToSet(s) \cup {x}
  BY <1>1, <1>2, <1>3 DEF ToSet
<1>6. IsInjective(s) /\ x \notin ToSet(s) => IsInjective(t)
  BY <1>1, <1>2 DEF IsInjective, ToSet
<1>7. ASSUME NEW a, NEW b, Before(s, a, b)
      PROVE  Before(t, a, b)
  BY <1>1, <1>3, <1>7 DEF Before
<1>8. ASSUME NEW a, NEW b, Before(t, a, b)
      PROVE  Before(s, a, b) \/ (a \in ToSet(s) /\ b = x)
  <2>1. PICK m \in DOMAIN t, n \in DOMAIN t : m < n /\ t[m] = a /\ t[n] = b
    BY <1>8 DEF Before
  <2>2. m \in DOMAIN s
    BY <1>1, <2>1
  <2> QED
    BY <1>1, <1>2, <2>1, <2>2 DEF Before, ToSet
<1>9. \A a \in ToSet(s) : Before(t, a, x)
  BY <1>1, <1>3, <1>4 DEF Before, ToSet
<1> QED
  BY <1>1, <1>5, <1>6, <1>7, <1>8, <1>9 DEF t

\* A queue whose first member leaves: he was in front of all others, whose
\* order stays.
LEMMA HeadIsFirst ==
  ASSUME NEW S, NEW s \in Seq(S), s # << >>
  PROVE  /\ ToSet(s) = {Head(s)} \cup ToSet(Tail(s))
         /\ \A x \in ToSet(Tail(s)) : Before(s, Head(s), x)
         /\ \A a, b : Before(Tail(s), a, b) => Before(s, a, b)
<1> DEFINE t == Tail(s)
<1>1. /\ Len(s) \in Nat /\ DOMAIN s = 1..Len(s) /\ Len(s) > 0
      /\ Head(s) = s[1]
      /\ t \in Seq(S) /\ Len(t) = Len(s) - 1
      /\ \A n \in 1..Len(t) : t[n] = s[n + 1]
  BY LenProperties, EmptySeq, HeadTailProperties
<1>2. DOMAIN t = 1..(Len(s) - 1)
  BY <1>1, LenProperties
<1> HIDE DEF t
<1>3. \A n \in DOMAIN t : n + 1 \in DOMAIN s /\ t[n] = s[n + 1] /\ 1 < n + 1
  BY <1>1, <1>2
<1>4. 1 \in DOMAIN s
  BY <1>1
<1>5. \A n \in DOMAIN s : n = 1 \/ (n - 1 \in DOMAIN t /\ t[n - 1] = s[n])
  <2> SUFFICES ASSUME NEW n \in DOMAIN s, n # 1
               PROVE  n - 1 \in DOMAIN t /\ t[n - 1] = s[n]
    OBVIOUS
  <2>1. n - 1 \in DOMAIN t /\ n - 1 + 1 = n
    BY <1>1, <1>2
  <2> QED
    BY <1>3, <2>1
<1>6. ToSet(s) = {Head(s)} \cup ToSet(t)
  BY <1>1, <1>3, <1>4, <1>5 DEF ToSet
<1>7. \A x \in ToSet(t) : Before(s, Head(s), x)
  BY <1>1, <1>3, <1>4 DEF ToSet, Before
<1>8. ASSUME NEW a, NEW b, Before(t, a, b)
      PROVE  Before(s, a, b)
  <2>1. PICK m \in DOMAIN t, n \in DOMAIN t : m < n /\ t[m] = a /\ t[n] = b
    BY <1>8 DEF Before
  <2>2. m + 1 < n + 1
    BY <1>1, <1>2, <2>1
  <2> QED
    BY <1>3, <2>1, <2>2 DEF Before
<1> QED
  BY <1>6, <1>7, <1>8 DEF t

\* Splicing one entry out of a queue in which each stands once: just he is
\* gone, and the order of the others stays.
LEMMA RemoveExactly ==
  ASSUME NEW S, NEW s \in Seq(S), NEW p \in DOMAIN s, IsInjective(s)
  PROVE  /\ ToSet(RemoveAt(s, p)) = ToSet(s) \ {s[p]}
         /\ IsInjective(RemoveAt(s, p))
         /\ \A a, b : Before(RemoveAt(s, p), a, b) => Before(s, a, b)
<1> DEFINE t == RemoveAt(s, p)
           at(n) == IF n < p THEN n ELSE n + 1
<1>1. Len(s) \in Nat /\ DOMAIN s = 1..Len(s) /\ p \in 1..Len(s)
  BY LenProperties
<1>2. /\ t \in Seq(S) /\ Len(t) = Len(s) - 1
      /\ \A n \in 1..(Len(s) - 1) : t[n] = s[at(n)]
  <2> DEFINE a == SubSeq(s, 1, p - 1)
             b == SubSeq(s, p + 1, Len(s))
  <2>1. \A n \in 1..Len(s) : s[n] \in S
    BY <1>1, ElementOfSeq
  <2>2. /\ a \in Seq(S) /\ Len(a) = p - 1
        /\ \A n \in 1..(p - 1) : a[n] = s[n]
    BY <1>1, <2>1, SubSeqProperties
  <2>3. /\ b \in Seq(S) /\ Len(b) = Len(s) - p
        /\ \A n \in 1..(Len(s) - p) : b[n] = s[p + n]
    <3>1. \A n \in (p + 1)..Len(s) : s[n] \in S
      BY <1>1, <2>1
    <3>2. /\ b \in Seq(S)
          /\ Len(b) = IF p + 1 <= Len(s) THEN Len(s) - (p + 1) + 1 ELSE 0
          /\ \A n \in 1..(Len(s) - (p + 1) + 1) : b[n] = s[(p + 1) + n - 1]
      BY <1>1, <3>1, SubSeqProperties
    <3> HIDE DEF b
    <3>3. Len(s) - (p + 1) + 1 = Len(s) - p
      BY <1>1
    <3>4. \A n \in 1..(Len(s) - p) : (p + 1) + n - 1 = p + n
      BY <1>1
    <3> QED
      BY <1>1, <3>2, <3>3, <3>4
  <2>4. t = a \o b
    BY DEF RemoveAt
  <2> HIDE DEF a, b, t
  <2>5. /\ t \in Seq(S) /\ Len(t) = Len(a) + Len(b)
        /\ \A n \in 1..(Len(a) + Len(b)) : t[n] = IF n <= Len(a) THEN a[n] ELSE b[n - Len(a)]
    BY <2>2, <2>3, <2>4, ConcatProperties
  <2>6. Len(a) + Len(b) = Len(s) - 1
    BY <1>1, <2>2, <2>3
  <2>7. ASSUME NEW n \in 1..(Len(s) - 1)
        PROVE  t[n] = s[at(n)]
    <3>1. CASE n < p
      <4>1. n <= Len(a) /\ n \in 1..(p - 1)
        BY <1>1, <2>2, <3>1
      <4> QED
        BY <2>2, <2>5, <2>6, <3>1, <4>1
    <3>2. CASE ~ (n < p)
      <4>1. ~ (n <= Len(a)) /\ n - Len(a) \in 1..(Len(s) - p) /\ p + (n - Len(a)) = n + 1
        BY <1>1, <2>2, <3>2
      <4> QED
        BY <2>3, <2>5, <2>6, <3>2, <4>1
    <3> QED
      BY <3>1, <3>2
  <2> QED
    BY <2>5, <2>6, <2>7
<1>3. DOMAIN t = 1..(Len(s) - 1)
  BY <1>2, LenProperties
<1> HIDE DEF t
<1>4. \A n \in DOMAIN t : at(n) \in DOMAIN s /\ at(n) # p /\ t[n] = s[at(n)]
  BY <1>1, <1>2, <1>3
<1>5. \A m, n \in DOMAIN t : (m < n => at(m) < at(n)) /\ (at(m) = at(n) => m = n)
  BY <1>1, <1>3
<1>6. \A n \in DOMAIN s \ {p} : \E m \in DOMAIN t : at(m) = n
  <2> SUFFICES ASSUME NEW n \in DOMAIN s, n # p
               PROVE  \E m \in DOMAIN t : at(m) = n
    OBVIOUS
  <2>1. CASE n < p
    <3>1. n \in DOMAIN t
      BY <1>1, <1>3, <2>1
    <3> QED
      BY <2>1, <3>1
  <2>2. CASE ~ (n < p)
    <3>1. n - 1 \in DOMAIN t /\ ~ (n - 1 < p) /\ n - 1 + 1 = n
      BY <1>1, <1>3, <2>2
    <3> QED
      BY <3>1
  <2> QED
    BY <2>1, <2>2
<1> HIDE DEF at
<1>7. ToSet(t) = ToSet(s) \ {s[p]}
  <2>1. ToSet(t) \subseteq ToSet(s) \ {s[p]}
    BY <1>4 DEF ToSet, IsInjective
  <2>2. ToSet(s) \ {s[p]} \subseteq ToSet(t)
    <3> SUFFICES ASSUME NEW n \in DOMAIN s, s[n] # s[p]
                 PROVE  s[n] \in ToSet(t)
      BY DEF ToSet
    <3>1. PICK m \in DOMAIN t : at(m) = n
      BY <1>6
    <3> QED
      BY <1>4, <3>1 DEF ToSet
  <2> QED
    BY <2>1, <2>2
<1>8. IsInjective(t)
  BY <1>4, <1>5 DEF IsInjective
<1>9. ASSUME NEW a, NEW b, Before(t, a, b)
      PROVE  Before(s, a, b)
  BY <1>4, <1>5, <1>9 DEF Before
<1> QED
  BY <1>7, <1>8, <1>9 DEF t

\* Where each stands once, two cannot both be in front of the other.
LEMMA BeforeIsStrict ==
  ASSUME NEW S, NEW s \in Seq(S), IsInjective(s), NEW x, NEW y, Before(s, x, y)
  PROVE  ~ Before(s, y, x)
<1>1. DOMAIN s \subseteq Nat
  BY LenProperties
<1> QED
  BY <1>1 DEF Before, IsInjective

\* The smallest place in a set of places is one of them.
LEMMA MinIsMember ==
  ASSUME NEW S \in SUBSET Nat, S # {}
  PROVE  Min(S) \in S /\ \A m \in S : Min(S) =< m
<1> DEFINE R == OpToRel(<, Nat)
<1>1. IsWellFoundedOn(R, Nat)
  BY NatLessThanWellFounded
<1>2. \A m \in S : \A n \in S : m < n => <<m, n>> \in R
  BY DEF OpToRel
<1> HIDE DEF R
<1>3. \E n \in S : \A m \in S : ~ (<<m, n>> \in R)
  BY <1>1, WFMin
<1>4. PICK n \in S : \A m \in S : ~ (<<m, n>> \in R)
  BY <1>3
<1>5. \A m \in S : n =< m
  <2> TAKE m \in S
  <2>1. ~ (m < n)
    BY <1>2, <1>4
  <2> QED
    BY <2>1
<1> QED
  BY <1>5 DEF Min

-----------------------------------------------------------------------------
(* Induction, stated of sets: they stand for the predicates that the       *)
(* provers cannot take as arguments.                                       *)

\* The numbers up to N are in P if 0 is and P is closed under successor there.
LEMMA InductionUpTo ==
  ASSUME NEW N \in Nat, NEW P, 0 \in P, \A n \in 0..(N - 1) : n \in P => n + 1 \in P
  PROVE  \A n \in 0..N : n \in P
<1> DEFINE Bad == {n \in 0..N : n \notin P}
<1>1. SUFFICES ASSUME Bad # {}
               PROVE  FALSE
  OBVIOUS
<1>2. Bad \in SUBSET Nat
  OBVIOUS
<1>3. Min(Bad) \in Bad /\ \A m \in Bad : Min(Bad) <= m
  BY <1>1, <1>2, MinIsMember
<1>4. PICK m \in 0..N : m \notin P /\ \A n \in Bad : m <= n
  BY <1>3
<1>5. m # 0 /\ m - 1 \in 0..(N - 1) /\ (m - 1) + 1 = m
  BY <1>4
<1>6. m - 1 \in P
  BY <1>4, <1>5
<1> QED
  BY <1>4, <1>5, <1>6

\* All lists are in P if the empty one is and P is closed under Append.
LEMMA ListInduction ==
  ASSUME NEW T, NEW P, << >> \in P, \A s \in Seq(T) : \A x \in T : s \in P => Append(s, x) \in P
  PROVE  \A s \in Seq(T) : s \in P
<1> SUFFICES ASSUME NEW s \in Seq(T)
             PROVE  s \in P
  OBVIOUS
<1> DEFINE Q == {n \in 0..Len(s) : SubSeq(s, 1, n) \in P}
<1>1. Len(s) \in Nat /\ \A i \in 1..Len(s) : s[i] \in T
  BY LenProperties, ElementOfSeq
<1>2. 0 \in Q
  <2>1. SubSeq(s, 1, 0) = << >> /\ 0 \in 0..Len(s)
    BY <1>1, SubSeqEmpty
  <2> QED
    BY <2>1, Zenon
<1>3. ASSUME NEW n \in 0..(Len(s) - 1), n \in Q
      PROVE  n + 1 \in Q
  <2>1. SubSeq(s, 1, n) \in Seq(T) /\ s[n + 1] \in T
    BY <1>1, SubSeqProperties
  <2>2. SubSeq(s, 1, n + 1) = Append(SubSeq(s, 1, n), s[n + 1])
    <3>1. n + 1 \in 1..Len(s) /\ 1 \in 1..Len(s) /\ n + 1 \in 1..Len(s) /\ (n + 1) - 1 = n
      BY <1>1
    <3>2. SubSeq(s, 1, n + 1) = SubSeq(s, 1, n) \o <<s[n + 1]>>
      BY <3>1, SubSeqRecursiveSecond
    <3> QED
      BY <2>1, <3>2, AppendIsConcat
  <2>3. SubSeq(s, 1, n) \in P
    BY <1>3
  <2>4. SubSeq(s, 1, n + 1) \in P
    BY <2>1, <2>2, <2>3, Zenon
  <2>5. n + 1 \in 0..Len(s)
    BY <1>1
  <2> QED
    BY <2>4, <2>5, Zenon
<1>4. Len(s) \in Q
  <2> HIDE DEF Q
  <2> QED
    BY SMTT(30), <1>1, <1>2, <1>3, InductionUpTo
<1>5. SubSeq(s, 1, Len(s)) = s
  BY SubSeqFull
<1> QED
  BY <1>4, <1>5

-----------------------------------------------------------------------------
(* Filters.                                                                *)

\* One step of a filter.
OneKept(kept, s, S, i) ==
  IF i = 0 THEN << >>
  ELSE IF s[i] \in S THEN Append(kept[i - 1], s[i])
  ELSE kept[i - 1]

\* A filter is what its definition says.
LEMMA KeptUnfolds ==
  ASSUME NEW s, NEW S, Len(s) \in Nat
  PROVE  Kept(s, S) = [i \in 0..Len(s) |-> OneKept(Kept(s, S), s, S, i)]
<1> DEFINE Good == {n \in 0..Len(s) : \E f : f = [i \in 0..n |-> OneKept(f, s, S, i)]}
<1>1. 0 \in Good
  <2> DEFINE f == [i \in 0..0 |-> << >>]
  <2>1. f = [i \in 0..0 |-> OneKept(f, s, S, i)]
    BY DEF OneKept
  <2> QED
    BY <2>1
<1>2. ASSUME NEW n \in 0..(Len(s) - 1), n \in Good
      PROVE  n + 1 \in Good
  <2>1. PICK f : f = [i \in 0..n |-> OneKept(f, s, S, i)]
    BY <1>2
  <2> DEFINE g == [i \in 0..(n + 1) |-> IF i = n + 1 THEN OneKept(f, s, S, i) ELSE f[i]]
  <2>2. \A i \in 0..n : g[i] = f[i]
    OBVIOUS
  <2>3. \A i \in 0..(n + 1) : OneKept(g, s, S, i) = OneKept(f, s, S, i)
    <3> SUFFICES ASSUME NEW i \in 0..(n + 1), i # 0
                 PROVE  g[i - 1] = f[i - 1]
      BY DEF OneKept
    <3>1. i - 1 \in 0..n
      OBVIOUS
    <3> QED
      BY <2>2, <3>1
  <2>4. \A i \in 0..n : f[i] = OneKept(f, s, S, i)
    BY <2>1
  <2>5. g = [i \in 0..(n + 1) |-> OneKept(f, s, S, i)]
    BY <2>4
  <2>6. g = [i \in 0..(n + 1) |-> OneKept(g, s, S, i)]
    <3> HIDE DEF g
    <3> QED
      BY <2>3, <2>5
  <2>7. n + 1 \in 0..Len(s)
    OBVIOUS
  <2> HIDE DEF g
  <2> QED
    BY <2>6, <2>7
<1>3. Len(s) \in Good
  <2> HIDE DEF Good
  <2>1. \A n \in 0..Len(s) : n \in Good
    BY <1>1, <1>2, InductionUpTo
  <2>2. Len(s) \in 0..Len(s)
    OBVIOUS
  <2> QED
    BY <2>1, <2>2
<1>4. PICK f : f = [i \in 0..Len(s) |-> OneKept(f, s, S, i)]
  BY <1>3
<1>5. Kept(s, S) = CHOOSE g : g = [i \in 0..Len(s) |-> OneKept(g, s, S, i)]
  BY DEF Kept, OneKept
<1> HIDE DEF Good
<1> QED
  BY <1>4, <1>5, Zenon

\* What follows in a list does not matter to what is kept before.
LEMMA KeptOfAppend ==
  ASSUME NEW T, NEW s \in Seq(T), NEW x \in T, NEW S
  PROVE  \A i \in 0..Len(s) : Kept(Append(s, x), S)[i] = Kept(s, S)[i]
<1> DEFINE t == Append(s, x)
           P == {i \in 0..Len(s) : Kept(t, S)[i] = Kept(s, S)[i]}
<1>1. Len(s) \in Nat /\ Len(t) = Len(s) + 1 /\ \A i \in 1..Len(s) : t[i] = s[i]
  BY LenProperties, AppendProperties
<1> HIDE DEF t
<1>2. /\ \A i \in 0..Len(s) : Kept(s, S)[i] = OneKept(Kept(s, S), s, S, i)
      /\ \A i \in 0..(Len(s) + 1) : Kept(t, S)[i] = OneKept(Kept(t, S), t, S, i)
  <2>1. /\ Kept(s, S) = [i \in 0..Len(s) |-> OneKept(Kept(s, S), s, S, i)]
        /\ Kept(t, S) = [i \in 0..Len(t) |-> OneKept(Kept(t, S), t, S, i)]
    BY <1>1, KeptUnfolds
  <2> QED
    BY <1>1, <2>1
<1>3. 0 \in P
  BY <1>1, <1>2 DEF OneKept
<1>4. ASSUME NEW i \in 0..(Len(s) - 1), i \in P
      PROVE  i + 1 \in P
  <2>1. /\ i + 1 \in 1..Len(s) /\ i + 1 \in 0..Len(s) /\ i + 1 \in 0..(Len(s) + 1)
        /\ (i + 1) - 1 = i /\ i + 1 # 0
    BY <1>1
  <2>2. Kept(t, S)[i] = Kept(s, S)[i]
    BY <1>4
  <2>3. OneKept(Kept(t, S), t, S, i + 1) = OneKept(Kept(s, S), s, S, i + 1)
    BY <1>1, <2>1, <2>2 DEF OneKept
  <2>4. Kept(t, S)[i + 1] = Kept(s, S)[i + 1]
    BY <1>2, <2>1, <2>3
  <2> QED
    BY <2>1, <2>4
<1> HIDE DEF P
<1>5. \A i \in 0..Len(s) : i \in P
  BY <1>1, <1>3, <1>4, InductionUpTo
<1> QED
  BY <1>5 DEF P, t

\* A filter of the empty list, and of one behind which a member is put.
LEMMA OnlyEmpty ==
  ASSUME NEW S
  PROVE  Only(<< >>, S) = << >>
<1>1. Len(<< >>) = 0
  OBVIOUS
<1>2. Kept(<< >>, S) = [i \in 0..Len(<< >>) |-> OneKept(Kept(<< >>, S), << >>, S, i)]
  BY <1>1, KeptUnfolds
<1> QED
  BY <1>1, <1>2 DEF Only, OneKept

LEMMA OnlyOfAppend ==
  ASSUME NEW T, NEW s \in Seq(T), NEW x \in T, NEW S
  PROVE  Only(Append(s, x), S) = IF x \in S THEN Append(Only(s, S), x) ELSE Only(s, S)
<1> DEFINE t == Append(s, x)
           n == Len(s)
<1>1. n \in Nat /\ Len(t) = n + 1 /\ t[n + 1] = x
  BY LenProperties, AppendProperties
<1>2. Kept(t, S)[n] = Kept(s, S)[n]
  BY <1>1, KeptOfAppend
<1> HIDE DEF t, n
<1>3. Kept(t, S) = [i \in 0..(n + 1) |-> OneKept(Kept(t, S), t, S, i)]
  BY <1>1, KeptUnfolds
<1>4. n + 1 \in 0..(n + 1) /\ (n + 1) - 1 = n /\ n + 1 # 0
  BY <1>1
<1>5. Kept(t, S)[n + 1] = OneKept(Kept(t, S), t, S, n + 1)
  BY <1>3, <1>4
<1>6. Kept(t, S)[n + 1] = IF x \in S THEN Append(Kept(s, S)[n], x) ELSE Kept(s, S)[n]
  BY <1>1, <1>2, <1>4, <1>5 DEF OneKept
<1> QED
  BY <1>1, <1>6 DEF Only, t, n

\* A filter keeps the members it lets pass, each as often as it was there.
LEMMA OnlyMembers ==
  ASSUME NEW T, NEW S, NEW s \in Seq(T)
  PROVE  /\ Only(s, S) \in Seq(T)
         /\ ToSet(Only(s, S)) = ToSet(s) \cap S
         /\ IsInjective(s) => IsInjective(Only(s, S))
<1> DEFINE P == {q \in Seq(T) : /\ Only(q, S) \in Seq(T)
                                /\ ToSet(Only(q, S)) = ToSet(q) \cap S
                                /\ IsInjective(q) => IsInjective(Only(q, S))}
<1>1. << >> \in P
  <2>1. << >> \in Seq(T) /\ IsInjective(<< >>)
    BY EmptySeq DEF IsInjective
  <2> QED
    BY <2>1, OnlyEmpty, ToSetEmpty
<1>2. ASSUME NEW q \in Seq(T), NEW x \in T, q \in P
      PROVE  Append(q, x) \in P
  <2> DEFINE o == Only(q, S)
  <2>1. o \in Seq(T) /\ ToSet(o) = ToSet(q) \cap S /\ (IsInjective(q) => IsInjective(o))
    BY <1>2
  <2>2. /\ Append(q, x) \in Seq(T) /\ ToSet(Append(q, x)) = ToSet(q) \cup {x}
        /\ IsInjective(Append(q, x)) => IsInjective(q) /\ x \notin ToSet(q)
    <3>1. IsInjective(Append(q, x)) => IsInjective(q) /\ x \notin ToSet(q)
      <4>1. /\ Len(q) \in Nat /\ DOMAIN q = 1..Len(q)
            /\ DOMAIN Append(q, x) = 1..(Len(q) + 1) /\ Append(q, x)[Len(q) + 1] = x
            /\ \A i \in 1..Len(q) : Append(q, x)[i] = q[i]
        BY LenProperties, AppendProperties
      <4>2. /\ \A i \in 1..Len(q) : i \in 1..(Len(q) + 1) /\ i # Len(q) + 1
            /\ Len(q) + 1 \in 1..(Len(q) + 1)
        BY <4>1
      <4> QED
        BY <4>1, <4>2 DEF IsInjective, ToSet
    <3> QED
      BY <3>1, AppendToList
  <2>3. /\ Append(o, x) \in Seq(T) /\ ToSet(Append(o, x)) = ToSet(o) \cup {x}
        /\ IsInjective(o) /\ x \notin ToSet(o) => IsInjective(Append(o, x))
    BY <2>1, AppendToList
  <2>4. Only(Append(q, x), S) = IF x \in S THEN Append(o, x) ELSE o
    BY OnlyOfAppend
  <2> HIDE DEF o
  <2>5. CASE x \in S
    BY <2>1, <2>2, <2>3, <2>4, <2>5
  <2>6. CASE x \notin S
    BY <2>1, <2>2, <2>4, <2>6
  <2> QED
    BY <2>5, <2>6
<1> HIDE DEF P
<1>3. s \in P
  BY <1>1, <1>2, ListInduction
<1> QED
  BY <1>3 DEF P

\* A list of one member.
LEMMA SingletonList ==
  ASSUME NEW T, NEW x \in T
  PROVE  <<x>> \in Seq(T)
BY EmptySeq, AppendProperties

\* Filters pass through concatenations.
LEMMA OnlyOfConcat ==
  ASSUME NEW T, NEW S, NEW s \in Seq(T), NEW t \in Seq(T)
  PROVE  Only(s \o t, S) = Only(s, S) \o Only(t, S)
<1> DEFINE P == {q \in Seq(T) : Only(s \o q, S) = Only(s, S) \o Only(q, S)}
<1>1. Only(s, S) \in Seq(T)
  BY OnlyMembers
<1>2. << >> \in P
  <2>1. << >> \in Seq(T) /\ s \o << >> = s /\ Only(s, S) \o << >> = Only(s, S)
    BY <1>1, EmptySeq, ConcatEmptySeq
  <2> QED
    BY <2>1, OnlyEmpty
<1>3. ASSUME NEW q \in Seq(T), NEW x \in T, q \in P
      PROVE  Append(q, x) \in P
  <2>1. Only(s \o q, S) = Only(s, S) \o Only(q, S)
    BY <1>3
  <2>2. s \o q \in Seq(T) /\ Only(q, S) \in Seq(T) /\ Append(q, x) \in Seq(T)
    BY ConcatProperties, AppendProperties, OnlyMembers
  <2>3. s \o Append(q, x) = Append(s \o q, x)
    BY <2>2, AppendIsConcat, ConcatAssociative, SingletonList
  <2>4. Only(s, S) \o Append(Only(q, S), x) = Append(Only(s, S) \o Only(q, S), x)
    <3>1. Only(s, S) \o Only(q, S) \in Seq(T)
      BY <1>1, <2>2, ConcatProperties
    <3> QED
      BY SMTT(30), <1>1, <2>2, <3>1, AppendIsConcat, ConcatAssociative, SingletonList
  <2>5. /\ Only(Append(s \o q, x), S) =
             IF x \in S THEN Append(Only(s \o q, S), x) ELSE Only(s \o q, S)
        /\ Only(Append(q, x), S) = IF x \in S THEN Append(Only(q, S), x) ELSE Only(q, S)
    BY <2>2, OnlyOfAppend
  <2>6. Only(s \o Append(q, x), S) = Only(s, S) \o Only(Append(q, x), S)
    BY <2>1, <2>3, <2>4, <2>5, Zenon
  <2> QED
    BY <2>2, <2>6, Zenon
<1> HIDE DEF P
<1>4. t \in P
  BY <1>2, <1>3, ListInduction
<1> QED
  BY <1>4 DEF P

\* Filters that let the same members of a list pass keep the same of it.
LEMMA OnlySame ==
  ASSUME NEW T, NEW A, NEW B, NEW s \in Seq(T), ToSet(s) \cap A = ToSet(s) \cap B
  PROVE  Only(s, A) = Only(s, B)
<1> DEFINE P == {q \in Seq(T) : ToSet(q) \cap A = ToSet(q) \cap B => Only(q, A) = Only(q, B)}
<1>1. << >> \in P
  BY EmptySeq, OnlyEmpty
<1>2. ASSUME NEW q \in Seq(T), NEW x \in T, q \in P
      PROVE  Append(q, x) \in P
  <2>1. /\ Append(q, x) \in Seq(T) /\ ToSet(Append(q, x)) = ToSet(q) \cup {x}
    BY AppendToList
  <2>2. /\ Only(Append(q, x), A) = IF x \in A THEN Append(Only(q, A), x) ELSE Only(q, A)
        /\ Only(Append(q, x), B) = IF x \in B THEN Append(Only(q, B), x) ELSE Only(q, B)
    BY OnlyOfAppend
  <2>3. ASSUME ToSet(Append(q, x)) \cap A = ToSet(Append(q, x)) \cap B
        PROVE  Only(Append(q, x), A) = Only(Append(q, x), B)
    <3>1. (x \in A <=> x \in B) /\ ToSet(q) \cap A = ToSet(q) \cap B
      <4>1. \A y \in ToSet(q) \cup {x} : y \in A <=> y \in B
        BY <2>1, <2>3
      <4> QED
        BY <4>1
    <3>2. Only(q, A) = Only(q, B)
      BY <1>2, <3>1
    <3> QED
      BY <2>2, <3>1, <3>2
  <2> QED
    BY <2>1, <2>3
<1> HIDE DEF P
<1>3. s \in P
  BY <1>1, <1>2, ListInduction
<1> QED
  BY <1>3 DEF P

\* A filter of what a filter left.
LEMMA OnlyTwice ==
  ASSUME NEW T, NEW A, NEW B, NEW s \in Seq(T)
  PROVE  Only(Only(s, A), B) = Only(s, A \cap B)
<1> DEFINE P == {q \in Seq(T) : Only(Only(q, A), B) = Only(q, A \cap B)}
<1>1. << >> \in P
  BY EmptySeq, OnlyEmpty
<1>2. ASSUME NEW q \in Seq(T), NEW x \in T, q \in P
      PROVE  Append(q, x) \in P
  <2>1. Only(q, A) \in Seq(T) /\ Append(q, x) \in Seq(T)
    BY AppendProperties, OnlyMembers
  <2>2. /\ Only(Append(q, x), A) = IF x \in A THEN Append(Only(q, A), x) ELSE Only(q, A)
        /\ Only(Append(q, x), A \cap B) =
             IF x \in A \cap B THEN Append(Only(q, A \cap B), x) ELSE Only(q, A \cap B)
        /\ Only(Append(Only(q, A), x), B) =
             IF x \in B THEN Append(Only(Only(q, A), B), x) ELSE Only(Only(q, A), B)
    BY <2>1, OnlyOfAppend
  <2>3. Only(Only(q, A), B) = Only(q, A \cap B)
    BY <1>2
  <2>4. Only(Only(Append(q, x), A), B) = Only(Append(q, x), A \cap B)
    <3>1. CASE x \in A /\ x \in B
      BY <2>2, <2>3, <3>1
    <3>2. CASE x \in A /\ x \notin B
      BY <2>2, <2>3, <3>2
    <3>3. CASE x \notin A
      BY <2>2, <2>3, <3>3
    <3> QED
      BY <3>1, <3>2, <3>3
  <2> QED
    BY <2>1, <2>4
<1> HIDE DEF P
<1>3. s \in P
  BY <1>1, <1>2, ListInduction
<1> QED
  BY <1>3 DEF P

\* What is put behind a list does not change its beginnings.
LEMMA SubSeqOfAppend ==
  ASSUME NEW T, NEW s \in Seq(T), NEW x \in T
  PROVE  \A n \in 0..Len(s) : SubSeq(Append(s, x), 1, n) = SubSeq(s, 1, n)
<1> SUFFICES ASSUME NEW n \in 0..Len(s)
             PROVE  SubSeq(Append(s, x), 1, n) = SubSeq(s, 1, n)
  OBVIOUS
<1>1. /\ Len(s) \in Nat /\ Append(s, x) \in Seq(T) /\ Len(Append(s, x)) = Len(s) + 1
      /\ \A i \in 1..Len(s) : Append(s, x)[i] = s[i]
  BY LenProperties, AppendProperties
<1>2. /\ SubSeq(s, 1, n) \in Seq(T) /\ Len(SubSeq(s, 1, n)) = n
      /\ \A i \in 1..n : SubSeq(s, 1, n)[i] = s[i]
  BY <1>1
<1>3. /\ SubSeq(Append(s, x), 1, n) \in Seq(T) /\ Len(SubSeq(Append(s, x), 1, n)) = n
      /\ \A i \in 1..n : SubSeq(Append(s, x), 1, n)[i] = Append(s, x)[i]
  BY <1>1
<1>4. \A i \in 1..n : i \in 1..Len(s)
  BY <1>1
<1> QED
  BY <1>1, <1>2, <1>3, <1>4, SeqEqual

-----------------------------------------------------------------------------
(* Concatenations of the members of a list.                                *)

\* One step of FlattenSeq.
OneFlat(f, s, i) == IF i = 1 THEN s[i] ELSE f[i - 1] \o s[i]

\* The concatenations of the first members of s.
Flat(s) == CHOOSE f : f = [i \in 1..Len(s) |-> OneFlat(f, s, i)]

LEMMA FlatUnfolds ==
  ASSUME NEW s, Len(s) \in Nat
  PROVE  Flat(s) = [i \in 1..Len(s) |-> OneFlat(Flat(s), s, i)]
<1> DEFINE Good == {n \in 0..Len(s) : \E f : f = [i \in 1..n |-> OneFlat(f, s, i)]}
<1>1. 0 \in Good
  <2> DEFINE f == [i \in 1..0 |-> << >>]
  <2>1. f = [i \in 1..0 |-> OneFlat(f, s, i)]
    BY DEF OneFlat
  <2>2. 0 \in 0..Len(s)
    OBVIOUS
  <2> HIDE DEF f
  <2> QED
    BY <2>1, <2>2
<1>2. ASSUME NEW n \in 0..(Len(s) - 1), n \in Good
      PROVE  n + 1 \in Good
  <2>1. PICK f : f = [i \in 1..n |-> OneFlat(f, s, i)]
    BY <1>2
  <2> DEFINE g == [i \in 1..(n + 1) |-> IF i = n + 1 THEN OneFlat(f, s, i) ELSE f[i]]
  <2>2. \A i \in 1..n : g[i] = f[i]
    OBVIOUS
  <2>3. \A i \in 1..(n + 1) : OneFlat(g, s, i) = OneFlat(f, s, i)
    <3> SUFFICES ASSUME NEW i \in 1..(n + 1), i # 1
                 PROVE  g[i - 1] = f[i - 1]
      BY DEF OneFlat
    <3>1. i - 1 \in 1..n
      OBVIOUS
    <3> QED
      BY <2>2, <3>1
  <2>4. \A i \in 1..n : f[i] = OneFlat(f, s, i)
    BY <2>1
  <2>5. g = [i \in 1..(n + 1) |-> OneFlat(f, s, i)]
    BY <2>4
  <2>6. g = [i \in 1..(n + 1) |-> OneFlat(g, s, i)]
    <3> HIDE DEF g
    <3> QED
      BY <2>3, <2>5
  <2>7. n + 1 \in 0..Len(s)
    OBVIOUS
  <2> HIDE DEF g
  <2> QED
    BY <2>6, <2>7
<1>3. Len(s) \in Good
  <2> HIDE DEF Good
  <2>1. \A n \in 0..Len(s) : n \in Good
    BY <1>1, <1>2, InductionUpTo
  <2>2. Len(s) \in 0..Len(s)
    OBVIOUS
  <2> QED
    BY <2>1, <2>2
<1>4. PICK f : f = [i \in 1..Len(s) |-> OneFlat(f, s, i)]
  BY <1>3
<1> HIDE DEF Good
<1> QED
  BY <1>4, Zenon DEF Flat

LEMMA FlattenIsFlat ==
  ASSUME NEW s, Len(s) # 0
  PROVE  FlattenSeq(s) = Flat(s)[Len(s)]
BY DEF FlattenSeq, Flat, OneFlat

LEMMA FlattenEmpty == FlattenSeq(<< >>) = << >>
BY DEF FlattenSeq

\* What follows in a list does not matter to what is concatenated before.
LEMMA FlatOfAppend ==
  ASSUME NEW T, NEW s \in Seq(T), NEW x \in T
  PROVE  \A i \in 1..Len(s) : Flat(Append(s, x))[i] = Flat(s)[i]
<1> DEFINE t == Append(s, x)
           P == {i \in 0..Len(s) : i # 0 => Flat(t)[i] = Flat(s)[i]}
<1>1. Len(s) \in Nat /\ Len(t) = Len(s) + 1 /\ \A i \in 1..Len(s) : t[i] = s[i]
  BY LenProperties, AppendProperties
<1> HIDE DEF t
<1>2. /\ \A i \in 1..Len(s) : Flat(s)[i] = OneFlat(Flat(s), s, i)
      /\ \A i \in 1..(Len(s) + 1) : Flat(t)[i] = OneFlat(Flat(t), t, i)
  <2>1. /\ Flat(s) = [i \in 1..Len(s) |-> OneFlat(Flat(s), s, i)]
        /\ Flat(t) = [i \in 1..Len(t) |-> OneFlat(Flat(t), t, i)]
    BY <1>1, FlatUnfolds
  <2> QED
    BY <1>1, <2>1
<1>3. 0 \in P
  BY <1>1
<1>4. ASSUME NEW i \in 0..(Len(s) - 1), i \in P
      PROVE  i + 1 \in P
  <2>1. /\ i + 1 \in 1..Len(s) /\ i + 1 \in 0..Len(s) /\ i + 1 \in 1..(Len(s) + 1)
        /\ (i + 1) - 1 = i /\ (i + 1 # 1 => i # 0)
    BY <1>1
  <2>2. i # 0 => Flat(t)[i] = Flat(s)[i]
    BY <1>4
  <2>3. OneFlat(Flat(t), t, i + 1) = OneFlat(Flat(s), s, i + 1)
    BY <1>1, <2>1, <2>2 DEF OneFlat
  <2>4. Flat(t)[i + 1] = Flat(s)[i + 1]
    BY <1>2, <2>1, <2>3
  <2> QED
    BY <2>1, <2>4
<1> HIDE DEF P
<1>5. \A i \in 0..Len(s) : i \in P
  BY <1>1, <1>3, <1>4, InductionUpTo
<1>6. \A i \in 1..Len(s) : i \in 0..Len(s) /\ i # 0
  OBVIOUS
<1> QED
  BY <1>5, <1>6 DEF P, t

\* A list put behind others is put behind their concatenation.
LEMMA FlattenOfAppend ==
  ASSUME NEW T, NEW s \in Seq(Seq(T)), NEW x \in Seq(T)
  PROVE  FlattenSeq(Append(s, x)) = FlattenSeq(s) \o x
<1> DEFINE t == Append(s, x)
           n == Len(s)
<1>1. n \in Nat /\ Len(t) = n + 1 /\ t[n + 1] = x
  BY LenProperties, AppendProperties
<1>2. n # 0 => Flat(t)[n] = Flat(s)[n]
  BY <1>1, FlatOfAppend
<1> HIDE DEF t
<1>3. Flat(t) = [i \in 1..(n + 1) |-> OneFlat(Flat(t), t, i)]
  BY <1>1, FlatUnfolds
<1>4. n + 1 \in 1..(n + 1) /\ (n + 1) - 1 = n /\ (n + 1 = 1 <=> n = 0) /\ n + 1 # 0
  BY <1>1
<1>5. FlattenSeq(t) = OneFlat(Flat(t), t, n + 1)
  BY <1>1, <1>3, <1>4, FlattenIsFlat
<1>6. CASE n = 0
  <2>1. s = << >>
    BY <1>6, EmptySeq
  <2>2. << >> \o x = x
    BY ConcatEmptySeq
  <2> QED
    BY <1>1, <1>4, <1>5, <1>6, <2>1, <2>2, FlattenEmpty DEF OneFlat, t
<1>7. CASE n # 0
  <2>1. FlattenSeq(s) = Flat(s)[n]
    BY <1>7, FlattenIsFlat
  <2> QED
    BY <1>1, <1>2, <1>4, <1>5, <1>7, <2>1 DEF OneFlat, t
<1> QED
  BY <1>6, <1>7
=============================================================================
