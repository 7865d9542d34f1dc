---------------------------- MODULE SequenceFacts ----------------------------
(***************************************************************************)
(* What the sequence operators the models share do to a queue: removal of  *)
(* an item, the set of the items, and the split into a head and a rest.    *)
(***************************************************************************)
EXTENDS SequencesExt, SequenceTheorems, TLAPS

(* The items of a sequence over S are in S; Seq is monotonic.              *)
LEMMA ItemsOfSeq ==
    ASSUME NEW S, NEW s \in Seq(S)
    PROVE  ToSet(s) \subseteq S
<1>1. \A i \in DOMAIN s : s[i] \in S
  OBVIOUS
<1> QED BY <1>1 DEF ToSet

LEMMA SeqIsMonotonic ==
    ASSUME NEW S, NEW T, S \subseteq T
    PROVE  Seq(S) \subseteq Seq(T)
<1> SUFFICES ASSUME NEW s \in Seq(S) PROVE s \in Seq(T)
  OBVIOUS
<1>1. s \in [1 .. Len(s) -> S] /\ Len(s) \in Nat
  OBVIOUS
<1>2. s \in [1 .. Len(s) -> T]
  BY <1>1
<1>3. Seq(T) = UNION {[1 .. n -> T] : n \in Nat}
  BY SeqDef
<1> QED BY <1>1, <1>2, <1>3

(* RemoveAt closes the gap at k.                                           *)
LEMMA RemoveAtProperties ==
    ASSUME NEW S, NEW s \in Seq(S), NEW k \in 1 .. Len(s)
    PROVE  /\ RemoveAt(s, k) \in Seq(S)
           /\ Len(RemoveAt(s, k)) = Len(s) - 1
           /\ \A i \in 1 .. Len(s) - 1 :
                 RemoveAt(s, k)[i] = IF i < k THEN s[i] ELSE s[i + 1]
<1> DEFINE a == SubSeq(s, 1, k - 1)
           b == SubSeq(s, k + 1, Len(s))
<1>0. Len(s) \in Nat /\ k \in Nat /\ k >= 1 /\ k <= Len(s)
  OBVIOUS
<1>1. /\ a \in Seq(S) /\ Len(a) = k - 1
      /\ \A i \in 1 .. k - 1 : a[i] = s[i]
  OBVIOUS
<1>2. /\ b \in Seq(S) /\ Len(b) = Len(s) - k
      /\ \A i \in 1 .. Len(s) - k : b[i] = s[k + i]
  OBVIOUS
<1> HIDE DEF a, b
<1>3. /\ a \o b \in Seq(S) /\ Len(a \o b) = Len(s) - 1
      /\ \A i \in 1 .. Len(s) - 1 :
            (a \o b)[i] = IF i <= Len(a) THEN a[i] ELSE b[i - Len(a)]
  <2>1. Len(a) + Len(b) = Len(s) - 1
    BY <1>0, <1>1, <1>2
  <2>2. /\ a \o b \in Seq(S) /\ Len(a \o b) = Len(a) + Len(b)
        /\ \A i \in 1 .. Len(a) + Len(b) :
              (a \o b)[i] = IF i <= Len(a) THEN a[i] ELSE b[i - Len(a)]
    BY <1>1, <1>2, ConcatProperties
  <2> QED BY <2>1, <2>2
<1>4. ASSUME NEW i \in 1 .. Len(s) - 1
      PROVE  (a \o b)[i] = IF i < k THEN s[i] ELSE s[i + 1]
  <2>1. CASE i < k
    BY <2>1, <1>1, <1>3
  <2>2. CASE i >= k
    <3>1. i - (k - 1) \in 1 .. Len(s) - k /\ k + (i - (k - 1)) = i + 1
      BY <2>2
    <3>2. (a \o b)[i] = b[i - (k - 1)]
      BY <2>2, <1>1, <1>3
    <3> QED BY <2>2, <3>1, <3>2, <1>2
  <2>3. i < k \/ i >= k
    BY <1>0
  <2> QED BY <2>1, <2>2, <2>3
<1> QED BY <1>3, <1>4 DEF RemoveAt, a, b

(* An element that occurs once is gone when its first occurrence is.       *)
LEMMA RemovedOnce ==
    ASSUME NEW S, NEW s \in Seq(S), NEW e,
           \A i, j \in DOMAIN s : s[i] = s[j] => i = j
    PROVE  /\ RemoveFirst(s, e) \in Seq(S)
           /\ \A i \in DOMAIN RemoveFirst(s, e) :
                 /\ RemoveFirst(s, e)[i] # e
                 /\ \E j \in DOMAIN s : RemoveFirst(s, e)[i] = s[j]
           /\ \A i, j \in DOMAIN RemoveFirst(s, e) :
                 RemoveFirst(s, e)[i] = RemoveFirst(s, e)[j] => i = j
<1>0. DOMAIN s = 1 .. Len(s) /\ Len(s) \in Nat
  OBVIOUS
<1>1. CASE \A i \in 1 .. Len(s) : s[i] # e
  <2>1. RemoveFirst(s, e) = s
    BY <1>1 DEF RemoveFirst
  <2> QED BY <1>0, <1>1, <2>1
<1>2. ASSUME NEW k \in 1 .. Len(s), s[k] = e
      PROVE  /\ RemoveFirst(s, e) \in Seq(S)
             /\ \A i \in DOMAIN RemoveFirst(s, e) :
                 /\ RemoveFirst(s, e)[i] # e
                 /\ \E j \in DOMAIN s : RemoveFirst(s, e)[i] = s[j]
             /\ \A i, j \in DOMAIN RemoveFirst(s, e) :
                 RemoveFirst(s, e)[i] = RemoveFirst(s, e)[j] => i = j
  <2>1. {i \in 1 .. Len(s) : s[i] = e} = {k}
    BY <1>0, <1>2
  <2>2. Min({k}) = k
    BY DEF Min
  <2>3. RemoveFirst(s, e) = RemoveAt(s, k)
    BY <1>2, <2>1, <2>2 DEF RemoveFirst, SelectInSeq
  <2> DEFINE r == RemoveAt(s, k)
  <2>a. /\ r \in Seq(S) /\ Len(r) = Len(s) - 1
        /\ \A i \in 1 .. Len(s) - 1 : r[i] = IF i < k THEN s[i] ELSE s[i + 1]
    BY RemoveAtProperties
  <2> HIDE DEF r
  <2>4. DOMAIN r = 1 .. Len(s) - 1
    BY <2>a
  <2> DEFINE from(i) == IF i < k THEN i ELSE i + 1
  <2>5. \A i \in DOMAIN r : /\ from(i) \in DOMAIN s /\ from(i) # k
                            /\ r[i] = s[from(i)]
    BY <1>0, <2>a, <2>4
  <2>6. \A i, j \in DOMAIN r : from(i) = from(j) => i = j
    BY <1>0, <2>a, <2>4
  <2> HIDE DEF from
  <2>7. \A i \in DOMAIN r : r[i] # e
    BY <1>0, <1>2, <2>5
  <2>8. \A i, j \in DOMAIN r : r[i] = r[j] => i = j
    BY <2>5, <2>6
  <2> QED BY <2>3, <2>a, <2>5, <2>7, <2>8 DEF r
<1> QED BY <1>1, <1>2

(* A sequence has what it had and what is appended.                        *)
LEMMA SetOfAppend ==
    ASSUME NEW S, NEW s \in Seq(S), NEW e
    PROVE  ToSet(Append(s, e)) = ToSet(s) \union {e}
<1>1. /\ DOMAIN s = 1 .. Len(s) /\ DOMAIN Append(s, e) = 1 .. Len(s) + 1
      /\ \A i \in 1 .. Len(s) : Append(s, e)[i] = s[i]
      /\ Append(s, e)[Len(s) + 1] = e
      /\ Len(s) \in Nat
  OBVIOUS
<1>2. 1 .. Len(s) + 1 = (1 .. Len(s)) \union {Len(s) + 1}
  BY <1>1
<1> HIDE DEF ToSet
<1>3. \A x : x \in ToSet(Append(s, e)) <=> \E i \in 1 .. Len(s) + 1 : Append(s, e)[i] = x
  BY <1>1 DEF ToSet
<1>4. \A x : x \in ToSet(s) <=> \E i \in 1 .. Len(s) : s[i] = x
  BY <1>1 DEF ToSet
<1> QED BY <1>1, <1>2, <1>3, <1>4

(* The first element goes over to the front of the rest.                   *)
LEMMA FirstAndRest ==
    ASSUME NEW S, NEW q \in Seq(S), q # <<>>
    PROVE  /\ q[1] \in S /\ RemoveAt(q, 1) \in Seq(S)
           /\ Len(RemoveAt(q, 1)) = Len(q) - 1
           /\ q = <<q[1]>> \o RemoveAt(q, 1)
<1>1. 1 \in 1 .. Len(q) /\ Len(q) \in Nat /\ q[1] \in S
  OBVIOUS
<1> DEFINE r == RemoveAt(q, 1)
<1>2. /\ r \in Seq(S) /\ Len(r) = Len(q) - 1
      /\ \A i \in 1 .. Len(q) - 1 : r[i] = IF i < 1 THEN q[i] ELSE q[i + 1]
  BY <1>1, RemoveAtProperties
<1> HIDE DEF r
<1>3. \A i \in 1 .. Len(q) - 1 : r[i] = q[i + 1]
  BY <1>2
<1> DEFINE w == <<q[1]>> \o r
<1>4. /\ w \in Seq(S) /\ Len(w) = Len(q)
      /\ \A i \in 1 .. Len(q) : w[i] = IF i <= 1 THEN q[1] ELSE r[i - 1]
  <2>1. /\ <<q[1]>> \in Seq(S) /\ Len(<<q[1]>>) = 1 /\ <<q[1]>>[1] = q[1]
    BY <1>1
  <2>2. /\ w \in Seq(S) /\ Len(w) = 1 + Len(r)
        /\ \A i \in 1 .. 1 + Len(r) :
              w[i] = IF i <= 1 THEN <<q[1]>>[i] ELSE r[i - 1]
    BY <2>1, <1>2, ConcatProperties
  <2> HIDE DEF w
  <2>3. \A i \in 1 .. Len(q) : i <= 1 => i = 1
    BY <1>1
  <2> QED BY <2>1, <2>2, <2>3, <1>1, <1>2
<1> HIDE DEF w
<1>5. \A i \in 1 .. Len(q) : w[i] = q[i]
  <2> SUFFICES ASSUME NEW i \in 1 .. Len(q) PROVE w[i] = q[i]
    OBVIOUS
  <2>1. CASE i = 1
    BY <2>1, <1>4
  <2>2. CASE i > 1
    <3>1. i - 1 \in 1 .. Len(q) - 1 /\ (i - 1) + 1 = i
      BY <2>2, <1>1
    <3> QED BY <2>2, <3>1, <1>3, <1>4
  <2>3. i = 1 \/ i > 1
    BY <1>1
  <2> QED BY <2>1, <2>2, <2>3
<1>6. w = q
  BY <1>4, <1>5, SeqEqual
<1> QED BY <1>1, <1>2, <1>6 DEF w, r

(* A sequence is its head, then its tail; the same without its last item.  *)
LEMMA HeadThenTail ==
    ASSUME NEW S, NEW s \in Seq(S), s # <<>>
    PROVE  /\ Head(s) \in S /\ Tail(s) \in Seq(S)
           /\ s = <<Head(s)>> \o Tail(s)
           /\ ToSet(s) = {Head(s)} \union ToSet(Tail(s))
<1>1. /\ Head(s) \in S /\ Head(s) = s[1]
      /\ Tail(s) \in Seq(S) /\ Len(Tail(s)) = Len(s) - 1
      /\ \A i \in 1 .. Len(s) - 1 : Tail(s)[i] = s[i + 1]
      /\ Len(s) \in Nat /\ Len(s) >= 1
  OBVIOUS
<1>2. s = <<Head(s)>> \o Tail(s)
  OBVIOUS
<1> DEFINE t == Tail(s)
           h == Head(s)
<1>3. /\ t \in Seq(S) /\ Len(t) = Len(s) - 1 /\ h = s[1]
      /\ \A i \in 1 .. Len(s) - 1 : t[i] = s[i + 1]
  BY <1>1
<1> HIDE DEF t, h
<1>4. /\ DOMAIN s = 1 .. Len(s) /\ DOMAIN t = 1 .. Len(s) - 1
  BY <1>3
<1>5. ToSet(s) = {h} \union ToSet(t)
  <2>1. ASSUME NEW i \in 1 .. Len(s) PROVE s[i] \in {h} \union {t[k] : k \in 1 .. Len(s) - 1}
    <3>1. CASE i = 1
      BY <3>1, <1>3
    <3>2. CASE i # 1
      <4>1. i - 1 \in 1 .. Len(s) - 1 /\ (i - 1) + 1 = i
        BY <3>2, <1>1
      <4> QED BY <4>1, <1>3
    <3> QED BY <3>1, <3>2
  <2>2. ASSUME NEW i \in 1 .. Len(s) - 1 PROVE t[i] \in {s[k] : k \in 1 .. Len(s)}
    <3>1. i + 1 \in 1 .. Len(s)
      BY <1>1
    <3> QED BY <3>1, <1>3
  <2>3. h \in {s[k] : k \in 1 .. Len(s)}
    <3>1. 1 \in 1 .. Len(s)
      BY <1>1
    <3> QED BY <3>1, <1>3
  <2> QED BY <1>4, <2>1, <2>2, <2>3 DEF ToSet
<1> QED BY <1>1, <1>2, <1>5 DEF t, h

LEMMA HeadThenTailOfFront ==
    ASSUME NEW S, NEW s \in Seq(S), Len(s) > 1
    PROVE  /\ Tail(s) # <<>> /\ Last(Tail(s)) = Last(s)
           /\ Front(s) = <<Head(s)>> \o Front(Tail(s))
           /\ Front(Tail(s)) \in Seq(S)
<1> DEFINE t == Tail(s)
<1>1. /\ t \in Seq(S) /\ Len(t) = Len(s) - 1 /\ Len(s) \in Nat
      /\ \A i \in 1 .. Len(s) - 1 : t[i] = s[i + 1]
      /\ Head(s) = s[1] /\ s[1] \in S
  OBVIOUS
<1> HIDE DEF t
<1>2. t # <<>> /\ t[Len(t)] = s[Len(s)]
  <2>1. Len(t) \in 1 .. Len(s) - 1 /\ Len(t) + 1 = Len(s)
    BY <1>1
  <2> QED BY <1>1, <2>1
<1> DEFINE f == SubSeq(s, 1, Len(s) - 1)
           g == SubSeq(t, 1, Len(t) - 1)
           w == <<s[1]>> \o g
<1>3. /\ f \in Seq(S) /\ Len(f) = Len(s) - 1
      /\ \A i \in 1 .. Len(s) - 1 : f[i] = s[i]
  OBVIOUS
<1>4. /\ g \in Seq(S) /\ Len(g) = Len(t) - 1
      /\ \A i \in 1 .. Len(t) - 1 : g[i] = t[i]
  BY <1>1
<1> HIDE DEF f, g
<1>5. /\ w \in Seq(S) /\ Len(w) = 1 + Len(g)
      /\ w[1] = s[1] /\ \A i \in 1 .. Len(g) : w[i + 1] = g[i]
  BY <1>1, <1>4
<1> HIDE DEF w
<1>6. f = w
  <2>1. Len(f) = Len(w)
    BY <1>1, <1>3, <1>4, <1>5
  <2>2. \A i \in 1 .. Len(f) : f[i] = w[i]
    <3> SUFFICES ASSUME NEW i \in 1 .. Len(f) PROVE f[i] = w[i]
      OBVIOUS
    <3>1. CASE i = 1
      BY <3>1, <1>1, <1>3, <1>5
    <3>2. CASE i # 1
      <4>1. i - 1 \in 1 .. Len(g) /\ i - 1 \in 1 .. Len(t) - 1
            /\ i - 1 \in 1 .. Len(s) - 1 /\ (i - 1) + 1 = i
        BY <3>2, <1>1, <1>3, <1>4
      <4>2. f[i] = s[i]
        BY <1>3
      <4>3. t[i - 1] = s[(i - 1) + 1]
        BY <4>1, <1>1
      <4>4. w[(i - 1) + 1] = g[i - 1] /\ g[i - 1] = t[i - 1]
        BY <4>1, <1>4, <1>5
      <4> QED BY <4>1, <4>2, <4>3, <4>4
    <3> QED BY <3>1, <3>2
  <2> QED BY <1>3, <1>5, <2>1, <2>2, SeqEqual
<1> QED BY <1>1, <1>2, <1>4, <1>6 DEF Front, Last, f, g, w, t

(* Front undoes Append.                                                    *)
LEMMA FrontOfAppend ==
    ASSUME NEW S, NEW s \in Seq(S), NEW e \in S
    PROVE  /\ Append(s, e) # <<>> /\ Last(Append(s, e)) = e
           /\ Front(Append(s, e)) = s
BY DEF Front, Last

(* Short sequences, by length.                                             *)
LEMMA ShortSequences ==
    \A S : \A a, b, c \in S :
        <<a>> \in Seq(S) /\ <<a, b>> \in Seq(S) /\ <<a, b, c>> \in Seq(S)
OBVIOUS

LEMMA NothingThenSingle == \A S : \A a \in S : <<>> \o <<a>> = <<a>>
OBVIOUS

(* Short sequences are put together from shorter ones.                     *)
LEMMA PairOfSingles == \A S : \A a, b \in S : <<a>> \o <<b>> = <<a, b>>
<1> TAKE S
<1> TAKE a, b \in S
<1> DEFINE u == <<a>> \o <<b>>
           v == <<a, b>>
<1>1. u \in Seq(S) /\ Len(u) = 2 /\ u[1] = a /\ u[2] = b
  OBVIOUS
<1>2. v \in Seq(S) /\ Len(v) = 2 /\ v[1] = a /\ v[2] = b
  OBVIOUS
<1> HIDE DEF u, v
<1>3. \A i \in 1 .. Len(u) : u[i] = v[i]
  <2>1. \A i \in 1 .. 2 : i = 1 \/ i = 2
    OBVIOUS
  <2> QED BY <1>1, <1>2, <2>1
<1>4. u = v
  BY <1>1, <1>2, <1>3, SeqEqual
<1> QED BY <1>4 DEF u, v

LEMMA SingleThenPair == \A S : \A a, b, c \in S : <<a>> \o <<b, c>> = <<a, b, c>>
<1> TAKE S
<1> TAKE a, b, c \in S
<1> DEFINE u == <<a>> \o <<b, c>>
           v == <<a, b, c>>
<1>1. u \in Seq(S) /\ Len(u) = 3 /\ u[1] = a /\ u[2] = b /\ u[3] = c
  OBVIOUS
<1>2. v \in Seq(S) /\ Len(v) = 3 /\ v[1] = a /\ v[2] = b /\ v[3] = c
  OBVIOUS
<1> HIDE DEF u, v
<1>3. \A i \in 1 .. Len(u) : u[i] = v[i]
  <2>1. \A i \in 1 .. 3 : i = 1 \/ i = 2 \/ i = 3
    OBVIOUS
  <2> QED BY <1>1, <1>2, <2>1
<1>4. u = v
  BY <1>1, <1>2, <1>3, SeqEqual
<1> QED BY <1>4 DEF u, v

(* Of two joined sequences the first stays, the second moves.              *)
LEMMA JoinedSequences ==
    \A S : \A s, u \in Seq(S) :
        /\ s \o u \in Seq(S) /\ Len(s \o u) = Len(s) + Len(u)
        /\ \A k \in 1 .. Len(s) : (s \o u)[k] = s[k]
        /\ \A k \in 1 .. Len(u) : (s \o u)[Len(s) + k] = u[k]
<1> TAKE S
<1> TAKE s, u \in Seq(S)
<1>0. Len(s) \in Nat /\ Len(u) \in Nat
  OBVIOUS
<1> DEFINE w == s \o u
<1>1. /\ w \in Seq(S) /\ Len(w) = Len(s) + Len(u)
      /\ \A i \in 1 .. Len(s) + Len(u) :
            w[i] = IF i <= Len(s) THEN s[i] ELSE u[i - Len(s)]
  BY ConcatProperties
<1> HIDE DEF w
<1>2. ASSUME NEW k \in 1 .. Len(s) PROVE w[k] = s[k]
  <2>1. k \in 1 .. Len(s) + Len(u) /\ k <= Len(s)
    BY <1>0
  <2> QED BY <1>1, <2>1
<1>3. ASSUME NEW k \in 1 .. Len(u) PROVE w[Len(s) + k] = u[k]
  <2>1. /\ Len(s) + k \in 1 .. Len(s) + Len(u) /\ ~ (Len(s) + k <= Len(s))
        /\ (Len(s) + k) - Len(s) = k
    BY <1>0
  <2> QED BY <1>1, <2>1
<1> QED BY <1>1, <1>2, <1>3 DEF w

=============================================================================
