--------------------------- MODULE SequenceLemmas ---------------------------
(* Facts about sequences whose elements have no common type: the rows of a   *)
(* scratchpad, and the files there have been.                                *)
EXTENDS Integers, Sequences, SequenceTheorems, WellFoundedInduction, TLAPS

Elements(s) == {s[i] : i \in DOMAIN s}

IsSeq(s) == s \in Seq(Elements(s))

LEMMA EmptyIsSeq == IsSeq(<<>>)
  BY DEF IsSeq

\* An append adds one element, at the end.
LEMMA AppendFacts ==
  ASSUME NEW s, IsSeq(s), NEW e
  PROVE  /\ IsSeq(Append(s, e))
         /\ Len(s) \in Nat /\ DOMAIN s = 1 .. Len(s)
         /\ DOMAIN Append(s, e) = 1 .. Len(s) + 1
         /\ Len(Append(s, e)) = Len(s) + 1
         /\ \A i \in DOMAIN s : Append(s, e)[i] = s[i]
         /\ Append(s, e)[Len(s) + 1] = e
<1> DEFINE S == Elements(s) \cup {e}
<1>1. s \in Seq(S) /\ e \in S
  BY DEF IsSeq, Elements
<1>2. Append(s, e) \in Seq(S) /\ Len(Append(s, e)) = Len(s) + 1
      /\ DOMAIN s = 1 .. Len(s) /\ Len(s) \in Nat
  BY <1>1
<1>3. DOMAIN Append(s, e) = 1 .. Len(s) + 1
  BY <1>2
<1>4. /\ \A i \in 1 .. Len(s) : Append(s, e)[i] = s[i]
      /\ Append(s, e)[Len(s) + 1] = e
  BY <1>1
<1>5. IsSeq(Append(s, e))
  <2>1. \A i \in 1 .. Len(Append(s, e)) : Append(s, e)[i] \in Elements(Append(s, e))
    BY <1>2, <1>3 DEF Elements
  <2> HIDE DEF S
  <2> QED BY <2>1, <1>2, <1>3 DEF IsSeq
<1> QED BY <1>2, <1>3, <1>4, <1>5

\* A replaced element leaves the others and their number.
LEMMA ReplaceFacts ==
  ASSUME NEW s, IsSeq(s), NEW k \in DOMAIN s, NEW e
  PROVE  LET t == [s EXCEPT ![k] = e]
         IN  /\ IsSeq(t) /\ DOMAIN t = DOMAIN s /\ Len(t) = Len(s)
             /\ t[k] = e /\ \A i \in DOMAIN s : i # k => t[i] = s[i]
<1> DEFINE t == [s EXCEPT ![k] = e]
           S == Elements(s) \cup {e}
<1>1. s \in Seq(S) /\ e \in S
  BY DEF IsSeq, Elements
<1>2. t \in Seq(S) /\ Len(t) = Len(s)
  BY <1>1, ExceptSeq
<1>3. DOMAIN t = DOMAIN s /\ t[k] = e /\ \A i \in DOMAIN s : i # k => t[i] = s[i]
  OBVIOUS
<1>4. \A i \in 1 .. Len(t) : t[i] \in Elements(t)
  <2>1. DOMAIN t = 1 .. Len(t)
    BY <1>2
  <2> QED BY <2>1 DEF Elements
<1>5. IsSeq(t)
  <2> HIDE DEF t, S
  <2> QED BY <1>2, <1>4 DEF IsSeq
<1> QED BY <1>2, <1>3, <1>5

\* A concatenation is the one, then the other.
LEMMA ConcatFacts ==
  ASSUME NEW s, IsSeq(s), NEW t, IsSeq(t)
  PROVE  /\ IsSeq(s \o t)
         /\ Len(s) \in Nat /\ Len(t) \in Nat /\ Len(s \o t) = Len(s) + Len(t)
         /\ \A i \in 1 .. Len(s) : (s \o t)[i] = s[i]
         /\ \A i \in 1 .. Len(t) : (s \o t)[Len(s) + i] = t[i]
<1> DEFINE S == Elements(s) \cup Elements(t)
           u == s \o t
<1>1. s \in Seq(S) /\ t \in Seq(S)
  BY SeqMonotonic DEF IsSeq
<1>2. Len(s) \in Nat /\ Len(t) \in Nat
  BY <1>1
<1> HIDE DEF S
<1>3. /\ u \in Seq(S) /\ Len(u) = Len(s) + Len(t)
      /\ \A i \in 1 .. Len(s) + Len(t) : u[i] = IF i <= Len(s) THEN s[i] ELSE t[i - Len(s)]
  BY <1>1, ConcatProperties
<1>4. \A i \in 1 .. Len(s) : u[i] = s[i]
  BY <1>2, <1>3
<1>5. ASSUME NEW i \in 1 .. Len(t) PROVE u[Len(s) + i] = t[i]
  BY <1>2, <1>3
<1>6. IsSeq(u)
  <2> HIDE DEF u
  <2>1. \A i \in 1 .. Len(u) : u[i] \in Elements(u)
    BY <1>3 DEF Elements
  <2> QED BY <2>1, <1>3 DEF IsSeq
<1> QED BY <1>2, <1>3, <1>4, <1>5, <1>6

\* Sequences that agree at every position are one.
LEMMA SameSeq ==
  ASSUME NEW s, IsSeq(s), NEW t, IsSeq(t), Len(s) = Len(t), \A i \in 1 .. Len(s) : s[i] = t[i]
  PROVE  s = t
<1> DEFINE S == Elements(s) \cup Elements(t)
<1>1. s \in Seq(S) /\ t \in Seq(S)
  BY SeqMonotonic DEF IsSeq
<1> HIDE DEF S
<1> QED BY <1>1, SeqEqual

\* A concatenation, told by its elements.
LEMMA IsConcat ==
  ASSUME NEW a, IsSeq(a), NEW b, IsSeq(b), NEW c, IsSeq(c), Len(c) = Len(a) + Len(b),
         \A i \in 1 .. Len(a) : c[i] = a[i], \A i \in 1 .. Len(b) : c[Len(a) + i] = b[i]
  PROVE  c = a \o b
<1> DEFINE d == a \o b
           m == Len(a)
           k == Len(b)
<1>1. /\ IsSeq(d) /\ m \in Nat /\ k \in Nat /\ Len(d) = m + k
      /\ \A i \in 1 .. m : d[i] = a[i]
      /\ \A i \in 1 .. k : d[m + i] = b[i]
  BY ConcatFacts
<1>2. /\ IsSeq(c) /\ Len(c) = m + k
      /\ \A i \in 1 .. m : c[i] = a[i]
      /\ \A i \in 1 .. k : c[m + i] = b[i]
  OBVIOUS
<1> HIDE DEF d, m, k
<1>3. ASSUME NEW i \in 1 .. m + k PROVE c[i] = d[i]
  <2>1. CASE i <= m
    <3>1. i \in 1 .. m
      BY <1>1, <2>1
    <3> QED BY <1>1, <1>2, <3>1
  <2>2. CASE ~(i <= m)
    <3>1. i - m \in 1 .. k /\ m + (i - m) = i
      BY <1>1, <2>2
    <3>2. c[m + (i - m)] = d[m + (i - m)]
      BY <1>1, <1>2, <3>1
    <3> QED BY <3>1, <3>2
  <2> QED BY <2>1, <2>2
<1>4. c = d
  BY <1>1, <1>2, <1>3, SameSeq
<1> QED BY <1>4 DEF d

\* Sequences with concatenation are a monoid.
LEMMA ConcatIsAssociative ==
  ASSUME NEW s, IsSeq(s), NEW t, IsSeq(t), NEW u, IsSeq(u)
  PROVE  (s \o t) \o u = s \o (t \o u)
<1> DEFINE S == Elements(s) \cup Elements(t) \cup Elements(u)
<1>1. s \in Seq(S) /\ t \in Seq(S) /\ u \in Seq(S)
  BY SeqMonotonic DEF IsSeq
<1> HIDE DEF S
<1> QED BY <1>1, ConcatAssociative

LEMMA ConcatWithEmpty == ASSUME NEW s, IsSeq(s) PROVE s \o <<>> = s /\ <<>> \o s = s
<1> DEFINE S == Elements(s)
<1>1. s \in Seq(S)
  BY DEF IsSeq
<1> HIDE DEF S
<1> QED BY <1>1, ConcatEmptySeq

\* A piece of a sequence.
LEMMA PieceFacts ==
  ASSUME NEW s, IsSeq(s), NEW m \in Nat, NEW n \in Nat, m <= n, n <= Len(s)
  PROVE  LET u == SubSeq(s, m + 1, n)
         IN  /\ IsSeq(u) /\ Len(u) = n - m
             /\ \A i \in 1 .. n - m : u[i] = s[m + i]
<1> DEFINE u == SubSeq(s, m + 1, n)
           S == Elements(s)
<1>1. s \in Seq(S)
  BY DEF IsSeq
<1>2. Len(s) \in Nat /\ \A i \in 1 .. Len(s) : s[i] \in S
  BY <1>1
<1> HIDE DEF S
<1>3. \A i \in m + 1 .. n : s[i] \in S
  BY <1>2
<1>4. /\ u \in Seq(S) /\ Len(u) = IF m + 1 <= n THEN n - (m + 1) + 1 ELSE 0
      /\ \A i \in 1 .. n - (m + 1) + 1 : u[i] = s[(m + 1) + i - 1]
  BY <1>3, SubSeqProperties
<1>5. Len(u) = n - m /\ \A i \in 1 .. n - m : u[i] = s[m + i]
  BY <1>4
<1>6. IsSeq(u)
  <2> HIDE DEF u
  <2>1. Len(u) \in Nat /\ \A i \in 1 .. Len(u) : u[i] \in Elements(u)
    BY <1>4 DEF Elements
  <2> QED BY <2>1, <1>4 DEF IsSeq
<1> QED BY <1>5, <1>6

\* The first element, and the others.
LEMMA HeadAndTail ==
  ASSUME NEW s, IsSeq(s), s # <<>>
  PROVE  /\ IsSeq(Tail(s)) /\ Len(s) \in Nat \ {0} /\ Len(Tail(s)) = Len(s) - 1
         /\ Head(s) = s[1] /\ \A i \in 1 .. Len(s) - 1 : Tail(s)[i] = s[i + 1]
<1> DEFINE S == Elements(s)
           u == Tail(s)
<1>1. s \in Seq(S)
  BY DEF IsSeq
<1> HIDE DEF S
<1>2. /\ u \in Seq(S) /\ Len(u) = Len(s) - 1
      /\ \A i \in 1 .. Len(u) : u[i] = s[i + 1]
  BY <1>1, HeadTailProperties
<1>3. Len(s) \in Nat \ {0} /\ Head(s) = s[1]
  BY <1>1, EmptySeq
<1>4. IsSeq(u)
  <2> HIDE DEF u
  <2>1. Len(u) \in Nat /\ \A i \in 1 .. Len(u) : u[i] \in Elements(u)
    BY <1>2 DEF Elements
  <2> QED BY <2>1, <1>2 DEF IsSeq
<1> QED BY <1>2, <1>3, <1>4
-----------------------------------------------------------------------------
\* Induction over the naturals, of a set where one would write a predicate: the
\* set of the numbers that have a property is all of Nat once it holds 0 and,
\* with a number, the next.
LEMMA SetInduction ==
  ASSUME NEW T \in SUBSET Nat, 0 \in T, \A n \in T : n + 1 \in T
  PROVE  T = Nat
<1> DEFINE R == OpToRel(<, Nat)
           U == Nat \ T
<1>1. IsWellFoundedOn(R, Nat)
  BY NatLessThanWellFounded
<1>2. \A x, y \in Nat : x < y => <<x, y>> \in R
  BY DEF OpToRel
<1> HIDE DEF R
<1>3. SUFFICES ASSUME U # {} PROVE FALSE
  OBVIOUS
<1>4. PICK x \in U : \A y \in U : <<y, x>> \notin R
  BY <1>1, <1>3, WFMin
<1>5. x # 0 /\ x - 1 \in Nat /\ x - 1 < x
  BY <1>4
<1>6. x - 1 \in T
  BY <1>2, <1>4, <1>5
<1> QED BY <1>4, <1>5, <1>6

\* The function that adds up the first n of a row of numbers, by recursion on n,
\* exists and does so.
Running(w, k) ==
  LET sum[n \in 0 .. k] == IF n = 0 THEN 0 ELSE sum[n - 1] + w[n] IN sum

IsRunning(f, w, k) == f = [n \in 0 .. k |-> IF n = 0 THEN 0 ELSE f[n - 1] + w[n]]

LEMMA RunningExists == ASSUME NEW w, NEW k \in Nat PROVE IsRunning(Running(w, k), w, k)
<1> DEFINE T == {n \in Nat : \E f : IsRunning(f, w, n)}
<1>1. 0 \in T
  <2> DEFINE f == [n \in 0 .. 0 |-> 0]
  <2>1. IsRunning(f, w, 0)
    BY DEF IsRunning
  <2> QED BY <2>1
<1>2. ASSUME NEW n \in T PROVE n + 1 \in T
  <2>1. PICK f : f = [m \in 0 .. n |-> IF m = 0 THEN 0 ELSE f[m - 1] + w[m]]
    BY <1>2 DEF IsRunning
  <2> DEFINE g == [m \in 0 .. n + 1 |-> IF m = n + 1 THEN f[n] + w[n + 1] ELSE f[m]]
  <2>2. n \in Nat
    OBVIOUS
  <2>3. ASSUME NEW m \in 0 .. n + 1
        PROVE  g[m] = IF m = 0 THEN 0 ELSE g[m - 1] + w[m]
    <3>1. CASE m = n + 1
      <4>1. m # 0 /\ m - 1 = n /\ n \in 0 .. n + 1 /\ n # n + 1
        BY <3>1, <2>2
      <4>2. g[n] = f[n] /\ g[m] = f[n] + w[m]
        BY <3>1, <4>1
      <4> QED BY <4>1, <4>2
    <3>2. CASE m = 0
      BY <3>2, <2>1, <2>2
    <3>3. CASE m # 0 /\ m # n + 1
      <4>1. m \in 0 .. n /\ m - 1 \in 0 .. n + 1 /\ m - 1 # n + 1
        BY <3>3, <2>2
      <4>2. g[m] = f[m] /\ g[m - 1] = f[m - 1]
        BY <3>3, <4>1
      <4>3. f[m] = f[m - 1] + w[m]
        BY <2>1, <3>3, <4>1
      <4> QED BY <3>3, <4>2, <4>3
    <3> QED BY <3>1, <3>2, <3>3
  <2>4. g = [m \in 0 .. n + 1 |-> g[m]]
    OBVIOUS
  <2> HIDE DEF g
  <2>5. g = [m \in 0 .. n + 1 |-> IF m = 0 THEN 0 ELSE g[m - 1] + w[m]]
    BY <2>3, <2>4
  <2>6. IsRunning(g, w, n + 1) /\ n + 1 \in Nat
    BY <2>2, <2>5 DEF IsRunning
  <2> QED BY <2>6
<1>3. T = Nat
  <2> HIDE DEF T
  <2>1. T \in SUBSET Nat
    BY DEF T
  <2> QED BY <1>1, <1>2, <2>1, SetInduction
<1>4. PICK f : IsRunning(f, w, k)
  BY <1>3
<1> DEFINE h == CHOOSE h : h = [n \in 0 .. k |-> IF n = 0 THEN 0 ELSE h[n - 1] + w[n]]
<1>5. h = [n \in 0 .. k |-> IF n = 0 THEN 0 ELSE h[n - 1] + w[n]]
  BY <1>4 DEF IsRunning
<1> QED BY <1>5 DEF Running, IsRunning

\* What it gives, for numbers.
LEMMA RunningFacts ==
  ASSUME NEW w, NEW k \in Nat, \A n \in 1 .. k : w[n] \in Nat
  PROVE  /\ Running(w, k)[0] = 0
         /\ \A n \in 1 .. k : Running(w, k)[n] = Running(w, k)[n - 1] + w[n]
         /\ \A n \in 0 .. k : Running(w, k)[n] \in Nat
<1> DEFINE f == Running(w, k)
           T == {n \in Nat : n <= k => f[n] \in Nat}
<1>1. f = [n \in 0 .. k |-> IF n = 0 THEN 0 ELSE f[n - 1] + w[n]]
  BY RunningExists DEF IsRunning
<1> HIDE DEF f
<1>2. f[0] = 0
  BY <1>1
<1>3. \A n \in 1 .. k : f[n] = f[n - 1] + w[n]
  BY <1>1
<1>4. 0 \in T
  BY <1>2
<1>5. ASSUME NEW n \in T PROVE n + 1 \in T
  <2> SUFFICES ASSUME n + 1 <= k PROVE f[n + 1] \in Nat
    OBVIOUS
  <2>1. n \in Nat /\ n + 1 \in 1 .. k /\ n <= k /\ (n + 1) - 1 = n
    OBVIOUS
  <2>2. f[n] \in Nat /\ w[n + 1] \in Nat /\ f[n + 1] = f[n] + w[n + 1]
    BY <2>1, <1>3
  <2> QED BY <2>2
<1>6. T = Nat
  <2> HIDE DEF T
  <2>1. T \in SUBSET Nat
    BY DEF T
  <2> QED BY <1>4, <1>5, <2>1, SetInduction
<1> QED BY <1>2, <1>3, <1>6 DEF f
===========================================================================
