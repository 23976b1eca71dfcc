---------------------------- MODULE SourcesProofs ----------------------------
(***************************************************************************)
(* What TLAPS proves about Sources, and about the readers and the          *)
(* bootstrapper it is built from: for any files and any lines, any         *)
(* settings, any number of files, of retries and of ingests.               *)
(***************************************************************************)
EXTENDS Sources, SequenceLemmas, FiniteSetTheorems

-----------------------------------------------------------------------------
(* Sequences of sequences.                                                  *)

\* A function on 1 .. n is a sequence.
LEMMA FunctionIsSeq ==
  ASSUME NEW f, NEW n \in Nat, f = [i \in 1 .. n |-> f[i]]
  PROVE  IsSeq(f) /\ Len(f) = n /\ DOMAIN f = 1 .. n
<1> DEFINE S == Elements(f)
<1>1. \A i \in 1 .. n : f[i] \in S
  BY DEF Elements
<1> HIDE DEF S
<1>2. f \in [1 .. n -> S]
  BY <1>1
<1>3. f \in Seq(S)
  BY <1>2, SeqDef
<1>4. DOMAIN f = 1 .. n /\ DOMAIN f = 1 .. Len(f) /\ Len(f) \in Nat
  BY <1>2, <1>3, LenProperties
<1>5. Len(f) = n
  BY <1>4
<1> QED BY <1>3, <1>4, <1>5 DEF S, IsSeq

\* A list, as the inputs of Sources are stated to be.
LEMMA ListIsSeq == ASSUME NEW s, IsList(s) PROVE IsSeq(s)
  BY DEF IsList, IsSeq, Elements

\* One sequence is two others, one after the other.
IsJoin(c, a, b) ==
  /\ IsSeq(c) /\ Len(a) \in Nat /\ Len(b) \in Nat /\ Len(c) = Len(a) + Len(b)
  /\ \A i \in 1 .. Len(a) : c[i] = a[i]
  /\ \A i \in 1 .. Len(b) : c[Len(a) + i] = b[i]

LEMMA ConcatIsJoin == ASSUME NEW a, IsSeq(a), NEW b, IsSeq(b) PROVE IsJoin(a \o b, a, b)
  BY ConcatFacts DEF IsJoin

\* One sequence is what another has after its m-th element and up to its n-th.
IsPiece(u, s, m, n) ==
  IsSeq(u) /\ Len(u) = n - m /\ \A i \in 1 .. n - m : u[i] = s[m + i]

LEMMA SubSeqIsPiece ==
  ASSUME NEW s, IsSeq(s), NEW m \in Nat, NEW n \in Nat, m <= n, n <= Len(s)
  PROVE  IsPiece(SubSeq(s, m + 1, n), s, m, n)
  BY PieceFacts DEF IsPiece

LEMMA SeqFacts ==
  ASSUME NEW s, IsSeq(s)
  PROVE  Len(s) \in Nat /\ DOMAIN s = 1 .. Len(s) /\ (s = <<>> <=> Len(s) = 0)
<1> DEFINE S == Elements(s)
<1>1. s \in Seq(S)
  BY DEF IsSeq
<1> HIDE DEF S
<1> QED BY <1>1, EmptySeq

\* The first n of a row of sequences, joined: the recursion of FlattenSeq.
IsJoined(f, seqs, n) ==
  f = [i \in 1 .. n |-> IF i = 1 THEN seqs[1] ELSE f[i - 1] \o seqs[i]]

Joined(seqs, n) ==
  LET flatten[i \in 1 .. n] == IF i = 1 THEN seqs[i] ELSE flatten[i - 1] \o seqs[i]
  IN  flatten

LEMMA JoinedExists ==
  ASSUME NEW seqs, NEW k \in Nat PROVE IsJoined(Joined(seqs, k), seqs, k)
<1> DEFINE T == {n \in Nat : \E f : IsJoined(f, seqs, n)}
<1>1. 0 \in T
  <2> DEFINE f == [n \in 1 .. 0 |-> 0]
  <2>1. f = [i \in 1 .. 0 |-> IF i = 1 THEN seqs[1] ELSE f[i - 1] \o seqs[i]]
    OBVIOUS
  <2> QED BY <2>1 DEF IsJoined
<1>2. ASSUME NEW n \in T PROVE n + 1 \in T
  <2>1. PICK f : f = [m \in 1 .. n |-> IF m = 1 THEN seqs[1] ELSE f[m - 1] \o seqs[m]]
    BY <1>2 DEF IsJoined
  <2>2. n \in Nat
    OBVIOUS
  <2> DEFINE last == IF n = 0 THEN seqs[1] ELSE f[n] \o seqs[n + 1]
             g == [m \in 1 .. n + 1 |-> IF m = n + 1 THEN last ELSE f[m]]
  <2>3. ASSUME NEW m \in 1 .. n + 1
        PROVE  g[m] = IF m = 1 THEN seqs[1] ELSE g[m - 1] \o seqs[m]
    <3>1. CASE m = n + 1 /\ n = 0
      BY <3>1, <2>2
    <3>2. CASE m = n + 1 /\ n # 0
      <4>1. m # 1 /\ m - 1 = n /\ n \in 1 .. n + 1 /\ n # n + 1
        BY <3>2, <2>2
      <4>2. g[n] = f[n] /\ g[m] = f[n] \o seqs[m]
        BY <3>2, <4>1
      <4> QED BY <4>1, <4>2
    <3>3. CASE m # n + 1 /\ m = 1
      <4>1. m \in 1 .. n
        BY <3>3, <2>2
      <4> QED BY <3>3, <4>1, <2>1
    <3>4. CASE m # n + 1 /\ m # 1
      <4>1. m \in 1 .. n /\ m - 1 \in 1 .. n + 1 /\ m - 1 # n + 1
        BY <3>4, <2>2
      <4>2. g[m] = f[m] /\ g[m - 1] = f[m - 1]
        BY <3>4, <4>1
      <4>3. f[m] = f[m - 1] \o seqs[m]
        BY <2>1, <3>4, <4>1
      <4> QED BY <3>4, <4>2, <4>3
    <3> QED BY <3>1, <3>2, <3>3, <3>4
  <2>4. g = [m \in 1 .. n + 1 |-> g[m]]
    OBVIOUS
  <2> HIDE DEF g
  <2>5. g = [m \in 1 .. n + 1 |-> IF m = 1 THEN seqs[1] ELSE g[m - 1] \o seqs[m]]
    BY <2>3, <2>4
  <2>6. IsJoined(g, seqs, n + 1)
    BY <2>5, Zenon DEF IsJoined
  <2>7. n + 1 \in Nat
    BY <2>2
  <2> QED BY <2>6, <2>7
<1>3. T = Nat
  <2> HIDE DEF T
  <2>1. T \in SUBSET Nat
    BY DEF T
  <2> QED BY <1>1, <1>2, <2>1, SetInduction
<1>4. PICK f : IsJoined(f, seqs, k)
  BY <1>3
<1> DEFINE h == CHOOSE h : h = [i \in 1 .. k |-> IF i = 1 THEN seqs[i] ELSE h[i - 1] \o seqs[i]]
<1>5. f = [i \in 1 .. k |-> IF i = 1 THEN seqs[i] ELSE f[i - 1] \o seqs[i]]
  BY <1>4, Zenon DEF IsJoined
<1>6. h = [i \in 1 .. k |-> IF i = 1 THEN seqs[i] ELSE h[i - 1] \o seqs[i]]
  BY <1>5, Zenon
<1> HIDE DEF h
<1>7. h = [i \in 1 .. k |-> IF i = 1 THEN seqs[1] ELSE h[i - 1] \o seqs[i]]
  BY <1>6
<1> QED BY <1>7, Zenon DEF Joined, IsJoined, h

LEMMA FlattenIsJoined ==
  ASSUME NEW seqs
  PROVE  FlattenSeq(seqs) = IF Len(seqs) = 0 THEN seqs ELSE Joined(seqs, Len(seqs))[Len(seqs)]
  BY DEF FlattenSeq, Joined

\* Every element of s is one of the sequences'.
From(s, seqs) ==
  \A j \in DOMAIN s : \E i \in DOMAIN seqs : \E k \in DOMAIN seqs[i] : s[j] = seqs[i][k]

Lengths(seqs) == [i \in DOMAIN seqs |-> Len(seqs[i])]

LEMMA LengthsAreNumbers ==
  ASSUME NEW seqs, IsSeq(seqs), \A i \in DOMAIN seqs : IsSeq(seqs[i])
  PROVE  \A i \in 1 .. Len(seqs) : Lengths(seqs)[i] \in Nat
<1>1. \A i \in DOMAIN seqs : Len(seqs[i]) \in Nat
  BY SeqFacts
<1> QED BY <1>1, SeqFacts DEF Lengths

\* Joining adds up the lengths, and adds no element of its own.
LEMMA JoinedFacts ==
  ASSUME NEW seqs, IsSeq(seqs), \A i \in DOMAIN seqs : IsSeq(seqs[i])
  PROVE  \A n \in 1 .. Len(seqs) :
           LET s == Joined(seqs, Len(seqs))[n]
           IN  /\ IsSeq(s) /\ Len(s) = Running(Lengths(seqs), Len(seqs))[n]
               /\ From(s, seqs)
<1> DEFINE m == Len(seqs)
           f == Joined(seqs, m)
           sum == Running(Lengths(seqs), m)
           OK(n) == IsSeq(f[n]) /\ Len(f[n]) = sum[n] /\ From(f[n], seqs)
           T == {n \in Nat : n \in 1 .. m => OK(n)}
<1>1. m \in Nat /\ DOMAIN seqs = 1 .. m
  BY SeqFacts
<1>2. f = [i \in 1 .. m |-> IF i = 1 THEN seqs[1] ELSE f[i - 1] \o seqs[i]]
  BY <1>1, JoinedExists DEF IsJoined
<1>3. /\ sum[0] = 0
      /\ \A n \in 1 .. m : sum[n] = sum[n - 1] + Lengths(seqs)[n]
  BY <1>1, LengthsAreNumbers, RunningFacts
<1>4. \A n \in 1 .. m : Lengths(seqs)[n] = Len(seqs[n]) /\ Len(seqs[n]) \in Nat
  BY <1>1, SeqFacts DEF Lengths
<1> HIDE DEF f, sum, m
<1>5. 0 \in T
  OBVIOUS
<1>6. ASSUME NEW n \in T PROVE n + 1 \in T
  <2> SUFFICES ASSUME n + 1 \in 1 .. m PROVE OK(n + 1)
    OBVIOUS
  <2>1. n \in Nat /\ (n + 1) - 1 = n /\ n + 1 \in DOMAIN seqs
    BY <1>1
  <2>2. IsSeq(seqs[n + 1])
    BY <2>1
  <2>3. CASE n = 0
    <3>1. f[n + 1] = seqs[n + 1]
      BY <1>2, <2>3
    <3>2. sum[n + 1] = Len(seqs[n + 1])
      BY <1>3, <1>4, <2>3
    <3>3. From(f[n + 1], seqs)
      BY <3>1, <2>1 DEF From
    <3> QED BY <3>1, <3>2, <3>3, <2>2
  <2>4. CASE n # 0
    <3>1. f[n + 1] = f[n] \o seqs[n + 1] /\ OK(n)
      <4>1. n + 1 # 1 /\ n \in 1 .. m
        BY <1>1, <2>1, <2>4
      <4>2. f[n + 1] = f[(n + 1) - 1] \o seqs[n + 1]
        BY <1>2, <4>1
      <4>3. OK(n)
        BY <4>1
      <4> QED BY <2>1, <4>2, <4>3
    <3>2. sum[n + 1] = sum[n] + Len(seqs[n + 1])
      BY <1>3, <1>4, <2>1
    <3> DEFINE a == f[n]
               b == seqs[n + 1]
               c == a \o b
    <3>3. /\ IsSeq(c) /\ Len(a) \in Nat /\ Len(b) \in Nat /\ Len(c) = Len(a) + Len(b)
          /\ \A i \in 1 .. Len(a) : c[i] = a[i]
          /\ \A i \in 1 .. Len(b) : c[Len(a) + i] = b[i]
      <4> HIDE DEF a, b
      <4>1. IsSeq(a) /\ IsSeq(b)
        BY <3>1, <2>2 DEF a, b
      <4> QED BY <4>1, ConcatFacts
    <3>4. DOMAIN a = 1 .. Len(a) /\ DOMAIN b = 1 .. Len(b) /\ DOMAIN c = 1 .. Len(c)
      <4>1. IsSeq(a) /\ IsSeq(b) /\ IsSeq(c)
        BY <3>1, <3>3, <2>2
      <4> HIDE DEF a, b, c
      <4> QED BY <4>1, SeqFacts
    <3>5. From(c, seqs)
      <4> SUFFICES ASSUME NEW j \in DOMAIN c
                   PROVE  \E i \in DOMAIN seqs : \E k \in DOMAIN seqs[i] : c[j] = seqs[i][k]
        BY DEF From
      <4>1. CASE j <= Len(a)
        <5>1. j \in DOMAIN a /\ c[j] = a[j]
          <6> HIDE DEF a, b, c
          <6> QED BY <3>3, <3>4, <4>1
        <5> QED BY <3>1, <5>1 DEF From
      <4>2. CASE ~(j <= Len(a))
        <5>1. j - Len(a) \in DOMAIN b /\ c[j] = b[j - Len(a)]
          <6> HIDE DEF a, b, c
          <6>1. j - Len(a) \in 1 .. Len(b) /\ Len(a) + (j - Len(a)) = j
            BY <3>3, <3>4, <4>2
          <6> QED BY <6>1, <3>3, <3>4
        <5> QED BY <2>1, <5>1
      <4> QED BY <4>1, <4>2
    <3> QED BY <3>1, <3>2, <3>3, <3>5
  <2> QED BY <2>3, <2>4
<1>7. T = Nat
  <2> HIDE DEF T
  <2>1. T \in SUBSET Nat
    BY DEF T
  <2> QED BY <1>5, <1>6, <2>1, SetInduction
<1>8. \A n \in 1 .. m : OK(n)
  BY <1>1, <1>7
<1> QED BY <1>8 DEF f, sum, m

LEMMA FlattenFacts ==
  ASSUME NEW seqs, IsSeq(seqs), \A i \in DOMAIN seqs : IsSeq(seqs[i])
  PROVE  /\ IsSeq(FlattenSeq(seqs)) /\ From(FlattenSeq(seqs), seqs)
         /\ Len(FlattenSeq(seqs)) = Running(Lengths(seqs), Len(seqs))[Len(seqs)]
<1>1. Len(seqs) \in Nat /\ DOMAIN seqs = 1 .. Len(seqs)
  BY SeqFacts
<1>2. CASE Len(seqs) = 0
  <2>1. FlattenSeq(seqs) = seqs
    BY <1>2, FlattenIsJoined
  <2>2. Running(Lengths(seqs), Len(seqs))[0] = 0
    BY <1>1, LengthsAreNumbers, RunningFacts
  <2> QED BY <1>1, <1>2, <2>1, <2>2 DEF From
<1>3. CASE Len(seqs) # 0
  <2>1. FlattenSeq(seqs) = Joined(seqs, Len(seqs))[Len(seqs)]
    BY <1>3, FlattenIsJoined
  <2>2. Len(seqs) \in 1 .. Len(seqs)
    BY <1>1, <1>3
  <2> QED BY <2>1, <2>2, JoinedFacts
<1> QED BY <1>2, <1>3

\* Joining one row after another is joining both.
LEMMA FlattenConcat ==
  ASSUME NEW a, IsSeq(a), \A i \in DOMAIN a : IsSeq(a[i]),
         NEW b, IsSeq(b), \A i \in DOMAIN b : IsSeq(b[i])
  PROVE  FlattenSeq(a \o b) = FlattenSeq(a) \o FlattenSeq(b)
<1> DEFINE c == a \o b
           m == Len(a)
           k == Len(b)
           f == Joined(a, m)
           g == Joined(b, k)
           h == Joined(c, m + k)
<1>1. /\ IsSeq(c) /\ m \in Nat /\ k \in Nat /\ Len(c) = m + k
      /\ \A i \in 1 .. m : c[i] = a[i]
      /\ \A i \in 1 .. k : c[m + i] = b[i]
  <2>1. IsSeq(a) /\ IsSeq(b)
    OBVIOUS
  <2>2. IsJoin(a \o b, a, b)
    BY ONLY <2>1, ConcatIsJoin
  <2> QED BY ONLY <2>2 DEF IsJoin
<1>2. IsSeq(FlattenSeq(a)) /\ IsSeq(FlattenSeq(b))
  BY FlattenFacts
<1>3. CASE m = 0
  <2>1. a = <<>>
    BY <1>3, SeqFacts
  <2>2. c = b
    BY <2>1, ConcatWithEmpty
  <2>3. FlattenSeq(a) = <<>>
    BY <1>3, <2>1, FlattenIsJoined
  <2> QED BY <1>2, <2>2, <2>3, ConcatWithEmpty
<1>4. CASE k = 0
  <2>1. b = <<>>
    BY <1>4, SeqFacts
  <2>2. c = a
    BY <2>1, ConcatWithEmpty
  <2>3. FlattenSeq(b) = <<>>
    BY <1>4, <2>1, FlattenIsJoined
  <2> QED BY <1>2, <2>2, <2>3, ConcatWithEmpty
<1>5. CASE m # 0 /\ k # 0
  <2>1. FlattenSeq(a) = f[m] /\ FlattenSeq(b) = g[k] /\ FlattenSeq(c) = h[m + k]
    <3> HIDE DEF c, m, k
    <3>1. m = Len(a) /\ k = Len(b) /\ m + k = Len(c)
      BY <1>1 DEF m, k
    <3>2. Len(a) # 0 /\ Len(b) # 0 /\ Len(c) # 0
      BY <1>1, <1>5, <3>1
    <3>3. /\ FlattenSeq(a) = Joined(a, Len(a))[Len(a)]
          /\ FlattenSeq(b) = Joined(b, Len(b))[Len(b)]
          /\ FlattenSeq(c) = Joined(c, Len(c))[Len(c)]
      BY <3>2, FlattenIsJoined
    <3> QED BY <3>1, <3>3
  <2>2. /\ \A i \in 1 .. m : f[i] = IF i = 1 THEN a[1] ELSE f[i - 1] \o a[i]
        /\ \A i \in 1 .. k : g[i] = IF i = 1 THEN b[1] ELSE g[i - 1] \o b[i]
        /\ \A i \in 1 .. m + k : h[i] = IF i = 1 THEN c[1] ELSE h[i - 1] \o c[i]
    <3>1. /\ f = [i \in 1 .. m |-> IF i = 1 THEN a[1] ELSE f[i - 1] \o a[i]]
          /\ g = [i \in 1 .. k |-> IF i = 1 THEN b[1] ELSE g[i - 1] \o b[i]]
      BY <1>1, JoinedExists DEF IsJoined
    <3>2. h = [i \in 1 .. m + k |-> IF i = 1 THEN c[1] ELSE h[i - 1] \o c[i]]
      <4>1. m + k \in Nat
        BY <1>1
      <4> QED BY <4>1, JoinedExists DEF IsJoined
    <3> HIDE DEF c, m, k, f, g, h
    <3>3. \A i \in 1 .. m : f[i] = IF i = 1 THEN a[1] ELSE f[i - 1] \o a[i]
      BY <3>1, Zenon
    <3>4. \A i \in 1 .. k : g[i] = IF i = 1 THEN b[1] ELSE g[i - 1] \o b[i]
      BY <3>1, Zenon
    <3>5. \A i \in 1 .. m + k : h[i] = IF i = 1 THEN c[1] ELSE h[i - 1] \o c[i]
      BY <3>2, Zenon
    <3> QED BY <3>3, <3>4, <3>5
  <2>3. \A i \in 1 .. k : IsSeq(b[i]) /\ IsSeq(g[i])
    BY SeqFacts, JoinedFacts
  <2>4. IsSeq(f[m])
    BY <1>2, <2>1
  <2> HIDE DEF c, m, k, f, g, h
  <2>5. \A i \in 1 .. m : h[i] = f[i]
    <3> DEFINE T == {n \in Nat : n \in 1 .. m => h[n] = f[n]}
    <3>1. 0 \in T
      OBVIOUS
    <3>2. ASSUME NEW n \in T PROVE n + 1 \in T
      <4> SUFFICES ASSUME n + 1 \in 1 .. m PROVE h[n + 1] = f[n + 1]
        OBVIOUS
      <4>0. n \in Nat /\ (n + 1) - 1 = n /\ n + 1 \in 1 .. m + k /\ c[n + 1] = a[n + 1]
        BY <1>1
      <4>1. CASE n = 0
        BY <2>2, <4>0, <4>1
      <4>2. CASE n # 0
        <5>1. n \in 1 .. m /\ n + 1 # 1
          BY <1>1, <4>0, <4>2
        <5>2. h[n + 1] = h[n] \o c[n + 1] /\ f[n + 1] = f[n] \o a[n + 1]
          BY <2>2, <4>0, <5>1
        <5> QED BY <4>0, <5>1, <5>2
      <4> QED BY <4>1, <4>2
    <3>3. T = Nat
      <4> HIDE DEF T
      <4>1. T \in SUBSET Nat
        BY DEF T
      <4> QED BY <3>1, <3>2, <4>1, SetInduction
    <3> QED BY <1>1, <3>3
  <2>6. \A i \in 1 .. k : h[m + i] = f[m] \o g[i]
    <3> DEFINE on == [n \in Nat |-> h[m + n]]
               both == [n \in Nat |-> f[m] \o g[n]]
               T == {n \in Nat : n \in 1 .. k => on[n] = both[n]}
    <3>0. /\ \A n \in Nat : on[n] = h[m + n]
          /\ \A n \in Nat : both[n] = f[m] \o g[n]
      BY Zenon
    <3> HIDE DEF on, both
    <3>1. 0 \in T
      OBVIOUS
    <3>2. ASSUME NEW n \in T PROVE n + 1 \in T
      <4> SUFFICES ASSUME n + 1 \in 1 .. k PROVE on[n + 1] = both[n + 1]
        OBVIOUS
      <4>0. n \in Nat /\ n + 1 \in Nat /\ (n + 1) - 1 = n
        OBVIOUS
      <4>1. on[n + 1] = on[n] \o b[n + 1]
        <5> DEFINE i == m + (n + 1)
        <5>1. i \in 1 .. m + k /\ i # 1 /\ i - 1 = m + n
          BY <1>1, <1>5, <4>0
        <5>2. c[i] = b[n + 1]
          BY <1>1
        <5>3. on[n + 1] = h[i] /\ on[n] = h[m + n]
          BY <3>0, <4>0
        <5> HIDE DEF i
        <5>4. h[i] = h[i - 1] \o c[i]
          BY <2>2, <5>1
        <5> QED BY <5>1, <5>2, <5>3, <5>4
      <4>2. CASE n = 0
        <5>1. on[n] = f[m] /\ g[n + 1] = b[n + 1]
          <6>1. m \in 1 .. m /\ m + n = m /\ n + 1 = 1 /\ 1 \in 1 .. k
            BY <1>1, <1>5, <4>2
          <6> QED BY <2>2, <2>5, <3>0, <6>1
        <5> QED BY <3>0, <4>0, <4>1, <5>1
      <4>3. CASE n # 0
        <5>1. n \in 1 .. k /\ n + 1 # 1
          BY <1>1, <4>0, <4>3
        <5>2. on[n] = f[m] \o g[n] /\ g[n + 1] = g[n] \o b[n + 1]
          BY <2>2, <3>0, <4>0, <5>1
        <5>3. (f[m] \o g[n]) \o b[n + 1] = f[m] \o (g[n] \o b[n + 1])
          <6>1. IsSeq(f[m]) /\ IsSeq(g[n]) /\ IsSeq(b[n + 1])
            BY <2>3, <2>4, <5>1
          <6> DEFINE x == f[m]
                     y == g[n]
                     z == b[n + 1]
          <6>2. IsSeq(x) /\ IsSeq(y) /\ IsSeq(z)
            BY <6>1
          <6> HIDE DEF x, y, z
          <6>3. (x \o y) \o z = x \o (y \o z)
            BY ONLY <6>2, ConcatIsAssociative
          <6> QED BY <6>3 DEF x, y, z
        <5> QED BY <3>0, <4>0, <4>1, <5>2, <5>3
      <4> QED BY <4>2, <4>3
    <3>3. T = Nat
      <4> HIDE DEF T
      <4>1. T \in SUBSET Nat
        BY DEF T
      <4> QED BY <3>1, <3>2, <4>1, SetInduction
    <3>4. ASSUME NEW i \in 1 .. k PROVE h[m + i] = f[m] \o g[i]
      <4>1. i \in T
        BY <1>1, <3>3
      <4>2. i \in Nat
        BY <1>1
      <4> QED BY <3>0, <4>1, <4>2
    <3> QED BY <3>4
  <2>7. k \in 1 .. k
    BY <1>1, <1>5
  <2> QED BY <2>1, <2>6, <2>7 DEF c
<1> QED BY <1>3, <1>4, <1>5

LEMMA FlattenOne == ASSUME NEW s PROVE FlattenSeq(<<s>>) = s
<1> DEFINE row == <<s>>
           f == Joined(row, 1)
<1>1. Len(row) = 1 /\ 1 \in Nat /\ 1 \in 1 .. 1 /\ row[1] = s
  OBVIOUS
<1> HIDE DEF row
<1>2. FlattenSeq(row) = f[1]
  <2>1. Len(row) # 0
    BY <1>1
  <2>2. FlattenSeq(row) = Joined(row, Len(row))[Len(row)]
    BY <2>1, FlattenIsJoined
  <2> QED BY <1>1, <2>2
<1>3. f = [i \in 1 .. 1 |-> IF i = 1 THEN row[1] ELSE f[i - 1] \o row[i]]
  BY <1>1, JoinedExists DEF IsJoined
<1> HIDE DEF f
<1>4. f[1] = row[1]
  BY <1>1, <1>3
<1> QED BY <1>1, <1>2, <1>4 DEF row

\* Sequences of one element each.
LEMMA SinglesFacts ==
  ASSUME NEW seqs, IsSeq(seqs), \A i \in DOMAIN seqs : IsSeq(seqs[i]) /\ Len(seqs[i]) = 1
  PROVE  /\ IsSeq(FlattenSeq(seqs)) /\ Len(FlattenSeq(seqs)) = Len(seqs)
         /\ \A i \in DOMAIN seqs : FlattenSeq(seqs)[i] = seqs[i][1]
<1> DEFINE m == Len(seqs)
           f == Joined(seqs, m)
           OK(n) == IsSeq(f[n]) /\ Len(f[n]) = n /\ \A i \in 1 .. n : f[n][i] = seqs[i][1]
           T == {n \in Nat : n \in 1 .. m => OK(n)}
<1>1. m \in Nat /\ DOMAIN seqs = 1 .. m
  BY SeqFacts
<1>2. f = [i \in 1 .. m |-> IF i = 1 THEN seqs[1] ELSE f[i - 1] \o seqs[i]]
  BY <1>1, JoinedExists DEF IsJoined
<1>3. \A i \in 1 .. m : IsSeq(seqs[i]) /\ Len(seqs[i]) = 1
  BY <1>1
<1> HIDE DEF f, m
<1>4. 0 \in T
  OBVIOUS
<1>5. ASSUME NEW n \in T PROVE n + 1 \in T
  <2> SUFFICES ASSUME n + 1 \in 1 .. m PROVE OK(n + 1)
    OBVIOUS
  <2>1. n \in Nat /\ (n + 1) - 1 = n
    OBVIOUS
  <2>2. CASE n = 0
    <3>1. f[1] = seqs[1] /\ n + 1 = 1
      BY <1>2, <2>2
    <3>2. f[n + 1] = seqs[1] /\ 1 \in 1 .. m /\ 1 .. n + 1 = {1}
      BY <3>1
    <3> QED BY <3>1, <3>2, <1>3
  <2>3. CASE n # 0
    <3>1. n + 1 # 1 /\ n \in 1 .. m
      BY <1>1, <2>1, <2>3
    <3>2. f[n + 1] = f[n] \o seqs[n + 1] /\ OK(n)
      BY <1>2, <2>1, <3>1
    <3> DEFINE a == f[n]
               b == seqs[n + 1]
               c == a \o b
    <3>3. IsSeq(a) /\ IsSeq(b) /\ Len(a) = n /\ Len(b) = 1
      BY <1>3, <3>2
    <3>4. /\ IsSeq(c) /\ Len(c) = n + 1 /\ c[n + 1] = b[1]
          /\ \A i \in 1 .. n : c[i] = a[i]
      <4> HIDE DEF a, b
      <4>1. /\ IsSeq(c) /\ Len(c) = Len(a) + Len(b)
            /\ \A i \in 1 .. Len(a) : c[i] = a[i]
            /\ \A i \in 1 .. Len(b) : c[Len(a) + i] = b[i]
        <5>1. IsSeq(a) /\ IsSeq(b)
          BY <3>3
        <5> QED BY ONLY <5>1, ConcatFacts
      <4> HIDE DEF c
      <4> QED BY <3>3, <4>1
    <3>5. ASSUME NEW i \in 1 .. n + 1 PROVE c[i] = seqs[i][1]
      <4>0. i \in 1 .. n \/ i = n + 1
        BY <2>1
      <4>1. CASE i \in 1 .. n
        BY <3>2, <3>4, <4>1
      <4>2. CASE i = n + 1
        BY <3>4, <4>2
      <4> QED BY <4>0, <4>1, <4>2
    <3> QED BY <3>2, <3>4, <3>5
  <2> QED BY <2>2, <2>3
<1>6. T = Nat
  <2> HIDE DEF T
  <2>1. T \in SUBSET Nat
    BY DEF T
  <2> QED BY <1>4, <1>5, <2>1, SetInduction
<1>7. CASE m = 0
  <2>1. FlattenSeq(seqs) = seqs
    BY <1>7, FlattenIsJoined DEF m
  <2> QED BY <1>1, <1>7, <2>1 DEF m
<1>8. CASE m # 0
  <2>1. FlattenSeq(seqs) = f[m]
    BY <1>8, FlattenIsJoined DEF m, f
  <2>2. m \in 1 .. m
    BY <1>1, <1>8
  <2>3. OK(m)
    BY <1>1, <1>6, <2>2
  <2> QED BY <1>1, <2>1, <2>3 DEF m
<1> QED BY <1>7, <1>8

\* A row that is 1 on a set and 0 elsewhere adds up to the size of the set.
LEMMA CountIsRunning ==
  ASSUME NEW n \in Nat, NEW K, NEW w, \A i \in 1 .. n : w[i] = IF i \in K THEN 1 ELSE 0
  PROVE  Running(w, n)[n] = Cardinality(K \cap 1 .. n)
<1> DEFINE sum == Running(w, n)
           T == {k \in Nat : k <= n => sum[k] = Cardinality(K \cap 1 .. k)}
<1>1. \A i \in 1 .. n : w[i] \in Nat
  OBVIOUS
<1>2. sum[0] = 0 /\ \A k \in 1 .. n : sum[k] = sum[k - 1] + w[k]
  BY <1>1, RunningFacts
<1> HIDE DEF sum
<1>3. 0 \in T
  <2>1. K \cap 1 .. 0 = {}
    OBVIOUS
  <2> QED BY <1>2, <2>1, FS_EmptySet
<1>4. ASSUME NEW k \in T PROVE k + 1 \in T
  <2> SUFFICES ASSUME k + 1 <= n PROVE sum[k + 1] = Cardinality(K \cap 1 .. k + 1)
    OBVIOUS
  <2>1. k \in Nat /\ (k + 1) - 1 = k /\ k + 1 \in 1 .. n /\ sum[k] = Cardinality(K \cap 1 .. k)
    OBVIOUS
  <2>2. sum[k + 1] = sum[k] + w[k + 1]
    BY <1>2, <2>1
  <2>3. IsFiniteSet(K \cap 1 .. k) /\ Cardinality(K \cap 1 .. k) \in Nat
    <3>1. IsFiniteSet(1 .. k)
      BY <2>1, FS_Interval
    <3>2. IsFiniteSet(K \cap 1 .. k)
      BY <3>1, FS_Subset
    <3> QED BY <3>2, FS_CardinalityType
  <2>4. CASE k + 1 \in K
    <3>1. K \cap 1 .. k + 1 = (K \cap 1 .. k) \cup {k + 1} /\ k + 1 \notin K \cap 1 .. k
      BY <2>1, <2>4
    <3>2. Cardinality((K \cap 1 .. k) \cup {k + 1}) = Cardinality(K \cap 1 .. k) + 1
      BY <2>3, <3>1, FS_AddElement
    <3>3. w[k + 1] = 1
      BY <2>1, <2>4
    <3> QED BY <2>1, <2>2, <3>1, <3>2, <3>3
  <2>5. CASE k + 1 \notin K
    <3>1. K \cap 1 .. k + 1 = K \cap 1 .. k
      BY <2>1, <2>5
    <3>2. w[k + 1] = 0
      BY <2>1, <2>5
    <3> QED BY <2>1, <2>2, <2>3, <3>1, <3>2
  <2> QED BY <2>4, <2>5
<1>5. T = Nat
  <2> HIDE DEF T
  <2>1. T \in SUBSET Nat
    BY DEF T
  <2> QED BY <1>3, <1>4, <2>1, SetInduction
<1> QED BY <1>5 DEF sum

\* One element is a sequence, and so is none.
LEMMA SingleIsSeq == ASSUME NEW e PROVE IsSeq(<<e>>) /\ Len(<<e>>) = 1 /\ DOMAIN <<e>> = {1}
<1>1. <<e>> \in Seq({e}) /\ Elements(<<e>>) = {e}
  BY DEF Elements
<1> QED BY <1>1 DEF IsSeq

\* What is picked: as many elements as positions, each from one of them.
LEMMA PickedFacts ==
  ASSUME NEW s, IsSeq(s), NEW K
  PROVE  /\ IsSeq(Picked(s, K))
         /\ Len(Picked(s, K)) = Cardinality(K \cap DOMAIN s)
         /\ \A j \in DOMAIN Picked(s, K) : \E i \in K \cap DOMAIN s : Picked(s, K)[j] = s[i]
<1> DEFINE seqs == [i \in DOMAIN s |-> IF i \in K THEN <<s[i]>> ELSE <<>>]
           n == Len(s)
<1>1. n \in Nat /\ DOMAIN s = 1 .. n
  BY SeqFacts
<1>2. IsSeq(seqs) /\ Len(seqs) = n /\ DOMAIN seqs = 1 .. n
  <2>1. seqs = [i \in 1 .. n |-> seqs[i]]
    BY <1>1
  <2> HIDE DEF seqs
  <2> QED BY <1>1, <2>1, FunctionIsSeq
<1>3. \A i \in DOMAIN seqs : IsSeq(seqs[i])
  BY SingleIsSeq, EmptyIsSeq
<1>4. \A i \in 1 .. n : Lengths(seqs)[i] = IF i \in K THEN 1 ELSE 0
  BY <1>1, <1>2, SingleIsSeq DEF Lengths
<1>5. \A i \in DOMAIN seqs : \A k \in DOMAIN seqs[i] : i \in K /\ seqs[i][k] = s[i]
  <2> SUFFICES ASSUME NEW i \in DOMAIN seqs, NEW k \in DOMAIN seqs[i]
               PROVE  i \in K /\ seqs[i][k] = s[i]
    OBVIOUS
  <2>1. CASE i \in K
    <3>1. seqs[i] = <<s[i]>>
      BY <2>1
    <3>2. k \in DOMAIN <<s[i]>>
      BY <3>1
    <3>3. k = 1
      BY <3>2, SingleIsSeq
    <3> QED BY <2>1, <3>1, <3>3
  <2>2. CASE i \notin K
    <3>1. seqs[i] = <<>>
      BY <2>2
    <3> QED BY <3>1
  <2> QED BY <2>1, <2>2
<1>6. Picked(s, K) = FlattenSeq(seqs)
  BY DEF Picked
<1> HIDE DEF seqs
<1>7. /\ IsSeq(FlattenSeq(seqs)) /\ From(FlattenSeq(seqs), seqs)
      /\ Len(FlattenSeq(seqs)) = Running(Lengths(seqs), n)[n]
  BY <1>2, <1>3, FlattenFacts
<1>8. Running(Lengths(seqs), n)[n] = Cardinality(K \cap 1 .. n)
  BY <1>1, <1>4, CountIsRunning
<1>9. ASSUME NEW j \in DOMAIN FlattenSeq(seqs)
      PROVE  \E i \in K \cap DOMAIN s : FlattenSeq(seqs)[j] = s[i]
  <2>1. PICK i \in DOMAIN seqs : \E k \in DOMAIN seqs[i] : FlattenSeq(seqs)[j] = seqs[i][k]
    BY <1>7 DEF From
  <2>2. i \in K /\ i \in DOMAIN s /\ FlattenSeq(seqs)[j] = s[i]
    BY <1>1, <1>2, <1>5, <2>1
  <2> QED BY <2>2
<1> QED BY <1>1, <1>6, <1>7, <1>8, <1>9

-----------------------------------------------------------------------------
(* Reading.                                                                 *)

\* Positions of a sequence can be counted.
LEMMA CountFacts ==
  ASSUME NEW s, IsSeq(s), NEW K \in SUBSET DOMAIN s
  PROVE  /\ IsFiniteSet(K) /\ Cardinality(K) \in Nat
         /\ Cardinality(DOMAIN s \ K) = Len(s) - Cardinality(K)
<1>1. Len(s) \in Nat /\ DOMAIN s = 1 .. Len(s)
  BY SeqFacts
<1>2. IsFiniteSet(DOMAIN s) /\ Cardinality(DOMAIN s) = Len(s)
  BY <1>1, FS_Interval
<1>3. IsFiniteSet(K) /\ Cardinality(K) \in Nat
  BY <1>2, FS_Subset, FS_CardinalityType
<1>4. Cardinality(DOMAIN s \ K) = Cardinality(DOMAIN s) - Cardinality(DOMAIN s \cap K)
  BY <1>2, FS_Difference
<1>5. DOMAIN s \cap K = K
  OBVIOUS
<1> QED BY <1>2, <1>3, <1>4, <1>5

WithTime(entries) == {i \in DOMAIN entries : HasTime(entries[i])}

\* Every entry is an event or an error, and an event's time is of its own line.
LEMMA ReadFacts ==
  ASSUME NEW entries, IsSeq(entries), NEW n
  PROVE  LET r == Read(entries, n)
         IN  /\ r.lines = n /\ r.errors \in Nat /\ r.untimed \in Nat
             /\ IsSeq(r.events) /\ Len(r.events) = Cardinality(WithTime(entries))
             /\ Len(r.events) + r.errors = Len(entries)
             /\ \A j \in DOMAIN r.events : r.events[j].own = TRUE
<1> DEFINE r == Read(entries, n)
           kept == Picked(entries, WithTime(entries))
           K == WithTime(entries)
           none == {i \in DOMAIN entries : ~HasTime(entries[i])}
           bad == {i \in DOMAIN entries : entries[i].time = BadTime}
<1>1. /\ r.lines = n /\ r.errors = Cardinality(none) /\ r.untimed = Cardinality(bad)
      /\ r.events = [i \in DOMAIN kept |->
                       [time |-> kept[i].time, source |-> kept[i].source, own |-> TRUE]]
  BY DEF Read, HowMany, WithTime
<1>2. K \in SUBSET DOMAIN entries /\ none = DOMAIN entries \ K /\ bad \in SUBSET DOMAIN entries
      /\ none \in SUBSET DOMAIN entries
  BY DEF WithTime
<1>3. IsSeq(kept) /\ Len(kept) = Cardinality(K)
  <2>1. K \cap DOMAIN entries = K
    BY <1>2
  <2>2. IsSeq(kept) /\ Len(kept) = Cardinality(K \cap DOMAIN entries)
    BY PickedFacts
  <2> QED BY <2>1, <2>2
<1> HIDE DEF r, kept, K, none, bad
<1>4. Cardinality(K) \in Nat /\ Cardinality(none) = Len(entries) - Cardinality(K)
  BY <1>2, CountFacts
<1>5. Cardinality(none) \in Nat /\ Cardinality(bad) \in Nat
  BY <1>2, CountFacts
<1>6. Len(kept) \in Nat /\ DOMAIN kept = 1 .. Len(kept)
  BY <1>3, SeqFacts
<1>7. IsSeq(r.events) /\ Len(r.events) = Len(kept) /\ DOMAIN r.events = DOMAIN kept
  <2> DEFINE ev == r.events
  <2>1. ev = [i \in 1 .. Len(kept) |-> ev[i]]
    BY <1>1, <1>6
  <2> HIDE DEF ev
  <2>2. IsSeq(ev) /\ Len(ev) = Len(kept) /\ DOMAIN ev = 1 .. Len(kept)
    BY <1>6, <2>1, FunctionIsSeq
  <2> QED BY <1>6, <2>2 DEF ev
<1>8. \A j \in DOMAIN r.events : r.events[j].own = TRUE
  BY <1>1, <1>7
<1>9. Len(entries) \in Nat
  BY SeqFacts
<1>10. Len(r.events) + r.errors = Len(entries)
  BY <1>1, <1>3, <1>4, <1>7, <1>9
<1> QED BY <1>1, <1>3, <1>5, <1>7, <1>8, <1>10 DEF r, K

\* Events whose time is not of their own line.
Unowned(ev) == {j \in DOMAIN ev : ~ev[j].own}

LEMMA FileFacts ==
  ASSUME NEW file, IsFile(file)
  PROVE  /\ IsSeq(file.lines) /\ Len(file.lines) \in Nat
         /\ DOMAIN file.lines = 1 .. Len(file.lines)
         /\ \A i \in DOMAIN file.lines : IsLine(file.lines[i])
         /\ IsSeq(file.whole) /\ \A i \in DOMAIN file.whole : IsLine(file.whole[i])
<1>1. IsList(file.lines) /\ IsList(file.whole)
  BY DEF IsFile
<1>2. IsSeq(file.lines) /\ IsSeq(file.whole)
  BY <1>1, ListIsSeq
<1> QED BY <1>2, SeqFacts DEF IsFile

\* The raw reader makes an event of every line, and counts those whose time is not their own.
LEMMA ReadRawFacts ==
  ASSUME NEW file, IsFile(file)
  PROVE  LET r == ReadRaw(file)
         IN  /\ r.lines = Len(file.lines) /\ r.errors = 0 /\ r.untimed \in Nat
             /\ IsSeq(r.events) /\ Len(r.events) = Len(file.lines)
             /\ Cardinality(Unowned(r.events)) = r.untimed
<1> DEFINE r == ReadRaw(file)
           n == Len(file.lines)
           ev == r.events
<1>1. n \in Nat /\ DOMAIN file.lines = 1 .. n /\ IsSeq(file.lines)
  BY FileFacts
<1>2. PICK own \in SUBSET DOMAIN file.lines :
        /\ r.lines = n /\ r.errors = 0 /\ r.untimed = n - Cardinality(own)
        /\ DOMAIN r.events = DOMAIN file.lines
        /\ r.events = [i \in DOMAIN file.lines |-> r.events[i]]
        /\ \A i \in DOMAIN file.lines : r.events[i].own = (i \in own)
  <2> DEFINE shape == Adopted(file)
             own == {i \in DOMAIN file.lines : shape # None /\ ReadableIn(shape, file.lines[i])}
  <2>1. own \in SUBSET DOMAIN file.lines
    OBVIOUS
  <2>2. r.lines = n /\ r.errors = 0 /\ r.untimed = n - Cardinality(own)
    BY DEF ReadRaw
  <2>3. /\ DOMAIN r.events = DOMAIN file.lines
        /\ \A i \in DOMAIN file.lines : r.events[i].own = (i \in own)
        /\ r.events = [i \in DOMAIN file.lines |-> r.events[i]]
    BY DEF ReadRaw
  <2> HIDE DEF own, r
  <2> QED BY <2>1, <2>2, <2>3
<1> HIDE DEF r, n
<1>3. IsSeq(ev) /\ Len(ev) = n /\ DOMAIN ev = 1 .. n
  <2>1. ev = [i \in 1 .. n |-> ev[i]]
    BY <1>1, <1>2
  <2> HIDE DEF ev
  <2> QED BY <1>1, <2>1, FunctionIsSeq
<1>4. Unowned(ev) = DOMAIN file.lines \ own
  BY <1>2 DEF Unowned
<1>5. Cardinality(own) \in Nat /\ Cardinality(DOMAIN file.lines \ own) = n - Cardinality(own)
      /\ Cardinality(DOMAIN file.lines \ own) \in Nat
  <2>1. DOMAIN file.lines \ own \in SUBSET DOMAIN file.lines
    OBVIOUS
  <2> QED BY <1>1, <2>1, CountFacts DEF n
<1> QED BY <1>2, <1>3, <1>4, <1>5 DEF r, n

\* Readers that look for records: one error, or the records.
LEMMA ObjectsFacts ==
  ASSUME NEW s, IsSeq(s)
  PROVE  IsSeq(Objects(s)) /\ (Len(s) = 1 /\ s[1] # Stray => Len(Objects(s)) = 1)
<1> DEFINE K == {i \in DOMAIN s : s[i] # Stray}
<1>1. /\ IsSeq(Picked(s, K)) /\ Len(Picked(s, K)) = Cardinality(K \cap DOMAIN s)
  BY PickedFacts
<1>2. ASSUME Len(s) = 1, s[1] # Stray PROVE Cardinality(K \cap DOMAIN s) = 1
  <2>1. DOMAIN s = {1}
    BY <1>2, SeqFacts
  <2>2. K \cap DOMAIN s = {1}
    BY <1>2, <2>1
  <2> QED BY <2>2, FS_Singleton
<1> QED BY <1>1, <1>2 DEF Objects

LEMMA ViewFacts ==
  ASSUME NEW reader, reader.format \in Readers \cup {"inferred"}, reader.format # "raw_lines",
         NEW line, IsLine(line)
  PROVE  /\ IsSeq(View(reader, line))
         /\ Len(line.entries) = 1 /\ line.entries[1] # Stray => Len(View(reader, line)) = 1
<1>1. IsSeq(line.entries) /\ IsSeq(Objects(line.entries))
      /\ (Len(line.entries) = 1 /\ line.entries[1] # Stray => Len(Objects(line.entries)) = 1)
  <2>1. IsSeq(line.entries)
    BY ListIsSeq DEF IsLine
  <2> QED BY <2>1, ObjectsFacts
<1>2. \A e : IsSeq(<<e>>) /\ Len(<<e>>) = 1
  BY SingleIsSeq
<1>3. CASE reader.format = "json_lines"
  <2>1. View(reader, line) = JsonView(line)
    BY <1>3 DEF View
  <2>2. \/ JsonView(line) = line.entries
        \/ \E e : JsonView(line) = <<e>>
    BY DEF JsonView
  <2> QED BY <1>1, <1>2, <2>1, <2>2
<1>4. CASE reader.format = "loki"
  <2>1. View(reader, line) = LokiView(line)
    BY <1>4 DEF View
  <2>2. \/ LokiView(line) = Objects(line.entries)
        \/ \E e : LokiView(line) = <<e>>
    BY DEF LokiView
  <2> QED BY <1>1, <1>2, <2>1, <2>2
<1>5. CASE reader.format = "otlp"
  <2>1. View(reader, line) = OtlpView(line)
    BY <1>5 DEF View
  <2>2. \/ OtlpView(line) = Objects(line.entries)
        \/ \E e : OtlpView(line) = <<e>>
    BY DEF OtlpView
  <2> QED BY <1>1, <1>2, <2>1, <2>2
<1>6. CASE reader.format = "elastic"
  <2>1. View(reader, line) = ElasticView(line)
    BY <1>6 DEF View
  <2>2. \/ ElasticView(line) = line.entries
        \/ \E e : ElasticView(line) = <<e>>
    BY DEF ElasticView
  <2> QED BY <1>1, <1>2, <2>1, <2>2
<1>7. CASE reader.format = "inferred"
  <2>1. View(reader, line) = InferredView(reader.schema, line)
    BY <1>7 DEF View
  <2>2. \E e : InferredView(reader.schema, line) = <<e>>
    BY DEF InferredView
  <2> QED BY <1>2, <2>1, <2>2
<1> QED BY <1>3, <1>4, <1>5, <1>6, <1>7 DEF Readers

Views(reader, lines) == [i \in DOMAIN lines |-> View(reader, lines[i])]

LEMMA ViewsFacts ==
  ASSUME NEW reader, reader.format \in Readers \cup {"inferred"}, reader.format # "raw_lines",
         NEW lines, IsSeq(lines), \A i \in DOMAIN lines : IsLine(lines[i])
  PROVE  /\ IsSeq(Views(reader, lines)) /\ Len(Views(reader, lines)) = Len(lines)
         /\ DOMAIN Views(reader, lines) = DOMAIN lines
         /\ \A i \in DOMAIN lines : /\ Views(reader, lines)[i] = View(reader, lines[i])
                                    /\ IsSeq(Views(reader, lines)[i])
<1> DEFINE v == Views(reader, lines)
           n == Len(lines)
<1>1. n \in Nat /\ DOMAIN lines = 1 .. n
  BY SeqFacts
<1>2. v = [i \in 1 .. n |-> v[i]] /\ \A i \in DOMAIN lines : v[i] = View(reader, lines[i])
  BY <1>1 DEF Views
<1>3. \A i \in DOMAIN lines : IsSeq(v[i])
  BY <1>2, ViewFacts
<1> HIDE DEF v, n
<1>4. IsSeq(v) /\ Len(v) = n /\ DOMAIN v = 1 .. n
  BY <1>1, <1>2, FunctionIsSeq
<1> QED BY <1>1, <1>2, <1>3, <1>4 DEF v, n

\* A file read line by line: where every line holds one record, each is an event or an error.
LEMMA ReadLinesFacts ==
  ASSUME NEW reader, reader.format \in Readers \cup {"inferred"}, reader.format # "raw_lines",
         NEW file, IsFile(file)
  PROVE  LET r == ReadLines(reader, file)
         IN  /\ r.lines = Len(file.lines) /\ r.errors \in Nat /\ r.untimed \in Nat
             /\ IsSeq(r.events) /\ \A j \in DOMAIN r.events : r.events[j].own = TRUE
             /\ (\A i \in DOMAIN file.lines : /\ Len(file.lines[i].entries) = 1
                                              /\ file.lines[i].entries[1] # Stray)
                  => Len(r.events) + r.errors = Len(file.lines)
<1> DEFINE v == Views(reader, file.lines)
           n == Len(file.lines)
           flat == FlattenSeq(v)
           r == Read(flat, n)
<1>1. ReadLines(reader, file) = r
  BY DEF ReadLines, Views
<1>2. IsSeq(file.lines) /\ DOMAIN file.lines = 1 .. n /\ \A i \in DOMAIN file.lines : IsLine(file.lines[i])
  BY FileFacts
<1>3. /\ IsSeq(v) /\ Len(v) = n /\ DOMAIN v = DOMAIN file.lines
      /\ \A i \in DOMAIN v : v[i] = View(reader, file.lines[i]) /\ IsSeq(v[i])
  BY <1>2, ViewsFacts
<1> HIDE DEF v, n
<1>4. IsSeq(flat)
  BY <1>3, FlattenFacts
<1>5. ASSUME \A i \in DOMAIN file.lines : /\ Len(file.lines[i].entries) = 1
                                          /\ file.lines[i].entries[1] # Stray
      PROVE  Len(flat) = n
  <2>1. \A i \in DOMAIN v : IsSeq(v[i]) /\ Len(v[i]) = 1
    BY <1>2, <1>3, <1>5, ViewFacts
  <2> QED BY <1>3, <2>1, SinglesFacts
<1> HIDE DEF flat, r
<1>6. /\ r.lines = n /\ r.errors \in Nat /\ r.untimed \in Nat
      /\ IsSeq(r.events) /\ Len(r.events) + r.errors = Len(flat)
      /\ \A j \in DOMAIN r.events : r.events[j].own = TRUE
  BY <1>4, ReadFacts DEF r
<1> QED BY <1>1, <1>5, <1>6 DEF n

\* A file read as one value: its counters are numbers, its events timed by themselves.
LEMMA ReadDocumentFacts ==
  ASSUME NEW format, NEW file, IsFile(file)
  PROVE  LET r == ReadDocument(format, file)
         IN  /\ r.lines \in Nat /\ r.errors \in Nat /\ r.untimed \in Nat
             /\ IsSeq(r.events) /\ \A j \in DOMAIN r.events : r.events[j].own = TRUE
<1> DEFINE values == [i \in DOMAIN file.whole |->
                        IF format = "otlp" THEN OtlpView(file.whole[i])
                        ELSE IF file.whole[i].kind = "streams" THEN Objects(file.whole[i].entries)
                        ELSE <<Nothing>>]
           hits == Objects(file.whole[1].entries)
<1>1. IsSeq(file.whole) /\ Len(file.whole) \in Nat /\ DOMAIN file.whole = 1 .. Len(file.whole)
      /\ \A i \in DOMAIN file.whole : IsLine(file.whole[i])
  BY FileFacts, SeqFacts
<1>2. \A i \in DOMAIN file.whole : IsSeq(Objects(file.whole[i].entries))
  <2>1. \A i \in DOMAIN file.whole : IsSeq(file.whole[i].entries)
    BY <1>1, ListIsSeq DEF IsLine
  <2> QED BY <2>1, ObjectsFacts
<1>3. IsSeq(<<Nothing>>)
  BY SingleIsSeq
<1>4. IsSeq(DocumentView(format, file))
  <2>1. \A i \in DOMAIN file.whole : IsSeq(values[i])
    BY <1>2, <1>3 DEF OtlpView
  <2>2. values = [i \in 1 .. Len(file.whole) |-> values[i]] /\ DOMAIN values = DOMAIN file.whole
    BY <1>1
  <2>3. DocumentView(format, file) = FlattenSeq(values)
    BY DEF DocumentView
  <2> HIDE DEF values
  <2>4. IsSeq(values)
    BY <1>1, <2>2, FunctionIsSeq
  <2> QED BY <2>1, <2>2, <2>3, <2>4, FlattenFacts
<1>5. \E n \in Nat : \E e : ReadDocument(format, file) = Read(e, n) /\ IsSeq(e)
  <2>1. CASE format = "elastic" /\ IsResponse(file)
    <3>1. IsSeq(hits) /\ Len(hits) \in Nat
      <4>1. 1 \in DOMAIN file.whole
        BY <1>1, <2>1 DEF IsResponse
      <4> QED BY <1>2, <4>1, SeqFacts
    <3>2. ReadDocument(format, file) = Read(hits, Len(hits))
      BY <2>1 DEF ReadDocument
    <3> HIDE DEF hits
    <3> QED BY <3>1, <3>2
  <2>2. CASE format = "elastic" /\ ~IsResponse(file)
    BY <2>2, <1>3 DEF ReadDocument
  <2>3. CASE format # "elastic"
    BY <2>3, <1>3, <1>4 DEF ReadDocument
  <2> QED BY <2>1, <2>2, <2>3
<1>6. PICK n \in Nat : \E e : ReadDocument(format, file) = Read(e, n) /\ IsSeq(e)
  BY <1>5
<1>7. PICK e : ReadDocument(format, file) = Read(e, n) /\ IsSeq(e)
  BY <1>6
<1> DEFINE r == Read(e, n)
<1>8. /\ r.lines = n /\ r.errors \in Nat /\ r.untimed \in Nat
      /\ IsSeq(r.events) /\ \A j \in DOMAIN r.events : r.events[j].own = TRUE
  BY <1>7, ReadFacts
<1> HIDE DEF r
<1> QED BY <1>7, <1>8 DEF r

\* Reading a file: only the raw reader makes events of lines without a time of their own, and
\* it counts them.
LEMMA ReadingFacts ==
  ASSUME NEW reader, reader.format \in Readers \cup {"inferred"}, NEW file, IsFile(file)
  PROVE  LET r == Reading(reader, file)
         IN  /\ r.lines \in Nat /\ r.errors \in Nat /\ r.untimed \in Nat /\ IsSeq(r.events)
             /\ Cardinality(Unowned(r.events)) \in Nat
             /\ Cardinality(Unowned(r.events)) <= r.untimed
             /\ reader.format # "raw_lines" => Unowned(r.events) = {}
             /\ (/\ ~IsDocument(reader.format, file)
                 /\ \A i \in DOMAIN file.lines : /\ Len(file.lines[i].entries) = 1
                                                 /\ file.lines[i].entries[1] # Stray)
                  => /\ r.lines = Len(file.lines)
                     /\ Len(r.events) + r.errors = Len(file.lines)
<1>1. Len(file.lines) \in Nat
  BY FileFacts
<1>2. CASE reader.format = "raw_lines"
  <2> DEFINE r == ReadRaw(file)
  <2>1. Reading(reader, file) = r
    BY <1>2 DEF Reading
  <2>2. /\ r.lines = Len(file.lines) /\ r.errors = 0 /\ r.untimed \in Nat
        /\ IsSeq(r.events) /\ Len(r.events) = Len(file.lines)
        /\ Cardinality(Unowned(r.events)) = r.untimed
    BY ReadRawFacts
  <2> HIDE DEF r
  <2> QED BY <1>1, <1>2, <2>1, <2>2
<1>3. CASE reader.format # "raw_lines"
  <2>1. CASE IsDocument(reader.format, file)
    <3> DEFINE r == ReadDocument(reader.format, file)
    <3>1. Reading(reader, file) = r
      BY <1>3, <2>1 DEF Reading
    <3>2. /\ r.lines \in Nat /\ r.errors \in Nat /\ r.untimed \in Nat
          /\ IsSeq(r.events) /\ \A j \in DOMAIN r.events : r.events[j].own = TRUE
      BY ReadDocumentFacts
    <3> HIDE DEF r
    <3>3. Unowned(r.events) = {}
      BY <3>2 DEF Unowned
    <3>4. Cardinality(Unowned(r.events)) = 0
      BY <3>3, FS_EmptySet
    <3> QED BY <2>1, <3>1, <3>2, <3>3, <3>4
  <2>2. CASE ~IsDocument(reader.format, file)
    <3> DEFINE r == ReadLines(reader, file)
    <3>1. Reading(reader, file) = r
      BY <1>3, <2>2 DEF Reading
    <3>2. /\ r.lines = Len(file.lines) /\ r.errors \in Nat /\ r.untimed \in Nat
          /\ IsSeq(r.events) /\ \A j \in DOMAIN r.events : r.events[j].own = TRUE
          /\ (\A i \in DOMAIN file.lines : /\ Len(file.lines[i].entries) = 1
                                           /\ file.lines[i].entries[1] # Stray)
               => Len(r.events) + r.errors = Len(file.lines)
      BY <1>3, ReadLinesFacts
    <3> HIDE DEF r
    <3>3. Unowned(r.events) = {}
      BY <3>2 DEF Unowned
    <3>4. Cardinality(Unowned(r.events)) = 0
      BY <3>3, FS_EmptySet
    <3> QED BY <1>1, <2>2, <3>1, <3>2, <3>3, <3>4
  <2> QED BY <2>1, <2>2
<1> QED BY <1>2, <1>3

-----------------------------------------------------------------------------
(* The lines a schema is scored on.                                         *)

\* Lines are a list of lines.
Lines(s) == IsSeq(s) /\ \A i \in DOMAIN s : IsLine(s[i])

\* The first n of a sequence, or all there are.
LEMMA FirstFacts ==
  ASSUME NEW s, IsSeq(s), NEW n \in Nat
  PROVE  /\ IsSeq(First(s, n)) /\ Len(First(s, n)) = (IF n < Len(s) THEN n ELSE Len(s))
         /\ \A i \in DOMAIN First(s, n) : i \in DOMAIN s /\ First(s, n)[i] = s[i]
<1> DEFINE k == IF n < Len(s) THEN n ELSE Len(s)
           u == First(s, n)
<1>1. Len(s) \in Nat /\ DOMAIN s = 1 .. Len(s)
  BY SeqFacts
<1>2. k \in Nat /\ 0 <= k /\ k <= Len(s) /\ k - 0 = k /\ 0 + 1 = 1
  BY <1>1
<1>3. u = SubSeq(s, 1, k)
  BY DEF First
<1> HIDE DEF k, u
<1>4. LET v == SubSeq(s, 0 + 1, k)
      IN  IsSeq(v) /\ Len(v) = k - 0 /\ \A i \in 1 .. k - 0 : v[i] = s[0 + i]
  BY <1>2, PieceFacts
<1>5. IsSeq(u) /\ Len(u) = k /\ \A i \in 1 .. k : u[i] = s[0 + i]
  BY <1>2, <1>3, <1>4
<1>6. DOMAIN u = 1 .. k
  BY <1>5, SeqFacts
<1>7. \A i \in DOMAIN u : i \in DOMAIN s /\ u[i] = s[i]
  BY <1>1, <1>2, <1>5, <1>6
<1> QED BY <1>5, <1>7 DEF u, k

LEMMA FirstLines == ASSUME NEW s, Lines(s), NEW n \in Nat PROVE Lines(First(s, n))
<1>1. IsSeq(First(s, n)) /\ \A i \in DOMAIN First(s, n) : i \in DOMAIN s /\ First(s, n)[i] = s[i]
  BY FirstFacts DEF Lines
<1> QED BY <1>1 DEF Lines

LEMMA LinesOfFile == ASSUME NEW file, IsFile(file) PROVE Lines(file.lines)
  BY FileFacts DEF Lines

LEMMA SampleSizes == SampleSize \in Nat \ {0} /\ 10 * SampleSize \in Nat
  BY SourcesAssumption

LEMMA SampleLines == ASSUME NEW file, IsFile(file) PROVE Lines(Sample(file)) /\ Lines(Usable(file))
  BY LinesOfFile, FirstLines, SampleSizes DEF Sample, Usable

\* What is held out is lines, too.
LEMMA HoldoutLines == ASSUME NEW file, IsFile(file) PROVE Lines(Holdout(file))
<1> DEFINE u == Usable(file)
           rest == SubSeq(u, SampleSize + 1, Len(u))
<1>1. Lines(u) /\ Len(u) \in Nat /\ DOMAIN u = 1 .. Len(u) /\ IsSeq(u)
  BY SampleLines, SeqFacts DEF Lines
<1>2. CASE SampleSize <= Len(u)
  <2> HIDE DEF u
  <2>1. /\ IsSeq(rest) /\ Len(rest) = Len(u) - SampleSize
        /\ \A i \in 1 .. Len(u) - SampleSize : rest[i] = u[SampleSize + i]
    BY <1>1, <1>2, SampleSizes, PieceFacts
  <2> HIDE DEF rest
  <2>2. DOMAIN rest = 1 .. Len(u) - SampleSize
    BY <2>1, SeqFacts
  <2>3. \A i \in DOMAIN rest : SampleSize + i \in DOMAIN u /\ rest[i] = u[SampleSize + i]
    BY <1>1, <2>1, <2>2, SampleSizes
  <2>4. Lines(rest)
    BY <1>1, <2>1, <2>3 DEF Lines
  <2> QED BY <2>4, SampleLines DEF Holdout, rest, u
<1>3. CASE ~(SampleSize <= Len(u))
  <2>1. rest = <<>>
    <3>1. u \in Seq(Elements(u))
      BY <1>1 DEF IsSeq
    <3> HIDE DEF u
    <3>2. \A i \in SampleSize + 1 .. Len(u) : u[i] \in Elements(u)
      BY <1>1, <1>3, SampleSizes
    <3>3. /\ rest \in Seq(Elements(u))
          /\ Len(rest) = IF SampleSize + 1 <= Len(u) THEN Len(u) - (SampleSize + 1) + 1 ELSE 0
      BY <1>1, <3>2, SampleSizes, SubSeqProperties
    <3> HIDE DEF rest
    <3>4. Len(rest) = 0
      <4> DEFINE m == Len(u)
      <4>1. m \in Nat /\ ~(SampleSize <= m)
        BY <1>1, <1>3
      <4>2. Len(rest) = IF SampleSize + 1 <= m THEN m - (SampleSize + 1) + 1 ELSE 0
        BY <3>3
      <4> HIDE DEF m
      <4>3. ~(SampleSize + 1 <= m)
        BY <4>1, SampleSizes
      <4> QED BY <4>2, <4>3
    <3> QED BY <3>3, <3>4, EmptySeq
  <2> QED BY <2>1, SampleLines DEF Holdout
<1> QED BY <1>2, <1>3

\* The reader of a schema makes an event of exactly the lines the gate counts.
LEMMA RateIsRead ==
  ASSUME NEW schema, schema.shape # None, NEW lines, Lines(lines), NEW reader,
         reader = [format |-> "inferred", schema |-> schema], NEW n
  PROVE  Len(Read(FlattenSeq(Views(reader, lines)), n).events) = Rate(schema, lines)
<1> DEFINE v == Views(reader, lines)
           flat == FlattenSeq(v)
<1>1. IsSeq(lines) /\ reader.format = "inferred" /\ reader.schema = schema
      /\ Len(lines) \in Nat /\ DOMAIN lines = 1 .. Len(lines)
      /\ \A i \in DOMAIN lines : IsLine(lines[i])
  BY SeqFacts DEF Lines
<1>2. /\ IsSeq(v) /\ Len(v) = Len(lines) /\ DOMAIN v = DOMAIN lines
      /\ \A i \in DOMAIN lines : v[i] = View(reader, lines[i]) /\ IsSeq(v[i])
  BY <1>1, ViewsFacts
<1> HIDE DEF v
<1>3. \A i \in DOMAIN lines : v[i] = InferredView(schema, lines[i])
  BY <1>1, <1>2 DEF View
<1>4. \A i \in DOMAIN v : IsSeq(v[i]) /\ Len(v[i]) = 1
  BY <1>2, <1>3, SingleIsSeq DEF InferredView
<1>5. IsSeq(flat) /\ Len(flat) = Len(v) /\ \A i \in DOMAIN v : flat[i] = v[i][1]
  BY <1>2, <1>4, SinglesFacts
<1> HIDE DEF flat
<1>6. DOMAIN flat = DOMAIN lines
  BY <1>1, <1>2, <1>5, SeqFacts
<1>7. ASSUME NEW i \in DOMAIN lines PROVE HasTime(flat[i]) <=> Reads(schema, lines[i])
  <2> DEFINE line == lines[i]
  <2>1. flat[i] = InferredView(schema, line)[1]
    BY <1>2, <1>3, <1>5
  <2>2. IsLine(line)
    BY <1>1
  <2>3. CASE Matches(schema, line)
    <3>1. line.leads = schema.shape
      BY <2>3 DEF Matches
    <3>2. schema.shape \in DOMAIN line.shapes
      BY <2>2, <3>1 DEF IsLine
    <3>3. line.shapes[schema.shape] \notin {NoTime, FarTime}
      BY <2>2, <3>2 DEF IsLine
    <3>4. flat[i].time = line.shapes[schema.shape]
      BY <2>1, <2>3 DEF InferredView
    <3> QED BY <2>3, <3>3, <3>4 DEF HasTime, Reads
  <2>4. CASE ~Matches(schema, line)
    <3>1. flat[i].time = NoTime
      BY <2>1, <2>4 DEF InferredView, Nothing
    <3> QED BY <2>4, <3>1 DEF HasTime, Reads
  <2> QED BY <2>3, <2>4
<1>8. WithTime(flat) = {i \in DOMAIN lines : Reads(schema, lines[i])}
  BY <1>6, <1>7 DEF WithTime
<1>9. Rate(schema, lines) = Cardinality({i \in DOMAIN lines : Reads(schema, lines[i])})
  BY DEF Rate, HowMany
<1>10. Len(Read(flat, n).events) = Cardinality(WithTime(flat))
  BY <1>5, ReadFacts
<1> QED BY <1>8, <1>9, <1>10 DEF flat, v

-----------------------------------------------------------------------------
(* Detection.                                                               *)

\* Better(i, j) of Detect, for any tiers T and scores S.
Ranks(T, S, i, j) ==
  T[i] > T[j] \/ (T[i] = T[j] /\ S[i] > S[j]) \/ (T[i] = T[j] /\ S[i] = S[j] /\ i < j)

\* Of some positions one ranks above all others.
LEMMA BestExists ==
  ASSUME NEW n \in Nat, NEW T \in [1 .. n -> Nat], NEW S \in [1 .. n -> Nat],
         NEW E \in SUBSET (1 .. n), E # {}
  PROVE  \E i \in E : \A j \in E \ {i} : Ranks(T, S, i, j)
<1> DEFINE Has(F) == \E i \in F : \A j \in F \ {i} : Ranks(T, S, i, j)
           G == {k \in Nat : k <= n => \A F \in SUBSET (1 .. k) : F # {} => Has(F)}
<1>1. 0 \in G
  <2>1. \A F \in SUBSET (1 .. 0) : F = {}
    OBVIOUS
  <2> QED BY <2>1
<1>2. ASSUME NEW k \in G PROVE k + 1 \in G
  <2> SUFFICES ASSUME k + 1 <= n, NEW F \in SUBSET (1 .. k + 1), F # {} PROVE Has(F)
    OBVIOUS
  <2> DEFINE R == F \ {k + 1}
  <2>0. k \in Nat /\ k <= n
    OBVIOUS
  <2>1. R \in SUBSET (1 .. k)
    BY <2>0
  <2>2. CASE k + 1 \notin F
    <3>1. R = F
      BY <2>2
    <3>2. R # {} => Has(R)
      BY <2>0, <2>1
    <3> QED BY <3>1, <3>2
  <2>3. CASE k + 1 \in F /\ R = {}
    <3>1. F = {k + 1}
      BY <2>3
    <3> QED BY <3>1
  <2>4. CASE k + 1 \in F /\ R # {}
    <3>1. Has(R)
      BY <2>0, <2>1, <2>4
    <3>2. PICK b \in R : \A j \in R \ {b} : Ranks(T, S, b, j)
      BY <3>1
    <3>3. \A i \in F : i \in 1 .. n /\ T[i] \in Nat /\ S[i] \in Nat
      BY <2>0
    <3>4. b \in F /\ b < k + 1 /\ b \in Nat
      BY <2>0, <2>1
    <3>5. CASE T[b] > T[k + 1] \/ (T[b] = T[k + 1] /\ S[b] >= S[k + 1])
      <4>1. Ranks(T, S, b, k + 1)
        BY <3>3, <3>4, <3>5, <2>4 DEF Ranks
      <4>2. \A j \in F \ {b} : Ranks(T, S, b, j)
        BY <3>2, <4>1
      <4> QED BY <3>4, <4>2
    <3>6. CASE ~(T[b] > T[k + 1] \/ (T[b] = T[k + 1] /\ S[b] >= S[k + 1]))
      <4>1. T[k + 1] > T[b] \/ (T[k + 1] = T[b] /\ S[k + 1] > S[b])
        BY <3>3, <3>4, <3>6, <2>4
      <4>2. ASSUME NEW j \in F \ {k + 1} PROVE Ranks(T, S, k + 1, j)
        <5>1. CASE j = b
          BY <4>1, <5>1 DEF Ranks
        <5>2. CASE j # b
          <6>1. Ranks(T, S, b, j) /\ j \in F
            BY <3>2, <5>2
          <6> QED BY <3>3, <3>4, <4>1, <6>1, <2>4 DEF Ranks
        <5> QED BY <5>1, <5>2
      <4> QED BY <2>4, <4>2
    <3> QED BY <3>5, <3>6
  <2> QED BY <2>2, <2>3, <2>4
<1>3. G = Nat
  <2> HIDE DEF G
  <2>1. G \in SUBSET Nat
    BY DEF G
  <2> QED BY <1>1, <1>2, <2>1, SetInduction
<1>4. n \in G
  BY <1>3
<1> QED BY <1>4

\* Counts and scores are numbers.
LEMMA HowManyIsNumber ==
  ASSUME NEW s, Lines(s)
  PROVE  /\ \A kinds : Of(s, kinds) \in Nat /\ Of(s, kinds) <= Len(s)
         /\ HowMany(s, Timed) \in Nat
         /\ Len(s) \in Nat
<1>1. IsSeq(s) /\ Len(s) \in Nat
  BY SeqFacts DEF Lines
<1>2. \A K \in SUBSET DOMAIN s : Cardinality(K) \in Nat /\ Cardinality(K) <= Len(s)
  <2> SUFFICES ASSUME NEW K \in SUBSET DOMAIN s
               PROVE  Cardinality(K) \in Nat /\ Cardinality(K) <= Len(s)
    OBVIOUS
  <2>1. DOMAIN s \ K \in SUBSET DOMAIN s
    OBVIOUS
  <2>2. /\ Cardinality(K) \in Nat /\ Cardinality(DOMAIN s \ K) \in Nat
        /\ Cardinality(DOMAIN s \ K) = Len(s) - Cardinality(K)
    BY <1>1, <2>1, CountFacts
  <2> QED BY <1>1, <2>2
<1>3. ASSUME NEW kinds PROVE Of(s, kinds) \in Nat /\ Of(s, kinds) <= Len(s)
  <2> DEFINE K == {i \in DOMAIN s : s[i].kind \in kinds}
  <2>1. K \in SUBSET DOMAIN s /\ Of(s, kinds) = Cardinality(K)
    BY DEF Of, HowMany
  <2> QED BY <1>2, <2>1
<1>4. HowMany(s, Timed) \in Nat
  <2> DEFINE K == {i \in DOMAIN s : Timed(s[i])}
  <2>1. K \in SUBSET DOMAIN s /\ HowMany(s, Timed) = Cardinality(K)
    BY DEF HowMany
  <2> QED BY <1>2, <2>1
<1> QED BY <1>1, <1>3, <1>4

LEMMA ScoreIsNumber ==
  ASSUME NEW s, Lines(s), NEW f \in Readers
  PROVE  Score(f, s) \in Nat
<1>1. /\ \A kinds : Of(s, kinds) \in Nat
      /\ HowMany(s, Timed) \in Nat /\ Len(s) \in Nat
  BY HowManyIsNumber
<1>2. JsonScore(s) \in Nat
  BY <1>1 DEF JsonScore
<1>3. LokiScore(s) \in Nat
  BY <1>1 DEF LokiScore
<1>4. OtlpScore(s) \in Nat
  BY <1>1 DEF OtlpScore
<1>5. ElasticScore(s) \in Nat
  BY <1>1 DEF ElasticScore
<1> QED BY <1>2, <1>3, <1>4, <1>5 DEF Score, Readers

LEMMA SomeIsEligible == ASSUME NEW s, Detect(s) # None PROVE Eligible(s) # {}
  BY DEF Detect

\* The reader detect_format picks is eligible, and ranks above every other that is.
LEMMA DetectFacts ==
  ASSUME NEW s, Lines(s), Eligible(s) # {}
  PROVE  \E i \in Eligible(s) :
           /\ Detect(s) = Registered[i] /\ i \in DOMAIN Registered /\ Registered[i] \in Readers
           /\ \A j \in Eligible(s) :
                \/ Specificity(Registered[i]) > Specificity(Registered[j])
                \/ /\ Specificity(Registered[i]) = Specificity(Registered[j])
                   /\ Score(Registered[i], s) >= Score(Registered[j], s)
<1> DEFINE n == Len(Registered)
           T == [i \in 1 .. n |-> Specificity(Registered[i])]
           S == [i \in 1 .. n |-> Score(Registered[i], s)]
           E == Eligible(s)
           Best(i) == \A j \in E \ {i} : Ranks(T, S, i, j)
<1>1. n \in Nat /\ DOMAIN Registered = 1 .. n /\ \A i \in 1 .. n : Registered[i] \in Readers
  BY AdaptersAssumption
<1>2. T \in [1 .. n -> Nat]
  BY DEF Specificity
<1>3. S \in [1 .. n -> Nat]
  BY <1>1, ScoreIsNumber
<1>4. E \in SUBSET (1 .. n)
  BY <1>1 DEF Eligible
<1>5. E # {}
  OBVIOUS
<1>6. \E i \in E : Best(i)
  <2> HIDE DEF n, T, S, E
  <2> QED BY <1>1, <1>2, <1>3, <1>4, <1>5, BestExists
<1>7. PICK i \in E : Best(i) /\ Detect(s) = Registered[i]
  <2> DEFINE c == CHOOSE i \in E : \A j \in E \ {i} :
                    \/ Specificity(Registered[i]) > Specificity(Registered[j])
                    \/ /\ Specificity(Registered[i]) = Specificity(Registered[j])
                       /\ Score(Registered[i], s) > Score(Registered[j], s)
                    \/ /\ Specificity(Registered[i]) = Specificity(Registered[j])
                       /\ Score(Registered[i], s) = Score(Registered[j], s)
                       /\ i < j
  <2>1. Detect(s) = Registered[c]
    BY <1>5 DEF Detect
  <2>2. \A i \in E, j \in E :
          Ranks(T, S, i, j) <=>
            \/ Specificity(Registered[i]) > Specificity(Registered[j])
            \/ /\ Specificity(Registered[i]) = Specificity(Registered[j])
               /\ Score(Registered[i], s) > Score(Registered[j], s)
            \/ /\ Specificity(Registered[i]) = Specificity(Registered[j])
               /\ Score(Registered[i], s) = Score(Registered[j], s)
               /\ i < j
    <3> HIDE DEF E
    <3> QED BY <1>4 DEF Ranks
  <2> HIDE DEF E, T, S
  <2>3. c \in E /\ Best(c)
    BY <1>6, <2>2
  <2> QED BY <2>1, <2>3
<1>8. ASSUME NEW j \in E
      PROVE  \/ Specificity(Registered[i]) > Specificity(Registered[j])
             \/ /\ Specificity(Registered[i]) = Specificity(Registered[j])
                /\ Score(Registered[i], s) >= Score(Registered[j], s)
  <2>0. i \in 1 .. n /\ j \in 1 .. n
    BY <1>4
  <2>1. CASE j = i
    <3>1. Specificity(Registered[i]) \in Nat /\ Score(Registered[i], s) \in Nat
      <4> HIDE DEF E, n
      <4> QED BY <1>2, <1>3, <2>0
    <3> QED BY <2>1, <3>1
  <2>2. CASE j # i
    <3>1. Ranks(T, S, i, j)
      BY <1>7, <2>2
    <3>2. T[i] = Specificity(Registered[i]) /\ T[j] = Specificity(Registered[j])
          /\ S[i] = Score(Registered[i], s) /\ S[j] = Score(Registered[j], s)
      BY <2>0
    <3>3. S[i] \in Nat /\ S[j] \in Nat
      BY <1>3, <2>0
    <3> HIDE DEF T, S, E, n
    <3> QED BY <3>1, <3>2, <3>3 DEF Ranks
  <2> QED BY <2>1, <2>2
<1>9. i \in DOMAIN Registered /\ Registered[i] \in Readers
  BY <1>1, <1>4
<1> QED BY <1>7, <1>8, <1>9

-----------------------------------------------------------------------------
(* Bootstrapping.                                                           *)

\* What a schema that is about to be adopted for a file has been through.
IsProposal(p, file) ==
  /\ p.route \in {"known", "structural", "model", "sub-shape"}
  /\ p.schema.shape # None
  /\ p.route # "sub-shape" => Passes(p.schema, Holdout(file))
  /\ p.route = "known" => \A s \in Inspected(file) : Fields(p.schema) >= Fields(s)

LEMMA FieldsAreNumbers == ASSUME NEW schema PROVE Fields(schema) \in Nat
<1> DEFINE a == IF schema.level THEN 1 ELSE 0
           b == IF schema.source THEN 1 ELSE 0
<1>1. a \in {0, 1} /\ b \in {0, 1}
  OBVIOUS
<1>2. Fields(schema) = a + b
  BY DEF Fields
<1> HIDE DEF a, b
<1> QED BY <1>1, <1>2

\* What lines give leads with a shape one of them has.
LEMMA StructuralFacts ==
  ASSUME NEW lines, Lines(lines), NEW s \in Structural(lines)
  PROVE  s.shape \in Found(lines) /\ s.shape # None
<1>1. s \in Candidates(lines)
  BY DEF Structural
<1>2. s.shape \in Found(lines)
  <2> DEFINE level == 2 * HowMany(lines, LAMBDA l : l.level) >= Len(lines)
             named == Reaches(HowMany(lines, LAMBDA l : l.source # Unknown), Len(lines),
                              SourceShare)
             places == IF named THEN {"after", "before", "none"} ELSE {"none"}
  <2>1. Candidates(lines) =
          {[shape |-> x, level |-> level, source |-> f \in {"after", "before"},
            first |-> f = "before"] : x \in Found(lines), f \in places}
    BY SMT DEF Candidates, HowMany
  <2> HIDE DEF level, named, places
  <2> QED BY <1>1, <2>1
<1>3. None \notin Found(lines)
  BY DEF Found, Lines, IsLine
<1> QED BY <1>2, <1>3

\* The cache and the lines themselves: scored on what was held out, and a cached schema
\* explains as much as any the lines give.
LEMMA FreeFacts ==
  ASSUME NEW file, IsFile(file), NEW cached, \A s \in cached : s.shape # None,
         NEW p \in Free(cached, file)
  PROVE  IsProposal(p, file)
<1> DEFINE known == Known(cached, file)
           own == Inspected(file)
           best == BestOf(known \cup own, file)
<1>1. \A s \in known : s.shape # None /\ Passes(s, Holdout(file))
  BY DEF Known, BestOf
<1>2. \A s \in own : s.shape # None /\ Passes(s, Holdout(file))
  BY SampleLines, StructuralFacts DEF Inspected
<1>3. best \subseteq known \cup own
  BY DEF BestOf
<1>4. ASSUME NEW s \in best, NEW t \in own PROVE Fields(s) >= Fields(t)
  <2>1. ~(Fields(t) > Fields(s))
    BY <1>4 DEF BestOf
  <2> QED BY <2>1, FieldsAreNumbers
<1>5. p \in (IF best \cap known # {} THEN Proposals("known", best \cap known)
             ELSE Proposals("structural", best))
  BY DEF Free
<1> HIDE DEF known, own, best
<1>6. CASE best \cap known # {}
  <2>1. p \in Proposals("known", best \cap known)
    BY <1>5, <1>6
  <2>2. PICK s \in best \cap known : p = [route |-> "known", schema |-> s]
    BY <2>1 DEF Proposals
  <2>3. p.route = "known" /\ p.schema = s
    BY <2>2
  <2>4. \A t \in Inspected(file) : Fields(s) >= Fields(t)
    BY <1>4 DEF own
  <2> QED BY <2>3, <2>4, <1>1 DEF IsProposal
<1>7. CASE best \cap known = {}
  <2>1. p \in Proposals("structural", best)
    BY <1>5, <1>7
  <2>2. PICK s \in best : p = [route |-> "structural", schema |-> s]
    BY <2>1 DEF Proposals
  <2>3. p.route = "structural" /\ p.schema = s
    BY <2>2
  <2> QED BY <2>3, <1>2, <1>3, <1>7 DEF IsProposal
<1> QED BY <1>6, <1>7

LEMMA ModelFacts ==
  ASSUME NEW file, IsFile(file), NEW s \in Inferable(file), Passes(s, Holdout(file))
  PROVE  IsProposal([route |-> "model", schema |-> s], file)
<1>1. s.shape \in Found(Sample(file)) /\ Lines(Sample(file))
  BY SampleLines DEF Inferable
<1>2. s.shape # None
  BY <1>1 DEF Found, Lines, IsLine
<1> QED BY <1>2 DEF IsProposal

\* A sub-shape's schema comes from lines of its own.
LEMMA SubshapeFacts ==
  ASSUME NEW file, IsFile(file), NEW s \in Subshape(file)
  PROVE  IsProposal([route |-> "sub-shape", schema |-> s], file)
<1> DEFINE lines == Sample(file)
           Own(g) == Picked(lines, {i \in DOMAIN lines : g.shape \in DOMAIN lines[i].shapes})
<1>1. \E g : s \in Structural(Own(g))
  BY DEF Subshape
<1>2. PICK g : s \in Structural(Own(g))
  BY <1>1
<1> DEFINE K == {i \in DOMAIN lines : g.shape \in DOMAIN lines[i].shapes}
           own == Picked(lines, K)
<1>3. Lines(lines) /\ IsSeq(lines)
  BY SampleLines DEF Lines
<1>4. IsSeq(own) /\ \A j \in DOMAIN own : \E i \in K \cap DOMAIN lines : own[j] = lines[i]
  <2> HIDE DEF K, lines
  <2>1. /\ IsSeq(Picked(lines, K))
        /\ Len(Picked(lines, K)) = Cardinality(K \cap DOMAIN lines)
        /\ \A j \in DOMAIN Picked(lines, K) :
             \E i \in K \cap DOMAIN lines : Picked(lines, K)[j] = lines[i]
    BY ONLY <1>3, PickedFacts
  <2> QED BY <2>1
<1>5. Lines(own)
  <2> HIDE DEF own, K, lines
  <2> QED BY <1>3, <1>4 DEF Lines
<1>6. s.shape # None
  <2>1. s \in Structural(own)
    BY <1>2
  <2> HIDE DEF own
  <2> QED BY <1>5, <2>1, StructuralFacts
<1> QED BY <1>6 DEF IsProposal

-----------------------------------------------------------------------------
(* Choosing readers.                                                        *)

\* A file with its reader, as the file and the settings justify it.
IsMember(m) ==
  /\ m.file \in DOMAIN source.files
  /\ m.format \in Readers \cup {"inferred"}
  /\ m.route \in {"named", "detected", "raw", "known", "structural", "model", "sub-shape"}
  /\ m.route = "named" <=> config.format # "auto"
  /\ m.route = "detected" =>
       /\ m.format # None
       /\ m.format = Detect(First(source.files[m.file].lines, SampleSize))
  /\ m.route \notin {"named", "detected"} =>
       Detect(First(source.files[m.file].lines, SampleSize)) = None
  /\ m.route = "raw" => m.format = "raw_lines"
  /\ m.route \notin {"named", "detected", "raw"} =>
       /\ m.format = "inferred"
       /\ IsProposal([route |-> m.route, schema |-> m.schema], source.files[m.file])

\* Whatever loads from the cache leads with a timestamp.
CacheLoads == \A name \in DOMAIN cache : cache[name] # Torn => cache[name].shape # None

SelectInv ==
  /\ source \in Inputs /\ config \in Configs
  /\ pc \in {"idle", "select", "ask", "adopt", "read"}
  /\ at \in Nat \ {0} /\ skipped \in Nat
  /\ IsSeq(members) /\ \A i \in DOMAIN members : IsMember(members[i])
  /\ CacheLoads
  /\ pc \in {"ask", "adopt"} =>
       at <= Len(source.files) /\ config.format = "auto" /\ Detected = None
  /\ pc = "adopt" => IsProposal(proposal, File)

LEMMA SourceFacts ==
  ASSUME NEW s \in Inputs
  PROVE  /\ IsSeq(s.files) /\ Len(s.files) \in Nat /\ DOMAIN s.files = 1 .. Len(s.files)
         /\ \A i \in DOMAIN s.files : IsFile(s.files[i])
<1>1. IsList(s.files) /\ \A i \in DOMAIN s.files : IsFile(s.files[i])
  BY SourcesAssumption
<1> QED BY <1>1, ListIsSeq, SeqFacts

\* The file being chosen for is one of the source's.
LEMMA FileIsOurs ==
  ASSUME SelectInv, at <= Len(source.files)
  PROVE  at \in DOMAIN source.files /\ IsFile(File)
<1>1. /\ Len(source.files) \in Nat /\ DOMAIN source.files = 1 .. Len(source.files)
      /\ \A i \in DOMAIN source.files : IsFile(source.files[i])
  BY SourceFacts DEF SelectInv
<1>2. at \in DOMAIN source.files
  BY <1>1 DEF SelectInv
<1> QED BY <1>1, <1>2 DEF File

\* Steps that choose no reader and propose no schema.
LEMMA SelectionKept ==
  ASSUME SelectInv, source' = source, config' = config, members' = members, CacheLoads',
         at' \in Nat \ {0}, skipped' \in Nat, pc' \in {"idle", "select", "read"}
  PROVE  SelectInv'
<1>1. \A m : IsMember(m) <=> IsMember(m)'
  BY DEF IsMember
<1> QED BY <1>1 DEF SelectInv

LEMMA ChosenKeeps ==
  ASSUME SelectInv, at <= Len(source.files), CacheLoads', NEW format, NEW schema, NEW route,
         Chosen(format, schema, route),
         IsMember([file |-> at, format |-> format, schema |-> schema, route |-> route])
  PROVE  SelectInv'
<1> DEFINE m == [file |-> at, format |-> format, schema |-> schema, route |-> route]
<1>1. /\ members' = Append(members, m) /\ at' = at + 1 /\ pc' = "select"
      /\ source' = source /\ config' = config /\ skipped' = skipped
  BY DEF Chosen
<1>2. \A x : IsMember(x) <=> IsMember(x)'
  BY <1>1 DEF IsMember
<1>3. IsMember(m) /\ IsSeq(members) /\ \A i \in DOMAIN members : IsMember(members[i])
  BY DEF SelectInv
<1> HIDE DEF m
<1>4. /\ IsSeq(members') /\ DOMAIN members = 1 .. Len(members) /\ Len(members) \in Nat
      /\ DOMAIN members' = 1 .. Len(members) + 1
      /\ \A i \in DOMAIN members : members'[i] = members[i]
      /\ members'[Len(members) + 1] = m
  BY <1>1, <1>3, AppendFacts
<1>5. (\A i \in DOMAIN members : IsMember(members[i]))'
  <2> SUFFICES ASSUME NEW i \in DOMAIN members' PROVE IsMember(members[i])'
    OBVIOUS
  <2> SUFFICES IsMember(members'[i])
    BY <1>1 DEF IsMember
  <2>1. i \in DOMAIN members \/ i = Len(members) + 1
    BY <1>4
  <2> QED BY <2>1, <1>3, <1>4
<1>6. at' \in Nat \ {0}
  BY <1>1 DEF SelectInv
<1> QED BY <1>1, <1>4, <1>5, <1>6 DEF SelectInv

\* What holds wherever a file no reader recognised is being bootstrapped.
Unrecognised ==
  at <= Len(source.files) /\ config.format = "auto" /\ Detected = None

LEMMA ProposedKeeps ==
  ASSUME SelectInv, Unrecognised, NEW p, Proposed(p), IsProposal(p, File)
  PROVE  SelectInv'
<1>1. /\ proposal' = p /\ pc' = "adopt" /\ at' = at /\ members' = members
      /\ skipped' = skipped /\ source' = source /\ config' = config /\ cache' = cache
  BY DEF Proposed, selection
<1>2. \A x : IsMember(x) <=> IsMember(x)'
  BY <1>1 DEF IsMember
<1>3. File' = File /\ Detected' = Detected
  BY <1>1 DEF File, Detected
<1>4. IsProposal(proposal, File)'
  BY <1>1, <1>3 DEF IsProposal
<1>5. CacheLoads'
  BY <1>1 DEF SelectInv, CacheLoads
<1> QED BY <1>1, <1>2, <1>3, <1>4, <1>5 DEF SelectInv, Unrecognised

LEMMA FailsKeeps == ASSUME SelectInv, Fails PROVE SelectInv'
<1>1. /\ pc' = "idle" /\ at' = at /\ members' = members
      /\ skipped' = skipped /\ source' = source /\ config' = config /\ cache' = cache
  BY DEF Fails, selection
<1>2. CacheLoads'
  BY <1>1 DEF SelectInv, CacheLoads
<1> QED BY <1>1, <1>2, SelectionKept DEF SelectInv

LEMMA GiveUpKeeps == ASSUME SelectInv, Unrecognised, GiveUp PROVE SelectInv'
<1>1. CASE Fails
  BY <1>1, FailsKeeps
<1>2. CASE Chosen("raw_lines", NoSchema, "raw") /\ UNCHANGED cache
  <2>1. CacheLoads'
    BY <1>2 DEF SelectInv, CacheLoads
  <2>2. IsMember([file |-> at, format |-> "raw_lines", schema |-> NoSchema, route |-> "raw"])
    BY FileIsOurs DEF IsMember, Unrecognised, Detected, File, Readers
  <2> QED BY <1>2, <2>1, <2>2, ChosenKeeps DEF Unrecognised
<1> QED BY <1>1, <1>2 DEF GiveUp

LEMMA SubshapesKeep == ASSUME SelectInv, Unrecognised, TrySubshapes PROVE SelectInv'
<1>1. CASE GiveUp
  BY <1>1, GiveUpKeeps
<1>2. CASE \E s \in Subshape(File) : Proposed([route |-> "sub-shape", schema |-> s])
  <2>1. PICK s \in Subshape(File) : Proposed([route |-> "sub-shape", schema |-> s])
    BY <1>2
  <2>2. IsFile(File)
    BY FileIsOurs DEF Unrecognised
  <2>3. IsProposal([route |-> "sub-shape", schema |-> s], File)
    BY <2>2, SubshapeFacts
  <2> QED BY <2>1, <2>3, ProposedKeeps
<1> QED BY <1>1, <1>2 DEF TrySubshapes

LEMMA AdoptKeeps == ASSUME SelectInv, Adopt PROVE SelectInv'
<1>1. /\ Unrecognised /\ IsProposal(proposal, File)
  BY DEF Adopt, SelectInv, Unrecognised
<1>2. Chosen("inferred", proposal.schema, proposal.route)
  BY DEF Adopt
<1>3. CacheLoads'
  <2>1. \/ cache' = cache
        \/ cache' = Stored(proposal.schema)
    BY DEF Adopt
  <2>2. CASE cache' = cache
    BY <2>2 DEF SelectInv, CacheLoads
  <2>3. CASE cache' = Stored(proposal.schema)
    <3>1. /\ DOMAIN cache' = {Slug(proposal.schema)} \cup DOMAIN cache
          /\ \A name \in DOMAIN cache' :
               cache'[name] = IF name = Slug(proposal.schema) THEN proposal.schema ELSE cache[name]
      BY <2>3 DEF Stored
    <3>2. proposal.schema.shape # None
      BY <1>1 DEF IsProposal
    <3> QED BY <3>1, <3>2 DEF SelectInv, CacheLoads
  <2> QED BY <2>1, <2>2, <2>3
<1>4. IsProposal([route |-> proposal.route, schema |-> proposal.schema], File)
  BY <1>1 DEF IsProposal
<1>5. IsMember([file |-> at, format |-> "inferred", schema |-> proposal.schema,
                route |-> proposal.route])
  <2>1. proposal.route \in {"known", "structural", "model", "sub-shape"}
    BY <1>1 DEF IsProposal
  <2> QED BY <1>1, <1>4, <2>1, FileIsOurs DEF IsMember, Unrecognised, Detected, File
<1> QED BY <1>1, <1>2, <1>3, <1>5, ChosenKeeps DEF Unrecognised

LEMMA DiesKeeps == ASSUME SelectInv, Dies PROVE SelectInv'
<1>1. /\ pc' = "idle" /\ at' = at /\ members' = members
      /\ skipped' = skipped /\ source' = source /\ config' = config
      /\ (cache' = cache \/ cache' = Stored(Torn))
  BY DEF Dies, selection
<1>2. CacheLoads'
  <2>1. CASE cache' = cache
    BY <2>1 DEF SelectInv, CacheLoads
  <2>2. CASE cache' = Stored(Torn)
    <3>1. /\ DOMAIN cache' = {Slug(proposal.schema)} \cup DOMAIN cache
          /\ \A name \in DOMAIN cache' :
               cache'[name] = IF name = Slug(proposal.schema) THEN Torn ELSE cache[name]
      BY <2>2 DEF Stored
    <3> QED BY <3>1 DEF SelectInv, CacheLoads
  <2> QED BY <1>1, <2>1, <2>2
<1> QED BY <1>1, <1>2, SelectionKept DEF SelectInv

LEMMA SelectInit == Init => SelectInv
<1> SUFFICES ASSUME Init PROVE SelectInv
  OBVIOUS
<1>1. config \in Configs
  BY SourcesAssumption DEF Init
<1>2. IsSeq(members) /\ DOMAIN members = {} /\ DOMAIN cache = {}
  BY EmptyIsSeq DEF Init
<1> QED BY <1>1, <1>2 DEF Init, SelectInv, CacheLoads

LEMMA SelectNext == SelectInv /\ [Next]_vars => SelectInv'
<1> SUFFICES ASSUME SelectInv, [Next]_vars PROVE SelectInv'
  OBVIOUS
<1>1. cache' = cache => CacheLoads'
  BY DEF SelectInv, CacheLoads
<1>2. CASE Begin
  <2>1. /\ source' = source /\ cache' = cache /\ config' \in Configs /\ pc' = "select"
        /\ at' = 1 /\ members' = <<>> /\ skipped' = 0
    BY <1>2 DEF Begin
  <2>2. IsSeq(members') /\ DOMAIN members' = {}
    BY <2>1, EmptyIsSeq
  <2> QED BY <1>1, <2>1, <2>2 DEF SelectInv
<1>3. CASE TakeNamed
  <2>1. /\ at <= Len(source.files) /\ config.format # "auto" /\ cache' = cache
        /\ Chosen(config.format, NoSchema, "named")
    BY <1>3 DEF TakeNamed, Choosing
  <2>2. config.format \in Readers
    BY <2>1, SourcesAssumption DEF SelectInv
  <2>3. IsMember([file |-> at, format |-> config.format, schema |-> NoSchema,
                  route |-> "named"])
    BY <2>1, <2>2, FileIsOurs DEF IsMember
  <2> QED BY <1>1, <2>1, <2>3, ChosenKeeps
<1>4. CASE SkipBinary
  <2>1. CASE source.directory
    <3>1. /\ source' = source /\ cache' = cache /\ config' = config /\ pc' = pc
          /\ pc = "select" /\ at' = at + 1 /\ members' = members /\ skipped' = skipped + 1
      BY <1>4, <2>1 DEF SkipBinary, Choosing
    <3>2. at' \in Nat \ {0} /\ skipped' \in Nat
      BY <3>1 DEF SelectInv
    <3> QED BY <1>1, <3>1, <3>2, SelectionKept
  <2>2. CASE ~source.directory
    BY <1>4, <2>2, FailsKeeps DEF SkipBinary
  <2> QED BY <2>1, <2>2
<1>5. CASE TakeDetected
  <2>1. /\ at <= Len(source.files) /\ config.format = "auto" /\ cache' = cache
        /\ Detected # None /\ Chosen(Detected, NoSchema, "detected") /\ File.text
    BY <1>5 DEF TakeDetected, Choosing
  <2>2. Lines(First(File.lines, SampleSize))
    BY <2>1, FileIsOurs, SampleLines DEF Sample
  <2>3. Detected \in Readers
    BY <2>1, <2>2, SomeIsEligible, DetectFacts DEF Detected
  <2>4. IsMember([file |-> at, format |-> Detected, schema |-> NoSchema,
                  route |-> "detected"])
    BY <2>1, <2>3, FileIsOurs DEF IsMember, Detected, File
  <2> QED BY <1>1, <2>1, <2>4, ChosenKeeps
<1>6. CASE BootstrapOff
  BY <1>6, GiveUpKeeps DEF BootstrapOff, Undetected, Choosing, Unrecognised
<1>7. CASE BootstrapFree
  <2>1. Unrecognised /\ \E p \in Free(Cached, File) : Proposed(p)
    BY <1>7 DEF BootstrapFree, Undetected, Choosing, Unrecognised
  <2>2. PICK p \in Free(Cached, File) : Proposed(p)
    BY <2>1
  <2>3. \A s \in Cached : s.shape # None
    BY DEF Cached, SelectInv, CacheLoads
  <2>4. IsFile(File)
    BY <2>1, FileIsOurs DEF Unrecognised
  <2>5. IsProposal(p, File)
    BY <2>3, <2>4, FreeFacts
  <2> QED BY <2>1, <2>2, <2>5, ProposedKeeps
<1>8. CASE NoModel
  BY <1>8, SubshapesKeep DEF NoModel, NothingFree, Undetected, Choosing, Unrecognised
<1>9. CASE AskModel
  <2>1. /\ source' = source /\ cache' = cache /\ config' = config /\ pc' = "ask"
        /\ at' = at /\ members' = members /\ skipped' = skipped
    BY <1>9 DEF AskModel, selection
  <2>2. Unrecognised
    BY <1>9 DEF AskModel, NothingFree, Undetected, Choosing, Unrecognised
  <2>3. \A m : IsMember(m) <=> IsMember(m)'
    BY <2>1 DEF IsMember
  <2>4. Unrecognised'
    BY <2>1, <2>2 DEF Unrecognised, Detected, File
  <2> QED BY <1>1, <2>1, <2>3, <2>4 DEF SelectInv, Unrecognised
<1>10. CASE ModelAnswers
  <2>1. Unrecognised /\ IsFile(File)
    BY <1>10, FileIsOurs DEF ModelAnswers, SelectInv, Unrecognised
  <2>2. CASE TrySubshapes
    BY <2>1, <2>2, SubshapesKeep
  <2>3. CASE \E s \in Inferable(File) : /\ Passes(s, Holdout(File))
                                        /\ Proposed([route |-> "model", schema |-> s])
    <3>1. PICK s \in Inferable(File) : /\ Passes(s, Holdout(File))
                                       /\ Proposed([route |-> "model", schema |-> s])
      BY <2>3
    <3>2. IsProposal([route |-> "model", schema |-> s], File)
      BY <2>1, <3>1, ModelFacts
    <3> QED BY <2>1, <3>1, <3>2, ProposedKeeps
  <2> QED BY <1>10, <2>2, <2>3 DEF ModelAnswers
<1>11. CASE ModelBusy
  <2>1. /\ source' = source /\ cache' = cache /\ config' = config /\ pc' = pc /\ pc = "ask"
        /\ at' = at /\ members' = members /\ skipped' = skipped
    BY <1>11 DEF ModelBusy, selection
  <2>2. \A m : IsMember(m) <=> IsMember(m)'
    BY <2>1 DEF IsMember
  <2>3. Unrecognised'
    BY <2>1 DEF SelectInv, Unrecognised, Detected, File
  <2> QED BY <1>1, <2>1, <2>2, <2>3 DEF SelectInv, Unrecognised
<1>12. CASE ModelFails
  BY <1>12, FailsKeeps DEF ModelFails
<1>13. CASE Adopt
  BY <1>13, AdoptKeeps
<1>14. CASE NothingToRead
  BY <1>14, FailsKeeps DEF NothingToRead
<1>15. CASE AllChosen
  <2>1. /\ source' = source /\ cache' = cache /\ config' = config /\ pc' = "read"
        /\ at' = 1 /\ members' = members /\ skipped' = skipped
    BY <1>15 DEF AllChosen
  <2> QED BY <1>1, <2>1, SelectionKept DEF SelectInv
<1>16. CASE ReadMember
  <2>1. /\ source' = source /\ cache' = cache /\ config' = config /\ pc' = pc /\ pc = "read"
        /\ at' = at + 1 /\ members' = members /\ skipped' = skipped
    BY <1>16, Zenon DEF ReadMember
  <2>2. at' \in Nat \ {0} /\ skipped \in Nat
    BY <2>1 DEF SelectInv
  <2> QED BY <1>1, <2>1, <2>2, SelectionKept
<1>17. CASE MemberIsBinary
  <2>1. CASE source.directory
    <3>1. /\ source' = source /\ cache' = cache /\ config' = config /\ pc' = pc /\ pc = "read"
          /\ at' = at + 1 /\ members' = members /\ skipped' = skipped
      BY <1>17, <2>1 DEF MemberIsBinary
    <3>2. at' \in Nat \ {0} /\ skipped \in Nat
      BY <3>1 DEF SelectInv
    <3> QED BY <1>1, <3>1, <3>2, SelectionKept
  <2>2. CASE ~source.directory
    BY <1>17, <2>2, FailsKeeps DEF MemberIsBinary
  <2> QED BY <2>1, <2>2
<1>18. CASE ReadEnds
  <2>1. /\ source' = source /\ cache' = cache /\ config' = config /\ pc' = "idle"
        /\ at' = at /\ members' = members /\ skipped' = skipped
    BY <1>18 DEF ReadEnds, selection
  <2> QED BY <1>1, <2>1, SelectionKept DEF SelectInv
<1>19. CASE Dies
  BY <1>19, DiesKeeps
<1>22. CASE MemberRaises
  BY <1>22, FailsKeeps DEF MemberRaises
<1>20. CASE UNCHANGED vars
  <2>1. /\ source' = source /\ cache' = cache /\ config' = config /\ pc' = pc
        /\ at' = at /\ members' = members /\ skipped' = skipped /\ proposal' = proposal
    BY <1>20 DEF vars
  <2>2. \A m : IsMember(m) <=> IsMember(m)'
    BY <2>1 DEF IsMember
  <2>3. Detected' = Detected /\ File' = File
    BY <2>1 DEF Detected, File
  <2>4. IsProposal(proposal, File) <=> IsProposal(proposal, File)'
    BY <2>1, <2>3 DEF IsProposal
  <2> QED BY <1>1, <2>1, <2>2, <2>3, <2>4 DEF SelectInv
<1>21. CASE Settled
  BY <1>20, <1>21 DEF Settled
<1> QED
  BY <1>2, <1>3, <1>4, <1>5, <1>6, <1>7, <1>8, <1>9, <1>10, <1>11, <1>12, <1>13, <1>14, <1>15,
     <1>16, <1>17, <1>18, <1>19, <1>20, <1>21, <1>22 DEF Next, Step

LEMMA Selected == Spec => []SelectInv
<1>1. Init => SelectInv
  BY SelectInit
<1>2. SelectInv /\ [Next]_vars => SelectInv'
  BY SelectNext
<1> QED BY <1>1, <1>2, PTL DEF Spec

-----------------------------------------------------------------------------
(* Reading.                                                                 *)

\* Every line of the member's file is a record of its own.
LineByLine(m) ==
  LET file == source.files[m.file]
  IN  /\ file.text /\ ~IsDocument(m.format, file)
      /\ \A j \in DOMAIN file.lines :
           Len(file.lines[j].entries) = 1 /\ file.lines[j].entries[1] # Stray

\* The lines of the members' files, and of the first n of them together.
MemberLines == [i \in DOMAIN members |-> Len(source.files[members[i].file].lines)]

LinesBefore == Running(MemberLines, Len(members))

\* What the counters say while the members are being read: no event that lacks a time of its
\* own went uncounted, and no line of those read so far is missing.
Counted ==
  /\ at <= Len(members) + 1 /\ IsSeq(events)
  /\ {"lines", "errors", "untimed"} \subseteq DOMAIN stats
  /\ stats.lines \in Nat /\ stats.errors \in Nat /\ stats.untimed \in Nat
  /\ IsFiniteSet(Unowned(events)) /\ Cardinality(Unowned(events)) <= stats.untimed
  /\ "raw_lines" \notin Formats => Unowned(events) = {}
  /\ (\A i \in DOMAIN members : LineByLine(members[i])) =>
       /\ stats.lines = LinesBefore[at - 1]
       /\ Len(events) + stats.errors = LinesBefore[at - 1] + Min({skipped, MaxSkipSamples})

\* What an ingest recorded says of the members and the events it came from.
Told ==
  /\ IsSeq(events) /\ metrics.unparseable_timestamp \in Nat
  /\ {"events_loaded", "fallback", "unparseable_timestamp"} \subseteq DOMAIN metrics
  /\ metrics.events_loaded = Len(events)
  /\ Cardinality(Unowned(events)) <= metrics.unparseable_timestamp
  /\ metrics.fallback = (IF FellBack THEN 1 ELSE 0)
  /\ "raw_lines" \notin Formats => Unowned(events) = {}
  /\ (\A i \in DOMAIN members : LineByLine(members[i])) =>
       /\ metrics.lines_read = LinesBefore[Len(members)]
       /\ metrics.events_loaded + metrics.parse_errors
            = LinesBefore[Len(members)] + Min({skipped, MaxSkipSamples})

ReadInv ==
  /\ pc \in {"select", "ask", "adopt"} =>
       metrics = None /\ stats = NoStats /\ events = <<>>
  /\ pc = "read" => metrics = None /\ Counted
  /\ metrics # None => pc = "idle" /\ Told

\* Two rows of events, one after the other.
LEMMA UnownedJoins ==
  ASSUME NEW a, IsSeq(a), NEW b, IsSeq(b)
  PROVE  /\ Cardinality(Unowned(a)) \in Nat /\ Cardinality(Unowned(b)) \in Nat
         /\ IsFiniteSet(Unowned(a \o b)) /\ Cardinality(Unowned(a \o b)) \in Nat
         /\ Cardinality(Unowned(a \o b)) <= Cardinality(Unowned(a)) + Cardinality(Unowned(b))
         /\ Unowned(a) = {} /\ Unowned(b) = {} => Unowned(a \o b) = {}
<1> DEFINE c == a \o b
           n == Len(a)
           A == Unowned(a)
           B == Unowned(b)
           Later == {n + j : j \in B}
<1>1. /\ IsSeq(c) /\ n \in Nat /\ Len(b) \in Nat /\ Len(c) = n + Len(b)
      /\ \A i \in 1 .. n : c[i] = a[i]
      /\ \A i \in 1 .. Len(b) : c[n + i] = b[i]
  <2>1. IsSeq(a) /\ IsSeq(b)
    OBVIOUS
  <2>2. IsJoin(a \o b, a, b)
    BY ONLY <2>1, ConcatIsJoin
  <2> QED BY ONLY <2>2 DEF IsJoin
<1>2. DOMAIN a = 1 .. n /\ DOMAIN b = 1 .. Len(b) /\ DOMAIN c = 1 .. Len(c)
  <2> HIDE DEF c
  <2> QED BY <1>1, SeqFacts
<1>3. IsFiniteSet(A) /\ Cardinality(A) \in Nat /\ IsFiniteSet(B) /\ Cardinality(B) \in Nat
  <2>1. A \in SUBSET DOMAIN a /\ B \in SUBSET DOMAIN b
    BY DEF Unowned
  <2> QED BY <2>1, CountFacts
<1>4. IsFiniteSet(Later) /\ Cardinality(Later) \in Nat /\ Cardinality(Later) <= Cardinality(B)
  <2> DEFINE f == [j \in B |-> n + j]
  <2> HIDE DEF A, B, n
  <2>1. f \in Surjection(B, Later)
    BY DEF Surjection
  <2> HIDE DEF f, Later
  <2>2. IsFiniteSet(Later) /\ Cardinality(Later) <= Cardinality(B)
    BY <1>3, <2>1, FS_Surjection
  <2> QED BY <2>2, FS_CardinalityType
<1>5. Unowned(c) = A \cup Later
  <2> HIDE DEF c, n
  <2>1. ASSUME NEW i \in DOMAIN c PROVE ~c[i].own <=> i \in A \cup Later
    <3>1. CASE i <= n
      <4>1. i \in 1 .. n
        BY <1>1, <1>2, <3>1
      <4>2. i \notin Later
        BY <1>1, <1>2, <3>1 DEF Unowned
      <4> QED BY <1>1, <1>2, <4>1, <4>2 DEF Unowned
    <3>2. CASE ~(i <= n)
      <4>1. i - n \in 1 .. Len(b) /\ n + (i - n) = i /\ i \notin A
        BY <1>1, <1>2, <3>2 DEF Unowned
      <4>2. c[i] = b[i - n]
        BY <1>1, <4>1
      <4>3. i \in Later <=> i - n \in B
        <5>1. \A j \in B : j \in Nat
          BY <1>2 DEF Unowned
        <5>2. \A j \in B : n + j = i => j = i - n
          BY <1>1, <1>2, <5>1
        <5> QED BY <4>1, <5>2
      <4> QED BY <1>2, <4>1, <4>2, <4>3 DEF Unowned
    <3> QED BY <3>1, <3>2
  <2>2. A \cup Later \subseteq DOMAIN c
    BY <1>1, <1>2 DEF Unowned
  <2> HIDE DEF A, Later
  <2>3. Unowned(c) = {i \in DOMAIN c : ~c[i].own}
    BY DEF Unowned
  <2> QED BY <2>1, <2>2, <2>3
<1>6. /\ IsFiniteSet(A \cup Later) /\ Cardinality(A \cup Later) \in Nat
      /\ Cardinality(A \cup Later) <= Cardinality(A) + Cardinality(Later)
  <2> HIDE DEF A, Later
  <2>1. /\ IsFiniteSet(A \cup Later)
        /\ Cardinality(A \cup Later) = Cardinality(A) + Cardinality(Later)
                                         - Cardinality(A \cap Later)
    BY <1>3, <1>4, FS_Union
  <2>2. Cardinality(A \cap Later) \in Nat
    BY <1>3, FS_Intersection, FS_CardinalityType
  <2>3. Cardinality(A \cup Later) \in Nat
    BY <2>1, FS_CardinalityType
  <2> QED BY <1>3, <1>4, <2>1, <2>2, <2>3
<1>7. A = {} /\ B = {} => A \cup Later = {}
  OBVIOUS
<1> HIDE DEF A, B, Later, c
<1>8. Cardinality(A \cup Later) <= Cardinality(A) + Cardinality(B)
  BY <1>3, <1>4, <1>6
<1> QED BY <1>3, <1>5, <1>6, <1>7, <1>8 DEF A, B, c

\* No ingest is over, and none is being read: nothing is recorded or counted yet.
LEMMA NotReading ==
  ASSUME ReadInv, pc \in {"select", "ask", "adopt"}, UNCHANGED reading, pc' # "read"
  PROVE  ReadInv'
<1>1. metrics = None /\ stats = NoStats /\ events = <<>>
  BY DEF ReadInv
<1>2. metrics' = None /\ stats' = NoStats /\ events' = <<>>
  BY <1>1 DEF reading
<1> QED BY <1>2 DEF ReadInv, NoStats

LEMMA LeavesReading ==
  ASSUME ReadInv, pc # "idle", UNCHANGED reading, pc' = "idle"
  PROVE  ReadInv'
<1>1. metrics = None
  BY DEF ReadInv
<1>2. metrics' = None
  BY <1>1 DEF reading
<1> QED BY <1>2 DEF ReadInv

LEMMA MemberLinesFacts ==
  ASSUME SelectInv
  PROVE  /\ Len(members) \in Nat /\ DOMAIN members = 1 .. Len(members)
         /\ \A i \in 1 .. Len(members) :
              /\ IsMember(members[i]) /\ IsFile(source.files[members[i].file])
              /\ MemberLines[i] = Len(source.files[members[i].file].lines)
              /\ MemberLines[i] \in Nat
         /\ LinesBefore[0] = 0
         /\ \A n \in 1 .. Len(members) : LinesBefore[n] = LinesBefore[n - 1] + MemberLines[n]
         /\ \A n \in 0 .. Len(members) : LinesBefore[n] \in Nat
<1>1. IsSeq(members) /\ \A i \in DOMAIN members : IsMember(members[i])
  BY DEF SelectInv
<1>2. Len(members) \in Nat /\ DOMAIN members = 1 .. Len(members)
  BY <1>1, SeqFacts
<1>3. \A i \in DOMAIN members : IsFile(source.files[members[i].file])
  BY <1>1, SourceFacts DEF SelectInv, IsMember
<1>4. \A i \in DOMAIN members : Len(source.files[members[i].file].lines) \in Nat
  BY <1>3, FileFacts
<1>5. \A i \in 1 .. Len(members) : /\ MemberLines[i] = Len(source.files[members[i].file].lines)
                                   /\ MemberLines[i] \in Nat
  BY <1>2, <1>4 DEF MemberLines
<1>6. /\ LinesBefore[0] = 0
      /\ \A n \in 1 .. Len(members) : LinesBefore[n] = LinesBefore[n - 1] + MemberLines[n]
      /\ \A n \in 0 .. Len(members) : LinesBefore[n] \in Nat
  BY <1>2, <1>5, RunningFacts DEF LinesBefore
<1> QED BY <1>1, <1>2, <1>3, <1>5, <1>6

LEMMA SkippedIsNumber ==
  ASSUME NEW n \in Nat
  PROVE  /\ Min({n, MaxSkipSamples}) \in Nat
         /\ Min({n, MaxSkipSamples}) = IF n < MaxSkipSamples THEN n ELSE MaxSkipSamples
<1>1. CASE n < 5
  <2>1. \E x \in {n, 5} : \A y \in {n, 5} : x <= y
    BY <1>1
  <2>2. Min({n, 5}) = n
    BY <1>1 DEF Min
  <2> QED BY <1>1, <2>2 DEF MaxSkipSamples
<1>2. CASE ~(n < 5)
  <2>1. Min({n, 5}) = 5
    BY <1>2 DEF Min
  <2> QED BY <1>2, <2>1 DEF MaxSkipSamples
<1> QED BY <1>1, <1>2

LEMMA AllChosenCounts == ASSUME SelectInv, ReadInv, AllChosen PROVE ReadInv'
<1> DEFINE dropped == IF skipped < MaxSkipSamples THEN skipped ELSE MaxSkipSamples
<1>1. /\ pc = "select" /\ pc' = "read" /\ at' = 1 /\ metrics' = metrics /\ events' = events
      /\ members' = members /\ source' = source /\ skipped' = skipped
      /\ stats' = [stats EXCEPT !.errors = dropped]
  BY DEF AllChosen
<1>2. metrics = None /\ stats = NoStats /\ events = <<>>
  BY <1>1 DEF ReadInv
<1>3. skipped \in Nat /\ dropped \in Nat /\ Min({skipped, MaxSkipSamples}) = dropped
  BY SkippedIsNumber DEF SelectInv, MaxSkipSamples
<1> HIDE DEF dropped
<1>4. /\ stats'.lines = 0 /\ stats'.errors = dropped /\ stats'.untimed = 0
      /\ {"lines", "errors", "untimed"} \subseteq DOMAIN stats'
  BY <1>1, <1>2 DEF NoStats
<1>5. events' = <<>> /\ IsSeq(events') /\ Len(events') = 0 /\ Unowned(events') = {}
  BY <1>1, <1>2, EmptyIsSeq DEF Unowned
<1>6. IsFiniteSet(Unowned(events')) /\ Cardinality(Unowned(events')) = 0
  BY <1>5, FS_EmptySet
<1>7. LinesBefore' = LinesBefore /\ LinesBefore[0] = 0 /\ Len(members) \in Nat
  BY <1>1, MemberLinesFacts DEF LinesBefore, MemberLines
<1>8. Counted'
  <2>1. at' <= Len(members') + 1 /\ at' - 1 = 0
    BY <1>1, <1>7
  <2>2. LinesBefore'[at' - 1] = 0
    BY <1>7, <2>1
  <2>3. stats'.lines = LinesBefore'[at' - 1]
    BY <1>4, <2>2
  <2>4. Len(events') + stats'.errors = LinesBefore'[at' - 1] + Min({skipped', MaxSkipSamples})
    BY <1>1, <1>3, <1>4, <1>5, <2>2
  <2> QED BY <1>3, <1>4, <1>5, <1>6, <2>1, <2>3, <2>4 DEF Counted
<1> QED BY <1>1, <1>2, <1>8 DEF ReadInv

LEMMA BinaryCounts ==
  ASSUME SelectInv, ReadInv, MemberIsBinary, source.directory PROVE ReadInv'
<1>1. /\ pc = "read" /\ pc' = "read" /\ at <= Len(members) /\ at' = at + 1
      /\ ~source.files[members[at].file].text
      /\ metrics' = metrics /\ events' = events /\ members' = members /\ source' = source
      /\ stats' = [stats EXCEPT !.errors = @ + 1]
  BY DEF MemberIsBinary
<1>2. metrics = None /\ Counted
  BY <1>1 DEF ReadInv
<1>3. /\ at \in Nat \ {0} /\ Len(members) \in Nat /\ DOMAIN members = 1 .. Len(members)
  BY MemberLinesFacts DEF SelectInv
<1>4. at' <= Len(members') + 1
  BY <1>1, <1>3
<1>5. /\ stats'.lines = stats.lines /\ stats'.untimed = stats.untimed /\ stats'.errors \in Nat
      /\ {"lines", "errors", "untimed"} \subseteq DOMAIN stats'
  <2>1. stats'.errors = stats.errors + 1
    <3>1. stats.errors \in Nat
      BY <1>2 DEF Counted
    <3>2. "errors" \in DOMAIN stats
      BY <1>2 DEF Counted
    <3> QED BY <1>1, <3>2
  <2>2. stats'.errors \in Nat
    BY <2>1, <1>2 DEF Counted
  <2>3. {"lines", "errors", "untimed"} \subseteq DOMAIN stats
    BY <1>2 DEF Counted
  <2> QED BY <1>1, <2>2, <2>3
<1>6. ~(\A i \in DOMAIN members : LineByLine(members[i]))
  <2>1. at \in DOMAIN members
    BY <1>1, <1>3
  <2>2. ~LineByLine(members[at])
    BY <1>1 DEF LineByLine
  <2> QED BY <2>1, <2>2
<1>7. ~(\A i \in DOMAIN members : LineByLine(members[i]))'
  BY <1>1, <1>6, Zenon DEF LineByLine
<1>8. Counted'
  <2>1. Formats' = Formats
    BY <1>1 DEF Formats
  <2> QED BY <1>1, <1>2, <1>4, <1>5, <1>7, <2>1 DEF Counted
<1> QED BY <1>1, <1>2, <1>8 DEF ReadInv

LEMMA MemberCounts == ASSUME SelectInv, ReadInv, ReadMember PROVE ReadInv'
<1> DEFINE m == members[at]
           file == source.files[m.file]
           r == Reading(Reader(m), file)
           more == [i \in DOMAIN r.events |->
                      [file |-> m.file, time |-> r.events[i].time, own |-> r.events[i].own,
                       source |-> SourceOf(r.events[i], file)]]
<1>1. /\ pc = "read" /\ at <= Len(members)
      /\ stats' = Absorbed(r) /\ events' = events \o more
      /\ at' = at + 1 /\ pc' = pc /\ source' = source /\ members' = members
      /\ skipped' = skipped /\ metrics' = metrics
  BY Zenon DEF ReadMember
<1> HIDE DEF m, file, r, more
<1>2. metrics = None /\ Counted
  BY <1>1 DEF ReadInv
<1>3. /\ at \in Nat \ {0} /\ Len(members) \in Nat /\ at \in 1 .. Len(members)
      /\ DOMAIN members = 1 .. Len(members)
  BY <1>1, MemberLinesFacts DEF SelectInv
<1>4. IsMember(m) /\ IsFile(file) /\ MemberLines[at] = Len(file.lines) /\ Len(file.lines) \in Nat
  BY <1>3, MemberLinesFacts DEF m, file
<1>5. Reader(m).format = m.format /\ Reader(m).format \in Readers \cup {"inferred"}
  BY <1>4 DEF Reader, IsMember
<1>6. /\ r.lines \in Nat /\ r.errors \in Nat /\ r.untimed \in Nat /\ IsSeq(r.events)
      /\ Cardinality(Unowned(r.events)) \in Nat
      /\ Cardinality(Unowned(r.events)) <= r.untimed
      /\ m.format # "raw_lines" => Unowned(r.events) = {}
      /\ LineByLine(m) => r.lines = Len(file.lines) /\ Len(r.events) + r.errors = Len(file.lines)
  <2> DEFINE reader == Reader(m)
  <2>1. reader.format = m.format /\ reader.format \in Readers \cup {"inferred"}
    BY <1>5
  <2>2. LineByLine(m) =>
          /\ ~IsDocument(m.format, file)
          /\ \A i \in DOMAIN file.lines : /\ Len(file.lines[i].entries) = 1
                                          /\ file.lines[i].entries[1] # Stray
    BY DEF LineByLine, file
  <2> HIDE DEF reader
  <2>3. LET read == Reading(reader, file)
        IN  /\ read.lines \in Nat /\ read.errors \in Nat /\ read.untimed \in Nat
            /\ IsSeq(read.events)
            /\ Cardinality(Unowned(read.events)) \in Nat
            /\ Cardinality(Unowned(read.events)) <= read.untimed
            /\ reader.format # "raw_lines" => Unowned(read.events) = {}
            /\ (/\ ~IsDocument(reader.format, file)
                /\ \A i \in DOMAIN file.lines : /\ Len(file.lines[i].entries) = 1
                                                /\ file.lines[i].entries[1] # Stray)
                 => /\ read.lines = Len(file.lines)
                    /\ Len(read.events) + read.errors = Len(file.lines)
    BY <1>4, <2>1, ReadingFacts
  <2>4. r = Reading(reader, file)
    BY DEF r, reader
  <2> QED BY <2>1, <2>2, <2>3, <2>4
<1>7. IsSeq(more) /\ Len(more) = Len(r.events) /\ Unowned(more) = Unowned(r.events)
  <2>1. DOMAIN r.events = 1 .. Len(r.events) /\ Len(r.events) \in Nat
    BY <1>6, SeqFacts
  <2>2. /\ more = [i \in 1 .. Len(r.events) |-> more[i]] /\ DOMAIN more = DOMAIN r.events
        /\ \A i \in DOMAIN r.events : more[i].own = r.events[i].own
    BY <2>1 DEF more
  <2>3. IsSeq(more) /\ Len(more) = Len(r.events)
    BY <2>1, <2>2, FunctionIsSeq
  <2>4. Unowned(more) = Unowned(r.events)
    BY <2>2 DEF Unowned
  <2> QED BY <2>3, <2>4
<1>8. /\ IsSeq(events) /\ stats.lines \in Nat /\ stats.errors \in Nat /\ stats.untimed \in Nat
      /\ Cardinality(Unowned(events)) <= stats.untimed
      /\ "raw_lines" \notin Formats => Unowned(events) = {}
      /\ (\A i \in DOMAIN members : LineByLine(members[i])) =>
           /\ stats.lines = LinesBefore[at - 1]
           /\ Len(events) + stats.errors
                = LinesBefore[at - 1] + Min({skipped, MaxSkipSamples})
  BY <1>2 DEF Counted
<1>9. /\ stats'.lines = stats.lines + r.lines /\ stats'.errors = stats.errors + r.errors
      /\ stats'.untimed = stats.untimed + r.untimed
      /\ {"lines", "errors", "untimed"} \subseteq DOMAIN stats'
  BY <1>1 DEF Absorbed
<1>10. /\ stats.lines \in Nat /\ stats.errors \in Nat /\ stats.untimed \in Nat
       /\ r.lines \in Nat /\ r.errors \in Nat /\ r.untimed \in Nat
  BY <1>6, <1>8
<1>11. stats'.lines = stats.lines + r.lines /\ stats'.errors = stats.errors + r.errors
       /\ stats'.untimed = stats.untimed + r.untimed
  BY <1>9
<1>12. /\ IsSeq(events') /\ Len(events') = Len(events) + Len(more)
       /\ Len(events) \in Nat /\ Len(more) \in Nat
  <2>1. IsSeq(events) /\ IsSeq(more)
    BY <1>7, <1>8
  <2>2. /\ IsSeq(events \o more) /\ Len(events \o more) = Len(events) + Len(more)
        /\ Len(events) \in Nat /\ Len(more) \in Nat
    BY ONLY <2>1, ConcatFacts
  <2> QED BY <1>1, <2>2
<1>13. /\ IsFiniteSet(Unowned(events')) /\ Cardinality(Unowned(events')) <= stats'.untimed
       /\ Unowned(events) = {} /\ Unowned(more) = {} => Unowned(events') = {}
  <2>1. IsSeq(events) /\ IsSeq(more)
    BY <1>7, <1>8
  <2>2. /\ Cardinality(Unowned(events)) \in Nat /\ Cardinality(Unowned(more)) \in Nat
        /\ IsFiniteSet(Unowned(events \o more)) /\ Cardinality(Unowned(events \o more)) \in Nat
        /\ Cardinality(Unowned(events \o more))
             <= Cardinality(Unowned(events)) + Cardinality(Unowned(more))
        /\ Unowned(events) = {} /\ Unowned(more) = {} => Unowned(events \o more) = {}
    BY ONLY <2>1, UnownedJoins
  <2>3. /\ Cardinality(Unowned(more)) <= r.untimed
        /\ Cardinality(Unowned(events)) <= stats.untimed
    BY <1>6, <1>7, <1>8
  <2>4. Cardinality(Unowned(events \o more)) <= stats.untimed + r.untimed
    BY <1>10, <2>2, <2>3
  <2> QED BY <1>1, <1>11, <2>2, <2>4
<1>14. "raw_lines" \notin Formats' => Unowned(events') = {}
  <2>1. Formats' = Formats /\ m.format \in Formats
    BY <1>1, <1>3 DEF Formats, m
  <2> QED BY <1>6, <1>7, <1>8, <1>13, <2>1
<1>15. at' <= Len(members') + 1 /\ at' - 1 = at
  BY <1>1, <1>3
<1>16. (\A i \in DOMAIN members : LineByLine(members[i])) =>
         /\ stats'.lines = LinesBefore'[at' - 1]
         /\ Len(events') + stats'.errors
              = LinesBefore'[at' - 1] + Min({skipped', MaxSkipSamples})
  <2> SUFFICES ASSUME \A i \in DOMAIN members : LineByLine(members[i])
               PROVE  /\ stats'.lines = LinesBefore[at]
                      /\ Len(events') + stats'.errors
                           = LinesBefore[at] + Min({skipped, MaxSkipSamples})
    BY <1>1, <1>15 DEF LinesBefore, MemberLines
  <2>1. LineByLine(m)
    BY <1>3 DEF m
  <2>2. /\ LinesBefore[at] = LinesBefore[at - 1] + Len(file.lines)
        /\ LinesBefore[at - 1] \in Nat
    <3>1. at - 1 \in 0 .. Len(members)
      BY <1>3
    <3> QED BY <1>3, <1>4, <3>1, MemberLinesFacts
  <2>3. Min({skipped, MaxSkipSamples}) \in Nat
    BY SkippedIsNumber DEF SelectInv
  <2>4. r.lines = Len(file.lines) /\ Len(more) + r.errors = Len(file.lines)
    BY <1>6, <1>7, <2>1
  <2> DEFINE a == LinesBefore[at - 1]
             n == Len(file.lines)
             k == Min({skipped, MaxSkipSamples})
  <2>5. stats.lines = a /\ Len(events) + stats.errors = a + k
    BY <1>8
  <2> HIDE DEF a, n, k
  <2>6. stats'.lines = a + n /\ Len(events') + stats'.errors = a + n + k
    <3>1. a \in Nat /\ n \in Nat /\ k \in Nat
      BY <1>4, <2>2, <2>3 DEF a, n, k
    <3>2. r.lines = n /\ Len(more) + r.errors = n
      BY <2>4 DEF n
    <3>3. Len(events') = Len(events) + Len(more) /\ Len(events) \in Nat /\ Len(more) \in Nat
      BY <1>12
    <3>4. stats'.lines = a + n
      BY <1>11, <2>5, <3>2
    <3> DEFINE e == Len(events)
               f == Len(more)
               x == stats.errors
               y == r.errors
    <3>5. e \in Nat /\ f \in Nat /\ x \in Nat /\ y \in Nat /\ e + x = a + k /\ f + y = n
      BY <1>10, <2>5, <3>2, <3>3
    <3>6. Len(events') + stats'.errors = (e + f) + (x + y)
      BY <1>11, <3>3
    <3> HIDE DEF e, f, x, y
    <3>7. (e + f) + (x + y) = a + n + k
      BY <3>1, <3>5
    <3> QED BY <3>4, <3>6, <3>7
  <2> QED BY <2>2, <2>6 DEF a, n, k
<1>17. (\A i \in DOMAIN members : LineByLine(members[i])) <=>
         (\A i \in DOMAIN members : LineByLine(members[i]))'
  BY <1>1 DEF LineByLine
<1>18. Counted'
  <2>1. stats'.lines \in Nat /\ stats'.errors \in Nat /\ stats'.untimed \in Nat
    BY <1>10, <1>11
  <2> QED BY <1>9, <1>12, <1>13, <1>14, <1>15, <1>16, <1>17, <2>1 DEF Counted
<1> QED BY <1>1, <1>2, <1>18 DEF ReadInv

LEMMA EndTells == ASSUME SelectInv, ReadInv, ReadEnds PROVE ReadInv'
<1>1. /\ pc = "read" /\ at > Len(members) /\ pc' = "idle"
      /\ source' = source /\ members' = members /\ skipped' = skipped /\ events' = events
      /\ metrics'.lines_read = stats.lines /\ metrics'.events_loaded = Len(events)
      /\ metrics'.parse_errors = stats.errors
      /\ metrics'.unparseable_timestamp = stats.untimed
      /\ metrics'.fallback = (IF FellBack THEN 1 ELSE 0)
      /\ {"events_loaded", "fallback", "unparseable_timestamp"} \subseteq DOMAIN metrics'
  BY DEF ReadEnds, selection
<1>2. Counted
  BY <1>1 DEF ReadInv
<1>3. at - 1 = Len(members)
  BY <1>1, <1>2, MemberLinesFacts DEF Counted, SelectInv
<1>4. Formats' = Formats /\ FellBack' = FellBack
  BY <1>1 DEF Formats, FellBack, Degraded
<1>5. LinesBefore' = LinesBefore
  BY <1>1 DEF LinesBefore, MemberLines
<1>6. (\A i \in DOMAIN members : LineByLine(members[i])) <=>
        (\A i \in DOMAIN members : LineByLine(members[i]))'
  BY <1>1 DEF LineByLine
<1>7. Told'
  BY <1>1, <1>2, <1>3, <1>4, <1>5, <1>6 DEF Told, Counted
<1> QED BY <1>1, <1>7 DEF ReadInv

LEMMA ReadInit == Init => ReadInv
  BY DEF Init, ReadInv

LEMMA ReadNext == SelectInv /\ ReadInv /\ [Next]_vars => ReadInv'
<1> SUFFICES ASSUME SelectInv, ReadInv, [Next]_vars PROVE ReadInv'
  OBVIOUS
<1>1. CASE Begin
  BY <1>1 DEF Begin, ReadInv
<1>2. CASE pc \in {"select", "ask", "adopt"} /\ UNCHANGED reading /\ pc' # "read"
  BY <1>2, NotReading
<1>3. CASE TakeNamed
  BY <1>2, <1>3 DEF TakeNamed, Choosing, Chosen
<1>4. CASE SkipBinary
  BY <1>2, <1>4 DEF SkipBinary, Choosing, Fails
<1>5. CASE TakeDetected
  BY <1>2, <1>5 DEF TakeDetected, Choosing, Chosen
<1>6. ASSUME pc \in {"select", "ask"}, GiveUp PROVE ReadInv'
  BY <1>2, <1>6 DEF GiveUp, Fails, Chosen
<1>7. ASSUME pc \in {"select", "ask"}, TrySubshapes PROVE ReadInv'
  BY <1>2, <1>6, <1>7 DEF TrySubshapes, Proposed
<1>8. CASE BootstrapOff
  BY <1>6, <1>8 DEF BootstrapOff, Undetected, Choosing
<1>9. CASE BootstrapFree
  BY <1>2, <1>9 DEF BootstrapFree, Undetected, Choosing, Proposed
<1>10. CASE NoModel
  BY <1>7, <1>10 DEF NoModel, NothingFree, Undetected, Choosing
<1>11. CASE AskModel
  BY <1>2, <1>11 DEF AskModel, NothingFree, Undetected, Choosing
<1>12. CASE ModelAnswers
  BY <1>2, <1>7, <1>12 DEF ModelAnswers, Proposed
<1>13. CASE ModelBusy
  BY <1>2, <1>13 DEF ModelBusy
<1>14. CASE ModelFails
  BY <1>2, <1>14 DEF ModelFails, Fails
<1>15. CASE Adopt
  BY <1>2, <1>15 DEF Adopt, Chosen
<1>16. CASE NothingToRead
  BY <1>2, <1>16 DEF NothingToRead, Fails
<1>17. CASE AllChosen
  BY <1>17, AllChosenCounts
<1>18. CASE ReadMember
  BY <1>18, MemberCounts
<1>19. CASE MemberIsBinary
  <2>1. CASE source.directory
    BY <1>19, <2>1, BinaryCounts
  <2>2. CASE ~source.directory
    BY <1>19, <2>2, LeavesReading DEF MemberIsBinary, Fails
  <2> QED BY <2>1, <2>2
<1>24. CASE MemberRaises
  BY <1>24, LeavesReading DEF MemberRaises, Fails
<1>20. CASE ReadEnds
  BY <1>20, EndTells
<1>21. CASE Dies
  BY <1>21, LeavesReading DEF Dies
<1>22. CASE UNCHANGED vars
  <2>1. Counted' = Counted /\ Told' = Told
    BY <1>22 DEF vars, Counted, Told, Formats, FellBack, Degraded, LinesBefore, MemberLines,
                 LineByLine
  <2> QED BY <1>22, <2>1 DEF vars, ReadInv
<1>23. CASE Settled
  BY <1>22, <1>23 DEF Settled
<1> QED
  BY <1>1, <1>3, <1>4, <1>5, <1>8, <1>9, <1>10, <1>11, <1>12, <1>13, <1>14, <1>15, <1>16, <1>17,
     <1>18, <1>19, <1>20, <1>21, <1>22, <1>23, <1>24 DEF Next, Step

LEMMA Accounted == Spec => [](SelectInv /\ ReadInv)
<1>1. Init => SelectInv /\ ReadInv
  BY SelectInit, ReadInit
<1>2. (SelectInv /\ ReadInv) /\ [Next]_vars => (SelectInv /\ ReadInv)'
  BY SelectNext, ReadNext
<1> QED BY <1>1, <1>2, PTL DEF Spec

-----------------------------------------------------------------------------
(* The properties.                                                          *)

\* CacheNeverHurts: a cached schema is adopted only if it explains as much as the one the
\* file's own lines give (bootstrap/__init__.py:114-120), whatever other ingests left there.
THEOREM CachedIsNoWorse == Spec => []CacheNeverHurts
<1>1. SelectInv => CacheNeverHurts
  <2> SUFFICES ASSUME SelectInv, NEW i \in DOMAIN members, members[i].route = "known",
                      NEW s \in Inspected(source.files[members[i].file])
               PROVE  Fields(members[i].schema) >= Fields(s)
    BY DEF CacheNeverHurts
  <2> DEFINE m == members[i]
             p == [route |-> m.route, schema |-> m.schema]
  <2>1. IsProposal(p, source.files[m.file])
    BY DEF SelectInv, IsMember
  <2>2. p.route = "known" /\ p.schema = m.schema
    OBVIOUS
  <2> QED BY <2>1, <2>2 DEF IsProposal
<1> QED BY <1>1, Selected, PTL

\* GateHolds: a schema of the cache, of the lines or of a model reads MatchFloor percent of the
\* lines held out of its derivation (bootstrap/__init__.py:8-14), and the reader it makes turns
\* that many of them into events.
THEOREM GateIsKept == Spec => []GateHolds
<1>1. SelectInv => GateHolds
  <2> SUFFICES ASSUME SelectInv, NEW i \in DOMAIN members,
                      members[i].route \in {"known", "structural", "model"}
               PROVE  LET held == Holdout(source.files[members[i].file])
                          read == Read(FlattenSeq([j \in DOMAIN held |->
                                                     View(Reader(members[i]), held[j])]),
                                       Len(held))
                      IN  Reaches(Len(read.events), Len(held), MatchFloor)
    BY DEF GateHolds
  <2> DEFINE m == members[i]
             file == source.files[m.file]
             held == Holdout(file)
             p == [route |-> m.route, schema |-> m.schema]
             read == Read(FlattenSeq(Views(Reader(m), held)), Len(held))
  <2>1. IsMember(m) /\ m.format = "inferred" /\ IsProposal(p, file)
    BY DEF SelectInv, IsMember
  <2>2. p.route = m.route /\ p.schema = m.schema
    OBVIOUS
  <2>3. m.schema.shape # None /\ Passes(m.schema, held)
    BY <2>1, <2>2 DEF IsProposal
  <2>4. IsFile(file)
    BY <2>1, SourceFacts DEF SelectInv, IsMember
  <2>5. Lines(held)
    BY <2>4, HoldoutLines
  <2>6. Reader(m) = [format |-> "inferred", schema |-> m.schema]
    BY <2>1 DEF Reader
  <2>7. Len(read.events) = Rate(m.schema, held)
    <3> HIDE DEF m, held
    <3> QED BY <2>3, <2>5, <2>6, RateIsRead
  <2>8. Reaches(Len(read.events), Len(held), MatchFloor)
    <3>1. Reaches(Rate(m.schema, held), Len(held), MatchFloor)
      BY <2>3 DEF Passes
    <3> HIDE DEF read
    <3> QED BY <2>7, <3>1
  <2> QED BY <2>8 DEF Views
<1> QED BY <1>1, Selected, PTL

\* EveryLineAccounted: the counters of a directory are those of all its files, and no line of a
\* file read line by line is neither an event nor an error (base.py:21-25,
\* multi_file.py:185-210).
THEOREM LinesAreAccounted == Spec => []EveryLineAccounted
<1>1. ReadInv => EveryLineAccounted
  <2> SUFFICES ASSUME ReadInv, metrics # None PROVE EveryLineAccounted
    BY DEF EveryLineAccounted, Done
  <2>1. (\A i \in DOMAIN members : LineByLine(members[i])) =>
          /\ metrics.lines_read = LinesBefore[Len(members)]
          /\ metrics.events_loaded + metrics.parse_errors
               = LinesBefore[Len(members)] + Min({skipped, MaxSkipSamples})
    BY DEF ReadInv, Told
  <2> QED BY <2>1, Zenon DEF EveryLineAccounted, Done, LineByLine, LinesBefore, MemberLines,
                             Running
<1> QED BY <1>1, Accounted, PTL

\* Without a floor every reader is eligible for every file: the raw reader, which scores
\* nothing, is then detected where no other is registered.
LEMMA RawIsFallback ==
  ASSUME DetectFloor > 0 \/ \E k \in DOMAIN Registered : Registered[k] # "raw_lines",
         NEW s, Lines(s)
  PROVE  Detect(s) # None => Detect(s) # "raw_lines"
<1> SUFFICES ASSUME Detect(s) # None, Detect(s) = "raw_lines" PROVE FALSE
  OBVIOUS
<1>1. PICK i \in Eligible(s) :
        /\ Registered[i] = "raw_lines" /\ i \in DOMAIN Registered
        /\ \A j \in Eligible(s) :
             Specificity(Registered[i]) > Specificity(Registered[j])
               \/ Specificity(Registered[i]) = Specificity(Registered[j])
  BY SomeIsEligible, DetectFacts
<1>2. Len(s) \in Nat \ {0} /\ DetectFloor \in Nat
  BY <1>1, SeqFacts, AdaptersAssumption DEF Eligible, Lines
<1>3. 0 >= DetectFloor * Len(s)
  BY <1>1 DEF Eligible, Score
<1>4. DetectFloor = 0
  <2> DEFINE n == Len(s)
  <2> HIDE DEF n
  <2>1. n \in Nat /\ n >= 1 /\ 0 >= DetectFloor * n
    BY <1>2, <1>3 DEF n
  <2>2. DetectFloor * n >= DetectFloor
    BY <1>2, <2>1
  <2>3. DetectFloor * n \in Nat
    BY <1>2, <2>1
  <2> QED BY <1>2, <2>1, <2>2, <2>3
<1>5. PICK k \in DOMAIN Registered : Registered[k] # "raw_lines"
  BY <1>2, <1>4
<1>6. Registered[k] \in Readers
  BY <1>5, AdaptersAssumption
<1>7. Score(Registered[k], s) \in Nat
  BY <1>6, ScoreIsNumber
<1>8. k \in Eligible(s)
  BY <1>1, <1>2, <1>4, <1>7 DEF Eligible
<1>9. Specificity(Registered[k]) > Specificity("raw_lines")
      /\ Specificity(Registered[k]) \in Nat /\ Specificity("raw_lines") \in Nat
  BY <1>5, <1>6 DEF Specificity, Readers
<1> QED BY <1>1, <1>8, <1>9

\* CoverageIsNotOverstated: only the raw reader keeps an event it could not time, and whenever
\* it read a file of an automatic ingest the health check is told (base.py:85-99,
\* stage_metrics.py:121-130).
THEOREM CoverageIsTrue ==
  ASSUME DetectFloor > 0 \/ \E k \in DOMAIN Registered : Registered[k] # "raw_lines"
  PROVE  Spec => []CoverageIsNotOverstated
<1>1. SelectInv /\ ReadInv => CoverageIsNotOverstated
  <2> DEFINE pad == [metrics |-> metrics, events |-> events]
             owned == {j \in DOMAIN events : events[j].own}
             lost == Cardinality(Unowned(events))
  <2> SUFFICES ASSUME SelectInv, ReadInv, metrics # None, config.format = "auto"
               PROVE  Health!Timestamped(pad) <= Cardinality(owned)
    BY DEF CoverageIsNotOverstated, HowMany, Done
  <2>1. /\ IsSeq(events) /\ metrics.unparseable_timestamp \in Nat
        /\ {"events_loaded", "fallback", "unparseable_timestamp"} \subseteq DOMAIN metrics
        /\ metrics.events_loaded = Len(events) /\ lost <= metrics.unparseable_timestamp
        /\ metrics.fallback = (IF FellBack THEN 1 ELSE 0)
        /\ "raw_lines" \notin Formats => Unowned(events) = {}
    BY DEF ReadInv, Told
  <2>2. lost \in Nat /\ Cardinality(owned) = Len(events) - lost /\ Len(events) \in Nat
        /\ Cardinality(owned) \in Nat
    <3>1. Unowned(events) \in SUBSET DOMAIN events /\ owned = DOMAIN events \ Unowned(events)
          /\ owned \in SUBSET DOMAIN events
      BY DEF Unowned
    <3> HIDE DEF owned
    <3> QED BY <2>1, <3>1, CountFacts, SeqFacts
  <2>3. "raw_lines" \in Formats => FellBack
    <3> SUFFICES ASSUME "raw_lines" \in Formats PROVE Degraded
      BY DEF FellBack
    <3>1. PICK i \in DOMAIN members : members[i].format = "raw_lines"
      BY DEF Formats
    <3> DEFINE m == members[i]
               s == First(source.files[m.file].lines, SampleSize)
    <3>2. IsMember(m) /\ m.route # "named"
      BY DEF SelectInv, IsMember
    <3>3. IsFile(source.files[m.file])
      BY <3>2, SourceFacts DEF SelectInv, IsMember
    <3>4. Lines(s)
      BY <3>3, SampleLines DEF Sample
    <3>5. m.route # "detected"
      <4> SUFFICES ASSUME m.route = "detected" PROVE FALSE
        OBVIOUS
      <4>1. Detect(s) # None /\ Detect(s) = "raw_lines"
        BY <3>1, <3>2 DEF IsMember
      <4> HIDE DEF s
      <4> QED BY <3>4, <4>1, RawIsFallback
    <3> QED BY <3>2, <3>5 DEF Degraded
  <2>4. Health!Loaded(pad) = Len(events)
    BY <2>1 DEF Health!Loaded, Health!Recorded
  <2>5. CASE FellBack
    <3>1. metrics.fallback = 1
      BY <2>1, <2>5
    <3>2. Health!MoreThan(pad.metrics, "fallback", 0)
          /\ Health!Recorded(pad.metrics, "unparseable_timestamp")
      BY <2>1, <3>1 DEF Health!MoreThan, Health!Recorded
    <3>3. Health!Timestamped(pad) =
            IF metrics.unparseable_timestamp > Health!Loaded(pad) THEN 0
            ELSE Health!Loaded(pad) - metrics.unparseable_timestamp
      BY <3>2 DEF Health!Timestamped
    <3> HIDE DEF owned, lost, pad
    <3> QED BY <2>1, <2>2, <2>4, <3>3
  <2>6. CASE ~FellBack
    <3>1. ~Health!MoreThan(pad.metrics, "fallback", 0)
      BY <2>1, <2>6 DEF Health!MoreThan
    <3>2. Unowned(events) = {} /\ lost = 0
      BY <2>1, <2>3, <2>6, FS_EmptySet
    <3>3. Health!Timestamped(pad) = IF 0 > Health!Loaded(pad) THEN 0 ELSE Health!Loaded(pad) - 0
      BY <3>1 DEF Health!Timestamped
    <3> HIDE DEF owned, lost, pad
    <3> QED BY <2>2, <2>4, <3>2, <3>3
  <2> QED BY <2>5, <2>6
<1> QED BY <1>1, Accounted, PTL

LEMMA OfFacts ==
  ASSUME NEW s, Lines(s), NEW kinds
  PROVE  /\ (\A i \in DOMAIN s : s[i].kind \in kinds) => Of(s, kinds) = Len(s)
         /\ (\A i \in DOMAIN s : s[i].kind \notin kinds) => Of(s, kinds) = 0
         /\ (\E i \in DOMAIN s : s[i].kind \in kinds) => Of(s, kinds) > 0
<1> DEFINE K == {i \in DOMAIN s : s[i].kind \in kinds}
<1>1. IsSeq(s) /\ Len(s) \in Nat /\ DOMAIN s = 1 .. Len(s)
  BY SeqFacts DEF Lines
<1>2. Of(s, kinds) = Cardinality(K)
  BY DEF Of, HowMany
<1>3. ASSUME \A i \in DOMAIN s : s[i].kind \in kinds PROVE Cardinality(K) = Len(s)
  <2>1. K = 1 .. Len(s)
    BY <1>1, <1>3
  <2> HIDE DEF K
  <2> DEFINE n == Len(s)
  <2>2. Cardinality(1 .. n) = n
    <3>1. n \in Nat
      BY <1>1
    <3> HIDE DEF n
    <3> QED BY <3>1, FS_Interval
  <2> QED BY <2>1, <2>2
<1>4. ASSUME \A i \in DOMAIN s : s[i].kind \notin kinds PROVE Cardinality(K) = 0
  <2>1. K = {}
    BY <1>4
  <2> QED BY <2>1, FS_EmptySet
<1>5. ASSUME NEW i \in DOMAIN s, s[i].kind \in kinds PROVE Cardinality(K) > 0
  <2>1. i \in K /\ K \in SUBSET DOMAIN s
    BY <1>5
  <2> HIDE DEF K
  <2>2. IsFiniteSet(K) /\ Cardinality(K) \in Nat
    BY <1>1, <2>1, CountFacts
  <2>3. Cardinality(K) # 0
    BY <2>1, <2>2, FS_EmptySet
  <2> QED BY <2>2, <2>3
<1> QED BY <1>2, <1>3, <1>4, <1>5

\* A named format's own records score at least 95 hundredths of every line with it, and no
\* more than 90 with another named format, whatever their text shows.
LEMMA EnvelopeScores ==
  ASSUME NEW f \in {"loki", "otlp", "elastic"}, NEW kinds \in Layouts(f),
         NEW s, Lines(s), s # <<>>, \A i \in DOMAIN s : s[i].kind \in kinds
  PROVE  /\ Score(f, s) >= 95 * Len(s)
         /\ \A g \in {"loki", "otlp", "elastic"} \ {f} : Score(g, s) <= 90 * Len(s)
<1> DEFINE n == Len(s)
<1>1. n \in Nat \ {0} /\ DOMAIN s = 1 .. n
  BY SeqFacts DEF Lines
<1>2. ASSUME NEW K, K \cap kinds = {} PROVE Of(s, K) = 0
  BY <1>2, OfFacts
<1>3. ASSUME NEW K, kinds \subseteq K PROVE Of(s, K) = n
  BY <1>3, OfFacts
<1> HIDE DEF n
<1>4. (\A kind \in {"streams", "labelled"} : kind \notin kinds) => LokiScore(s) <= 90 * n
  <2> SUFFICES ASSUME "streams" \notin kinds, "labelled" \notin kinds
               PROVE  LokiScore(s) <= 90 * n
    OBVIOUS
  <2>1. Of(s, {"streams"}) = 0 /\ Of(s, {"labelled"}) = 0
    BY <1>2
  <2> QED BY <1>1, <2>1 DEF LokiScore, n
<1>5. "request" \notin kinds => OtlpScore(s) <= 90 * n
  <2> SUFFICES ASSUME "request" \notin kinds PROVE OtlpScore(s) <= 90 * n
    OBVIOUS
  <2>1. Of(s, {"request"}) = 0
    BY <1>2
  <2> QED BY <1>1, <2>1 DEF OtlpScore, n
<1>6. (\A kind \in {"hits", "document", "ecs"} : kind \notin kinds) => ElasticScore(s) <= 90 * n
  <2> SUFFICES ASSUME "hits" \notin kinds, "document" \notin kinds, "ecs" \notin kinds
               PROVE  ElasticScore(s) <= 90 * n
    OBVIOUS
  <2>1. Of(s, {"hits"}) = 0 /\ Of(s, {"document"}) = 0 /\ Of(s, {"ecs"}) = 0
    BY <1>2
  <2> QED BY <1>1, <2>1 DEF ElasticScore, n
<1>7. CASE f = "loki"
  <2>1. kinds = {"streams", "labelled"}
    BY <1>7 DEF Layouts
  <2>2. LokiScore(s) >= 95 * n
    <3>1. CASE \E i \in DOMAIN s : s[i].kind = "streams"
      <4>1. Of(s, {"streams"}) > 0
        BY <3>1, OfFacts
      <4> QED BY <1>1, <4>1 DEF LokiScore, n
    <3>2. CASE \A i \in DOMAIN s : s[i].kind # "streams"
      <4>1. Of(s, {"streams"}) = 0
        BY <3>2, OfFacts
      <4>2. Of(s, {"labelled"}) = n
        <5>1. \A i \in DOMAIN s : s[i].kind \in {"labelled"}
          BY <2>1, <3>2
        <5> QED BY <5>1, OfFacts DEF n
      <4> QED BY <1>1, <4>1, <4>2 DEF LokiScore, n
    <3> QED BY <3>1, <3>2
  <2> QED BY <1>5, <1>6, <1>7, <2>1, <2>2 DEF Score, n
<1>8. CASE f = "otlp"
  <2>1. kinds = {"request"}
    BY <1>8 DEF Layouts
  <2>2. Of(s, {"request"}) = n
    BY <1>3, <2>1
  <2>3. OtlpScore(s) >= 95 * n
    BY <1>1, <2>2 DEF OtlpScore, n
  <2> QED BY <1>4, <1>6, <1>8, <2>1, <2>3 DEF Score, n
<1>9. CASE f = "elastic"
  <2>1. kinds = {"document"} \/ kinds = {"ecs"}
    BY <1>9 DEF Layouts
  <2>2. Of(s, {"hits"}) = 0
    BY <1>2, <2>1
  <2>3. ElasticScore(s) >= 95 * n
    <3>1. CASE kinds = {"document"}
      <4>1. Of(s, {"document"}) = n
        BY <1>3, <3>1
      <4> QED BY <1>1, <2>2, <4>1 DEF ElasticScore, n
    <3>2. CASE kinds = {"ecs"}
      <4>1. Of(s, {"document"}) = 0 /\ Of(s, {"ecs"}) = n
        BY <1>2, <1>3, <3>2
      <4> QED BY <1>1, <2>2, <4>1 DEF ElasticScore, n
    <3> QED BY <2>1, <3>1, <3>2
  <2> QED BY <1>4, <1>5, <1>9, <2>1, <2>3 DEF Score, n
<1> QED BY <1>7, <1>8, <1>9

\* EnvelopeDecides: a file of one named format's records goes to that format's reader, although
\* the generic JSON reader scores up to 100 hundredths of every line and keys in the text may
\* speak for a third (adapters/registry.py:81-90).  Above a floor of 95 ECS records, which
\* score 95, are recognised by no reader.
THEOREM EnvelopeIsDecisive ==
  ASSUME DetectFloor <= 95
  PROVE  Spec => []EnvelopeDecides
<1>1. SelectInv => EnvelopeDecides
  <2> SUFFICES ASSUME SelectInv, NEW i \in Automatic, NEW f \in Specific,
                      NEW kinds \in Layouts(f),
                      source.files[members[i].file].lines # <<>>,
                      \A j \in DOMAIN source.files[members[i].file].lines :
                        source.files[members[i].file].lines[j].kind \in kinds
               PROVE  members[i].format = f
    BY DEF EnvelopeDecides
  <2> DEFINE m == members[i]
             lines == source.files[m.file].lines
             s == First(lines, SampleSize)
             n == Len(s)
  <2>1. IsMember(m) /\ m.route # "named"
    BY DEF SelectInv, Automatic
  <2>2. IsFile(source.files[m.file])
    BY <2>1, SourceFacts DEF SelectInv, IsMember
  <2>3. Lines(lines) /\ Lines(s)
    BY <2>2, LinesOfFile, SampleLines DEF Sample
  <2> HIDE DEF m
  <2>4. /\ IsSeq(s) /\ n = (IF SampleSize < Len(lines) THEN SampleSize ELSE Len(lines))
        /\ \A j \in DOMAIN s : j \in DOMAIN lines /\ s[j] = lines[j]
    <3> HIDE DEF lines
    <3> QED BY <2>3, SampleSizes, FirstFacts DEF Lines
  <2>5. \A j \in DOMAIN s : s[j].kind \in kinds
    <3>1. \A j \in DOMAIN lines : lines[j].kind \in kinds
      BY DEF m
    <3> HIDE DEF lines, s
    <3> QED BY <2>4, <3>1
  <2>6. n \in Nat \ {0} /\ s # <<>>
    <3>1. lines # <<>> /\ IsSeq(lines)
      BY <2>3 DEF m, Lines
    <3> HIDE DEF lines, s
    <3>2. Len(lines) \in Nat \ {0}
      BY <3>1, SeqFacts
    <3>3. n \in Nat \ {0}
      BY <2>4, <3>2, SampleSizes
    <3> QED BY <2>4, <3>3, SeqFacts
  <2> HIDE DEF s, lines
  <2>7. f \in {"loki", "otlp", "elastic"} /\ \E k \in DOMAIN Registered : Registered[k] = f
    BY DEF Specific
  <2>8. PICK k \in DOMAIN Registered : Registered[k] = f
    BY <2>7
  <2>9. /\ Score(f, s) >= 95 * n
        /\ \A g \in {"loki", "otlp", "elastic"} \ {f} : Score(g, s) <= 90 * n
    BY <2>3, <2>5, <2>6, <2>7, EnvelopeScores
  <2> HIDE DEF n
  <2>10. k \in Eligible(s)
    <3>1. DetectFloor \in Nat /\ DetectFloor <= 95 /\ n \in Nat
      BY <2>6, AdaptersAssumption
    <3>2. DetectFloor * n <= 95 * n
      BY ONLY <3>1
    <3>3. DetectFloor * n \in Nat /\ 95 * n \in Nat
      BY <3>1
    <3>4. Score(f, s) \in Nat
      BY <2>3, <2>7, ScoreIsNumber DEF Readers
    <3>5. Score(f, s) >= DetectFloor * n
      <4> DEFINE a == DetectFloor * n
                 b == 95 * n
                 c == Score(f, s)
      <4>1. a \in Nat /\ b \in Nat /\ c \in Nat /\ a <= b /\ c >= b
        BY <2>9, <3>2, <3>3, <3>4
      <4> HIDE DEF a, b, c
      <4>2. c >= a
        BY <4>1
      <4> QED BY <4>2 DEF a, c
    <3> QED BY <2>6, <2>8, <3>5 DEF Eligible, n
  <2>11. Detect(s) # None
    <3>1. \A e \in DOMAIN Registered : Registered[e] \in Readers /\ Registered[e] # None
      BY AdaptersAssumption
    <3>2. \E e \in Eligible(s) : Detect(s) = Registered[e]
      BY <2>3, <2>10, DetectFacts
    <3> QED BY <3>1, <3>2 DEF Eligible
  <2>12. m.format = Detect(s)
    BY <2>1, <2>11 DEF IsMember, s, lines
  <2>13. PICK e \in Eligible(s) :
           /\ Detect(s) = Registered[e] /\ Registered[e] \in Readers
           /\ \/ Specificity(Registered[e]) > Specificity(f)
              \/ /\ Specificity(Registered[e]) = Specificity(f)
                 /\ Score(Registered[e], s) >= Score(f, s)
    BY <2>3, <2>8, <2>10, <2>11, DetectFacts
  <2>14. /\ Registered[e] \in {"loki", "otlp", "elastic"}
         /\ Score(Registered[e], s) >= Score(f, s)
    BY <2>7, <2>13 DEF Specificity, Readers
  <2>15. CASE Registered[e] # f
    <3> DEFINE a == Score(Registered[e], s)
               c == Score(f, s)
    <3>1. a \in Nat /\ c \in Nat /\ n \in Nat \ {0}
      BY <2>3, <2>6, <2>7, <2>13, ScoreIsNumber DEF Readers
    <3>2. a <= 90 * n /\ c >= 95 * n /\ a >= c
      BY <2>9, <2>14, <2>15
    <3> HIDE DEF a, c
    <3> QED BY <3>1, <3>2
  <2> QED BY <2>12, <2>13, <2>15 DEF m
<1> QED BY <1>1, Selected, PTL

-----------------------------------------------------------------------------
(* One corrupt line.                                                        *)

\* The entries that hold a time, in their order.
KeptRow(entries) == [i \in DOMAIN entries |-> IF HasTime(entries[i]) THEN <<entries[i]>> ELSE <<>>]

Kept(entries) == FlattenSeq(KeptRow(entries))

EventsOf(entries) ==
  [i \in DOMAIN entries |->
     [time |-> entries[i].time, source |-> entries[i].source, own |-> TRUE]]

LEMMA KeptRowFacts ==
  ASSUME NEW e, IsSeq(e)
  PROVE  /\ IsSeq(KeptRow(e)) /\ Len(KeptRow(e)) = Len(e) /\ DOMAIN KeptRow(e) = DOMAIN e
         /\ \A i \in DOMAIN e : IsSeq(KeptRow(e)[i])
         /\ \A i \in DOMAIN e : KeptRow(e)[i] = IF HasTime(e[i]) THEN <<e[i]>> ELSE <<>>
<1> DEFINE row == KeptRow(e)
           n == Len(e)
<1>1. n \in Nat /\ DOMAIN e = 1 .. n
  BY SeqFacts
<1>2. row = [i \in 1 .. n |-> row[i]]
      /\ \A i \in DOMAIN e : row[i] = IF HasTime(e[i]) THEN <<e[i]>> ELSE <<>>
  BY <1>1 DEF KeptRow
<1> HIDE DEF row, n
<1>3. \A i \in DOMAIN e : IsSeq(row[i])
  BY <1>2, SingleIsSeq, EmptyIsSeq
<1>4. IsSeq(row) /\ Len(row) = n /\ DOMAIN row = 1 .. n
  BY <1>1, <1>2, FunctionIsSeq
<1> QED BY <1>1, <1>2, <1>3, <1>4 DEF row, n

LEMMA KeptConcat ==
  ASSUME NEW a, IsSeq(a), NEW b, IsSeq(b)
  PROVE  Kept(a \o b) = Kept(a) \o Kept(b) /\ IsSeq(Kept(a)) /\ IsSeq(Kept(b))
<1> DEFINE c == a \o b
           x == KeptRow(a)
           y == KeptRow(b)
           z == KeptRow(c)
           m == Len(a)
           k == Len(b)
<1>1. /\ IsSeq(c) /\ m \in Nat /\ k \in Nat /\ Len(c) = m + k
      /\ \A i \in 1 .. m : c[i] = a[i]
      /\ \A i \in 1 .. k : c[m + i] = b[i]
  <2>1. IsSeq(a) /\ IsSeq(b)
    OBVIOUS
  <2>2. IsJoin(a \o b, a, b)
    BY ONLY <2>1, ConcatIsJoin
  <2> QED BY ONLY <2>2 DEF IsJoin
<1> HIDE DEF c
<1>2. DOMAIN a = 1 .. m /\ DOMAIN b = 1 .. k /\ DOMAIN c = 1 .. m + k
  BY <1>1, SeqFacts
<1>3. /\ IsSeq(x) /\ Len(x) = m /\ DOMAIN x = 1 .. m /\ (\A i \in 1 .. m : IsSeq(x[i]))
      /\ \A i \in 1 .. m : x[i] = IF HasTime(a[i]) THEN <<a[i]>> ELSE <<>>
  BY <1>2, KeptRowFacts
<1>4. /\ IsSeq(y) /\ Len(y) = k /\ DOMAIN y = 1 .. k /\ (\A i \in 1 .. k : IsSeq(y[i]))
      /\ \A i \in 1 .. k : y[i] = IF HasTime(b[i]) THEN <<b[i]>> ELSE <<>>
  BY <1>2, KeptRowFacts
<1>5. /\ IsSeq(z) /\ Len(z) = m + k
      /\ \A i \in 1 .. m + k : z[i] = IF HasTime(c[i]) THEN <<c[i]>> ELSE <<>>
  BY <1>1, <1>2, KeptRowFacts
<1> HIDE DEF x, y, z, m, k
<1>6. \A i \in 1 .. m : i \in 1 .. m + k /\ z[i] = x[i]
  BY <1>1, <1>3, <1>5
<1>7. ASSUME NEW i \in 1 .. k PROVE z[m + i] = y[i]
  <2>1. m + i \in 1 .. m + k
    BY <1>1
  <2>2. c[m + i] = b[i]
    BY <1>1
  <2>3. z[m + i] = IF HasTime(c[m + i]) THEN <<c[m + i]>> ELSE <<>>
    BY <1>5, <2>1
  <2> QED BY <1>4, <2>2, <2>3
<1>8. z = x \o y
  <2>1. /\ IsSeq(x) /\ IsSeq(y) /\ IsSeq(z) /\ Len(z) = Len(x) + Len(y)
        /\ \A i \in 1 .. Len(x) : z[i] = x[i]
        /\ \A i \in 1 .. Len(y) : z[Len(x) + i] = y[i]
    BY <1>3, <1>4, <1>5, <1>6, <1>7
  <2> QED BY ONLY <2>1, IsConcat
<1>9. FlattenSeq(x \o y) = FlattenSeq(x) \o FlattenSeq(y)
      /\ IsSeq(FlattenSeq(x)) /\ IsSeq(FlattenSeq(y))
  BY <1>3, <1>4, FlattenConcat, FlattenFacts
<1> QED BY <1>8, <1>9 DEF Kept, x, y, z, c

LEMMA NothingIsDropped == Kept(<<Nothing>>) = <<>>
<1> DEFINE e == <<Nothing>>
<1>1. IsSeq(e) /\ Len(e) = 1 /\ DOMAIN e = {1} /\ e[1] = Nothing
  BY SingleIsSeq
<1>2. ~HasTime(Nothing)
  BY DEF HasTime, Nothing
<1> HIDE DEF e
<1>3. KeptRow(e) = [i \in {1} |-> <<>>]
  BY <1>1, <1>2 DEF KeptRow
<1>4. KeptRow(e) = << <<>> >>
  BY <1>3
<1> QED BY <1>4, FlattenOne DEF Kept, e

LEMMA ReadIsKept ==
  ASSUME NEW e, NEW n
  PROVE  Read(e, n).events = EventsOf(Kept(e))
<1>1. Picked(e, {i \in DOMAIN e : HasTime(e[i])}) = Kept(e)
  <2> DEFINE row == [i \in DOMAIN e |-> IF i \in {j \in DOMAIN e : HasTime(e[j])}
                                        THEN <<e[i]>> ELSE <<>>]
  <2>1. row = KeptRow(e)
    BY DEF KeptRow
  <2> QED BY <2>1 DEF Picked, Kept
<1> QED BY <1>1, Zenon DEF Read, EventsOf

\* An entry that is no record, anywhere among others, is one more error and no event.
LEMMA CorruptEntry ==
  ASSUME NEW a, IsSeq(a), NEW b, IsSeq(b), NEW n, NEW k
  PROVE  LET r == Read((a \o <<Nothing>>) \o b, n)
             whole == Read(a \o b, k)
         IN  r.events = whole.events /\ r.errors = whole.errors + 1
<1> DEFINE one == <<Nothing>>
           x == a \o one
           y == x \o b
           z == a \o b
           r == Read(y, n)
           whole == Read(z, k)
<1>1. IsSeq(one) /\ Len(one) = 1
  BY SingleIsSeq
<1>2. Kept(one) = <<>>
  BY NothingIsDropped
<1> HIDE DEF one
<1>3. IsSeq(a) /\ IsSeq(b)
  OBVIOUS
<1>4. IsSeq(x) /\ Len(x) = Len(a) + Len(one) /\ Len(a) \in Nat /\ Len(b) \in Nat
  BY ONLY <1>1, <1>3, ConcatFacts
<1>5. Kept(x) = Kept(a) \o Kept(one) /\ IsSeq(Kept(a))
  BY ONLY <1>1, <1>3, KeptConcat
<1>6. Kept(x) = Kept(a)
  <2> DEFINE ka == Kept(a)
  <2>1. IsSeq(ka) /\ Kept(x) = ka \o <<>>
    BY <1>2, <1>5
  <2> HIDE DEF ka
  <2>2. ka \o <<>> = ka
    BY ONLY <2>1, ConcatWithEmpty
  <2> QED BY <2>1, <2>2 DEF ka
<1> HIDE DEF x
<1>7. /\ IsSeq(y) /\ Len(y) = Len(x) + Len(b) /\ Kept(y) = Kept(x) \o Kept(b)
  BY ONLY <1>3, <1>4, ConcatFacts, KeptConcat
<1>8. /\ IsSeq(z) /\ Len(z) = Len(a) + Len(b) /\ Kept(z) = Kept(a) \o Kept(b)
  BY ONLY <1>3, ConcatFacts, KeptConcat
<1> HIDE DEF y, z
<1>9. Kept(y) = Kept(z) /\ Len(y) = Len(z) + 1 /\ Len(z) \in Nat
  BY <1>1, <1>4, <1>6, <1>7, <1>8
<1>10. r.events = whole.events
  <2>1. r.events = EventsOf(Kept(y)) /\ whole.events = EventsOf(Kept(z))
    BY ReadIsKept
  <2> HIDE DEF r, whole
  <2> QED BY <1>9, <2>1
<1>11. /\ Len(r.events) + r.errors = Len(y) /\ r.errors \in Nat /\ IsSeq(r.events)
       /\ Len(whole.events) + whole.errors = Len(z) /\ whole.errors \in Nat
  BY <1>7, <1>8, ReadFacts
<1> HIDE DEF r, whole
<1>12. Len(r.events) \in Nat
  BY <1>11, SeqFacts
<1>13. r.errors = whole.errors + 1
  <2> DEFINE s == Len(r.events)
             e == r.errors
             f == whole.errors
             m == Len(y)
             q == Len(z)
  <2>1. s \in Nat /\ e \in Nat /\ f \in Nat /\ q \in Nat /\ m = q + 1 /\ s + e = m /\ s + f = q
    BY <1>9, <1>10, <1>11, <1>12
  <2> HIDE DEF s, e, f, m, q
  <2>2. e = f + 1
    BY <2>1
  <2> QED BY <2>2 DEF e, f
<1> QED BY <1>10, <1>13 DEF r, whole, y, z, x, one

\* A sequence, told by an element and what stands before and after it.
Around(c, a, one, b) ==
  /\ IsSeq(a) /\ IsSeq(one) /\ IsSeq(b) /\ IsSeq(c)
  /\ Len(one) = 1 /\ Len(c) = Len(a) + 1 + Len(b)
  /\ \A i \in 1 .. Len(a) : c[i] = a[i]
  /\ c[Len(a) + 1] = one[1]
  /\ \A i \in 1 .. Len(b) : c[Len(a) + 1 + i] = b[i]

LEMMA IsAround ==
  ASSUME NEW a, NEW one, NEW b, NEW c, Around(c, a, one, b)
  PROVE  c = (a \o one) \o b
<1> DEFINE x == a \o one
           m == Len(a)
           n == Len(b)
<1>1. IsSeq(one) /\ Len(one) = 1
  BY DEF Around
<1>2. IsSeq(a) /\ IsSeq(b) /\ IsSeq(c) /\ Len(c) = Len(a) + 1 + Len(b)
      /\ (\A i \in 1 .. Len(a) : c[i] = a[i]) /\ c[Len(a) + 1] = one[1]
      /\ \A i \in 1 .. Len(b) : c[Len(a) + 1 + i] = b[i]
  BY DEF Around
<1>3. /\ IsSeq(x) /\ Len(a) \in Nat /\ Len(x) = Len(a) + Len(one)
      /\ \A i \in 1 .. Len(a) : x[i] = a[i]
      /\ \A i \in 1 .. Len(one) : x[Len(a) + i] = one[i]
  <2>1. IsSeq(a) /\ IsSeq(one)
    BY <1>1, <1>2
  <2> QED BY ONLY <2>1, ConcatFacts
<1>4. Len(b) \in Nat
  BY <1>2, SeqFacts
<1> HIDE DEF x
<1>5. /\ m \in Nat /\ n \in Nat /\ Len(x) = m + 1
      /\ \A i \in 1 .. m : x[i] = c[i]
      /\ x[m + 1] = c[m + 1]
  BY <1>1, <1>2, <1>3, <1>4
<1> HIDE DEF m, n
<1>6. \A i \in 1 .. m + 1 : c[i] = x[i]
  BY <1>5
<1>7. /\ IsSeq(x) /\ IsSeq(b) /\ IsSeq(c) /\ Len(c) = Len(x) + Len(b)
      /\ \A i \in 1 .. Len(x) : c[i] = x[i]
      /\ \A i \in 1 .. Len(b) : c[Len(x) + i] = b[i]
  BY <1>2, <1>3, <1>5, <1>6 DEF m, n
<1>8. c = x \o b
  BY ONLY <1>7, IsConcat
<1> QED BY <1>8 DEF x

\* The elements of a sequence one by one, joined, are the sequence.
LEMMA JoinedOneByOne ==
  ASSUME NEW s, IsSeq(s), NEW row, row = [i \in DOMAIN s |-> <<s[i]>>]
  PROVE  IsSeq(row) /\ Len(row) = Len(s) /\ FlattenSeq(row) = s
         /\ \A i \in DOMAIN row : IsSeq(row[i])
<1> DEFINE n == Len(s)
           flat == FlattenSeq(row)
<1>1. n \in Nat /\ DOMAIN s = 1 .. n
  BY SeqFacts
<1>2. row = [i \in 1 .. n |-> row[i]] /\ \A i \in 1 .. n : row[i] = <<s[i]>>
  BY <1>1
<1> HIDE DEF n
<1>3. IsSeq(row) /\ Len(row) = n /\ DOMAIN row = 1 .. n
  BY <1>1, <1>2, FunctionIsSeq
<1>4. \A i \in DOMAIN row : IsSeq(row[i]) /\ Len(row[i]) = 1 /\ row[i][1] = s[i]
  BY <1>2, <1>3, SingleIsSeq
<1>5. IsSeq(flat) /\ Len(flat) = Len(row) /\ \A i \in DOMAIN row : flat[i] = row[i][1]
  <2>1. IsSeq(row) /\ \A i \in DOMAIN row : IsSeq(row[i]) /\ Len(row[i]) = 1
    BY <1>3, <1>4
  <2> QED BY ONLY <2>1, SinglesFacts
<1> HIDE DEF flat
<1>6. IsSeq(s) /\ IsSeq(flat) /\ Len(flat) = Len(s) /\ \A i \in 1 .. Len(flat) : flat[i] = s[i]
  BY <1>3, <1>4, <1>5 DEF n
<1>7. flat = s
  BY ONLY <1>6, SameSeq
<1> QED BY <1>3, <1>4, <1>7 DEF flat, n

\* A sequence without one of its elements is what stands before and after it.
Parts(s, g, a, b) ==
  /\ IsSeq(a) /\ IsSeq(b) /\ Len(s) = Len(a) + 1 + Len(b) /\ Len(a) = g - 1
  /\ \A i \in DOMAIN a : i \in DOMAIN s \ {g} /\ a[i] = s[i]
  /\ \A i \in DOMAIN b : g + i \in DOMAIN s \ {g} /\ b[i] = s[g + i]
  /\ s = (a \o <<s[g]>>) \o b
  /\ Picked(s, DOMAIN s \ {g}) = a \o b

LEMMA Without ==
  ASSUME NEW s, IsSeq(s), NEW g \in DOMAIN s
  PROVE  \E a, b : Parts(s, g, a, b)
<1> DEFINE n == Len(s)
           m == g - 1
           a == SubSeq(s, 1, g - 1)
           b == SubSeq(s, g + 1, Len(s))
<1>1. n \in Nat /\ DOMAIN s = 1 .. n
  BY SeqFacts
<1>2. g \in 1 .. n /\ m \in Nat /\ g = m + 1 /\ m <= n /\ g <= n /\ g \in Nat
  BY <1>1
<1>3. IsSeq(a) /\ Len(a) = m /\ \A i \in 1 .. m : a[i] = s[i]
  <2> DEFINE u == SubSeq(s, 0 + 1, m)
  <2>1. IsSeq(u) /\ Len(u) = m - 0 /\ \A i \in 1 .. m - 0 : u[i] = s[0 + i]
    <3> HIDE DEF m
    <3>1. IsSeq(s) /\ 0 \in Nat /\ m \in Nat /\ 0 <= m /\ m <= Len(s)
      BY <1>1, <1>2 DEF n
    <3>2. IsPiece(u, s, 0, m)
      BY ONLY <3>1, SubSeqIsPiece
    <3> QED BY ONLY <3>2 DEF IsPiece
  <2>2. a = u
    OBVIOUS
  <2> HIDE DEF u, m
  <2>3. Len(u) = m /\ \A i \in 1 .. m : u[i] = s[i]
    BY <1>2, <2>1
  <2> QED BY <2>1, <2>2, <2>3
<1>4. IsSeq(b) /\ Len(b) = n - g /\ \A i \in 1 .. n - g : b[i] = s[g + i]
  BY <1>1, <1>2, PieceFacts
<1> HIDE DEF a, b, n, m
<1>5. DOMAIN a = 1 .. m /\ DOMAIN b = 1 .. n - g
  BY <1>3, <1>4, SeqFacts
<1>6. /\ Len(s) = Len(a) + 1 + Len(b) /\ Len(a) = g - 1
      /\ \A i \in DOMAIN a : i \in DOMAIN s \ {g} /\ a[i] = s[i]
      /\ \A i \in DOMAIN b : g + i \in DOMAIN s \ {g} /\ b[i] = s[g + i]
  <2>1. Len(s) = n
    BY DEF n
  <2> QED BY <1>1, <1>2, <1>3, <1>4, <1>5, <2>1
<1>7. s = (a \o <<s[g]>>) \o b
  <2>1. /\ IsSeq(a) /\ IsSeq(b) /\ IsSeq(s) /\ Len(s) = Len(a) + 1 + Len(b)
        /\ \A i \in 1 .. Len(a) : s[i] = a[i]
        /\ s[Len(a) + 1] = s[g]
        /\ \A i \in 1 .. Len(b) : s[Len(a) + 1 + i] = b[i]
    BY <1>2, <1>3, <1>4, <1>6
  <2> DEFINE one == <<s[g]>>
  <2>2. IsSeq(one) /\ Len(one) = 1 /\ one[1] = s[g]
    BY SingleIsSeq
  <2> HIDE DEF one
  <2>3. s[Len(a) + 1] = one[1]
    BY <2>1, <2>2
  <2>4. Around(s, a, one, b)
    BY <2>1, <2>2, <2>3 DEF Around
  <2>5. s = (a \o one) \o b
    BY ONLY <2>4, IsAround
  <2> QED BY <2>5 DEF one
<1>8. Picked(s, DOMAIN s \ {g}) = a \o b
  <2> DEFINE row == [i \in DOMAIN s |-> IF i \in DOMAIN s \ {g} THEN <<s[i]>> ELSE <<>>]
             ra == [i \in DOMAIN a |-> <<a[i]>>]
             rb == [i \in DOMAIN b |-> <<b[i]>>]
             none == << <<>> >>
             x == ra \o none
  <2>1. /\ IsSeq(ra) /\ Len(ra) = m /\ FlattenSeq(ra) = a /\ \A i \in DOMAIN ra : IsSeq(ra[i])
    BY <1>3, JoinedOneByOne
  <2>2. /\ IsSeq(rb) /\ Len(rb) = n - g /\ FlattenSeq(rb) = b
        /\ \A i \in DOMAIN rb : IsSeq(rb[i])
    BY <1>4, JoinedOneByOne
  <2>3. /\ IsSeq(none) /\ Len(none) = 1 /\ DOMAIN none = {1} /\ none[1] = <<>>
        /\ FlattenSeq(none) = <<>>
    BY SingleIsSeq, FlattenOne
  <2>4. row = [i \in 1 .. n |-> row[i]] /\ row[g] = <<>>
        /\ (\A i \in 1 .. m : row[i] = ra[i]) /\ \A i \in 1 .. n - g : row[g + i] = rb[i]
    BY <1>1, <1>2, <1>5, <1>6
  <2>5. Picked(s, DOMAIN s \ {g}) = FlattenSeq(row)
    BY DEF Picked
  <2> HIDE DEF row, ra, rb, none
  <2>6. IsSeq(row) /\ Len(row) = n
    BY <1>1, <2>4, FunctionIsSeq
  <2>7. row = (ra \o none) \o rb
    <3>1. /\ IsSeq(ra) /\ IsSeq(rb) /\ IsSeq(row) /\ Len(row) = Len(ra) + 1 + Len(rb)
          /\ \A i \in 1 .. Len(ra) : row[i] = ra[i]
          /\ row[Len(ra) + 1] = <<>>
          /\ \A i \in 1 .. Len(rb) : row[Len(ra) + 1 + i] = rb[i]
      <4>1. Len(row) = Len(ra) + 1 + Len(rb)
        BY <1>1, <1>2, <2>1, <2>2, <2>6
      <4>2. row[Len(ra) + 1] = <<>>
        BY <1>2, <2>1, <2>4
      <4>3. \A i \in 1 .. Len(rb) : row[Len(ra) + 1 + i] = rb[i]
        BY <1>2, <2>1, <2>2, <2>4
      <4>4. \A i \in 1 .. Len(ra) : row[i] = ra[i]
        BY <2>1, <2>4
      <4> QED BY <2>1, <2>2, <2>6, <4>1, <4>2, <4>3, <4>4
    <3>2. IsSeq(none) /\ Len(none) = 1 /\ row[Len(ra) + 1] = none[1]
      BY <2>3, <3>1
    <3>3. Around(row, ra, none, rb)
      BY <3>1, <3>2 DEF Around
    <3> QED BY ONLY <3>3, IsAround
  <2>8. row = x \o rb
    BY <2>7
  <2>9. IsSeq(x) /\ \A i \in DOMAIN x : IsSeq(x[i])
    <3>1. /\ IsSeq(x) /\ Len(ra) \in Nat /\ Len(none) \in Nat /\ Len(x) = Len(ra) + Len(none)
          /\ \A i \in 1 .. Len(ra) : x[i] = ra[i]
          /\ \A i \in 1 .. Len(none) : x[Len(ra) + i] = none[i]
      <4>1. IsSeq(ra) /\ IsSeq(none)
        BY <2>1, <2>3
      <4> QED BY ONLY <4>1, ConcatFacts
    <3> HIDE DEF x
    <3>2. DOMAIN x = 1 .. m + 1 /\ DOMAIN ra = 1 .. m
      BY <2>1, <2>3, <3>1, SeqFacts
    <3>3. \A i \in 1 .. m : IsSeq(x[i])
      BY <2>1, <3>1, <3>2
    <3>4. x[m + 1] = <<>>
      BY <2>1, <2>3, <3>1
    <3>5. \A i \in 1 .. m + 1 : IsSeq(x[i])
      BY <1>2, <3>3, <3>4, EmptyIsSeq
    <3> QED BY <3>1, <3>2, <3>5
  <2>10. FlattenSeq(x) = a
    <3>1. FlattenSeq(x) = FlattenSeq(ra) \o FlattenSeq(none)
      <4>1. /\ IsSeq(ra) /\ (\A i \in DOMAIN ra : IsSeq(ra[i]))
            /\ IsSeq(none) /\ \A i \in DOMAIN none : IsSeq(none[i])
        BY <2>1, <2>3, EmptyIsSeq
      <4> QED BY ONLY <4>1, FlattenConcat
    <3> QED BY <1>3, <2>1, <2>3, <3>1, ConcatWithEmpty
  <2> HIDE DEF x
  <2>11. FlattenSeq(row) = FlattenSeq(x) \o FlattenSeq(rb)
    <3>1. FlattenSeq(x \o rb) = FlattenSeq(x) \o FlattenSeq(rb)
      BY ONLY <2>2, <2>9, FlattenConcat
    <3> QED BY <2>8, <3>1
  <2> QED BY <2>2, <2>5, <2>10, <2>11
<1>9. Parts(s, g, a, b)
  BY <1>3, <1>4, <1>6, <1>7, <1>8 DEF Parts
<1> QED BY <1>9

\* What is left of lines without one of them are the others.
LEMMA OthersAreLeft ==
  ASSUME NEW s, Lines(s), NEW g \in DOMAIN s
  PROVE  LET good == Picked(s, DOMAIN s \ {g})
         IN  /\ Lines(good) /\ Len(s) = Len(good) + 1
             /\ \A i \in DOMAIN s \ {g} : \E j \in DOMAIN good : good[j] = s[i]
<1> DEFINE good == Picked(s, DOMAIN s \ {g})
           n == Len(s)
<1>1. IsSeq(s) /\ n \in Nat /\ DOMAIN s = 1 .. n /\ \A i \in DOMAIN s : IsLine(s[i])
  BY SeqFacts DEF Lines
<1>2. PICK a, b : Parts(s, g, a, b)
  BY <1>1, Without
<1>3. /\ IsSeq(a) /\ IsSeq(b) /\ Len(s) = Len(a) + 1 + Len(b) /\ Len(a) = g - 1
      /\ \A i \in DOMAIN a : i \in DOMAIN s \ {g} /\ a[i] = s[i]
      /\ \A i \in DOMAIN b : g + i \in DOMAIN s \ {g} /\ b[i] = s[g + i]
      /\ good = a \o b
  BY <1>2 DEF Parts
<1> DEFINE m == Len(a)
           k == Len(b)
           c == a \o b
<1>4. IsSeq(a) /\ IsSeq(b)
  BY <1>3
<1>5. /\ IsSeq(c) /\ m \in Nat /\ k \in Nat /\ Len(c) = m + k
      /\ \A i \in 1 .. m : c[i] = a[i]
      /\ \A i \in 1 .. k : c[m + i] = b[i]
  BY ONLY <1>4, ConcatFacts
<1>6. good = c /\ n = m + 1 + k /\ m = g - 1 /\ g \in 1 .. n
  BY <1>1, <1>3
<1>7. DOMAIN a = 1 .. m /\ DOMAIN b = 1 .. k
  BY <1>4, SeqFacts
<1> HIDE DEF c, n, m, k, good
<1>8. DOMAIN good = 1 .. m + k
  BY <1>5, <1>6, SeqFacts
<1>9. ASSUME NEW j \in DOMAIN good PROVE IsLine(good[j])
  <2>1. CASE j \in 1 .. m
    BY <1>1, <1>3, <1>5, <1>6, <1>7, <2>1
  <2>2. CASE j \notin 1 .. m
    <3>1. j - m \in 1 .. k /\ m + (j - m) = j
      BY <1>5, <1>8, <2>2
    <3>2. c[m + (j - m)] = b[j - m]
      BY <1>5, <3>1
    <3>3. g + (j - m) \in DOMAIN s /\ b[j - m] = s[g + (j - m)]
      BY <1>3, <1>7, <3>1
    <3> QED BY <1>1, <1>6, <3>1, <3>2, <3>3
  <2> QED BY <2>1, <2>2
<1>10. ASSUME NEW i \in DOMAIN s \ {g} PROVE \E j \in DOMAIN good : good[j] = s[i]
  <2>1. CASE i < g
    <3>1. i \in 1 .. m /\ i \in 1 .. m + k
      BY <1>1, <1>5, <1>6, <2>1
    <3> QED BY <1>3, <1>5, <1>6, <1>7, <1>8, <3>1
  <2>2. CASE ~(i < g)
    <3>0. /\ m \in Nat /\ k \in Nat /\ n = m + 1 + k /\ g = m + 1
          /\ i \in 1 .. n /\ i # g /\ ~(i < g)
      BY <1>1, <1>5, <1>6, <2>2
    <3>1. i - g \in 1 .. k /\ g + (i - g) = i /\ m + (i - g) \in 1 .. m + k
      BY ONLY <3>0
    <3>2. \A h \in 1 .. k : c[m + h] = b[h] /\ b[h] = s[g + h]
      BY <1>3, <1>5, <1>7
    <3>3. c[m + (i - g)] = b[i - g] /\ b[i - g] = s[g + (i - g)]
      BY ONLY <3>1, <3>2
    <3> QED BY <1>6, <1>8, <3>1, <3>3
  <2> QED BY <2>1, <2>2
<1>11. IsSeq(good) /\ Len(s) = Len(good) + 1
  BY <1>5, <1>6 DEF n
<1>12. Lines(good)
  BY <1>9, <1>11 DEF Lines
<1> QED BY <1>10, <1>11, <1>12, Zenon DEF good

\* A row of views, joined, is that of the first lines and that of the others.
InParts(reader, a, b, c) ==
  /\ reader.format \in Readers \cup {"inferred"} /\ reader.format # "raw_lines"
  /\ Lines(a) /\ Lines(b) /\ Lines(c) /\ c = a \o b

LEMMA ViewsConcat ==
  ASSUME NEW reader, NEW a, NEW b, NEW c, InParts(reader, a, b, c)
  PROVE  /\ IsSeq(FlattenSeq(Views(reader, a))) /\ IsSeq(FlattenSeq(Views(reader, b)))
         /\ FlattenSeq(Views(reader, c))
              = FlattenSeq(Views(reader, a)) \o FlattenSeq(Views(reader, b))
<1> DEFINE x == Views(reader, a)
           y == Views(reader, b)
           z == Views(reader, c)
           m == Len(a)
           k == Len(b)
           d == a \o b
<1>1. /\ reader.format \in Readers \cup {"inferred"} /\ reader.format # "raw_lines"
      /\ Lines(a) /\ Lines(b) /\ Lines(c) /\ c = a \o b
  BY DEF InParts
<1>2. IsSeq(a) /\ IsSeq(b) /\ IsSeq(c)
  BY <1>1 DEF Lines
<1>3. /\ m \in Nat /\ k \in Nat /\ Len(d) = m + k
      /\ \A i \in 1 .. m : d[i] = a[i]
      /\ \A i \in 1 .. k : d[m + i] = b[i]
  <2>1. Len(a) \in Nat /\ Len(b) \in Nat /\ Len(a \o b) = Len(a) + Len(b)
    BY ONLY <1>2, ConcatFacts
  <2>2. ASSUME NEW i \in 1 .. Len(a) PROVE (a \o b)[i] = a[i]
    BY ONLY <1>2, <2>2, ConcatFacts
  <2>3. ASSUME NEW i \in 1 .. Len(b) PROVE (a \o b)[Len(a) + i] = b[i]
    BY ONLY <1>2, <2>3, ConcatFacts
  <2> QED BY <2>1, <2>2, <2>3
<1>4. c = d /\ DOMAIN a = 1 .. m /\ DOMAIN b = 1 .. k
  BY <1>1, <1>2, SeqFacts
<1> HIDE DEF d
<1>5. /\ IsSeq(x) /\ Len(x) = m /\ DOMAIN x = 1 .. m
      /\ \A i \in 1 .. m : x[i] = View(reader, a[i]) /\ IsSeq(x[i])
  BY <1>1, <1>2, <1>4, ViewsFacts DEF Lines
<1>6. /\ IsSeq(y) /\ Len(y) = k /\ DOMAIN y = 1 .. k
      /\ \A i \in 1 .. k : y[i] = View(reader, b[i]) /\ IsSeq(y[i])
  BY <1>1, <1>2, <1>4, ViewsFacts DEF Lines
<1>7. DOMAIN c = 1 .. m + k
  BY <1>2, <1>3, <1>4, SeqFacts
<1>8. /\ IsSeq(z) /\ Len(z) = m + k
      /\ \A i \in 1 .. m + k : z[i] = View(reader, c[i])
  BY <1>1, <1>2, <1>3, <1>4, <1>7, ViewsFacts DEF Lines
<1> HIDE DEF x, y, z, m, k
<1>9. z = x \o y
  <2>1. ASSUME NEW i \in 1 .. m PROVE z[i] = x[i]
    BY <1>3, <1>4, <1>5, <1>8
  <2>2. ASSUME NEW i \in 1 .. k PROVE z[m + i] = y[i]
    <3>1. m + i \in 1 .. m + k /\ c[m + i] = b[i]
      BY <1>3, <1>4
    <3> QED BY <1>6, <1>8, <3>1
  <2>3. /\ IsSeq(x) /\ IsSeq(y) /\ IsSeq(z) /\ Len(z) = Len(x) + Len(y)
        /\ \A i \in 1 .. Len(x) : z[i] = x[i]
        /\ \A i \in 1 .. Len(y) : z[Len(x) + i] = y[i]
    BY <1>5, <1>6, <1>8, <2>1, <2>2
  <2> QED BY ONLY <2>3, IsConcat
<1>10. /\ IsSeq(x) /\ (\A i \in DOMAIN x : IsSeq(x[i]))
      /\ IsSeq(y) /\ (\A i \in DOMAIN y : IsSeq(y[i]))
  BY <1>5, <1>6
<1>11. FlattenSeq(x \o y) = FlattenSeq(x) \o FlattenSeq(y)
  BY ONLY <1>10, FlattenConcat
<1>12. IsSeq(FlattenSeq(x)) /\ IsSeq(FlattenSeq(y))
  BY <1>10, FlattenFacts
<1> QED BY <1>9, <1>11, <1>12 DEF x, y, z

\* A line the reader makes nothing of, among lines read one by one: the events are those of
\* the other lines, and there is one more error.
NothingAt(reader, s, g) ==
  /\ reader.format \in Readers \cup {"inferred"} /\ reader.format # "raw_lines"
  /\ Lines(s) /\ g \in DOMAIN s /\ View(reader, s[g]) = <<Nothing>>

LEMMA CorruptLine ==
  ASSUME NEW reader, NEW s, NEW g, NothingAt(reader, s, g), NEW n, NEW k
  PROVE  LET r == Read(FlattenSeq(Views(reader, s)), n)
             whole == Read(FlattenSeq(Views(reader, Picked(s, DOMAIN s \ {g}))), k)
         IN  r.events = whole.events /\ r.errors = whole.errors + 1
<1> DEFINE good == Picked(s, DOMAIN s \ {g})
           one == <<s[g]>>
           F(lines) == FlattenSeq(Views(reader, lines))
<1>1. /\ reader.format \in Readers \cup {"inferred"} /\ reader.format # "raw_lines"
      /\ Lines(s) /\ g \in DOMAIN s /\ View(reader, s[g]) = <<Nothing>>
  BY DEF NothingAt
<1>2. IsSeq(s) /\ \A i \in DOMAIN s : IsLine(s[i])
  BY <1>1 DEF Lines
<1>3. PICK a, b : Parts(s, g, a, b)
  BY <1>2, <1>1, Without
<1>4. /\ IsSeq(a) /\ IsSeq(b)
      /\ \A i \in DOMAIN a : i \in DOMAIN s \ {g} /\ a[i] = s[i]
      /\ \A i \in DOMAIN b : g + i \in DOMAIN s \ {g} /\ b[i] = s[g + i]
      /\ s = (a \o one) \o b
      /\ good = a \o b
  BY <1>3 DEF Parts
<1> DEFINE x == a \o one
<1>5. IsSeq(one) /\ Len(one) = 1 /\ DOMAIN one = {1} /\ one[1] = s[g]
  BY SingleIsSeq
<1>6. Lines(a) /\ Lines(b) /\ Lines(one) /\ Lines(good)
  <2>1. Lines(good)
    BY <1>1, OthersAreLeft
  <2>2. Lines(a) /\ Lines(b)
    BY <1>2, <1>4 DEF Lines
  <2> HIDE DEF one
  <2>3. Lines(one)
    BY <1>2, <1>5, <1>1 DEF Lines
  <2> QED BY <2>1, <2>2, <2>3
<1>7. F(one) = <<Nothing>>
  <2>1. Views(reader, one) = [i \in {1} |-> View(reader, one[1])]
    <3> HIDE DEF one
    <3> QED BY <1>5 DEF Views
  <2>2. Views(reader, one) = << <<Nothing>> >>
    BY <1>5, <1>1, <2>1
  <2> QED BY <2>2, FlattenOne
<1>8. Lines(x)
  <2>1. IsSeq(a) /\ IsSeq(one)
    BY <1>4, <1>5
  <2> HIDE DEF one
  <2> DEFINE m == Len(a)
  <2>2. /\ IsSeq(x) /\ m \in Nat /\ Len(x) = m + Len(one)
        /\ \A i \in 1 .. m : x[i] = a[i]
        /\ \A i \in 1 .. Len(one) : x[m + i] = one[i]
    <3>1. IsJoin(a \o one, a, one)
      BY ONLY <2>1, ConcatIsJoin
    <3> QED BY ONLY <3>1 DEF IsJoin
  <2> HIDE DEF x, one, m
  <2>3. DOMAIN x = 1 .. m + 1 /\ DOMAIN a = 1 .. m
    BY <1>5, <2>1, <2>2, SeqFacts DEF m
  <2>4. ASSUME NEW i \in 1 .. m + 1 PROVE IsLine(x[i])
    <3>1. CASE i \in 1 .. m
      BY <1>6, <2>2, <2>3, <3>1 DEF Lines
    <3>2. CASE i \notin 1 .. m
      <4>1. i = m + 1 /\ 1 \in 1 .. Len(one)
        BY <1>5, <2>2, <3>2
      <4> QED BY <1>2, <1>5, <1>1, <2>2, <4>1
    <3> QED BY <3>1, <3>2
  <2> QED BY <2>2, <2>3, <2>4 DEF Lines
<1> HIDE DEF one, good
<1>9. F(x) = F(a) \o F(one) /\ IsSeq(F(a))
  <2>1. InParts(reader, a, one, x)
    BY <1>6, <1>8, <1>1 DEF InParts
  <2> HIDE DEF x
  <2> QED BY ONLY <2>1, ViewsConcat
<1>10. F(s) = F(x) \o F(b) /\ IsSeq(F(b))
  <2>1. InParts(reader, x, b, s)
    BY <1>4, <1>6, <1>8, <1>1 DEF InParts
  <2> HIDE DEF x
  <2> QED BY ONLY <2>1, ViewsConcat
<1>11. F(good) = F(a) \o F(b)
  <2>1. InParts(reader, a, b, good)
    BY <1>4, <1>6, <1>1 DEF InParts
  <2> QED BY ONLY <2>1, ViewsConcat
<1> HIDE DEF x
<1> DEFINE fa == F(a)
           fb == F(b)
<1>12. IsSeq(fa) /\ IsSeq(fb) /\ F(s) = (fa \o <<Nothing>>) \o fb /\ F(good) = fa \o fb
  BY <1>7, <1>9, <1>10, <1>11
<1> HIDE DEF fa, fb
<1>13. LET r == Read((fa \o <<Nothing>>) \o fb, n)
           whole == Read(fa \o fb, k)
       IN  r.events = whole.events /\ r.errors = whole.errors + 1
  BY <1>12, CorruptEntry
<1> QED BY <1>12, <1>13 DEF good

\* A file whose head holds a record of the format, and which does not look like a list to a
\* reader that looks, is read line by line.
LEMMA RecordMakesLines ==
  ASSUME NEW f \in {"json_lines", "loki", "otlp", "elastic"}, NEW file, Lines(file.lines),
         file.lines # <<>>, file.lines[1].kind = "bracket" => f \notin {"loki", "otlp"},
         \A i \in DOMAIN file.lines : file.lines[i].kind # "hits",
         \E i \in DOMAIN file.lines : i <= LayoutSample /\ file.lines[i].kind \in Records(f)
  PROVE  ~IsDocument(f, file)
<1> DEFINE s == file.lines
           head == First(s, LayoutSample)
<1>1. LayoutSample \in Nat /\ IsSeq(s) /\ Len(s) \in Nat /\ DOMAIN s = 1 .. Len(s)
  BY AdaptersAssumption, SeqFacts DEF Lines
<1>2. /\ Lines(head) /\ IsSeq(head)
      /\ Len(head) = (IF LayoutSample < Len(s) THEN LayoutSample ELSE Len(s))
      /\ \A i \in DOMAIN head : i \in DOMAIN s /\ head[i] = s[i]
  BY <1>1, FirstFacts, FirstLines
<1>3. PICK i \in DOMAIN s : i <= LayoutSample /\ s[i].kind \in Records(f)
  OBVIOUS
<1>4. /\ s # <<>>
      /\ s[1].kind = "bracket" => f \notin {"loki", "otlp"}
      /\ \A j \in DOMAIN s : s[j].kind # "hits"
  OBVIOUS
<1>5. IsDocument(f, file) <=>
        CASE f \in {"loki", "otlp"} -> ~(/\ s # <<>> /\ s[1].kind # "bracket"
                                         /\ Of(head, PerLine(f)) > 0)
          [] f = "elastic" -> head # <<>> /\ (Of(head, {"hits"}) > 0 \/ Of(head, ObjectKinds) = 0)
          [] OTHER -> FALSE
  BY DEF IsDocument, LinesByHead, ElasticIsDocument
<1> HIDE DEF s, head
<1>6. DOMAIN head = 1 .. Len(head)
  BY <1>2, SeqFacts
<1>7. i \in DOMAIN head /\ head[i].kind \in Records(f)
  BY <1>1, <1>2, <1>3, <1>6
<1>8. Of(head, {"hits"}) = 0
  BY <1>2, <1>4, OfFacts
<1>9. CASE f = "json_lines"
  BY <1>5, <1>9
<1>10. CASE f \in {"loki", "otlp"}
  <2>1. Records(f) = PerLine(f)
    BY <1>10 DEF Records, PerLine
  <2>2. Of(head, PerLine(f)) > 0
    BY <1>2, <1>7, <2>1, OfFacts
  <2> QED BY <1>4, <1>5, <1>10, <2>2
<1>11. CASE f = "elastic"
  <2>1. head[i].kind \in ObjectKinds
    BY <1>7, <1>11 DEF Records, ObjectKinds
  <2>2. Of(head, ObjectKinds) > 0
    BY <1>2, <1>7, <2>1, OfFacts
  <2> QED BY <1>5, <1>8, <1>11, <2>2
<1> QED BY <1>9, <1>10, <1>11

\* Reading a file with one corrupt line, and reading it without.
OneIsCorrupt(reader, file, good) ==
  /\ reader.format \in Readers \cup {"inferred"} /\ IsFile(file)
  /\ ~OpensLikeAList(reader.format, file)
  /\ Cardinality(Garbled(file)) = 1
  /\ good = Picked(file.lines, DOMAIN file.lines \ Garbled(file)) /\ Len(good) > 1
  /\ \A j \in DOMAIN good : good[j].kind \in Records(reader.format)

LEMMA CorruptFile ==
  ASSUME NEW reader, NEW file, NEW good, OneIsCorrupt(reader, file, good)
  PROVE  LET r == Reading(reader, file)
             whole == Reading(reader, [file EXCEPT !.lines = good])
         IN  r.errors = whole.errors + 1 /\ r.events = whole.events
<1> DEFINE s == file.lines
           n == Len(s)
           f == reader.format
           other == [file EXCEPT !.lines = good]
<1>1. /\ IsFile(file) /\ Cardinality(Garbled(file)) = 1 /\ Len(good) > 1
      /\ good = Picked(s, DOMAIN s \ Garbled(file))
      /\ \A j \in DOMAIN good : good[j].kind \in Records(f)
      /\ s # <<>> /\ s[1].kind = "bracket" => f \notin {"loki", "otlp"}
  BY DEF OneIsCorrupt, OpensLikeAList
<1>2. IsSeq(s) /\ n \in Nat /\ DOMAIN s = 1 .. n /\ Lines(s)
  BY <1>1, FileFacts DEF Lines
<1>3. PICK g : Garbled(file) = {g}
  <2>1. Garbled(file) \in SUBSET DOMAIN s
    BY DEF Garbled
  <2>2. IsFiniteSet(Garbled(file))
    BY <1>2, <2>1, CountFacts
  <2> QED BY <1>1, <2>2, FS_Singleton
<1>4. g \in DOMAIN s /\ s[g].kind \in {"text", "bracket"} /\ good = Picked(s, DOMAIN s \ {g})
  BY <1>1, <1>3 DEF Garbled
<1>5. Lines(good) /\ n = Len(good) + 1
      /\ \A i \in DOMAIN s \ {g} : \E j \in DOMAIN good : good[j] = s[i]
  <2> DEFINE left == Picked(s, DOMAIN s \ {g})
  <2>1. /\ Lines(left) /\ Len(s) = Len(left) + 1
        /\ \A i \in DOMAIN s \ {g} : \E j \in DOMAIN left : left[j] = s[i]
    <3> HIDE DEF s
    <3> QED BY <1>2, <1>4, OthersAreLeft, Zenon
  <2>2. good = left
    BY <1>4
  <2> HIDE DEF left
  <2> QED BY <2>1, <2>2
<1>6. IsSeq(good) /\ Len(good) \in Nat /\ DOMAIN good = 1 .. Len(good) /\ Len(good) > 1
  BY <1>1, <1>5, SeqFacts DEF Lines
<1>7. \A j \in DOMAIN good : good[j].kind \in Records(f)
  BY <1>1
<1>8. f \in {"json_lines", "loki", "otlp", "elastic"}
  <2>1. 1 \in DOMAIN good
    BY <1>6
  <2>2. Records(f) # {}
    BY <1>7, <2>1
  <2> QED BY <2>2 DEF Records
<1>9. View(reader, s[g]) = <<Nothing>>
  <2> DEFINE line == s[g]
  <2>1. line.kind \in {"text", "bracket"}
    BY <1>4
  <2> HIDE DEF line
  <2>2. /\ JsonView(line) = <<Nothing>> /\ LokiView(line) = <<Nothing>>
        /\ OtlpView(line) = <<Nothing>> /\ ElasticView(line) = <<Nothing>>
    BY <2>1 DEF JsonView, LokiView, OtlpView, ElasticView
  <2>3. View(reader, line) \in
          {JsonView(line), LokiView(line), OtlpView(line), ElasticView(line)}
    BY <1>8 DEF View
  <2> QED BY <2>2, <2>3 DEF line
<1>10. other.lines = good
  BY <1>1 DEF IsFile
<1>11. \A k \in Records(f) : k # "bracket" /\ k # "hits"
  BY <1>8 DEF Records
<1>12. \A i \in DOMAIN s : s[i].kind # "hits" /\ (i # g => s[i].kind \in Records(f))
  BY <1>4, <1>5, <1>7, <1>11
<1>13. LayoutSample \in Nat /\ LayoutSample > 1
  BY AdaptersAssumption, SourcesAssumption
<1>14. ~IsDocument(f, file)
  <2>1. 1 \in DOMAIN s /\ 2 \in DOMAIN s /\ s # <<>>
    BY <1>2, <1>5, <1>6, SeqFacts
  <2>2. \E i \in DOMAIN s : i <= LayoutSample /\ s[i].kind \in Records(f)
    <3>1. CASE g = 1
      BY <1>12, <1>13, <2>1, <3>1
    <3>2. CASE g # 1
      BY <1>12, <1>13, <2>1, <3>2
    <3> QED BY <3>1, <3>2
  <2> QED BY <1>1, <1>2, <1>8, <1>12, <2>1, <2>2, RecordMakesLines
<1> HIDE DEF other, s, n, f
<1>15. ~IsDocument(f, other)
  <2>1. 1 \in DOMAIN good /\ good # <<>>
    BY <1>6, SeqFacts
  <2>2. good[1].kind # "bracket" /\ \A i \in DOMAIN good : good[i].kind # "hits"
    BY <1>7, <1>11, <2>1
  <2>3. \E i \in DOMAIN good : i <= LayoutSample /\ good[i].kind \in Records(f)
    <3>1. good[1].kind \in Records(f) /\ 1 <= LayoutSample
      BY <1>7, <1>13, <2>1 DEF f
    <3> QED BY <2>1, <3>1
  <2> QED BY <1>5, <1>8, <1>10, <2>1, <2>2, <2>3, RecordMakesLines
<1>16. f # "raw_lines" /\ f = reader.format
  BY <1>8 DEF f
<1> DEFINE k == Len(good)
           r == Read(FlattenSeq(Views(reader, s)), n)
           whole == Read(FlattenSeq(Views(reader, good)), k)
<1>17. Reading(reader, file) = r
  BY <1>14, <1>16 DEF Reading, ReadLines, Views, s, n
<1>18. Reading(reader, other) = whole
  BY <1>10, <1>15, <1>16 DEF Reading, ReadLines, Views
<1>19. r.events = whole.events /\ r.errors = whole.errors + 1
  <2> DEFINE left == Picked(s, DOMAIN s \ {g})
             rest == Read(FlattenSeq(Views(reader, left)), k)
  <2>1. reader.format \in Readers \cup {"inferred"} /\ reader.format # "raw_lines"
    BY <1>8, <1>16 DEF f, Readers
  <2>2. NothingAt(reader, s, g)
    BY <1>2, <1>4, <1>9, <2>1 DEF NothingAt
  <2>3. r.events = rest.events /\ r.errors = rest.errors + 1
    BY ONLY <2>2, CorruptLine
  <2>4. left = good
    BY <1>4
  <2> HIDE DEF left
  <2> QED BY <2>3, <2>4
<1> HIDE DEF r, whole
<1> QED BY <1>17, <1>18, <1>19 DEF other

\* One corrupt line among the records of a file costs one error and no record of the other
\* lines, unless it opens a Loki or an OTLP file with a bracket.
THEOREM CorruptLineIsOneError == Spec => []CorruptLineCostsOneError
<1>1. SelectInv => CorruptLineCostsOneError
  <2> SUFFICES ASSUME SelectInv, NEW i \in DOMAIN members,
                      OneCorruptLine(members[i].format, source.files[members[i].file]),
                      ~OpensLikeAList(members[i].format, source.files[members[i].file])
               PROVE  CostsOneError(Reader(members[i]), source.files[members[i].file])
    BY DEF CorruptLineCostsOneError
  <2> DEFINE m == members[i]
             file == source.files[m.file]
             reader == Reader(m)
  <2>1. IsMember(m) /\ IsFile(file)
    BY MemberLinesFacts
  <2>2. reader.format = m.format /\ m.format \in Readers \cup {"inferred"}
    BY <2>1 DEF Reader, IsMember
  <2>3. OneCorruptLine(m.format, file) /\ ~OpensLikeAList(m.format, file)
    OBVIOUS
  <2> HIDE DEF m, file, reader
  <2>4. OneIsCorrupt(reader, file, Intact(file))
    BY <2>1, <2>2, <2>3 DEF OneIsCorrupt, OneCorruptLine, Intact
  <2>5. CostsOneError(reader, file)
    BY <2>4, CorruptFile DEF CostsOneError
  <2> QED BY <2>5 DEF m, file, reader
<1> QED BY <1>1, Selected, PTL
=============================================================================
