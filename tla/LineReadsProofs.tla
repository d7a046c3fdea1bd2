-------------------------- MODULE LineReadsProofs --------------------------
(***************************************************************************)
(* Reads of a file, for every file and every limit: what is computed from  *)
(* its bytes is what the command prints, with an index of the line starts  *)
(* and without.  Both ways of cutting a file into lines, and the reference's*)
(* own, give the slices of one cut: the positions where its lines end.     *)
(***************************************************************************)
EXTENDS LineReads, FiniteSetTheorems, SequenceTheorems, WellFoundedInduction, TLAPS

(***************************************************************************)
(* Counting: induction over the numbers, and computations of a number of rounds.*)
(***************************************************************************)
LEMMA Least == ASSUME NEW T \in SUBSET Nat, T # {} PROVE \E n \in T : \A m \in T : n <= m
<1> DEFINE R == {p \in Nat \X Nat : p[1] < p[2]}
<1>1. IsWellFoundedOn(R, Nat)
  BY NatLessThanWellFounded DEF OpToRel
<1>2. ASSUME NEW m \in Nat, NEW n \in Nat, m < n PROVE <<m, n>> \in R
  BY <1>2
<1> HIDE DEF R
<1>3. PICK n \in T : \A m \in T : <<m, n>> \notin R
  BY <1>1, WFMin
<1>4. ASSUME NEW m \in T PROVE n <= m
  <2>1. m \in Nat /\ n \in Nat
    OBVIOUS
  <2>2. ~(m < n)
    BY <1>2, <1>3, <2>1
  <2>q. QED BY <2>1, <2>2
<1>q. QED BY <1>4

\* Induction, over a set of numbers.
LEMMA Induction ==
    ASSUME NEW S \in SUBSET Nat, 0 \in S, \A n \in S : n + 1 \in S PROVE S = Nat
<1> DEFINE T == Nat \ S
<1>1. ASSUME T # {} PROVE FALSE
  <2>1. PICK n \in T : \A m \in T : n <= m
    <3> HIDE DEF T
    <3>1. T \in SUBSET Nat
      BY DEF T
    <3>q. QED BY <1>1, <3>1, Least
  <2>2. n \in Nat /\ n # 0
    OBVIOUS
  <2>3. n - 1 \in Nat /\ n - 1 \notin T
    BY <2>1, <2>2
  <2>4. n - 1 + 1 = n
    BY <2>2
  <2>q. QED BY <2>3, <2>4
<1>q. QED BY <1>1

Goes(f, V, first, n, next) ==
    f \in [0..n -> V] /\ f[0] = first /\ \A i \in 1..n : f[i] = next[<<i, f[i - 1]>>]

\* Every computation of n rounds can be carried out.
LEMMA Rounds ==
    ASSUME NEW V, NEW first \in V, NEW n \in Nat, NEW next \in [(1..n) \X V -> V]
    PROVE  \E f : Goes(f, V, first, n, next)
<1> DEFINE Computes(f, k) == f[0] = first /\ \A i \in 1..k : f[i] = next[<<i, f[i - 1]>>]
           S == {k \in Nat : k <= n => \E f \in [0..k -> V] : Computes(f, k)}
<1>1. 0 \in S
  <2>1. [i \in 0..0 |-> first] \in [0..0 -> V] /\ Computes([i \in 0..0 |-> first], 0)
    OBVIOUS
  <2>q. QED BY <2>1
<1>2. ASSUME NEW k \in S PROVE k + 1 \in S
  <2> DEFINE Reaches(m) == \E f \in [0..m -> V] : Computes(f, m)
  <2>0. k \in Nat /\ k + 1 \in Nat /\ (k <= n => Reaches(k)) /\ (k + 1 \in S <=> (k + 1 <= n => Reaches(k + 1)))
    <3> HIDE DEF Reaches, Computes
    <3>q. QED BY DEF Reaches
  <2>1. SUFFICES ASSUME k + 1 <= n PROVE Reaches(k + 1)
    BY <2>0
  <2>2. PICK f \in [0..k -> V] : Computes(f, k)
    BY <2>0, <2>1
  <2> DEFINE g == [i \in 0..(k + 1) |-> IF i = k + 1 THEN next[<<k + 1, f[k]>>] ELSE f[i]]
  <2>3. f[k] \in V /\ next[<<k + 1, f[k]>>] \in V
    BY <2>0, <2>1
  <2>4. g \in [0..(k + 1) -> V]
    BY <2>0, <2>3
  <2>5. g[0] = first
    BY <2>0, <2>2
  <2>6. ASSUME NEW i \in 1..(k + 1) PROVE g[i] = next[<<i, g[i - 1]>>]
    <3>1. CASE i = k + 1
      BY <2>0, <3>1
    <3>2. CASE i # k + 1
      <4>1. i \in 1..k /\ i \in 0..k /\ i - 1 \in 0..k /\ i - 1 # k + 1
        BY <2>0, <3>2
      <4>2. g[i] = f[i] /\ g[i - 1] = f[i - 1]
        BY <2>0, <4>1
      <4>q. QED BY <2>2, <4>1, <4>2
    <3>q. QED BY <3>1, <3>2
  <2>7. Computes(g, k + 1)
    BY <2>5, <2>6
  <2> HIDE DEF g, Computes
  <2>q. QED BY <2>4, <2>7
<1>3. S = Nat
  <2>1. S \in SUBSET Nat
    OBVIOUS
  <2> HIDE DEF S
  <2>q. QED BY <1>1, <1>2, <2>1, Induction
<1>4. n \in S
  <2> HIDE DEF S
  <2>q. QED BY <1>3
<1>q. QED BY <1>4 DEF Goes

\* What is reached by steps that keep V is in V.
LEMMA Computed ==
    ASSUME NEW V, NEW first \in V, NEW n \in Nat, NEW next \in [(1..n) \X V -> V], NEW g,
           g[0] = first, \A i \in 1..n : g[i - 1] \in V => g[i] = next[<<i, g[i - 1]>>]
    PROVE  \A i \in 0..n : g[i] \in V
<1> DEFINE S == {k \in Nat : k <= n => g[k] \in V}
<1>1. 0 \in S
  OBVIOUS
<1>2. ASSUME NEW k \in S PROVE k + 1 \in S
  <2>1. k \in Nat /\ k + 1 \in Nat /\ (k <= n => g[k] \in V)
    OBVIOUS
  <2>2. ASSUME k + 1 <= n PROVE g[k + 1] \in V
    <3>1. k + 1 \in 1..n /\ k + 1 - 1 = k /\ g[k] \in V
      BY <2>1, <2>2
    <3>2. g[k + 1] = next[<<k + 1, g[k]>>] /\ <<k + 1, g[k]>> \in (1..n) \X V
      BY <3>1
    <3>q. QED BY <3>2
  <2>q. QED BY <2>1, <2>2
<1>3. S = Nat
  <2>1. S \in SUBSET Nat
    OBVIOUS
  <2> HIDE DEF S
  <2>q. QED BY <1>1, <1>2, <2>1, Induction
<1>q. QED BY <1>3

\* Induction as far as n.
LEMMA UpToBound ==
    ASSUME NEW n \in Nat, NEW S, 0 \in S, \A k \in 0..n : k \in S /\ k + 1 <= n => k + 1 \in S
    PROVE  n \in S
<1> DEFINE T == {k \in Nat : k <= n => k \in S}
<1>1. 0 \in T
  OBVIOUS
<1>2. ASSUME NEW k \in T PROVE k + 1 \in T
  OBVIOUS
<1>3. T = Nat
  <2>1. T \in SUBSET Nat
    OBVIOUS
  <2> HIDE DEF T
  <2>q. QED BY <1>1, <1>2, <2>1, Induction
<1>4. n \in T
  <2> HIDE DEF T
  <2>q. QED BY <1>3
<1>q. QED BY <1>4

(***************************************************************************)
(* Flattening: sequences one after another, as a recursion that is run.    *)
(***************************************************************************)
FlatRecursion(ss, g) ==
    g = [i \in 1..Len(ss) |-> IF i = 1 THEN ss[i] ELSE g[i - 1] \o ss[i]]

\* Sequences one after another, each appended to what the ones before it are.
Laid(f, S, ss) ==
    /\ f \in [0..Len(ss) -> Seq(S)] /\ f[0] = <<>>
    /\ \A i \in 1..Len(ss) : f[i] = f[i - 1] \o ss[i]

\* The recursion that flattens exists, and
LEMMA SomeLaid ==
    ASSUME NEW S, NEW ss \in Seq(Seq(S)) PROVE \E f : Laid(f, S, ss)
<1> DEFINE n == Len(ss)
           V == Seq(S)
           next == [p \in (1..n) \X V |-> p[2] \o ss[p[1]]]
<1>0. n \in Nat /\ \A i \in 1..n : ss[i] \in V
  BY LenProperties
<1>1. <<>> \in V
  BY EmptySeq
<1>2. next \in [(1..n) \X V -> V]
  <2>1. ASSUME NEW p \in (1..n) \X V PROVE p[2] \o ss[p[1]] \in V
    <3>1. p[2] \in V /\ ss[p[1]] \in V
      BY <1>0
    <3>q. QED BY <3>1, ConcatProperties
  <2> HIDE DEF n, V
  <2>q. QED BY <2>1
<1>3. PICK f : Goes(f, V, <<>>, n, next)
  <2> HIDE DEF V, next, n
  <2>q. QED BY <1>0, <1>1, <1>2, Rounds
<1>4. ASSUME NEW i \in 1..n PROVE f[i] = f[i - 1] \o ss[i]
  <2>0. i - 1 \in 0..n /\ f \in [0..n -> V]
    <3>1. f \in [0..n -> V]
      BY <1>3 DEF Goes
    <3> HIDE DEF n
    <3>q. QED BY <1>0, <3>1
  <2>1. <<i, f[i - 1]>> \in (1..n) \X V
    <3> HIDE DEF n, V
    <3>q. QED BY <2>0
  <2>2. next[<<i, f[i - 1]>>] = f[i - 1] \o ss[i]
    BY <2>1
  <2> HIDE DEF next, V, n
  <2>3. f[i] = next[<<i, f[i - 1]>>]
    BY <1>3 DEF Goes
  <2>q. QED BY <2>2, <2>3
<1>5. f \in [0..n -> V] /\ f[0] = <<>>
  BY <1>3 DEF Goes
<1> HIDE DEF next
<1>q. QED BY <1>4, <1>5 DEF Laid

\* FlattenSeq is its last value.
LEMMA FlatRuns ==
    ASSUME NEW S, NEW ss \in Seq(Seq(S)), NEW f, Laid(f, S, ss)
    PROVE  FlattenSeq(ss) = f[Len(ss)]
<1> DEFINE n == Len(ss)
<1>0. n \in Nat /\ \A i \in 1..n : ss[i] \in Seq(S)
  BY LenProperties
<1>1. CASE n = 0
  <2>1. ss = <<>>
    BY <1>1, EmptySeq
  <2>2. FlattenSeq(ss) = ss
    BY <1>1 DEF FlattenSeq
  <2>q. QED BY <1>1, <2>1, <2>2 DEF Laid
<1>2. CASE n # 0
  <2> DEFINE h == CHOOSE g : FlatRecursion(ss, g)
             g == [i \in 1..n |-> f[i]]
  <2>1. FlattenSeq(ss) = h[n]
    BY <1>2 DEF FlattenSeq, FlatRecursion
  <2>2. FlatRecursion(ss, g)
    <3>1. ASSUME NEW i \in 1..n PROVE f[i] = IF i = 1 THEN ss[i] ELSE g[i - 1] \o ss[i]
      <4>1. CASE i = 1
        <5>1. f[1] = f[0] \o ss[1] /\ f[0] = <<>>
          <6>1. f[i] = f[i - 1] \o ss[i] /\ f[0] = <<>>
            BY DEF Laid
          <6>2. i - 1 = 0
            BY <4>1
          <6> HIDE DEF n
          <6>q. QED BY <4>1, <6>1, <6>2
        <5>2. ss[1] \in Seq(S)
          BY <1>0, <4>1
        <5>3. <<>> \o ss[1] = ss[1]
          BY <5>2, ConcatEmptySeq
        <5>q. QED BY <4>1, <5>1, <5>3
      <4>2. CASE i # 1
        <5>1. i - 1 \in 1..n
          BY <1>0, <4>2
        <5>2. g[i - 1] = f[i - 1]
          BY <5>1
        <5>3. f[i] = f[i - 1] \o ss[i]
          BY DEF Laid
        <5>q. QED BY <4>2, <5>2, <5>3
      <4>q. QED BY <4>1, <4>2
    <3>2. g = [i \in 1..n |-> IF i = 1 THEN ss[i] ELSE g[i - 1] \o ss[i]]
      <4> DEFINE e(i) == IF i = 1 THEN ss[i] ELSE g[i - 1] \o ss[i]
      <4>1. \A i \in 1..n : f[i] = e(i)
        BY <3>1
      <4>2. g = [i \in 1..n |-> f[i]]
        OBVIOUS
      <4> HIDE DEF e, g, n
      <4>3. [i \in 1..n |-> f[i]] = [i \in 1..n |-> e(i)]
        BY <4>1
      <4>q. QED BY <4>2, <4>3, Zenon DEF e
    <3> HIDE DEF g
    <3>q. QED BY <3>2, Zenon DEF FlatRecursion
  <2> HIDE DEF g
  <2>3. FlatRecursion(ss, h)
    BY <2>2
  <2> HIDE DEF h
  <2>4. /\ h[1] = ss[1]
        /\ \A i \in 2..n : h[i] = h[i - 1] \o ss[i]
    <3>1. h = [i \in 1..n |-> IF i = 1 THEN ss[i] ELSE h[i - 1] \o ss[i]]
      BY <2>3 DEF FlatRecursion
    <3> HIDE DEF n
    <3>2. h[1] = ss[1]
      BY <1>0, <1>2, <3>1
    <3>3. ASSUME NEW i \in 2..n PROVE h[i] = h[i - 1] \o ss[i]
      <4>1. i \in 1..n /\ i # 1
        BY <1>0
      <4>q. QED BY <3>1, <4>1
    <3>q. QED BY <3>2, <3>3
  <2> DEFINE T == {k \in 0..n : k # 0 => h[k] = f[k]}
  <2>5. 0 \in T
    BY <1>0
  <2>6. ASSUME NEW k \in 0..n, k \in T, k + 1 <= n PROVE k + 1 \in T
    <3>1. k + 1 \in 1..n /\ k + 1 - 1 = k /\ k + 1 \in 0..n
      BY <1>0, <2>6
    <3>2. f[k + 1] = f[k] \o ss[k + 1]
      <4> DEFINE j == k + 1
      <4>1. f[j] = f[j - 1] \o ss[j]
        BY <3>1 DEF Laid
      <4> HIDE DEF j
      <4>2. j - 1 = k
        BY <3>1 DEF j
      <4>q. QED BY <4>1, <4>2 DEF j
    <3>3. CASE k = 0
      <4>1. f[0] = <<>> /\ ss[1] \in Seq(S)
        BY <1>0, <3>1, <3>3 DEF Laid
      <4>2. <<>> \o ss[1] = ss[1]
        BY <4>1, ConcatEmptySeq
      <4>3. h[k + 1] = f[k + 1]
        BY <2>4, <3>2, <3>3, <4>1, <4>2
      <4>q. QED BY <3>1, <4>3
    <3>4. CASE k # 0
      <4>1. k + 1 \in 2..n
        BY <1>0, <3>1, <3>4
      <4>2. h[k + 1] = h[k] \o ss[k + 1]
        <5> DEFINE j == k + 1
        <5>1. h[j] = h[j - 1] \o ss[j]
          BY <2>4, <4>1
        <5> HIDE DEF j
        <5>2. j - 1 = k
          BY <3>1 DEF j
        <5>q. QED BY <5>1, <5>2 DEF j
      <4>3. h[k] = f[k]
        BY <2>6, <3>4
      <4>4. h[k + 1] = f[k + 1]
        BY <3>2, <4>2, <4>3
      <4>q. QED BY <3>1, <4>4
    <3>q. QED BY <3>3, <3>4
  <2>7. n \in T
    <3> HIDE DEF T, n
    <3>q. QED BY <1>0, <2>5, <2>6, UpToBound
  <2>q. QED BY <1>2, <2>1, <2>7
<1>q. QED BY <1>1, <1>2

\* What the sequences before the last and the last are together.
LEMMA LaidTypes ==
    ASSUME NEW S, NEW ss \in Seq(Seq(S)), NEW f, Laid(f, S, ss)
    PROVE  /\ Len(ss) \in Nat
           /\ \A i \in 0..Len(ss) : f[i] \in Seq(S) /\ Len(f[i]) \in Nat
           /\ \A i \in 1..Len(ss) : ss[i] \in Seq(S) /\ Len(ss[i]) \in Nat
           /\ \A i \in 1..Len(ss) : Len(f[i]) = Len(f[i - 1]) + Len(ss[i])
<1> DEFINE n == Len(ss)
<1>1. n \in Nat /\ \A i \in 1..n : ss[i] \in Seq(S)
  BY LenProperties
<1>2. \A i \in 0..n : f[i] \in Seq(S)
  BY DEF Laid
<1> HIDE DEF n
<1>3. ASSUME NEW i \in 1..n PROVE Len(f[i]) = Len(f[i - 1]) + Len(ss[i])
  <2>1. f[i] = f[i - 1] \o ss[i]
    BY DEF Laid, n
  <2>2. f[i - 1] \in Seq(S) /\ ss[i] \in Seq(S)
    BY <1>1, <1>2
  <2>q. QED BY <2>1, <2>2, ConcatProperties
<1>q. QED BY <1>1, <1>2, <1>3, LenProperties DEF n

LEMMA FlatTyped ==
    ASSUME NEW S, NEW ss \in Seq(Seq(S)) PROVE FlattenSeq(ss) \in Seq(S)
<1>1. PICK f : Laid(f, S, ss)
  BY SomeLaid
<1>2. Len(ss) \in 0..Len(ss)
  BY <1>1, LaidTypes
<1> DEFINE n == Len(ss)
<1>3. FlattenSeq(ss) = f[n]
  BY <1>1, FlatRuns
<1>4. \A i \in 0..n : f[i] \in Seq(S)
  BY <1>1, LaidTypes
<1> HIDE DEF n
<1>q. QED BY <1>2, <1>3, <1>4 DEF n

LEMMA FlatNone ==
    ASSUME NEW S, NEW ss \in Seq(Seq(S)), Len(ss) = 0 PROVE FlattenSeq(ss) = <<>>
<1>1. PICK f : Laid(f, S, ss)
  BY SomeLaid
<1>2. FlattenSeq(ss) = f[0]
  BY <1>1, FlatRuns
<1>q. QED BY <1>1, <1>2 DEF Laid

\* Flattening takes one sequence more.
LEMMA FlatAppend ==
    ASSUME NEW S, NEW ss \in Seq(Seq(S)), NEW t \in Seq(S)
    PROVE  FlattenSeq(Append(ss, t)) = FlattenSeq(ss) \o t
<1> DEFINE ts == Append(ss, t)
           n == Len(ss)
<1>1. ts \in Seq(Seq(S)) /\ Len(ts) = n + 1 /\ ts[n + 1] = t /\ \A i \in 1..n : ts[i] = ss[i]
  BY AppendProperties
<1>0. n \in Nat
  BY LenProperties
<1> HIDE DEF ts
<1>2. PICK f : Laid(f, S, ts)
  BY <1>1, SomeLaid
<1>3. FlattenSeq(ts) = f[n + 1]
  BY <1>1, <1>2, FlatRuns
<1> DEFINE g == [i \in 0..n |-> f[i]]
<1>4. Laid(g, S, ss)
  <2>1. f \in [0..n + 1 -> Seq(S)] /\ f[0] = <<>>
    BY <1>1, <1>2 DEF Laid
  <2> HIDE DEF n
  <2>2. g \in [0..n -> Seq(S)] /\ g[0] = <<>>
    BY <1>0, <2>1
  <2>3. ASSUME NEW i \in 1..n PROVE g[i] = g[i - 1] \o ss[i]
    <3>1. i \in 0..n /\ i - 1 \in 0..n /\ i \in 1..n + 1
      BY <1>0
    <3>2. g[i] = f[i] /\ g[i - 1] = f[i - 1]
      BY <3>1
    <3>3. f[i] = f[i - 1] \o ts[i]
      BY <1>1, <1>2, <3>1 DEF Laid
    <3>q. QED BY <1>1, <3>2, <3>3
  <2> HIDE DEF g
  <2>q. QED BY <2>2, <2>3 DEF Laid, n
<1>5. FlattenSeq(ss) = f[n]
  <2>1. FlattenSeq(ss) = g[n]
    <3> HIDE DEF g
    <3>q. QED BY <1>4, FlatRuns
  <2>2. n \in 0..n
    BY <1>0
  <2> HIDE DEF n
  <2>q. QED BY <2>1, <2>2
<1>6. f[n + 1] = f[n] \o t
  <2> DEFINE j == n + 1
  <2>1. j \in 1..Len(ts)
    BY <1>0, <1>1
  <2>2. f[j] = f[j - 1] \o ts[j]
    <3> HIDE DEF j
    <3>q. QED BY <1>2, <2>1 DEF Laid
  <2>3. j - 1 = n
    BY <1>0
  <2> HIDE DEF n, j
  <2>4. f[j] = f[n] \o ts[j]
    BY <2>2, <2>3
  <2>q. QED BY <1>1, <2>4 DEF j
<1>q. QED BY <1>3, <1>5, <1>6 DEF ts

\* Sequences of n elements given one by one.
LEMMA Listed ==
    ASSUME NEW S, NEW n \in Nat, NEW g \in [1..n -> S]
    PROVE  g \in Seq(S) /\ Len(g) = n
<1>1. g \in Seq(S)
  BY SeqDef
<1>2. Len(g) \in Nat /\ DOMAIN g = 1..Len(g)
  BY <1>1, LenProperties
<1>3. 1..Len(g) = 1..n
  BY <1>2
<1>4. Len(g) = n
  BY <1>2, <1>3
<1>q. QED BY <1>1, <1>4

LEMMA OneMore ==
    ASSUME NEW S, NEW n \in Nat, NEW g \in [1..n + 1 -> S], NEW h \in [1..n -> S],
           \A i \in 1..n : g[i] = h[i]
    PROVE  g = Append(h, g[n + 1])
<1>1. g \in Seq(S) /\ Len(g) = n + 1 /\ h \in Seq(S) /\ Len(h) = n
  BY Listed
<1>2. g[n + 1] \in S
  OBVIOUS
<1> DEFINE a == Append(h, g[n + 1])
<1>3. a \in Seq(S) /\ Len(a) = n + 1 /\ a[n + 1] = g[n + 1] /\ \A i \in 1..n : a[i] = h[i]
  BY <1>1, <1>2, AppendProperties
<1> HIDE DEF a
<1>4. \A i \in 1..n + 1 : a[i] = g[i]
  <2>1. \A i \in 1..n + 1 : i = n + 1 \/ i \in 1..n
    OBVIOUS
  <2>q. QED BY <1>3, <2>1
<1>5. a = g
  BY <1>1, <1>3, <1>4, SeqEqual
<1>q. QED BY <1>5 DEF a

\* The same for a function with one value more.
LEMMA FlatMore ==
    ASSUME NEW S, NEW n \in Nat, NEW g \in [1..n + 1 -> Seq(S)], NEW h \in [1..n -> Seq(S)],
           \A i \in 1..n : g[i] = h[i]
    PROVE  FlattenSeq(g) = FlattenSeq(h) \o g[n + 1]
<1>1. g = Append(h, g[n + 1])
  BY OneMore
<1>2. h \in Seq(Seq(S)) /\ g[n + 1] \in Seq(S)
  BY Listed
<1> DEFINE t == g[n + 1]
<1>3. FlattenSeq(Append(h, t)) = FlattenSeq(h) \o t
  <2> HIDE DEF t
  <2>q. QED BY <1>2, FlatAppend DEF t
<1>q. QED BY <1>1, <1>3

(***************************************************************************)
(* Flattening what is empty, what is flattened already, and what is padded.*)
(***************************************************************************)
LEMMA FlatEmpty ==
    ASSUME NEW S, NEW g \in [1..0 -> Seq(S)] PROVE FlattenSeq(g) = <<>>
<1> DEFINE n == 0
           V == Seq(S)
<1>1. g \in Seq(V) /\ Len(g) = 0
  <2>1. n \in Nat /\ g \in [1..n -> V]
    OBVIOUS
  <2>2. g \in Seq(V) /\ Len(g) = n
    <3> HIDE DEF n, V
    <3>q. QED BY <2>1, Listed
  <2>q. QED BY <2>2
<1>q. QED BY <1>1, FlatNone

LEMMA FlatOf ==
    ASSUME NEW S, NEW n \in Nat, NEW g \in [1..n -> Seq(S)]
    PROVE  g \in Seq(Seq(S)) /\ FlattenSeq(g) \in Seq(S)
<1> DEFINE V == Seq(S)
<1>1. g \in Seq(V)
  <2>1. g \in [1..n -> V]
    OBVIOUS
  <2> HIDE DEF V
  <2>q. QED BY <2>1, Listed
<1>q. QED BY <1>1, FlatTyped

\* Flattening of two lists, one after the other.
LEMMA FlatConcat ==
    ASSUME NEW S, NEW s \in Seq(Seq(S)), NEW t \in Seq(Seq(S))
    PROVE  FlattenSeq(s \o t) = FlattenSeq(s) \o FlattenSeq(t)
<1> DEFINE V == Seq(S)
           Joins(u) == FlattenSeq(s \o u) = FlattenSeq(s) \o FlattenSeq(u)
           T == {n \in Nat : \A u \in Seq(V) : Len(u) = n => Joins(u)}
<1>1. 0 \in T
  <2>1. ASSUME NEW u \in Seq(V), Len(u) = 0 PROVE Joins(u)
    <3>1. u = <<>> /\ s \o u = s
      <4>1. u = <<>>
        BY <2>1, EmptySeq
      <4>q. QED BY <4>1, ConcatEmptySeq
    <3>2. FlattenSeq(u) = <<>>
      BY <2>1, FlatNone
    <3>3. FlattenSeq(s) \in Seq(S)
      BY FlatTyped
    <3>4. FlattenSeq(s) \o <<>> = FlattenSeq(s)
      BY <3>3, ConcatEmptySeq
    <3>q. QED BY <3>1, <3>2, <3>4
  <2> HIDE DEF V, Joins
  <2>q. QED BY <2>1
<1>2. ASSUME NEW n \in T PROVE n + 1 \in T
  <2>0. n \in Nat /\ \A u \in Seq(V) : Len(u) = n => Joins(u)
    OBVIOUS
  <2>1. ASSUME NEW u \in Seq(V), Len(u) = n + 1 PROVE Joins(u)
    <3>1. PICK p \in Seq(V), e \in V : u = Append(p, e)
      <4>1. u # <<>>
        BY <2>0, <2>1, EmptySeq
      <4> HIDE DEF V
      <4>q. QED BY <4>1, SequenceEmptyOrAppend
    <3>2. Len(p) = n
      <4>1. Len(u) = Len(p) + 1 /\ Len(p) \in Nat
        <5> HIDE DEF V
        <5>q. QED BY <3>1, AppendProperties, LenProperties
      <4>q. QED BY <2>0, <2>1, <4>1
    <3>3. FlattenSeq(s \o p) = FlattenSeq(s) \o FlattenSeq(p)
      BY <2>0, <3>2
    <3>4. s \o u = Append(s \o p, e) /\ s \o p \in Seq(V)
      <4> HIDE DEF V
      <4>0. s \in Seq(V)
        BY DEF V
      <4>1. u = p \o <<e>> /\ <<e>> \in Seq(V) /\ s \o p \in Seq(V)
        BY <3>1, <4>0, AppendIsConcat, ConcatProperties
      <4>2. s \o u = (s \o p) \o <<e>>
        <5> DEFINE w == <<e>>
        <5>1. w \in Seq(V) /\ u = p \o w
          BY <4>1
        <5> HIDE DEF w
        <5>2. (s \o p) \o w = s \o (p \o w)
          BY <4>0, <5>1, ConcatAssociative
        <5>q. QED BY <5>1, <5>2 DEF w
      <4>3. Append(s \o p, e) = (s \o p) \o <<e>>
        BY <4>1, AppendIsConcat
      <4>q. QED BY <4>1, <4>2, <4>3
    <3>5. FlattenSeq(u) = FlattenSeq(p) \o e
      BY <3>1, FlatAppend
    <3>6. FlattenSeq(s \o u) = FlattenSeq(s \o p) \o e
      <4> DEFINE w == s \o p
      <4>1. w \in Seq(Seq(S)) /\ e \in Seq(S)
        BY <3>4
      <4> HIDE DEF w
      <4>2. FlattenSeq(Append(w, e)) = FlattenSeq(w) \o e
        BY <4>1, FlatAppend
      <4>q. QED BY <3>4, <4>2 DEF w
    <3>7. FlattenSeq(s) \in Seq(S) /\ FlattenSeq(p) \in Seq(S)
      BY FlatTyped
    <3>8. (FlattenSeq(s) \o FlattenSeq(p)) \o e = FlattenSeq(s) \o (FlattenSeq(p) \o e)
      BY <3>7, ConcatAssociative
    <3>q. QED BY <3>3, <3>5, <3>6, <3>8
  <2>2. n + 1 \in Nat
    BY <2>0
  <2> HIDE DEF V, Joins
  <2>q. QED BY <2>1, <2>2
<1>3. T = Nat
  <2>1. T \in SUBSET Nat
    OBVIOUS
  <2> HIDE DEF T
  <2>q. QED BY <1>1, <1>2, <2>1, Induction
<1>4. Len(t) \in T /\ t \in Seq(V)
  <2>1. Len(t) \in Nat
    BY LenProperties
  <2> HIDE DEF T
  <2>q. QED BY <1>3, <2>1
<1>5. Joins(t)
  <2> HIDE DEF V, Joins
  <2>q. QED BY <1>4
<1>q. QED BY <1>5

\* Lists of lists: flattened inside first or outside first.
LEMMA FlatFlat ==
    ASSUME NEW S, NEW m \in Nat, NEW f \in [1..m -> Seq(Seq(S))]
    PROVE  FlattenSeq(FlattenSeq(f)) = FlattenSeq([i \in 1..m |-> FlattenSeq(f[i])])
<1> DEFINE V == Seq(S)
           W == Seq(V)
           Inside(g, n) == [i \in 1..n |-> FlattenSeq(g[i])]
           Same(g, n) == FlattenSeq(FlattenSeq(g)) = FlattenSeq(Inside(g, n))
           T == {n \in Nat : \A g \in [1..n -> W] : Same(g, n)}
<1>0. ASSUME NEW n \in Nat, NEW g \in [1..n -> W] PROVE Inside(g, n) \in [1..n -> V]
  <2>1. ASSUME NEW i \in 1..n PROVE FlattenSeq(g[i]) \in V
    <3>1. g[i] \in Seq(Seq(S))
      OBVIOUS
    <3>q. QED BY <3>1, FlatTyped
  <2> HIDE DEF V
  <2>q. QED BY <2>1
<1>1. 0 \in T
  <2>1. ASSUME NEW g \in [1..0 -> W] PROVE Same(g, 0)
    <3>1. FlattenSeq(g) = <<>>
      <4> HIDE DEF V
      <4>q. QED BY FlatEmpty
    <3>2. Inside(g, 0) \in [1..0 -> Seq(S)]
      BY <1>0
    <3>3. FlattenSeq(Inside(g, 0)) = <<>>
      <4> HIDE DEF Inside
      <4>q. QED BY <3>2, FlatEmpty
    <3>4. FlattenSeq(<<>>) = <<>>
      BY EmptySeq DEF FlattenSeq
    <3>q. QED BY <3>1, <3>3, <3>4
  <2> HIDE DEF W, Same
  <2>q. QED BY <2>1
<1>2. ASSUME NEW n \in T PROVE n + 1 \in T
  <2>0. n \in Nat /\ n + 1 \in Nat /\ \A g \in [1..n -> W] : Same(g, n)
    <3> HIDE DEF W, Same
    <3>q. QED OBVIOUS
  <2>1. ASSUME NEW g \in [1..n + 1 -> W] PROVE Same(g, n + 1)
    <3> DEFINE h == [i \in 1..n |-> g[i]]
               e == g[n + 1]
    <3>1. h \in [1..n -> W] /\ e \in W /\ \A i \in 1..n : g[i] = h[i]
      <4> HIDE DEF W
      <4>q. QED BY <2>0
    <3>2. Same(h, n)
      BY <2>0, <3>1
    <3>3. FlattenSeq(g) = FlattenSeq(h) \o e
      <4> HIDE DEF h, V
      <4>q. QED BY <2>0, <3>1, FlatMore
    <3>4. FlattenSeq(h) \in Seq(Seq(S)) /\ e \in Seq(Seq(S))
      <4>1. FlattenSeq(h) \in Seq(V)
        <5> HIDE DEF h, V
        <5>q. QED BY <2>0, <3>1, FlatOf
      <4>q. QED BY <3>1, <4>1
    <3>5. FlattenSeq(FlattenSeq(g)) = FlattenSeq(FlattenSeq(h)) \o FlattenSeq(e)
      <4> DEFINE k == FlattenSeq(h)
      <4> HIDE DEF k, e
      <4>1. FlattenSeq(k \o e) = FlattenSeq(k) \o FlattenSeq(e)
        BY <3>4, FlatConcat DEF k
      <4>q. QED BY <3>3, <4>1 DEF k
    <3> DEFINE a == Inside(g, n + 1)
               b == Inside(h, n)
    <3>6. a \in [1..n + 1 -> Seq(S)] /\ b \in [1..n -> Seq(S)]
      BY <1>0, <2>0, <3>1
    <3>7. a[n + 1] = FlattenSeq(e) /\ \A i \in 1..n : a[i] = b[i]
      <4>1. n + 1 \in 1..n + 1 /\ \A i \in 1..n : i \in 1..n + 1
        BY <2>0
      <4>2. \A i \in 1..n : b[i] = FlattenSeq(h[i]) /\ h[i] = g[i]
        OBVIOUS
      <4>q. QED BY <4>1, <4>2
    <3>8. FlattenSeq(a) = FlattenSeq(b) \o FlattenSeq(e)
      <4> HIDE DEF a, b, e
      <4>1. FlattenSeq(a) = FlattenSeq(b) \o a[n + 1]
        <5>1. n \in Nat
          BY <2>0
        <5>q. QED BY <5>1, <3>6, <3>7, FlatMore, ZenonT(60)
      <4>q. QED BY <3>7, <4>1
    <3>q. QED BY <3>2, <3>5, <3>8
  <2> HIDE DEF W, Same
  <2>q. QED BY <2>0, <2>1
<1>3. T = Nat
  <2>1. T \in SUBSET Nat
    OBVIOUS
  <2> HIDE DEF T
  <2>q. QED BY <1>1, <1>2, <2>1, Induction
<1>4. m \in T /\ f \in [1..m -> W]
  <2> HIDE DEF T
  <2>q. QED BY <1>3
<1>5. Same(f, m)
  <2> HIDE DEF W, Same
  <2>q. QED BY <1>4
<1>q. QED BY <1>5

\* What is empty past a point adds nothing.
Padded(S, m, n, g, h) ==
    /\ m \in Nat /\ n \in Nat /\ m <= n
    /\ g \in [1..n -> Seq(S)] /\ h = [i \in 1..m |-> g[i]]
    /\ \A i \in m + 1..n : g[i] = <<>>

\* Empty sequences may be left out.
LEMMA FlatPad ==
    ASSUME NEW S, NEW m, NEW n, NEW g, NEW h, Padded(S, m, n, g, h)
    PROVE  FlattenSeq(g) = FlattenSeq(h)
<1>a. /\ m \in Nat /\ n \in Nat /\ m <= n /\ g \in [1..n -> Seq(S)]
      /\ h = [i \in 1..m |-> g[i]] /\ \A i \in m + 1..n : g[i] = <<>>
  BY DEF Padded
<1> USE <1>a
<1> DEFINE V == Seq(S)
           Part(k) == [i \in 1..k |-> g[i]]
           T == {k \in Nat : k <= n - m => FlattenSeq(Part(m + k)) = FlattenSeq(Part(m))}
<1>1. 0 \in T
  BY m + 0 = m
<1>2. ASSUME NEW k \in T PROVE k + 1 \in T
  <2>0. k \in Nat /\ k + 1 \in Nat
    OBVIOUS
  <2>1. ASSUME k + 1 <= n - m PROVE FlattenSeq(Part(m + (k + 1))) = FlattenSeq(Part(m))
    <3> DEFINE l == m + k
    <3>1. l \in Nat /\ m + (k + 1) = l + 1 /\ l + 1 \in m + 1..n /\ l <= n
      BY <2>0, <2>1
    <3>2. FlattenSeq(Part(l)) = FlattenSeq(Part(m))
      BY <2>0, <2>1
    <3> HIDE DEF l
    <3>3. Part(l + 1) \in [1..l + 1 -> V] /\ Part(l) \in [1..l -> V]
      <4>1. \A i \in 1..l + 1 : i \in 1..n
        BY <3>1
      <4>2. \A i \in 1..l : i \in 1..n
        BY <3>1
      <4>3. \A i \in 1..n : g[i] \in V
        OBVIOUS
      <4> HIDE DEF V
      <4>q. QED BY <4>1, <4>2, <4>3
    <3>4. \A i \in 1..l : Part(l + 1)[i] = Part(l)[i]
      BY <3>1
    <3>5. Part(l + 1)[l + 1] = <<>>
      BY <3>1
    <3> DEFINE a == Part(l + 1)
               b == Part(l)
    <3>6. FlattenSeq(a) = FlattenSeq(b) \o <<>>
      <4>1. a \in [1..l + 1 -> Seq(S)] /\ b \in [1..l -> Seq(S)] /\ \A i \in 1..l : a[i] = b[i]
        BY <3>3, <3>4
      <4>2. a[l + 1] = <<>>
        BY <3>5
      <4> HIDE DEF a, b
      <4>3. FlattenSeq(a) = FlattenSeq(b) \o a[l + 1]
        BY <3>1, <4>1, FlatMore
      <4>q. QED BY <4>2, <4>3
    <3>7. FlattenSeq(b) \in Seq(S)
      <4>1. b \in [1..l -> Seq(S)]
        BY <3>3
      <4> HIDE DEF b
      <4>q. QED BY <3>1, <4>1, FlatOf
    <3>8. FlattenSeq(b) \o <<>> = FlattenSeq(b)
      <4> HIDE DEF b
      <4>q. QED BY <3>7, ConcatEmptySeq
    <3>q. QED BY <3>1, <3>2, <3>6, <3>8
  <2> HIDE DEF Part
  <2>q. QED BY <2>0, <2>1
<1>3. T = Nat
  <2>1. T \in SUBSET Nat
    OBVIOUS
  <2> HIDE DEF T
  <2>q. QED BY <1>1, <1>2, <2>1, Induction
<1>4. FlattenSeq(Part(n)) = FlattenSeq(Part(m))
  <2> DEFINE k == n - m
  <2>1. k \in Nat /\ k <= n - m /\ m + k = n
    OBVIOUS
  <2>2. k \in T
    <3> HIDE DEF T, k
    <3>q. QED BY <1>3, <2>1
  <2> HIDE DEF k, Part
  <2>q. QED BY <2>1, <2>2
<1>5. Part(n) = g
  OBVIOUS
<1>q. QED BY <1>4, <1>5

(***************************************************************************)
(* Flattening the slices of a sequence gives the sequence back.            *)
(***************************************************************************)
\* Neighbouring slices make one.
LEMMA FlatSlices ==
    ASSUME NEW S, NEW b \in Seq(S), NEW n \in Nat, NEW off \in [0..n -> 0..Len(b)],
           \A i \in 1..n : off[i - 1] <= off[i]
    PROVE  FlattenSeq([i \in 1..n |-> SubSeq(b, off[i - 1] + 1, off[i])])
             = SubSeq(b, off[0] + 1, off[n])
<1> DEFINE V == Seq(S)
           slice(i) == SubSeq(b, off[i - 1] + 1, off[i])
           Part(k) == [i \in 1..k |-> slice(i)]
           Done(j) == off[0] <= off[j] /\ FlattenSeq(Part(j)) = SubSeq(b, off[0] + 1, off[j])
           T == {k \in Nat : k <= n => Done(k)}
<1>0. /\ Len(b) \in Nat /\ \A i \in 1..Len(b) : b[i] \in S
      /\ \A i \in 0..n : off[i] \in Int /\ 0 <= off[i] /\ off[i] <= Len(b)
  BY LenProperties
<1>1. ASSUME NEW i \in 1..n PROVE slice(i) \in V
  <2>1. i - 1 \in 0..n /\ i \in 0..n
    OBVIOUS
  <2>2. \A j \in off[i - 1] + 1..off[i] : b[j] \in S
    BY <1>0, <2>1
  <2>3. off[i - 1] + 1 \in Int /\ off[i] \in Int
    BY <1>0, <2>1
  <2> DEFINE x == off[i - 1] + 1
             y == off[i]
  <2>4. SubSeq(b, x, y) \in Seq(S)
    <3>1. x \in Int /\ y \in Int /\ \A j \in x..y : b[j] \in S
      BY <2>2, <2>3
    <3> HIDE DEF x, y
    <3>q. QED BY <3>1, SubSeqProperties
  <2>q. QED BY <2>4
<1>2. 0 \in T
  <2>1. 0 \in 0..n
    OBVIOUS
  <2>2. off[0] \in Int /\ off[0] + 1 \in Int /\ off[0] < off[0] + 1
    BY <1>0, <2>1
  <2>3. SubSeq(b, off[0] + 1, off[0]) = <<>>
    <3> DEFINE x == off[0] + 1
               y == off[0]
    <3>1. x \in Int /\ y \in Int /\ y < x
      BY <2>2
    <3> HIDE DEF x, y
    <3>2. SubSeq(b, x, y) = <<>>
      BY <3>1, SubSeqEmpty
    <3>q. QED BY <3>2 DEF x, y
  <2>4. FlattenSeq(Part(0)) = <<>>
    <3>1. Part(0) \in [1..0 -> Seq(S)]
      <4> HIDE DEF slice
      <4>q. QED OBVIOUS
    <3> HIDE DEF Part
    <3>q. QED BY <3>1, FlatEmpty
  <2>5. Done(0)
    <3>1. off[0] <= off[0]
      BY <2>2
    <3>2. FlattenSeq(Part(0)) = SubSeq(b, off[0] + 1, off[0])
      <4> HIDE DEF Part
      <4>q. QED BY <2>3, <2>4
    <3> HIDE DEF Part
    <3>q. QED BY <3>1, <3>2
  <2> HIDE DEF Done
  <2>q. QED BY <2>5
<1>3. ASSUME NEW k \in T PROVE k + 1 \in T
  <2>0. k \in Nat /\ k + 1 \in Nat /\ (k <= n => Done(k))
        /\ (k + 1 \in T <=> (k + 1 <= n => Done(k + 1)))
    <3> HIDE DEF Done
    <3>q. QED OBVIOUS
  <2>1. ASSUME k + 1 <= n PROVE Done(k + 1)
    <3>1. k \in 0..n /\ k + 1 \in 0..n /\ 0 \in 0..n /\ k + 1 \in 1..n /\ (k + 1) - 1 = k
      <4>1. k \in Nat
        BY <2>0
      <4>q. QED BY <2>1, <4>1
    <3>2. off[0] <= off[k] /\ FlattenSeq(Part(k)) = SubSeq(b, off[0] + 1, off[k])
      <4>1. k <= n
        BY <3>1
      <4>2. Done(k)
        <5> HIDE DEF Done
        <5>q. QED BY <2>0, <4>1
      <4> HIDE DEF Part
      <4>q. QED BY <4>2
    <3>3. off[k] <= off[k + 1]
      <4> DEFINE j == k + 1
      <4>1. off[j - 1] <= off[j]
        BY <3>1
      <4> HIDE DEF j
      <4>2. j - 1 = k
        BY <3>1 DEF j
      <4>q. QED BY <4>1, <4>2 DEF j
    <3>4. Part(k + 1) \in [1..k + 1 -> V] /\ Part(k) \in [1..k -> V]
      <4>1. \A i \in 1..k + 1 : i \in 1..n
        BY <3>1
      <4>2. \A i \in 1..k : i \in 1..n
        BY <3>1
      <4> HIDE DEF V, slice
      <4>q. QED BY <1>1, <4>1, <4>2
    <3>5. \A i \in 1..k : Part(k + 1)[i] = Part(k)[i]
      <4> HIDE DEF slice
      <4>q. QED BY <3>1
    <3>6. Part(k + 1)[k + 1] = SubSeq(b, off[k] + 1, off[k + 1])
      <4> DEFINE j == k + 1
      <4>1. Part(j)[j] = slice(j)
        <5> HIDE DEF slice
        <5>q. QED BY <3>1
      <4>2. slice(j) = SubSeq(b, off[j - 1] + 1, off[j])
        OBVIOUS
      <4>3. j - 1 = k
        BY <3>1
      <4>q. QED BY <4>1, <4>2, <4>3
    <3> DEFINE g == Part(k + 1)
               h == Part(k)
    <3>7. FlattenSeq(g) = FlattenSeq(h) \o g[k + 1]
      <4>1. g \in [1..k + 1 -> Seq(S)] /\ h \in [1..k -> Seq(S)] /\ \A i \in 1..k : g[i] = h[i]
        BY <3>4, <3>5
      <4>2. k \in Nat
        BY <2>0
      <4> HIDE DEF g, h
      <4>q. QED BY <4>1, <4>2, FlatMore
    <3>8. SubSeq(b, off[0] + 1, off[k]) \o SubSeq(b, off[k] + 1, off[k + 1])
            = SubSeq(b, off[0] + 1, off[k + 1])
      <4> DEFINE x == off[0] + 1
                 y == off[k]
                 z == off[k + 1]
      <4>1. x \in 1..Len(b) + 1 /\ y \in x - 1..Len(b) /\ z \in y..Len(b)
        BY <1>0, <3>1, <3>2, <3>3
      <4>2. SubSeq(b, x, y) \o SubSeq(b, y + 1, z) = SubSeq(b, x, z)
        <5> HIDE DEF x, y, z
        <5>q. QED BY <4>1, ConcatAdjacentSubSeq
      <4>q. QED BY <4>2
    <3>9. off[0] <= off[k + 1]
      BY <1>0, <3>1, <3>2, <3>3
    <3>q. QED BY <3>2, <3>6, <3>7, <3>8, <3>9
  <2> HIDE DEF T, Done
  <2>q. QED BY <2>0, <2>1
<1>4. T = Nat
  <2>1. T \in SUBSET Nat
    OBVIOUS
  <2> HIDE DEF T
  <2>q. QED BY <1>2, <1>3, <2>1, Induction
<1>5. n \in T
  <2> HIDE DEF T
  <2>q. QED BY <1>4
<1>6. FlattenSeq(Part(n)) = SubSeq(b, off[0] + 1, off[n])
  <2> HIDE DEF Part
  <2>q. QED BY <1>5
<1>q. QED BY <1>6

Times(x, k) == [j \in 1..k |-> x]

\* One for every place of a set, whatever the order of the places.
LEMMA FlatSingles ==
    ASSUME NEW S, NEW x \in S, NEW n \in Nat, NEW A \in SUBSET (1..n)
    PROVE  /\ Cardinality(A) \in Nat
           /\ FlattenSeq([i \in 1..n |-> IF i \in A THEN <<x>> ELSE <<>>])
                = Times(x, Cardinality(A))
<1> DEFINE V == Seq(S)
           pick(B, i) == IF i \in B THEN <<x>> ELSE <<>>
           All(B, k) == [i \in 1..k |-> pick(B, i)]
           Counted(B, k) == /\ Cardinality(B) \in Nat
                            /\ FlattenSeq(All(B, k)) = Times(x, Cardinality(B))
           T == {k \in Nat : \A B \in SUBSET (1..k) : Counted(B, k)}
<1>0. \A B, i : pick(B, i) \in V
  OBVIOUS
<1>1. 0 \in T
  <2>1. ASSUME NEW B \in SUBSET (1..0) PROVE Counted(B, 0)
    <3>1. B = {} /\ Cardinality(B) = 0
      <4>1. B = {}
        OBVIOUS
      <4>q. QED BY <4>1, FS_EmptySet
    <3>2. All(B, 0) \in [1..0 -> Seq(S)]
      <4> HIDE DEF pick
      <4>q. QED OBVIOUS
    <3>3. FlattenSeq(All(B, 0)) = <<>>
      <4> DEFINE a == All(B, 0)
      <4>1. a \in [1..0 -> Seq(S)]
        BY <3>2
      <4> HIDE DEF a, All
      <4>2. FlattenSeq(a) = <<>>
        BY <4>1, FlatEmpty
      <4>q. QED BY <4>2 DEF a
    <3>4. Times(x, 0) = <<>>
      BY DEF Times
    <3> HIDE DEF All
    <3>q. QED BY <3>1, <3>3, <3>4
  <2> HIDE DEF Counted
  <2>q. QED BY <2>1
<1>2. ASSUME NEW k \in T PROVE k + 1 \in T
  <2>0. k \in Nat /\ k + 1 \in Nat /\ \A B \in SUBSET (1..k) : Counted(B, k)
    <3> HIDE DEF Counted
    <3>q. QED OBVIOUS
  <2>1. ASSUME NEW B \in SUBSET (1..k + 1) PROVE Counted(B, k + 1)
    <3> DEFINE C == B \ {k + 1}
    <3>1. C \in SUBSET (1..k)
      BY <2>0
    <3>2. Cardinality(C) \in Nat /\ FlattenSeq(All(C, k)) = Times(x, Cardinality(C))
      <4> HIDE DEF C, All
      <4>q. QED BY <2>0, <3>1
    <3>3. IsFiniteSet(B)
      <4>1. IsFiniteSet(1..k + 1)
        BY <2>0, FS_Interval
      <4>q. QED BY <4>1, FS_Subset
    <3>4. /\ Cardinality(B) \in Nat
          /\ Cardinality(C) = IF k + 1 \in B THEN Cardinality(B) - 1 ELSE Cardinality(B)
      BY <3>3, FS_CardinalityType, FS_RemoveElement
    <3> DEFINE g == All(B, k + 1)
               h == All(C, k)
    <3>5. g \in [1..k + 1 -> Seq(S)] /\ h \in [1..k -> Seq(S)]
      <4> HIDE DEF pick, V
      <4>1. g \in [1..k + 1 -> V] /\ h \in [1..k -> V]
        BY <1>0
      <4>q. QED BY <4>1 DEF V
    <3>6. \A i \in 1..k : g[i] = h[i]
      <4>1. ASSUME NEW i \in 1..k PROVE g[i] = h[i]
        <5>1. i \in 1..k + 1 /\ (i \in B <=> i \in C)
          BY <2>0
        <5>q. QED BY <5>1
      <4> HIDE DEF g, h
      <4>q. QED BY <4>1
    <3>7. g[k + 1] = pick(B, k + 1)
      <4>1. k + 1 \in 1..k + 1
        BY <2>0
      <4> HIDE DEF pick
      <4>q. QED BY <4>1
    <3>8. FlattenSeq(g) = FlattenSeq(h) \o g[k + 1]
      <4>1. k \in Nat
        BY <2>0
      <4> HIDE DEF g, h
      <4>q. QED BY <3>5, <3>6, <4>1, FlatMore
    <3> DEFINE c == Cardinality(C)
    <3>9. Times(x, c) \in Seq(S) /\ Len(Times(x, c)) = c
      <4>1. c \in Nat /\ Times(x, c) \in [1..c -> S]
        BY <3>2 DEF Times
      <4> HIDE DEF c
      <4>q. QED BY <4>1, Listed
    <3>10. CASE k + 1 \in B
      <4>1. Cardinality(B) = c + 1 /\ c \in Nat
        BY <3>2, <3>4, <3>10
      <4> HIDE DEF c
      <4>2. Times(x, c + 1) = Append(Times(x, c), x)
        <5>1. Times(x, c + 1) \in [1..c + 1 -> S] /\ Times(x, c) \in [1..c -> S]
          BY DEF Times
        <5>2. (\A i \in 1..c : Times(x, c + 1)[i] = Times(x, c)[i]) /\ Times(x, c + 1)[c + 1] = x
          BY <4>1 DEF Times
        <5> DEFINE p == Times(x, c + 1)
                   q == Times(x, c)
        <5>3. p \in [1..c + 1 -> S] /\ q \in [1..c -> S] /\ (\A i \in 1..c : p[i] = q[i]) /\ p[c + 1] = x
          BY <5>1, <5>2
        <5> HIDE DEF p, q
        <5>4. p = Append(q, p[c + 1])
          BY <4>1, <5>3, OneMore
        <5>q. QED BY <5>3, <5>4 DEF p, q
      <4>3. g[k + 1] = <<x>>
        BY <3>7, <3>10
      <4>4. Append(Times(x, c), x) = Times(x, c) \o <<x>>
        BY <3>9, AppendIsConcat
      <4>5. FlattenSeq(h) = Times(x, c)
        BY <3>2 DEF c
      <4> HIDE DEF g, h
      <4>6. FlattenSeq(g) = Times(x, Cardinality(B))
        BY <3>8, <4>1, <4>2, <4>3, <4>4, <4>5
      <4>q. QED BY <3>4, <4>6 DEF g
    <3>11. CASE k + 1 \notin B
      <4>1. Cardinality(B) = c
        BY <3>4, <3>11
      <4>3. g[k + 1] = <<>>
        BY <3>7, <3>11
      <4>4. Times(x, c) \o <<>> = Times(x, c)
        <5> HIDE DEF c
        <5>q. QED BY <3>9, ConcatEmptySeq
      <4>5. FlattenSeq(h) = Times(x, c)
        BY <3>2
      <4> HIDE DEF g, h, c
      <4>6. FlattenSeq(g) = Times(x, Cardinality(B))
        BY <3>8, <4>1, <4>3, <4>4, <4>5
      <4>q. QED BY <3>4, <4>6 DEF g
    <3>q. QED BY <3>10, <3>11
  <2> HIDE DEF Counted
  <2>q. QED BY <2>0, <2>1
<1>3. T = Nat
  <2>1. T \in SUBSET Nat
    OBVIOUS
  <2> HIDE DEF T
  <2>q. QED BY <1>1, <1>2, <2>1, Induction
<1>4. n \in T
  <2> HIDE DEF T
  <2>q. QED BY <1>3
<1>5. Counted(A, n)
  <2> HIDE DEF Counted
  <2>q. QED BY <1>4
<1>q. QED BY <1>5

(***************************************************************************)
(* A file is cut into lines by the positions where they end.               *)
(***************************************************************************)
\* Where lines end: off[n] is the last byte of line n.
Cut(b, k, off) ==
    /\ off \in [0..k -> 0..Len(b)] /\ off[0] = 0 /\ off[k] = Len(b)
    /\ \A n \in 1..k :
         /\ off[n - 1] < off[n]
         /\ \A i \in off[n - 1] + 1..off[n] - 1 : b[i] # NL
         /\ n < k => b[off[n]] = NL

\* A cut of a file has its positions in the file and in order.
LEMMA CutTypes ==
    ASSUME NEW b \in Seq(Nat), NEW k \in Nat, NEW off, Cut(b, k, off)
    PROVE  /\ Len(b) \in Nat /\ \A i \in 1..Len(b) : b[i] \in Nat
           /\ \A n \in 0..k : off[n] \in Int /\ 0 <= off[n] /\ off[n] <= Len(b)
           /\ \A n \in 1..k : off[n - 1] \in Int /\ off[n] \in Int /\ off[n - 1] < off[n]
<1>1. Len(b) \in Nat /\ \A i \in 1..Len(b) : b[i] \in Nat
  BY LenProperties
<1>2. \A n \in 0..k : off[n] \in Int /\ 0 <= off[n] /\ off[n] <= Len(b)
  BY <1>1 DEF Cut
<1>3. ASSUME NEW n \in 1..k PROVE off[n - 1] \in Int /\ off[n] \in Int /\ off[n - 1] < off[n]
  <2>1. n - 1 \in 0..k /\ n \in 0..k
    OBVIOUS
  <2>2. off[n - 1] < off[n]
    BY DEF Cut
  <2>q. QED BY <1>2, <2>1, <2>2
<1>q. QED BY <1>1, <1>2, <1>3

\* In order, however far apart.
LEMMA CutGrows ==
    ASSUME NEW b \in Seq(Nat), NEW k \in Nat, NEW off, Cut(b, k, off),
           NEW m \in 0..k, NEW n \in 0..k, m < n
    PROVE  off[m] < off[n]
<1> DEFINE T == {d \in Nat : m + 1 + d <= k => off[m] < off[m + 1 + d]}
<1>0. /\ \A i \in 0..k : off[i] \in Int
      /\ \A i \in 1..k : off[i - 1] < off[i]
  BY CutTypes
<1>1. 0 \in T
  <2>1. ASSUME m + 1 <= k PROVE off[m] < off[m + 1]
    <3> DEFINE i == m + 1
    <3>1. i \in 1..k /\ i - 1 = m
      BY <2>1
    <3> HIDE DEF i
    <3>2. off[i - 1] < off[i]
      BY <1>0, <3>1
    <3>q. QED BY <3>1, <3>2 DEF i
  <2>2. m + 1 + 0 = m + 1
    OBVIOUS
  <2>q. QED BY <2>1, <2>2
<1>2. ASSUME NEW d \in T PROVE d + 1 \in T
  <2>0. d \in Nat /\ d + 1 \in Nat
    OBVIOUS
  <2>1. ASSUME m + 1 + (d + 1) <= k PROVE off[m] < off[m + 1 + (d + 1)]
    <3> DEFINE i == m + 1 + (d + 1)
               j == m + 1 + d
    <3>1. off[m] < off[j]
      BY <2>0, <2>1
    <3>2. i \in 1..k /\ i - 1 = j /\ j \in 0..k /\ i \in 0..k
      BY <2>0, <2>1
    <3> HIDE DEF i, j
    <3>3. off[j] < off[i]
      <4>1. off[i - 1] < off[i]
        BY <1>0, <3>2
      <4>q. QED BY <3>2, <4>1
    <3>4. off[m] \in Int /\ off[j] \in Int /\ off[i] \in Int
      BY <1>0, <3>2
    <3>5. off[m] < off[i]
      BY <3>1, <3>3, <3>4
    <3>q. QED BY <3>5 DEF i
  <2>q. QED BY <2>0, <2>1
<1>3. T = Nat
  <2>1. T \in SUBSET Nat
    OBVIOUS
  <2> HIDE DEF T
  <2>q. QED BY <1>1, <1>2, <2>1, Induction
<1> DEFINE d == n - m - 1
<1>4. d \in Nat /\ m + 1 + d = n /\ n <= k
  OBVIOUS
<1>5. d \in T
  <2> HIDE DEF T, d
  <2>q. QED BY <1>3, <1>4
<1> HIDE DEF d
<1>6. m + 1 + d <= k => off[m] < off[m + 1 + d]
  BY <1>5
<1>q. QED BY <1>4, <1>6

\* Every byte is in a line.
LEMMA CutCovers ==
    ASSUME NEW b \in Seq(Nat), NEW k \in Nat, NEW off, Cut(b, k, off), NEW j \in 1..Len(b)
    PROVE  \E n \in 1..k : off[n - 1] < j /\ j <= off[n]
<1> DEFINE T == {n \in 0..k : j <= off[n]}
<1>0. /\ Len(b) \in Nat
      /\ \A i \in 0..k : off[i] \in Int
      /\ off[0] = 0 /\ off[k] = Len(b)
  BY CutTypes DEF Cut
<1>1. T \in SUBSET Nat /\ T # {}
  <2>1. k \in T
    BY <1>0
  <2>2. T \in SUBSET Nat
    OBVIOUS
  <2>q. QED BY <2>1, <2>2
<1>2. PICK n \in T : \A m \in T : n <= m
  <2> HIDE DEF T
  <2>q. QED BY <1>1, Least
<1>3. n \in 0..k /\ j <= off[n] /\ n # 0
  BY <1>0
<1>4. n - 1 \in 0..k /\ n \in 1..k /\ n - 1 \notin T
  BY <1>2, <1>3
<1>5. off[n - 1] < j
  BY <1>0, <1>4
<1>q. QED BY <1>3, <1>4, <1>5

\* The lines that end before a byte number the line it is in.
LEMMA CutLineOf ==
    ASSUME NEW b \in Seq(Nat), NEW k \in Nat, NEW off, Cut(b, k, off),
           NEW n \in 1..k, NEW i \in off[n - 1] + 1..off[n]
    PROVE  LineOf(b, i) = n
<1> DEFINE A == 1..(n - 1)
           B == {j \in 1..(i - 1) : b[j] = NL}
           f == [m \in A |-> off[m]]
<1>0. /\ Len(b) \in Nat
      /\ \A m \in 0..k : off[m] \in Int /\ 0 <= off[m] /\ off[m] <= Len(b)
      /\ \A m \in 1..k : off[m - 1] < off[m]
      /\ \A m \in 1..k : \A j \in off[m - 1] + 1..off[m] - 1 : b[j] # NL
      /\ \A m \in 1..k : m < k => b[off[m]] = NL
      /\ off[0] = 0
  BY CutTypes DEF Cut
<1>a. n - 1 \in 0..k /\ n \in 0..k /\ i \in Int /\ off[n - 1] < i /\ i <= off[n]
  <2>1. n - 1 \in 0..k /\ n \in 0..k
    OBVIOUS
  <2>2. off[n - 1] \in Int /\ off[n] \in Int
    BY <1>0, <2>1
  <2>q. QED BY <2>1, <2>2
<1>1. ASSUME NEW m \in A PROVE off[m] \in B
  <2>1. m \in 1..k /\ m \in 0..k /\ m < k /\ 0 \in 0..k
    OBVIOUS
  <2>2. off[m] <= off[n - 1]
    <3>1. CASE m = n - 1
      BY <1>0, <1>a, <3>1
    <3>2. CASE m < n - 1
      <4> DEFINE p == n - 1
      <4>1. p \in 0..k /\ m < p
        BY <1>a, <3>2
      <4> HIDE DEF p
      <4>2. off[m] < off[p]
        BY <2>1, <4>1, CutGrows
      <4>3. off[m] \in Int /\ off[p] \in Int
        BY <1>0, <2>1, <4>1
      <4>4. off[m] <= off[p]
        BY <4>2, <4>3
      <4>q. QED BY <4>4 DEF p
    <3>q. QED BY <3>1, <3>2
  <2>3. off[0] < off[m]
    <3> DEFINE z == 0
    <3>1. z \in 0..k /\ z < m
      OBVIOUS
    <3> HIDE DEF z
    <3>2. off[z] < off[m]
      BY <2>1, <3>1, CutGrows
    <3>q. QED BY <3>2 DEF z
  <2>4. off[m] \in 1..(i - 1)
    <3> DEFINE p == n - 1
    <3>1. off[m] \in Int /\ off[p] \in Int /\ 0 < off[m]
      BY <1>0, <1>a, <2>1, <2>3
    <3>2. off[m] <= off[p] /\ off[p] < i
      BY <1>a, <2>2
    <3> HIDE DEF p
    <3>q. QED BY <1>a, <3>1, <3>2
  <2>5. b[off[m]] = NL
    BY <1>0, <2>1
  <2>q. QED BY <2>4, <2>5
<1>2. ASSUME NEW j \in B PROVE \E m \in A : off[m] = j
  <2>1. j \in 1..(i - 1) /\ b[j] = NL /\ j \in 1..Len(b)
    BY <1>0, <1>a
  <2>2. PICK m \in 1..k : off[m - 1] < j /\ j <= off[m]
    BY <2>1, CutCovers
  <2>3. off[m] = j
    <3>1. m - 1 \in 0..k /\ m \in 0..k
      OBVIOUS
    <3>2. ~(j \in off[m - 1] + 1..off[m] - 1)
      BY <1>0, <2>1
    <3>q. QED BY <1>0, <2>1, <2>2, <3>1, <3>2, SMTT(60)
  <2>4. m < n
    <3>1. m \in 0..k /\ off[m] < off[n]
      BY <1>0, <1>a, <2>1, <2>3
    <3>2. ASSUME n <= m PROVE FALSE
      <4>1. CASE n = m
        BY <1>0, <1>a, <3>1, <4>1
      <4>2. CASE n < m
        <5>1. off[n] < off[m]
          BY <1>a, <3>1, <4>2, CutGrows
        <5>q. QED BY <1>0, <1>a, <3>1, <5>1
      <4>q. QED BY <3>2, <4>1, <4>2
    <3>q. QED BY <3>2
  <2>5. m \in A
    BY <2>4
  <2>q. QED BY <2>3, <2>5
<1>3. f \in Bijection(A, B)
  <2>1. f \in [A -> B]
    <3> HIDE DEF A, B
    <3>q. QED BY <1>1
  <2>2. \A p, q \in A : f[p] = f[q] => p = q
    <3>1. ASSUME NEW p \in A, NEW q \in A, p # q PROVE off[p] # off[q]
      <4>1. p \in 0..k /\ q \in 0..k /\ (p < q \/ q < p)
        BY <3>1
      <4>2. off[p] < off[q] \/ off[q] < off[p]
        BY <4>1, CutGrows
      <4>3. off[p] \in Int /\ off[q] \in Int
        BY <1>0, <4>1
      <4>q. QED BY <4>2, <4>3
    <3>2. \A p \in A : f[p] = off[p]
      OBVIOUS
    <3> HIDE DEF A, f
    <3>q. QED BY <3>1, <3>2
  <2>3. \A j \in B : \E p \in A : f[p] = j
    <3> HIDE DEF B, A
    <3>q. QED BY <1>2
  <2> HIDE DEF A, B, f
  <2>q. QED BY <2>1, <2>2, <2>3 DEF Bijection, Injection, Surjection, IsInjective
<1>4. Cardinality(B) = n - 1
  <2>1. IsFiniteSet(A) /\ Cardinality(A) = n - 1
    <3> DEFINE c == n - 1
               u == 1
    <3>1. c \in Int /\ u \in Int /\ (u > c => c = 0) /\ c - u + 1 = c
      OBVIOUS
    <3> HIDE DEF c, u
    <3>2. IsFiniteSet(u..c) /\ Cardinality(u..c) = IF u > c THEN 0 ELSE c - u + 1
      BY <3>1, FS_Interval
    <3>q. QED BY <3>1, <3>2 DEF c, u
  <2> HIDE DEF A, B, f
  <2>2. ExistsBijection(A, B)
    BY <1>3 DEF ExistsBijection
  <2>q. QED BY <2>1, <2>2, FS_Bijection
<1>q. QED BY <1>4 DEF LineOf

\* The smallest and the largest of an interval.
LEMMA Ends ==
    ASSUME NEW x \in Int, NEW y \in Int, x <= y
    PROVE  Min(x..y) = x /\ Max(x..y) = y
<1>1. Min(x..y) = x
  <2>1. x \in x..y /\ \A z \in x..y : x <= z
    OBVIOUS
  <2>2. \A w \in x..y : (\A z \in x..y : w <= z) => w = x
    BY <2>1
  <2>q. QED BY <2>1, <2>2 DEF Min
<1>2. Max(x..y) = y
  <2>1. y \in x..y /\ \A z \in x..y : y >= z
    OBVIOUS
  <2>2. \A w \in x..y : (\A z \in x..y : w >= z) => w = y
    BY <2>1
  <2>q. QED BY <2>1, <2>2 DEF Max
<1>q. QED BY <1>1, <1>2

\* The lines of the reference are the slices of a cut.
LEMMA CutLines ==
    ASSUME NEW b \in Seq(Nat), NEW k \in Nat, NEW off, Cut(b, k, off)
    PROVE  /\ LineCount(b) = k
           /\ \A n \in 1..k : TextOf(b, n) = SubSeq(b, off[n - 1] + 1, off[n])
<1>0. /\ Len(b) \in Nat
      /\ \A m \in 0..k : off[m] \in Int /\ 0 <= off[m] /\ off[m] <= Len(b)
      /\ \A m \in 1..k : off[m - 1] \in Int /\ off[m] \in Int /\ off[m - 1] < off[m]
      /\ off[0] = 0 /\ off[k] = Len(b)
      /\ DOMAIN b = 1..Len(b)
  BY CutTypes, LenProperties DEF Cut
<1>1. LineCount(b) = k
  <2>1. CASE k = 0
    <3>1. Len(b) = 0
      BY <1>0, <2>1
    <3>2. b = <<>>
      BY <3>1, EmptySeq
    <3>q. QED BY <2>1, <3>2 DEF LineCount
  <2>2. CASE k # 0
    <3>1. k \in 1..k /\ Len(b) \in off[k - 1] + 1..off[k]
      BY <1>0, <2>2
    <3>2. LineOf(b, Len(b)) = k
      BY <3>1, CutLineOf
    <3>3. b # <<>>
      <4>1. Len(b) # 0
        BY <1>0, <3>1
      <4>q. QED BY <4>1, EmptySeq
    <3>q. QED BY <3>2, <3>3 DEF LineCount
  <2>q. QED BY <2>1, <2>2
<1>2. ASSUME NEW n \in 1..k PROVE TextOf(b, n) = SubSeq(b, off[n - 1] + 1, off[n])
  <2> DEFINE own == {i \in DOMAIN b : LineOf(b, i) = n}
             x == off[n - 1] + 1
             y == off[n]
  <2>0. x \in Int /\ y \in Int /\ x <= y /\ 1 <= x /\ y <= Len(b)
    <3>1. n - 1 \in 0..k /\ n \in 0..k
      OBVIOUS
    <3>q. QED BY <1>0, <3>1
  <2>1. own = x..y
    <3>1. ASSUME NEW i \in x..y PROVE i \in own
      <4>1. i \in 1..Len(b)
        BY <2>0
      <4>2. LineOf(b, i) = n
        BY CutLineOf
      <4>q. QED BY <1>0, <4>1, <4>2
    <3>2. ASSUME NEW i \in own PROVE i \in x..y
      <4>1. i \in 1..Len(b) /\ LineOf(b, i) = n
        BY <1>0
      <4>2. PICK m \in 1..k : off[m - 1] < i /\ i <= off[m]
        BY <4>1, CutCovers
      <4>3. i \in off[m - 1] + 1..off[m]
        BY <1>0, <4>1, <4>2
      <4>4. LineOf(b, i) = m
        BY <4>3, CutLineOf
      <4>q. QED BY <4>1, <4>3, <4>4
    <3> HIDE DEF own
    <3>q. QED BY <3>1, <3>2
  <2> HIDE DEF own, x, y
  <2>2. Min(own) = x /\ Max(own) = y
    BY <2>0, <2>1, Ends
  <2>q. QED BY <2>2 DEF TextOf, own, x, y
<1>q. QED BY <1>1, <1>2

(***************************************************************************)
(* Scanning: the end of the next line is where the cut has it.             *)
(***************************************************************************)
Lines(b) == [n \in 1..LineCount(b) |-> TextOf(b, n)]

Sliced(b, k, off) == [n \in 1..k |-> SubSeq(b, off[n - 1] + 1, off[n])]

LEMMA CutSlices ==
    ASSUME NEW b \in Seq(Nat), NEW k \in Nat, NEW off, Cut(b, k, off)
    PROVE  LineCount(b) = k /\ Lines(b) = Sliced(b, k, off)
<1>1. LineCount(b) = k /\ \A n \in 1..k : TextOf(b, n) = SubSeq(b, off[n - 1] + 1, off[n])
  BY CutLines
<1>q. QED BY <1>1 DEF Lines, Sliced

\* A line ends at its newline, or at the end of the file.
LEMMA LineEndFound ==
    ASSUME NEW b \in Seq(Nat), NEW from \in 1..Len(b)
    PROVE  /\ LineEnd(b, from) \in from..Len(b)
           /\ \A i \in from..LineEnd(b, from) - 1 : b[i] # NL
           /\ LineEnd(b, from) < Len(b) => b[LineEnd(b, from)] = NL
<1> DEFINE T == {Len(b)} \cup {i \in from..Len(b) : b[i] = NL}
           e == LineEnd(b, from)
<1>0. Len(b) \in Nat
  BY LenProperties
<1>1. T \in SUBSET Nat /\ Len(b) \in T /\ \A i \in T : i \in from..Len(b)
  BY <1>0
<1>2. PICK n \in T : \A m \in T : n <= m
  <2> HIDE DEF T
  <2>1. T # {}
    BY <1>1
  <2>q. QED BY <1>1, <2>1, Least
<1>3. e = Min(T)
  BY DEF LineEnd
<1>4. e \in T /\ \A m \in T : e <= m
  <2> HIDE DEF T, e
  <2>q. QED BY <1>2, <1>3 DEF Min
<1>5. e \in from..Len(b)
  <2> HIDE DEF T, e
  <2>q. QED BY <1>1, <1>4
<1>6. ASSUME NEW i \in from..e - 1 PROVE b[i] # NL
  <2>1. i < e /\ i \in from..Len(b)
    <3> HIDE DEF e
    <3>q. QED BY <1>0, <1>5
  <2>2. i \notin T
    <3> HIDE DEF T, e
    <3>1. e \in Int /\ i \in Int
      BY <1>5
    <3>q. QED BY <1>4, <2>1, <3>1
  <2>q. QED BY <2>1, <2>2
<1>7. e < Len(b) => b[e] = NL
  <2> HIDE DEF e
  <2>q. QED BY <1>0, <1>4, <1>5
<1> HIDE DEF e
<1>q. QED BY <1>5, <1>6, <1>7 DEF e

\* Lines cut from the front of the bytes, as far as one has come.
Begun(b, k, off) ==
    /\ off \in [0..k -> 0..Len(b)] /\ off[0] = 0
    /\ \A n \in 1..k :
         /\ off[n - 1] < off[n]
         /\ \A i \in off[n - 1] + 1..off[n] - 1 : b[i] # NL
         /\ off[n] < Len(b) => b[off[n]] = NL

\* A cut that reaches the end is one of the file.
LEMMA BegunEnds ==
    ASSUME NEW b \in Seq(Nat), NEW k \in Nat, NEW off, Begun(b, k, off), off[k] = Len(b)
    PROVE  Cut(b, k, off)
<1>1. ASSUME NEW n \in 1..k, n < k PROVE b[off[n]] = NL
  <2> DEFINE m == n + 1
  <2>1. m \in 1..k /\ m - 1 = n /\ m \in 0..k /\ n \in 0..k
    BY <1>1
  <2> HIDE DEF m
  <2>2. off[m - 1] < off[m]
    BY <2>1 DEF Begun
  <2>3. off[m] \in 0..Len(b) /\ off[n] \in 0..Len(b) /\ Len(b) \in Nat
    BY <2>1, LenProperties DEF Begun
  <2>4. off[n] < Len(b)
    BY <2>1, <2>2, <2>3
  <2>q. QED BY <2>4 DEF Begun
<1>q. QED BY <1>1 DEF Begun, Cut

\* What has been scanned: lines that begin the bytes.
Scanned(b) ==
    {s \in [lines : Seq(Seq(Nat)), from : Nat] :
        \E k \in Nat : \E off \in [0..k -> 0..Len(b)] :
            Begun(b, k, off) /\ s.from = off[k] + 1 /\ s.lines = Sliced(b, k, off)}

LEMMA ScanStarts ==
    ASSUME NEW b \in Seq(Nat) PROVE [lines |-> <<>>, from |-> 1] \in Scanned(b)
<1> DEFINE off == [n \in 0..0 |-> 0]
           s == [lines |-> <<>>, from |-> 1]
<1>1. Len(b) \in Nat
  BY LenProperties
<1>2. off \in [0..0 -> 0..Len(b)] /\ off[0] = 0
  BY <1>1
<1>3. Begun(b, 0, off)
  BY <1>2 DEF Begun
<1>4. Sliced(b, 0, off) = <<>>
  BY DEF Sliced
<1>5. s \in [lines : Seq(Seq(Nat)), from : Nat]
  <2> DEFINE V == Seq(Nat)
  <2>1. <<>> \in Seq(V)
    <3> HIDE DEF V
    <3>q. QED BY EmptySeq
  <2>q. QED BY <2>1
<1>6. s.from = off[0] + 1 /\ s.lines = Sliced(b, 0, off)
  BY <1>2, <1>4
<1> HIDE DEF off, s
<1>q. QED BY <1>2, <1>3, <1>5, <1>6 DEF Scanned, s

\* Every round of the scan cuts off one line and advances.
LEMMA ScanSteps ==
    ASSUME NEW b \in Seq(Nat), NEW s \in Scanned(b)
    PROVE  /\ NextLine(b, s) \in Scanned(b)
           /\ s.from \in Nat /\ NextLine(b, s).from \in Nat
           /\ s.from > Len(b) => NextLine(b, s).from > Len(b)
           /\ s.from <= Len(b) => NextLine(b, s).from > s.from
<1>0. Len(b) \in Nat /\ \A i \in 1..Len(b) : b[i] \in Nat
  BY LenProperties
<1>1. PICK k \in Nat : \E off \in [0..k -> 0..Len(b)] :
            Begun(b, k, off) /\ s.from = off[k] + 1 /\ s.lines = Sliced(b, k, off)
  BY DEF Scanned
<1>2. PICK off \in [0..k -> 0..Len(b)] :
            Begun(b, k, off) /\ s.from = off[k] + 1 /\ s.lines = Sliced(b, k, off)
  BY <1>1
<1>3. k \in 0..k /\ off[k] \in 0..Len(b) /\ s.from \in 1..Len(b) + 1
  BY <1>0, <1>2
<1>4. CASE s.from > Len(b)
  BY <1>0, <1>3, <1>4 DEF NextLine
<1>5. CASE ~(s.from > Len(b))
  <2> DEFINE from == s.from
             e == LineEnd(b, from)
             l == SubSeq(b, from, e)
             r == NextLine(b, s)
  <2>1. r = [lines |-> Append(s.lines, l), from |-> e + 1]
    BY <1>5 DEF NextLine
  <2>2. from \in 1..Len(b)
    BY <1>0, <1>3, <1>5
  <2>3. /\ e \in from..Len(b)
        /\ \A i \in from..e - 1 : b[i] # NL
        /\ e < Len(b) => b[e] = NL
    <3> HIDE DEF from
    <3>q. QED BY <2>2, LineEndFound
  <2> HIDE DEF from, e
  <2>4. l \in Seq(Nat)
    <3>1. from \in Int /\ e \in Int /\ \A i \in from..e : b[i] \in Nat
      BY <1>0, <2>2, <2>3
    <3>q. QED BY <3>1, SubSeqProperties
  <2> DEFINE new == [n \in 0..k + 1 |-> IF n = k + 1 THEN e ELSE off[n]]
  <2>5. new \in [0..k + 1 -> 0..Len(b)] /\ new[k + 1] = e /\ \A n \in 0..k : new[n] = off[n]
    <3>1. ASSUME NEW n \in 0..k + 1, n # k + 1 PROVE n \in 0..k
      BY <3>1
    <3>2. e \in 0..Len(b)
      BY <1>0, <2>2, <2>3
    <3>3. k + 1 \in 0..k + 1 /\ \A n \in 0..k : n \in 0..k + 1 /\ n # k + 1
      OBVIOUS
    <3>q. QED BY <3>1, <3>2, <3>3
  <2> HIDE DEF new
  <2>6. Begun(b, k + 1, new)
    <3>1. new[0] = 0
      BY <2>5, <1>2 DEF Begun
    <3>2. ASSUME NEW n \in 1..k + 1
          PROVE  /\ new[n - 1] < new[n]
                 /\ \A i \in new[n - 1] + 1..new[n] - 1 : b[i] # NL
                 /\ new[n] < Len(b) => b[new[n]] = NL
      <4>1. CASE n = k + 1
        <5>1. n - 1 = k /\ new[n] = e /\ new[n - 1] = off[k]
          BY <2>5, <4>1, k \in 0..k
        <5>2. off[k] + 1 = from
          BY <1>2 DEF from
        <5>q. QED BY <1>3, <2>2, <2>3, <5>1, <5>2
      <4>2. CASE n # k + 1
        <5>1. n \in 1..k /\ n \in 0..k /\ n - 1 \in 0..k
          BY <4>2
        <5>2. new[n] = off[n] /\ new[n - 1] = off[n - 1]
          BY <2>5, <5>1
        <5>q. QED BY <1>2, <5>1, <5>2 DEF Begun
      <4>q. QED BY <4>1, <4>2
    <3>q. QED BY <2>5, <3>1, <3>2 DEF Begun
  <2>7. r.lines = Sliced(b, k + 1, new) /\ r.lines \in Seq(Seq(Nat))
    <3> DEFINE V == Seq(Nat)
               g == Sliced(b, k + 1, new)
               h == Sliced(b, k, off)
    <3>1. ASSUME NEW n \in 1..k PROVE g[n] = h[n]
      <4>1. n \in 0..k /\ n - 1 \in 0..k /\ n \in 1..k + 1
        OBVIOUS
      <4>2. new[n] = off[n] /\ new[n - 1] = off[n - 1]
        BY <2>5, <4>1
      <4>q. QED BY <4>1, <4>2 DEF Sliced
    <3>2. g[k + 1] = l
      <4> DEFINE n == k + 1
      <4>1. n \in 1..k + 1 /\ n - 1 = k /\ k \in 0..k
        OBVIOUS
      <4>2. g[n] = SubSeq(b, new[n - 1] + 1, new[n])
        BY <4>1 DEF Sliced
      <4>3. new[n] = e /\ new[n - 1] + 1 = from
        BY <1>2, <2>5, <4>1 DEF from
      <4>q. QED BY <4>2, <4>3
    <3>3. h \in Seq(V) /\ Len(h) = k /\ h \in [1..k -> V]
      <4>1. h = s.lines /\ s.lines \in Seq(V)
        BY <1>2 DEF Scanned
      <4>2. DOMAIN h = 1..k
        BY DEF Sliced
      <4> HIDE DEF V, h
      <4>3. Len(h) \in Nat /\ DOMAIN h = 1..Len(h) /\ h \in [1..Len(h) -> V]
        BY <4>1, LenProperties
      <4>4. 1..Len(h) = 1..k
        BY <4>2, <4>3
      <4>5. h \in [1..k -> V]
        BY <4>3, <4>4
      <4>q. QED BY <4>1, <4>5, Listed
    <3>4. g \in [1..k + 1 -> V]
      <4>1. g = [n \in 1..k + 1 |-> g[n]]
        BY DEF Sliced
      <4>2. ASSUME NEW n \in 1..k + 1 PROVE g[n] \in V
        <5>1. CASE n = k + 1
          BY <2>4, <3>2, <5>1
        <5>2. CASE n # k + 1
          <6>1. n \in 1..k
            BY <5>2
          <6> HIDE DEF g, h, V
          <6>q. QED BY <3>1, <3>3, <6>1
        <5>q. QED BY <5>1, <5>2
      <4> HIDE DEF g, V
      <4>q. QED BY <4>1, <4>2
    <3>5. g = Append(h, g[k + 1])
      <4> HIDE DEF g, h, V
      <4>q. QED BY <3>1, <3>3, <3>4, OneMore
    <3>6. r.lines = Append(h, l)
      <4>1. s.lines = h
        BY <1>2
      <4>2. r.lines = Append(s.lines, l)
        <5> HIDE DEF l
        <5>q. QED BY <2>1
      <4> HIDE DEF h, l, r
      <4>q. QED BY <4>1, <4>2
    <3>7. Append(h, l) \in Seq(V)
      <4>1. l \in V
        BY <2>4
      <4> HIDE DEF h, l, V
      <4>q. QED BY <3>3, <4>1, AppendProperties
    <3>q. QED BY <3>2, <3>5, <3>6, <3>7
  <2>8. r.from = e + 1 /\ e + 1 \in Nat /\ r.from = new[k + 1] + 1
    BY <1>0, <2>1, <2>2, <2>3, <2>5
  <2>9. r \in [lines : Seq(Seq(Nat)), from : Nat]
    <3>1. r = [lines |-> r.lines, from |-> r.from]
      BY <2>1
    <3> HIDE DEF r
    <3>q. QED BY <2>7, <2>8, <3>1
  <2>10. r \in Scanned(b)
    <3>1. k + 1 \in Nat
      OBVIOUS
    <3> HIDE DEF r
    <3>q. QED BY <2>5, <2>6, <2>7, <2>8, <2>9, <3>1 DEF Scanned
  <2>11. r.from > from
    BY <2>2, <2>3, <2>8
  <2>q. QED BY <1>5, <2>2, <2>8, <2>10, <2>11 DEF from
<1>q. QED BY <1>4, <1>5

ScanRecursion(b, f) ==
    f = [n \in 0..Len(b) |-> IF n = 0 THEN [lines |-> <<>>, from |-> 1] ELSE NextLine(b, f[n - 1])]

\* The recursion of the scan exists.
LEMMA SomeScan ==
    ASSUME NEW b \in Seq(Nat) PROVE \E f : ScanRecursion(b, f)
<1> DEFINE m == Len(b)
           V == Scanned(b)
           first == [lines |-> <<>>, from |-> 1]
           next == [p \in (1..m) \X V |-> NextLine(b, p[2])]
<1>0. m \in Nat
  BY LenProperties
<1>1. first \in V
  BY ScanStarts
<1>2. next \in [(1..m) \X V -> V]
  <2>1. ASSUME NEW p \in (1..m) \X V PROVE NextLine(b, p[2]) \in V
    <3>1. p[2] \in V
      OBVIOUS
    <3>q. QED BY <3>1, ScanSteps
  <2> HIDE DEF m, V
  <2>q. QED BY <2>1
<1>3. PICK f : Goes(f, V, first, m, next)
  <2> HIDE DEF V, next, m, first
  <2>q. QED BY <1>0, <1>1, <1>2, Rounds
<1>4. ASSUME NEW n \in 0..m
      PROVE  f[n] = IF n = 0 THEN first ELSE NextLine(b, f[n - 1])
  <2>1. CASE n = 0
    <3> HIDE DEF first, next, V, m
    <3>q. QED BY <1>3, <2>1 DEF Goes
  <2>2. CASE n # 0
    <3>0. n \in 1..m /\ n - 1 \in 0..m
      <4> HIDE DEF m
      <4>q. QED BY <1>0, <2>2
    <3>1. f[n - 1] \in V
      <4> HIDE DEF first, next, V, m
      <4>q. QED BY <1>3, <3>0 DEF Goes
    <3>2. next[<<n, f[n - 1]>>] = NextLine(b, f[n - 1])
      <4> DEFINE x == f[n - 1]
      <4> HIDE DEF x, V, m
      <4>1. <<n, x>> \in (1..m) \X V
        BY <3>0, <3>1 DEF x
      <4>2. next[<<n, x>>] = NextLine(b, <<n, x>>[2])
        BY <4>1
      <4>3. <<n, x>>[2] = x
        OBVIOUS
      <4> HIDE DEF next
      <4>q. QED BY <4>2, <4>3 DEF x
    <3> HIDE DEF next, V, first, m
    <3>3. f[n] = next[<<n, f[n - 1]>>]
      BY <1>3, <3>0 DEF Goes
    <3>q. QED BY <2>2, <3>2, <3>3
  <2>q. QED BY <2>1, <2>2
<1>5. f = [n \in 0..m |-> IF n = 0 THEN first ELSE NextLine(b, f[n - 1])]
  <2> DEFINE e(n) == IF n = 0 THEN first ELSE NextLine(b, f[n - 1])
  <2>1. \A n \in 0..m : f[n] = e(n)
    BY <1>4
  <2>2. f = [n \in 0..m |-> f[n]]
    <3>1. f \in [0..m -> V]
      BY <1>3 DEF Goes
    <3> HIDE DEF m, V
    <3>q. QED BY <3>1
  <2> HIDE DEF e, m
  <2>3. [n \in 0..m |-> f[n]] = [n \in 0..m |-> e(n)]
    BY <2>1
  <2>q. QED BY <2>2, <2>3, Zenon DEF e
<1>q. QED BY <1>5, Zenon DEF ScanRecursion

\* The scan goes round by round.
LEMMA ScanRuns ==
    ASSUME NEW b \in Seq(Nat)
    PROVE  \E s : /\ \A n \in 0..Len(b) : s[n] \in Scanned(b)
                  /\ s[0].from = 1
                  /\ \A n \in 1..Len(b) : s[n] = NextLine(b, s[n - 1])
                  /\ Scan(b) = s[Len(b)].lines
<1> DEFINE m == Len(b)
           V == Scanned(b)
           first == [lines |-> <<>>, from |-> 1]
           next == [p \in (1..m) \X V |-> NextLine(b, p[2])]
           s == CHOOSE f : ScanRecursion(b, f)
<1>0. m \in Nat
  BY LenProperties
<1>1. ScanRecursion(b, s)
  BY SomeScan
<1>2. Scan(b) = s[m].lines
  BY DEF Scan, ScanRecursion
<1> HIDE DEF s
<1>3. s[0] = first /\ \A n \in 1..m : s[n] = NextLine(b, s[n - 1])
  <2>1. s = [n \in 0..m |-> IF n = 0 THEN first ELSE NextLine(b, s[n - 1])]
    BY <1>1 DEF ScanRecursion
  <2> HIDE DEF m, first
  <2>2. s[0] = first
    BY <1>0, <2>1
  <2>3. ASSUME NEW n \in 1..m PROVE s[n] = NextLine(b, s[n - 1])
    <3>1. n \in 0..m /\ n # 0
      BY <1>0
    <3>q. QED BY <2>1, <3>1
  <2>q. QED BY <2>2, <2>3
<1>4. first \in V
  BY ScanStarts
<1>5. next \in [(1..m) \X V -> V]
  <2>1. ASSUME NEW p \in (1..m) \X V PROVE NextLine(b, p[2]) \in V
    <3>1. p[2] \in V
      OBVIOUS
    <3>q. QED BY <3>1, ScanSteps
  <2> HIDE DEF m, V
  <2>q. QED BY <2>1
<1>6. ASSUME NEW n \in 1..m, s[n - 1] \in V PROVE s[n] = next[<<n, s[n - 1]>>]
  <2> DEFINE x == s[n - 1]
  <2>1. s[n] = NextLine(b, x) /\ x \in V
    BY <1>3, <1>6
  <2> HIDE DEF x, V, m
  <2>2. <<n, x>> \in (1..m) \X V
    BY <2>1
  <2>3. next[<<n, x>>] = NextLine(b, <<n, x>>[2])
    BY <2>2
  <2>4. <<n, x>>[2] = x
    OBVIOUS
  <2> HIDE DEF next
  <2>q. QED BY <2>1, <2>3, <2>4 DEF x
<1>7. \A n \in 0..m : s[n] \in V
  <2> HIDE DEF V, next, m, first
  <2>q. QED BY <1>0, <1>3, <1>4, <1>5, <1>6, Computed
<1>8. s[0].from = 1
  BY <1>3
<1> HIDE DEF V
<1>q. QED BY <1>2, <1>3, <1>7, <1>8 DEF V

\* Scanning finds the lines, and that bytes can be cut into lines.
LEMMA ScanExact ==
    ASSUME NEW b \in Seq(Nat)
    PROVE  /\ Scan(b) = Lines(b)
           /\ \E k \in Nat : \E off : Cut(b, k, off)
<1> DEFINE m == Len(b)
<1>0. m \in Nat
  BY LenProperties
<1>1. PICK s : /\ \A n \in 0..Len(b) : s[n] \in Scanned(b)
               /\ s[0].from = 1
               /\ \A n \in 1..Len(b) : s[n] = NextLine(b, s[n - 1])
               /\ Scan(b) = s[Len(b)].lines
  BY ScanRuns
<1> DEFINE T == {n \in Nat : n <= m => s[n].from > n}
<1>2. 0 \in T
  BY <1>1
<1>3. ASSUME NEW n \in T PROVE n + 1 \in T
  <2>0. n \in Nat /\ n + 1 \in Nat /\ (n <= m => s[n].from > n)
    OBVIOUS
  <2>1. ASSUME n + 1 <= m PROVE s[n + 1].from > n + 1
    <3> DEFINE j == n + 1
    <3>1. j \in 1..m /\ j - 1 = n /\ n \in 0..m /\ n <= m
      <4>1. n \in Nat
        BY <2>0
      <4> HIDE DEF m
      <4>q. QED BY <1>0, <2>1, <4>1
    <3> HIDE DEF j
    <3>2. s[j] = NextLine(b, s[n]) /\ s[n] \in Scanned(b)
      <4>1. s[j] = NextLine(b, s[j - 1])
        BY <1>1, <3>1
      <4>q. QED BY <1>1, <3>1, <4>1
    <3>3. /\ s[n].from \in Nat /\ s[j].from \in Nat
          /\ s[n].from > m => s[j].from > m
          /\ s[n].from <= m => s[j].from > s[n].from
      BY <3>2, ScanSteps
    <3>4. s[n].from > n /\ j <= m /\ n \in Nat /\ j = n + 1
      BY <2>0, <3>1 DEF j
    <3>5. s[j].from > j
      <4> HIDE DEF m
      <4>q. QED BY <1>0, <3>3, <3>4
    <3>q. QED BY <3>5 DEF j
  <2> HIDE DEF m
  <2>q. QED BY <2>0, <2>1
<1>4. T = Nat
  <2>1. T \in SUBSET Nat
    OBVIOUS
  <2> HIDE DEF T
  <2>q. QED BY <1>2, <1>3, <2>1, Induction
<1>5. m \in 0..m /\ s[m].from > m
  <2>1. m \in T
    <3> HIDE DEF T, m
    <3>q. QED BY <1>0, <1>4
  <2> HIDE DEF m
  <2>q. QED BY <1>0, <2>1
<1>6. PICK k \in Nat : \E off \in [0..k -> 0..Len(b)] :
            Begun(b, k, off) /\ s[m].from = off[k] + 1 /\ s[m].lines = Sliced(b, k, off)
  BY <1>1, <1>5 DEF Scanned
<1>7. PICK off \in [0..k -> 0..Len(b)] :
            Begun(b, k, off) /\ s[m].from = off[k] + 1 /\ s[m].lines = Sliced(b, k, off)
  BY <1>6
<1>8. off[k] = Len(b)
  <2>1. k \in 0..k /\ off[k] \in 0..m
    BY <1>7
  <2>2. off[k] + 1 > m
    BY <1>5, <1>7
  <2>3. off[k] = m
    <3> HIDE DEF m
    <3>q. QED BY <1>0, <2>1, <2>2
  <2>q. QED BY <2>3
<1>9. Cut(b, k, off)
  BY <1>7, <1>8, BegunEnds
<1>10. Scan(b) = Lines(b)
  BY <1>1, <1>7, <1>9, CutSlices
<1>q. QED BY <1>9, <1>10

\* What a line is.
LEMMA LineFacts ==
    ASSUME NEW b \in Seq(Nat)
    PROVE  /\ LineCount(b) \in Nat /\ LineCount(b) <= Len(b)
           /\ LineCount(b) = 0 <=> b = <<>>
           /\ \A n \in 1..LineCount(b) :
                /\ TextOf(b, n) \in Seq(Nat) /\ Len(TextOf(b, n)) \in Nat \ {0}
                /\ \A i \in 1..Len(TextOf(b, n)) - 1 : TextOf(b, n)[i] # NL
                /\ \A i \in 1..Len(TextOf(b, n)) : \E j \in 1..Len(b) : TextOf(b, n)[i] = b[j]
                /\ n < LineCount(b) => TextOf(b, n)[Len(TextOf(b, n))] = NL
                /\ n = LineCount(b) => TextOf(b, n)[Len(TextOf(b, n))] = b[Len(b)]
<1>1. PICK k \in Nat : \E off : Cut(b, k, off)
  BY ScanExact
<1>2. PICK off : Cut(b, k, off)
  BY <1>1
<1>3. LineCount(b) = k /\ \A n \in 1..k : TextOf(b, n) = SubSeq(b, off[n - 1] + 1, off[n])
  BY <1>2, CutLines
<1>4. /\ Len(b) \in Nat /\ \A i \in 1..Len(b) : b[i] \in Nat
      /\ \A m \in 0..k : off[m] \in Int /\ 0 <= off[m] /\ off[m] <= Len(b)
      /\ \A m \in 1..k : off[m - 1] \in Int /\ off[m] \in Int /\ off[m - 1] < off[m]
      /\ \A m \in 1..k : \A j \in off[m - 1] + 1..off[m] - 1 : b[j] # NL
      /\ \A m \in 1..k : m < k => b[off[m]] = NL
      /\ off[0] = 0 /\ off[k] = Len(b)
  BY <1>2, CutTypes DEF Cut
<1>5. k <= Len(b)
  <2> DEFINE T == {n \in Nat : n <= k => n <= off[n]}
  <2>1. 0 \in T
    BY <1>4
  <2>2. ASSUME NEW n \in T PROVE n + 1 \in T
    <3>0. n \in Nat /\ n + 1 \in Nat /\ (n <= k => n <= off[n])
      OBVIOUS
    <3>1. ASSUME n + 1 <= k PROVE n + 1 <= off[n + 1]
      <4> DEFINE j == n + 1
      <4>1. j \in 1..k /\ j - 1 = n /\ n <= off[n]
        BY <3>0, <3>1
      <4>2. n \in Nat
        BY <3>0
      <4> HIDE DEF j
      <4>3. off[j - 1] < off[j] /\ off[j - 1] \in Int /\ off[j] \in Int
        BY <1>4, <4>1
      <4>4. off[n] < off[j] /\ off[n] \in Int /\ off[j] \in Int
        BY <4>1, <4>3
      <4>5. j = n + 1
        BY DEF j
      <4>q. QED BY <4>1, <4>2, <4>4, <4>5
    <3>q. QED BY <3>0, <3>1
  <2>3. T = Nat
    <3>1. T \in SUBSET Nat
      OBVIOUS
    <3> HIDE DEF T
    <3>q. QED BY <2>1, <2>2, <3>1, Induction
  <2>4. k \in T
    <3> HIDE DEF T
    <3>q. QED BY <2>3
  <2>q. QED BY <1>4, <2>4
<1>6. k = 0 <=> b = <<>>
  <2>1. ASSUME k = 0 PROVE b = <<>>
    <3>1. Len(b) = 0
      BY <1>4, <2>1
    <3>q. QED BY <3>1, EmptySeq
  <2>2. ASSUME b = <<>> PROVE k = 0
    <3>1. Len(b) = 0
      BY <2>2
    <3>q. QED BY <1>5, <3>1
  <2>q. QED BY <2>1, <2>2
<1>7. ASSUME NEW n \in 1..k
      PROVE  /\ TextOf(b, n) \in Seq(Nat) /\ Len(TextOf(b, n)) \in Nat \ {0}
             /\ \A i \in 1..Len(TextOf(b, n)) - 1 : TextOf(b, n)[i] # NL
             /\ \A i \in 1..Len(TextOf(b, n)) : \E j \in 1..Len(b) : TextOf(b, n)[i] = b[j]
             /\ n < k => TextOf(b, n)[Len(TextOf(b, n))] = NL
             /\ n = k => TextOf(b, n)[Len(TextOf(b, n))] = b[Len(b)]
  <2> DEFINE t == TextOf(b, n)
             x == off[n - 1]
             y == off[n]
  <2>0. n \in 0..k /\ n - 1 \in 0..k
    OBVIOUS
  <2>1. x \in Int /\ y \in Int /\ x < y /\ 0 <= x /\ y <= Len(b)
    BY <1>4, <2>0
  <2>2. \A j \in x + 1..y - 1 : b[j] # NL
    BY <1>4
  <2>3. (n < k => b[y] = NL) /\ (n = k => y = Len(b))
    BY <1>4
  <2>4. t = SubSeq(b, x + 1, y)
    BY <1>3
  <2> HIDE DEF t, x, y
  <2>5. /\ t \in Seq(Nat) /\ Len(t) = y - x
        /\ \A i \in 1..y - x : t[i] = b[x + i]
    <3> DEFINE p == x + 1
    <3>1. p \in Int /\ (\A i \in p..y : b[i] \in Nat) /\ p <= y
      BY <1>4, <2>1
    <3> HIDE DEF p
    <3>2. /\ SubSeq(b, p, y) \in Seq(Nat)
          /\ Len(SubSeq(b, p, y)) = IF p <= y THEN y - p + 1 ELSE 0
          /\ \A i \in 1..y - p + 1 : SubSeq(b, p, y)[i] = b[p + i - 1]
      BY <2>1, <3>1, SubSeqProperties
    <3>3. y - p + 1 = y - x /\ \A i \in 1..y - x : p + i - 1 = x + i
      BY <2>1 DEF p
    <3>4. t = SubSeq(b, p, y)
      BY <2>4 DEF p
    <3>q. QED BY <3>1, <3>2, <3>3, <3>4
  <2>6. Len(t) \in Nat \ {0} /\ Len(t) \in 1..y - x /\ x + Len(t) = y
    BY <2>1, <2>5
  <2>7. t[Len(t)] = b[y]
    BY <2>5, <2>6
  <2>8. ASSUME NEW i \in 1..Len(t) - 1 PROVE t[i] # NL
    <3>1. i \in 1..y - x /\ x + i \in x + 1..y - 1
      BY <2>1, <2>5, <2>6
    <3>q. QED BY <2>2, <2>5, <3>1
  <2>9. ASSUME NEW i \in 1..Len(t) PROVE \E j \in 1..Len(b) : t[i] = b[j]
    <3>1. i \in 1..y - x /\ x + i \in 1..Len(b)
      BY <1>4, <2>1, <2>5
    <3>q. QED BY <2>5, <3>1
  <2>q. QED BY <2>3, <2>5, <2>6, <2>7, <2>8, <2>9 DEF t
<1>q. QED BY <1>3, <1>5, <1>6, <1>7

(***************************************************************************)
(* The index of line starts has the positions of the same cut.             *)
(***************************************************************************)
Started(b, st, i) == IF Begins(b, i) THEN Append(st, i) ELSE st

StartsRecursion(b, f) ==
    f = [i \in 0..Len(b) |-> IF i = 0 THEN <<>>
                             ELSE IF Begins(b, i) THEN Append(f[i - 1], i) ELSE f[i - 1]]

\* The recursion of the index exists.
LEMMA SomeStarts ==
    ASSUME NEW b \in Seq(Nat) PROVE \E f : StartsRecursion(b, f)
<1> DEFINE m == Len(b)
           V == Seq(Nat)
           first == <<>>
           next == [p \in (1..m) \X V |-> Started(b, p[2], p[1])]
<1>0. m \in Nat
  BY LenProperties
<1>1. first \in V
  BY EmptySeq
<1>2. next \in [(1..m) \X V -> V]
  <2>1. ASSUME NEW p \in (1..m) \X V PROVE Started(b, p[2], p[1]) \in V
    <3>1. p[2] \in V /\ p[1] \in Nat
      BY <1>0
    <3>2. Append(p[2], p[1]) \in V
      BY <3>1, AppendProperties
    <3>q. QED BY <3>1, <3>2 DEF Started
  <2> HIDE DEF m, V
  <2>q. QED BY <2>1
<1>3. PICK f : Goes(f, V, first, m, next)
  <2> HIDE DEF V, next, m, first
  <2>q. QED BY <1>0, <1>1, <1>2, Rounds
<1> DEFINE e(i) == IF i = 0 THEN first
                   ELSE IF Begins(b, i) THEN Append(f[i - 1], i) ELSE f[i - 1]
<1>4. ASSUME NEW i \in 0..m PROVE f[i] = e(i)
  <2>1. CASE i = 0
    <3> HIDE DEF first, next, V, m
    <3>q. QED BY <1>3, <2>1 DEF Goes
  <2>2. CASE i # 0
    <3>0. i \in 1..m /\ i - 1 \in 0..m
      <4> HIDE DEF m
      <4>q. QED BY <1>0, <2>2
    <3> DEFINE x == f[i - 1]
    <3>1. x \in V
      <4> HIDE DEF first, next, V, m
      <4>q. QED BY <1>3, <3>0 DEF Goes
    <3>2. f[i] = next[<<i, x>>]
      <4> HIDE DEF first, next, V, m
      <4>q. QED BY <1>3, <3>0 DEF Goes
    <3> HIDE DEF x, V, m
    <3>3. <<i, x>> \in (1..m) \X V
      BY <3>0, <3>1
    <3>4. next[<<i, x>>] = Started(b, <<i, x>>[2], <<i, x>>[1])
      BY <3>3
    <3>5. <<i, x>>[2] = x /\ <<i, x>>[1] = i
      OBVIOUS
    <3> HIDE DEF next
    <3>6. f[i] = Started(b, x, i)
      BY <3>2, <3>4, <3>5
    <3>q. QED BY <2>2, <3>6 DEF Started, x
  <2>q. QED BY <2>1, <2>2
<1>5. f = [i \in 0..m |-> e(i)]
  <2>1. f = [i \in 0..m |-> f[i]]
    <3>1. f \in [0..m -> V]
      BY <1>3 DEF Goes
    <3> HIDE DEF m, V
    <3>q. QED BY <3>1
  <2> HIDE DEF e, m
  <2>2. [i \in 0..m |-> f[i]] = [i \in 0..m |-> e(i)]
    BY <1>4
  <2>q. QED BY <2>1, <2>2, Zenon
<1>q. QED BY <1>5, Zenon DEF StartsRecursion

\* The index is collected byte by byte.
LEMMA StartsRuns ==
    ASSUME NEW b \in Seq(Nat)
    PROVE  \E s : /\ \A i \in 0..Len(b) : s[i] \in Seq(Nat)
                  /\ s[0] = <<>>
                  /\ \A i \in 1..Len(b) : s[i] = Started(b, s[i - 1], i)
                  /\ lineStartsForContent(b) = s[Len(b)]
<1> DEFINE m == Len(b)
           V == Seq(Nat)
           first == <<>>
           next == [p \in (1..m) \X V |-> Started(b, p[2], p[1])]
           s == CHOOSE f : StartsRecursion(b, f)
<1>0. m \in Nat
  BY LenProperties
<1>1. StartsRecursion(b, s)
  BY SomeStarts
<1>2. lineStartsForContent(b) = s[m]
  BY DEF lineStartsForContent, StartsRecursion
<1> HIDE DEF s
<1>3. s[0] = first /\ \A i \in 1..m : s[i] = Started(b, s[i - 1], i)
  <2>1. s = [i \in 0..m |-> IF i = 0 THEN first
                            ELSE IF Begins(b, i) THEN Append(s[i - 1], i) ELSE s[i - 1]]
    BY <1>1 DEF StartsRecursion
  <2> HIDE DEF m, first
  <2>2. s[0] = first
    BY <1>0, <2>1
  <2>3. ASSUME NEW i \in 1..m PROVE s[i] = Started(b, s[i - 1], i)
    <3>1. i \in 0..m /\ i # 0
      BY <1>0
    <3>q. QED BY <2>1, <3>1 DEF Started
  <2>q. QED BY <2>2, <2>3
<1>4. first \in V
  BY EmptySeq
<1>5. next \in [(1..m) \X V -> V]
  <2>1. ASSUME NEW p \in (1..m) \X V PROVE Started(b, p[2], p[1]) \in V
    <3>1. p[2] \in V /\ p[1] \in Nat
      BY <1>0
    <3>2. Append(p[2], p[1]) \in V
      BY <3>1, AppendProperties
    <3>q. QED BY <3>1, <3>2 DEF Started
  <2> HIDE DEF m, V
  <2>q. QED BY <2>1
<1>6. ASSUME NEW i \in 1..m, s[i - 1] \in V PROVE s[i] = next[<<i, s[i - 1]>>]
  <2> DEFINE x == s[i - 1]
  <2>1. s[i] = Started(b, x, i) /\ x \in V
    BY <1>3, <1>6
  <2> HIDE DEF x, V, m
  <2>2. <<i, x>> \in (1..m) \X V
    BY <2>1
  <2>3. next[<<i, x>>] = Started(b, <<i, x>>[2], <<i, x>>[1])
    BY <2>2
  <2>4. <<i, x>>[2] = x /\ <<i, x>>[1] = i
    OBVIOUS
  <2> HIDE DEF next
  <2>q. QED BY <2>1, <2>3, <2>4 DEF x
<1>7. \A i \in 0..m : s[i] \in V
  <2> HIDE DEF V, next, m, first
  <2>q. QED BY <1>0, <1>3, <1>4, <1>5, <1>6, Computed
<1>q. QED BY <1>2, <1>3, <1>7

\* The starts of the lines that begin among the first i bytes.
StartsOf(b, st, i) ==
    /\ Len(st) >= 1 /\ st[1] = 1
    /\ \A n \in 1..Len(st) : st[n] \in 1..i
    /\ \A n \in 2..Len(st) :
         /\ st[n - 1] < st[n] /\ b[st[n] - 1] = NL
         /\ \A j \in st[n - 1]..st[n] - 2 : b[j] # NL
    /\ \A j \in st[Len(st)]..i - 1 : b[j] # NL

\* A byte after a newline begins a line, and no other.
LEMMA StartsStep ==
    ASSUME NEW b \in Seq(Nat), NEW i \in 1..Len(b), NEW st \in Seq(Nat),
           StartsOf(b, st, i), i + 1 <= Len(b)
    PROVE  StartsOf(b, Started(b, st, i + 1), i + 1)
<1> DEFINE k == Len(st)
           j == i + 1
<1>0. Len(b) \in Nat /\ k \in Nat /\ k >= 1 /\ j \in Nat /\ i \in 1..i + 1
  BY LenProperties DEF StartsOf
<1>1. /\ st[1] = 1
      /\ \A n \in 1..k : st[n] \in 1..i
      /\ \A n \in 2..k : st[n - 1] < st[n] /\ b[st[n] - 1] = NL
      /\ \A n \in 2..k : \A x \in st[n - 1]..st[n] - 2 : b[x] # NL
      /\ \A x \in st[k]..i - 1 : b[x] # NL
  BY DEF StartsOf
<1>2. st[k] \in 1..i
  BY <1>0, <1>1
<1>3. CASE b[i] # NL
  <2>1. Started(b, st, i + 1) = st
    <3>1. i + 1 # 1 /\ i + 1 - 1 = i
      OBVIOUS
    <3>q. QED BY <1>3, <3>1 DEF Started, Begins
  <2>2. \A x \in st[k]..i + 1 - 1 : b[x] # NL
    <3>1. ASSUME NEW x \in st[k]..i + 1 - 1 PROVE b[x] # NL
      <4>1. x = i \/ x \in st[k]..i - 1
        BY <1>2
      <4>q. QED BY <1>1, <1>3, <4>1
    <3>q. QED BY <3>1
  <2>3. \A n \in 1..k : st[n] \in 1..i + 1
    BY <1>1
  <2>q. QED BY <1>0, <1>1, <2>1, <2>2, <2>3 DEF StartsOf
<1>4. CASE b[i] = NL
  <2> DEFINE r == Append(st, j)
  <2>1. Started(b, st, i + 1) = r
    <3>1. i + 1 - 1 = i
      OBVIOUS
    <3>q. QED BY <1>4, <3>1 DEF Started, Begins
  <2>2. Len(r) = k + 1 /\ r[k + 1] = j /\ \A n \in 1..k : r[n] = st[n]
    BY <1>0, AppendProperties
  <2> HIDE DEF r, k
  <2>3. r[1] = 1 /\ Len(r) >= 1
    BY <1>0, <1>1, <2>2
  <2>4. \A n \in 1..k + 1 : r[n] \in 1..i + 1
    <3>1. ASSUME NEW n \in 1..k + 1 PROVE r[n] \in 1..i + 1
      <4>1. CASE n = k + 1
        BY <2>2, <4>1
      <4>2. CASE n # k + 1
        <5>1. n \in 1..k
          BY <1>0, <4>2
        <5>2. st[n] \in 1..i
          BY <1>1, <5>1
        <5>q. QED BY <2>2, <5>1, <5>2
      <4>q. QED BY <4>1, <4>2
    <3>q. QED BY <3>1
  <2>5. ASSUME NEW n \in 2..k + 1
        PROVE  /\ r[n - 1] < r[n] /\ b[r[n] - 1] = NL
               /\ \A x \in r[n - 1]..r[n] - 2 : b[x] # NL
    <3>1. CASE n = k + 1
      <4>1. n - 1 = k /\ k \in 1..k
        BY <1>0, <3>1
      <4>2. r[n] = j /\ r[n - 1] = st[k]
        BY <2>2, <3>1, <4>1
      <4>3. j - 1 = i /\ st[k] < j /\ j - 2 = i - 1
        BY <1>2
      <4>q. QED BY <1>1, <1>4, <4>2, <4>3
    <3>2. CASE n # k + 1
      <4>1. n \in 2..k /\ n \in 1..k /\ n - 1 \in 1..k
        BY <1>0, <3>2
      <4>2. r[n] = st[n] /\ r[n - 1] = st[n - 1]
        BY <2>2, <4>1
      <4>q. QED BY <1>1, <4>1, <4>2
    <3>q. QED BY <3>1, <3>2
  <2>6. \A x \in r[k + 1]..i + 1 - 1 : b[x] # NL
    BY <2>2
  <2>7. StartsOf(b, r, i + 1)
    <3>1. Len(r) = k + 1
      BY <2>2
    <3>2. \A n \in 1..Len(r) : r[n] \in 1..i + 1
      BY <2>4, <3>1
    <3>3. ASSUME NEW n \in 2..Len(r)
          PROVE  /\ r[n - 1] < r[n] /\ b[r[n] - 1] = NL
                 /\ \A x \in r[n - 1]..r[n] - 2 : b[x] # NL
      <4>1. n \in 2..k + 1
        BY <3>1
      <4>q. QED BY <2>5, <4>1
    <3>4. \A x \in r[Len(r)]..i + 1 - 1 : b[x] # NL
      BY <2>6, <3>1
    <3>q. QED BY <2>3, <3>2, <3>3, <3>4 DEF StartsOf
  <2>q. QED BY <2>1, <2>7
<1>q. QED BY <1>3, <1>4

\* The index has the starts of all lines and of no more.
LEMMA StartsFound ==
    ASSUME NEW b \in Seq(Nat), b # <<>>
    PROVE  /\ lineStartsForContent(b) \in Seq(Nat)
           /\ StartsOf(b, lineStartsForContent(b), Len(b))
<1> DEFINE m == Len(b)
<1>0. m \in Nat \ {0}
  BY EmptySeq
<1>1. PICK s : /\ \A i \in 0..m : s[i] \in Seq(Nat)
               /\ s[0] = <<>>
               /\ \A i \in 1..m : s[i] = Started(b, s[i - 1], i)
               /\ lineStartsForContent(b) = s[m]
  BY StartsRuns
<1> DEFINE T == {d \in Nat : d + 1 <= m => StartsOf(b, s[d + 1], d + 1)}
<1>2. 0 \in T
  <2> DEFINE i == 1
  <2>1. i \in 1..m /\ i - 1 = 0
    BY <1>0
  <2>2. s[i] = Started(b, s[i - 1], i)
    <3> HIDE DEF m, i
    <3>q. QED BY <1>1, <2>1
  <2>3. s[1] = Append(<<>>, 1)
    BY <1>1, <2>1, <2>2 DEF Started, Begins
  <2>4. s[1] = <<1>>
    BY <2>3
  <2>5. Len(s[1]) = 1 /\ s[1][1] = 1
    BY <2>4
  <2>6. StartsOf(b, s[1], 1)
    BY <2>5 DEF StartsOf
  <2>7. 0 + 1 = 1 /\ 0 \in Nat
    OBVIOUS
  <2> HIDE DEF m
  <2>q. QED BY <2>6, <2>7
<1>3. ASSUME NEW d \in T PROVE d + 1 \in T
  <2>0. d \in Nat /\ d + 1 \in Nat /\ (d + 1 <= m => StartsOf(b, s[d + 1], d + 1))
    OBVIOUS
  <2>1. ASSUME d + 1 + 1 <= m PROVE StartsOf(b, s[d + 1 + 1], d + 1 + 1)
    <3> DEFINE i == d + 1
    <3>1. i \in 1..m /\ i \in 0..m /\ i + 1 \in 1..m /\ i + 1 - 1 = i /\ d + 1 <= m
      BY <1>0, <2>0, <2>1
    <3>2. StartsOf(b, s[i], i)
      BY <2>0, <3>1
    <3> HIDE DEF i
    <3>3. s[i + 1] = Started(b, s[i], i + 1) /\ s[i] \in Seq(Nat)
      <4> DEFINE j == i + 1
      <4>1. s[j] = Started(b, s[j - 1], j)
        BY <1>1, <3>1
      <4> HIDE DEF j
      <4>2. j - 1 = i
        BY <3>1 DEF j
      <4>3. s[j] = Started(b, s[i], j)
        BY <4>1, <4>2
      <4>q. QED BY <1>1, <3>1, <4>3 DEF j
    <3>4. StartsOf(b, Started(b, s[i], i + 1), i + 1)
      BY <3>1, <3>2, <3>3, StartsStep
    <3>q. QED BY <3>3, <3>4 DEF i
  <2> HIDE DEF m
  <2>q. QED BY <2>0, <2>1
<1>4. T = Nat
  <2>1. T \in SUBSET Nat
    OBVIOUS
  <2> HIDE DEF T
  <2>q. QED BY <1>2, <1>3, <2>1, Induction
<1> DEFINE d == m - 1
<1>5. d \in T
  <2>1. d \in Nat
    BY <1>0
  <2> HIDE DEF T, d
  <2>q. QED BY <1>4, <2>1
<1>6. d + 1 = m
  BY <1>0
<1> HIDE DEF d, m
<1>7. StartsOf(b, s[d + 1], d + 1)
  BY <1>0, <1>5, <1>6
<1>8. StartsOf(b, s[m], m)
  BY <1>6, <1>7
<1>9. m \in 0..m
  BY <1>0
<1>q. QED BY <1>1, <1>8, <1>9 DEF m

\* The index lists where the lines begin.
LEMMA IndexExact ==
    ASSUME NEW b \in Seq(Nat)
    PROVE  /\ b = <<>> => lineStartsForContent(b) = <<>>
           /\ b # <<>> =>
                LET st == lineStartsForContent(b)
                IN  /\ st # <<>> /\ st \in Seq(Nat)
                    /\ \E off : /\ Cut(b, Len(st), off)
                                /\ \A n \in 1..Len(st) :
                                     off[n - 1] + 1 = st[n] /\ off[n] = lineEndOffset(b, st, n)
<1> DEFINE st == lineStartsForContent(b)
           k == Len(st)
           m == Len(b)
<1>1. ASSUME b = <<>> PROVE st = <<>>
  <2>1. PICK s : s[0] = <<>> /\ st = s[m]
    BY StartsRuns
  <2>2. m = 0
    BY <1>1
  <2> HIDE DEF m, st
  <2>q. QED BY <2>1, <2>2
<1>2. ASSUME b # <<>>
      PROVE  /\ st # <<>> /\ st \in Seq(Nat)
             /\ \E off : /\ Cut(b, k, off)
                         /\ \A n \in 1..k :
                              off[n - 1] + 1 = st[n] /\ off[n] = lineEndOffset(b, st, n)
  <2>1. st \in Seq(Nat) /\ StartsOf(b, st, m)
    BY <1>2, StartsFound
  <2> HIDE DEF st
  <2>2. m \in Nat /\ k \in Nat
    BY <2>1, LenProperties
  <2>3. /\ k >= 1 /\ st[1] = 1
        /\ \A n \in 1..k : st[n] \in 1..m
        /\ \A n \in 2..k : st[n - 1] < st[n] /\ b[st[n] - 1] = NL
        /\ \A n \in 2..k : \A x \in st[n - 1]..st[n] - 2 : b[x] # NL
        /\ \A x \in st[k]..m - 1 : b[x] # NL
    BY <2>1 DEF StartsOf
  <2>4. st # <<>>
    BY <2>1, <2>3, EmptySeq
  <2> DEFINE off == [n \in 0..k |-> IF n < k THEN st[n + 1] - 1 ELSE m]
  <2>5. ASSUME NEW n \in 1..k
        PROVE  off[n - 1] = st[n] - 1 /\ off[n] = lineEndOffset(b, st, n)
    <3>1. n - 1 \in 0..k /\ n - 1 < k /\ n - 1 + 1 = n /\ n \in 0..k
      BY <2>2
    <3> HIDE DEF k
    <3>2. off[n - 1] = st[n] - 1
      BY <3>1
    <3>3. off[n] = IF n < k THEN st[n + 1] - 1 ELSE m
      BY <3>1
    <3>q. QED BY <3>2, <3>3 DEF lineEndOffset, k
  <2>6. off[0] = 0 /\ off[k] = m
    <3>1. 0 \in 0..k /\ k \in 0..k /\ 0 < k /\ ~(k < k) /\ 0 + 1 = 1
      BY <2>2, <2>3
    <3> HIDE DEF k
    <3>q. QED BY <2>3, <3>1
  <2>7. off \in [0..k -> 0..m]
    <3>1. ASSUME NEW n \in 0..k PROVE (IF n < k THEN st[n + 1] - 1 ELSE m) \in 0..m
      <4>1. CASE n < k
        <5>1. n + 1 \in 1..k
          BY <2>2, <4>1
        <5>2. st[n + 1] \in 1..m
          BY <2>3, <5>1
        <5> HIDE DEF k
        <5>q. QED BY <2>2, <4>1, <5>2
      <4>2. CASE ~(n < k)
        BY <2>2, <4>2
      <4>q. QED BY <4>1, <4>2
    <3> HIDE DEF k, m
    <3>q. QED BY <3>1
  <2>8. ASSUME NEW n \in 1..k
        PROVE  /\ off[n - 1] < off[n]
               /\ \A i \in off[n - 1] + 1..off[n] - 1 : b[i] # NL
               /\ n < k => b[off[n]] = NL
    <3>1. off[n - 1] = st[n] - 1 /\ st[n] \in 1..m
      BY <2>3, <2>5
    <3>2. CASE n < k
      <4> DEFINE j == n + 1
      <4>1. j \in 2..k /\ j - 1 = n /\ j \in 1..k
        BY <2>2, <3>2
      <4>2. off[n] = st[j] - 1
        <5>1. lineEndOffset(b, st, n) = st[j] - 1
          BY <3>2 DEF lineEndOffset
        <5> HIDE DEF off, j
        <5>q. QED BY <2>5, <5>1
      <4> HIDE DEF j, off
      <4>3. st[n] < st[j] /\ st[j] \in 1..m
        <5>1. st[j - 1] < st[j]
          BY <2>3, <4>1
        <5>q. QED BY <2>3, <4>1, <5>1
      <4>4. b[st[j] - 1] = NL
        BY <2>3, <4>1
      <4>5. \A x \in st[n]..st[j] - 2 : b[x] # NL
        <5>1. \A x \in st[j - 1]..st[j] - 2 : b[x] # NL
          BY <2>3, <4>1
        <5>q. QED BY <4>1, <5>1
      <4>6. off[n - 1] + 1 = st[n] /\ off[n] - 1 = st[j] - 2
        BY <3>1, <4>2, <4>3
      <4>7. off[n - 1] < off[n]
        BY <3>1, <4>2, <4>3
      <4>q. QED BY <4>2, <4>4, <4>5, <4>6, <4>7
    <3>3. CASE ~(n < k)
      <4>1. n = k
        BY <2>2, <3>3
      <4>2. off[n] = m
        <5> HIDE DEF off
        <5>q. QED BY <2>6, <4>1
      <4> HIDE DEF off, k
      <4>3. off[n - 1] + 1 = st[n] /\ off[n - 1] < off[n]
        BY <2>2, <3>1, <4>2
      <4>q. QED BY <2>3, <3>3, <4>1, <4>2, <4>3 DEF k
    <3>q. QED BY <3>2, <3>3
  <2>9. \A n \in 1..k : off[n - 1] + 1 = st[n] /\ off[n] = lineEndOffset(b, st, n)
    <3>1. \A n \in 1..k : st[n] \in 1..m
      BY <2>3
    <3>2. \A n \in 1..k : st[n] - 1 + 1 = st[n]
      BY <3>1
    <3> HIDE DEF off, k
    <3>q. QED BY <2>5, <3>2
  <2> HIDE DEF off, k
  <2>10. Cut(b, k, off)
    BY <2>6, <2>7, <2>8 DEF Cut
  <2>q. QED BY <2>1, <2>4, <2>9, <2>10
<1> HIDE DEF st
<1>q. QED BY <1>1, <1>2 DEF st

(***************************************************************************)
(* Selections of lines.                                                    *)
(***************************************************************************)
LEMMA Lesser ==
    ASSUME NEW x \in Nat, NEW y \in Nat
    PROVE  Min({x, y}) = IF x <= y THEN x ELSE y
<1> DEFINE z == IF x <= y THEN x ELSE y
<1>1. z \in {x, y} /\ \A w \in {x, y} : z <= w
  OBVIOUS
<1>2. \A w \in {x, y} : (\A v \in {x, y} : w <= v) => w = z
  OBVIOUS
<1> HIDE DEF z
<1>3. Min({x, y}) = z
  BY <1>1, <1>2 DEF Min
<1>q. QED BY <1>3 DEF z

\* Copies.
LEMMA CopiesTyped ==
    ASSUME NEW S, NEW s \in Seq(S), NEW n \in Nat
    PROVE  /\ Copies(s, n) \in Seq(S)
           /\ n = 0 => Copies(s, n) = <<>>
           /\ n = 1 => Copies(s, n) = s
<1> DEFINE V == Seq(S)
           g == [i \in 1..n |-> s]
<1>1. g \in [1..n -> Seq(S)]
  OBVIOUS
<1>2. FlattenSeq(g) \in Seq(S)
  <2> HIDE DEF g
  <2>q. QED BY <1>1, FlatOf
<1>3. ASSUME n = 0 PROVE FlattenSeq(g) = <<>>
  <2>1. g \in [1..0 -> Seq(S)]
    BY <1>3
  <2> HIDE DEF g
  <2>q. QED BY <2>1, FlatEmpty
<1>4. ASSUME n = 1 PROVE FlattenSeq(g) = s
  <2> DEFINE z == 0
             h == [i \in 1..z |-> s]
  <2>1. z \in Nat /\ n = z + 1
    BY <1>4
  <2>2. g \in [1..z + 1 -> Seq(S)] /\ h \in [1..z -> Seq(S)] /\ (\A i \in 1..z : g[i] = h[i])
    BY <1>1, <2>1
  <2>3. g[z + 1] = s
    BY <1>4
  <2>4. h \in [1..0 -> Seq(S)]
    OBVIOUS
  <2>5. FlattenSeq(h) = <<>>
    <3> HIDE DEF h
    <3>q. QED BY <2>4, FlatEmpty
  <2>6. FlattenSeq(g) = FlattenSeq(h) \o g[z + 1]
    <3> HIDE DEF g, h, z
    <3>q. QED BY <2>1, <2>2, FlatMore
  <2>7. <<>> \o s = s
    BY ConcatEmptySeq
  <2> HIDE DEF g, h, z
  <2>q. QED BY <2>3, <2>5, <2>6, <2>7
<1>5. Copies(s, n) = FlattenSeq(g)
  BY DEF Copies
<1> HIDE DEF g
<1>q. QED BY <1>2, <1>3, <1>4, <1>5

Selections == {s \in Seq([start : Nat, end : Nat]) : valid(s)}

\* What a clause of sed is parsed to.
LEMMA SelectionTypes ==
    ASSUME NEW sel \in Selections, MaxRanges \in Nat
    PROVE  /\ Len(sel) \in Nat \ {0} /\ DOMAIN sel = 1..Len(sel) /\ valid(sel)
           /\ \A i \in 1..Len(sel) : /\ sel[i].start \in Nat /\ sel[i].end \in Nat
                                     /\ sel[i].start > 0 /\ sel[i].end >= sel[i].start
<1>1. sel \in Seq([start : Nat, end : Nat]) /\ valid(sel)
  BY DEF Selections
<1>2. Len(sel) \in Nat /\ DOMAIN sel = 1..Len(sel) /\ \A i \in 1..Len(sel) : sel[i] \in [start : Nat, end : Nat]
  <2> DEFINE V == [start : Nat, end : Nat]
  <2>1. sel \in Seq(V)
    BY <1>1
  <2> HIDE DEF V
  <2>2. Len(sel) \in Nat /\ DOMAIN sel = 1..Len(sel) /\ \A i \in 1..Len(sel) : sel[i] \in V
    BY <2>1, LenProperties
  <2>q. QED BY <2>2 DEF V
<1>3. Len(sel) # 0 /\ \A i \in 1..Len(sel) : sel[i].start > 0 /\ sel[i].end >= sel[i].start
  BY <1>1, <1>2 DEF valid
<1>q. QED BY <1>1, <1>2, <1>3

\* The greatest of a list of numbers.
LEMMA Greatest ==
    ASSUME NEW n \in Nat \ {0}, NEW f \in [1..n -> Nat]
    PROVE  LET m == Max({f[i] : i \in 1..n})
           IN  m \in Nat /\ (\A i \in 1..n : f[i] <= m) /\ \E i \in 1..n : f[i] = m
<1> DEFINE B == {f[i] : i \in 1..n}
           T == {k \in Nat : k < n => \E i \in 1..n : \A j \in 1..k + 1 : f[j] <= f[i]}
<1>1. 0 \in T
  <2>1. 1 \in 1..n /\ (\A j \in 1..0 + 1 : j = 1) /\ f[1] \in Nat
    OBVIOUS
  <2>2. \A j \in 1..0 + 1 : f[j] <= f[1]
    BY <2>1
  <2>q. QED BY <2>1, <2>2
<1>2. ASSUME NEW k \in T PROVE k + 1 \in T
  <2>0. k \in Nat /\ k + 1 \in Nat /\ (k < n => \E i \in 1..n : \A j \in 1..k + 1 : f[j] <= f[i])
    OBVIOUS
  <2>1. ASSUME k + 1 < n PROVE \E i \in 1..n : \A j \in 1..k + 1 + 1 : f[j] <= f[i]
    <3>0. k \in Nat /\ k < n
      BY <2>0, <2>1
    <3>1. PICK i \in 1..n : \A j \in 1..k + 1 : f[j] <= f[i]
      BY <2>0, <3>0
    <3> DEFINE l == k + 1 + 1
    <3>2. l \in 1..n /\ \A j \in 1..l : j \in 1..n /\ (j = l \/ j \in 1..k + 1)
      BY <2>1, <3>0
    <3> HIDE DEF l
    <3>3. \A j \in 1..n : f[j] \in Nat
      OBVIOUS
    <3>4. CASE f[l] <= f[i]
      <4>1. \A j \in 1..l : f[j] <= f[i]
        BY <3>1, <3>2, <3>4
      <4>q. QED BY <4>1 DEF l
    <3>5. CASE f[i] < f[l]
      <4>1. \A j \in 1..l : f[j] <= f[l]
        <5>1. ASSUME NEW j \in 1..l PROVE f[j] <= f[l]
          <6>1. CASE j = l
            BY <3>2, <3>3, <6>1
          <6>2. CASE j \in 1..k + 1
            <7>1. f[j] <= f[i] /\ f[j] \in Nat /\ f[i] \in Nat /\ f[l] \in Nat
              BY <3>1, <3>2, <3>3, <6>2
            <7>q. QED BY <3>5, <7>1
          <6>q. QED BY <3>2, <6>1, <6>2
        <5>q. QED BY <5>1
      <4>q. QED BY <3>2, <4>1 DEF l
    <3>6. f[i] \in Nat /\ f[l] \in Nat
      BY <3>2, <3>3
    <3>7. f[l] <= f[i] \/ f[i] < f[l]
      BY <3>6
    <3>q. QED BY <3>4, <3>5, <3>7
  <2>q. QED BY <2>0, <2>1
<1>3. T = Nat
  <2>1. T \in SUBSET Nat
    OBVIOUS
  <2> HIDE DEF T
  <2>q. QED BY <1>1, <1>2, <2>1, Induction
<1> DEFINE d == n - 1
<1>4. d \in Nat /\ d < n /\ d + 1 = n
  OBVIOUS
<1>5. d \in T
  <2> HIDE DEF T, d
  <2>q. QED BY <1>3, <1>4
<1>6. PICK i \in 1..n : \A j \in 1..n : f[j] <= f[i]
  <2> HIDE DEF d
  <2>1. \E i \in 1..n : \A j \in 1..d + 1 : f[j] <= f[i]
    BY <1>4, <1>5
  <2>q. QED BY <1>4, <2>1
<1>7. f[i] \in B /\ \A y \in B : f[i] >= y
  <2>1. \A j \in 1..n : f[j] \in Nat
    OBVIOUS
  <2>q. QED BY <1>6, <2>1
<1> HIDE DEF T, d
<1>8. Max(B) \in B /\ \A y \in B : Max(B) >= y
  <2> HIDE DEF B
  <2>q. QED BY <1>7 DEF Max
<1>9. \A j \in 1..n : f[j] \in B /\ f[j] \in Nat
  OBVIOUS
<1>10. B \subseteq Nat
  OBVIOUS
<1> DEFINE m == Max(B)
<1>11. m \in Nat /\ (\A j \in 1..n : f[j] <= m) /\ \E j \in 1..n : f[j] = m
  <2>1. m \in B /\ \A y \in B : m >= y
    BY <1>8
  <2> HIDE DEF m
  <2>2. \E j \in 1..n : f[j] = m
    BY <2>1
  <2> HIDE DEF B
  <2>3. m \in Nat
    BY <1>10, <2>1
  <2>4. ASSUME NEW j \in 1..n PROVE f[j] <= m
    <3>1. f[j] \in Nat /\ m >= f[j]
      BY <1>9, <2>1
    <3>q. QED BY <2>3, <3>1
  <2>q. QED BY <2>2, <2>3, <2>4
<1>q. QED BY <1>11

\* No range goes past maxEnd,
LEMMA MaxEndFound ==
    ASSUME NEW sel \in Selections, MaxRanges \in Nat
    PROVE  maxEnd(sel) \in Nat \ {0} /\ \A i \in 1..Len(sel) : sel[i].end <= maxEnd(sel)
<1> DEFINE n == Len(sel)
           f == [i \in 1..n |-> sel[i].end]
<1>1. /\ n \in Nat \ {0} /\ DOMAIN sel = 1..n
      /\ \A i \in 1..n : sel[i].end \in Nat /\ sel[i].start \in Nat /\ sel[i].start > 0 /\ sel[i].end >= sel[i].start
  BY SelectionTypes
<1>2. f \in [1..n -> Nat]
  <2> HIDE DEF n
  <2>q. QED BY <1>1
<1>3. maxEnd(sel) = Max({f[i] : i \in 1..n})
  <2>1. maxEnd(sel) = Max({sel[i].end : i \in 1..n})
    BY <1>1 DEF maxEnd
  <2> HIDE DEF n
  <2>2. {sel[i].end : i \in 1..n} = {f[i] : i \in 1..n}
    OBVIOUS
  <2>q. QED BY <2>1, <2>2
<1>4. \A i \in 1..n : f[i] = sel[i].end
  OBVIOUS
<1> HIDE DEF f, n
<1> DEFINE m == Max({f[i] : i \in 1..n})
<1>5. m \in Nat /\ (\A i \in 1..n : f[i] <= m)
  BY <1>1, <1>2, Greatest
<1> HIDE DEF m
<1>6. m # 0
  <2>1. 1 \in 1..n
    BY <1>1
  <2>2. f[1] > 0 /\ f[1] \in Nat
    BY <1>1, <1>4, <2>1
  <2>q. QED BY <1>5, <2>1, <2>2
<1>7. maxEnd(sel) = m
  BY <1>3 DEF m
<1>q. QED BY <1>4, <1>5, <1>6, <1>7 DEF n

\* so no line after it is printed.
LEMMA MatchCounts ==
    ASSUME NEW sel \in Selections, NEW line \in Nat, MaxRanges \in Nat
    PROVE  /\ matchCount(sel, line) \in Nat
           /\ line > maxEnd(sel) => matchCount(sel, line) = 0
<1> DEFINE n == Len(sel)
           A == {i \in 1..n : line \in sel[i].start..sel[i].end}
<1>1. /\ n \in Nat \ {0} /\ DOMAIN sel = 1..n
      /\ \A i \in 1..n : sel[i].end \in Nat /\ sel[i].start \in Nat
  BY SelectionTypes
<1>2. matchCount(sel, line) = Cardinality(A)
  BY <1>1 DEF matchCount
<1>3. IsFiniteSet(1..n) /\ A \in SUBSET (1..n)
  <2>1. IsFiniteSet(1..n)
    <3> HIDE DEF n
    <3>q. QED BY <1>1, FS_Interval
  <2>q. QED BY <2>1
<1>4. Cardinality(A) \in Nat
  <2> HIDE DEF A, n
  <2>q. QED BY <1>3, FS_Subset, FS_CardinalityType
<1>5. ASSUME line > maxEnd(sel) PROVE Cardinality(A) = 0
  <2>1. maxEnd(sel) \in Nat /\ \A i \in 1..n : sel[i].end <= maxEnd(sel)
    BY MaxEndFound
  <2>2. ASSUME NEW i \in A PROVE FALSE
    <3>1. line <= sel[i].end /\ sel[i].end <= maxEnd(sel) /\ sel[i].end \in Nat
      BY <1>1, <2>1
    <3>q. QED BY <1>5, <2>1, <3>1
  <2>3. A = {}
    <3> HIDE DEF A
    <3>q. QED BY <2>2
  <2> HIDE DEF A
  <2>q. QED BY <2>3, FS_EmptySet
<1>q. QED BY <1>2, <1>4, <1>5

\* One range is one clause.
LEMMA SingleSelection ==
    ASSUME NEW last \in Nat \ {0}, MaxRanges \in Nat \ {0}
    PROVE  LET sel == singleLineSelection(1, last)
           IN  /\ sel \in Selections /\ maxEnd(sel) = last
               /\ \A n \in 1..last : matchCount(sel, n) = 1
<1> DEFINE sel == singleLineSelection(1, last)
           r == [start |-> 1, end |-> last]
<1>1. sel = <<r>>
  BY DEF singleLineSelection
<1>2. Len(sel) = 1 /\ sel[1] = r /\ DOMAIN sel = 1..1
  BY <1>1
<1>3. sel \in Seq([start : Nat, end : Nat])
  <2> DEFINE V == [start : Nat, end : Nat]
  <2>1. r \in V
    OBVIOUS
  <2> HIDE DEF V, r
  <2>2. <<r>> \in Seq(V)
    BY <2>1
  <2> HIDE DEF sel
  <2>q. QED BY <1>1, <2>2 DEF V
<1>4. \A i \in 1..1 : i = 1
  OBVIOUS
<1> HIDE DEF sel
<1>5. valid(sel)
  <2>1. Len(sel) \in 1..MaxRanges
    BY <1>2
  <2>2. \A i \in DOMAIN sel : sel[i].start > 0 /\ sel[i].end >= sel[i].start
    BY <1>2, <1>4
  <2>q. QED BY <2>1, <2>2 DEF valid
<1>6. maxEnd(sel) = last
  <2>1. {sel[i].end : i \in DOMAIN sel} = {last}
    BY <1>2, <1>4
  <2>2. maxEnd(sel) = Max({last})
    BY <2>1 DEF maxEnd
  <2>3. Max({last}) = last
    BY DEF Max
  <2>q. QED BY <2>2, <2>3
<1>7. ASSUME NEW n \in 1..last PROVE matchCount(sel, n) = 1
  <2>1. {i \in DOMAIN sel : n \in sel[i].start..sel[i].end} = {1}
    BY <1>2, <1>4
  <2>2. Cardinality({1}) = 1
    BY FS_Singleton
  <2>q. QED BY <2>1, <2>2 DEF matchCount
<1>q. QED BY <1>3, <1>5, <1>6, <1>7 DEF Selections, sel

(***************************************************************************)
(* sed and tail, with the index and by scanning.                           *)
(***************************************************************************)
Indexed(b, st) == [n \in DOMAIN st |-> SubSeq(b, st[n], lineEndOffset(b, st, n))]

\* Without an index or with that of these bytes.
Prepared(b, st) == st = <<>> \/ st = lineStartsForContent(b)

\* The lines of a file.
LEMMA LinesTyped ==
    ASSUME NEW b \in Seq(Nat)
    PROVE  /\ LineCount(b) \in Nat /\ Lines(b) \in [1..LineCount(b) -> Seq(Nat)]
           /\ Lines(b) \in Seq(Seq(Nat)) /\ Len(Lines(b)) = LineCount(b)
           /\ DOMAIN Lines(b) = 1..LineCount(b)
<1> DEFINE V == Seq(Nat)
           c == LineCount(b)
<1>1. c \in Nat /\ \A n \in 1..c : TextOf(b, n) \in V
  BY LineFacts
<1>2. Lines(b) \in [1..c -> V]
  <2> HIDE DEF V, c
  <2>q. QED BY <1>1 DEF Lines, c
<1> HIDE DEF V
<1>3. Lines(b) \in Seq(V) /\ Len(Lines(b)) = c
  <2> DEFINE g == Lines(b)
  <2> HIDE DEF g, c
  <2>1. g \in [1..c -> V]
    BY <1>2 DEF g
  <2>2. g \in Seq(V) /\ Len(g) = c
    BY <1>1, <2>1, Listed
  <2>q. QED BY <2>2 DEF g
<1>4. DOMAIN Lines(b) = 1..c
  BY <1>2
<1>q. QED BY <1>1, <1>2, <1>3, <1>4 DEF V

\* With the index the same lines are taken.
LEMMA IndexedLines ==
    ASSUME NEW b \in Seq(Nat), NEW st, st = lineStartsForContent(b), b # <<>>
    PROVE  /\ st # <<>> /\ Len(st) = LineCount(b) /\ Indexed(b, st) = Lines(b)
           /\ \E off : /\ Cut(b, Len(st), off)
                       /\ \A n \in 1..Len(st) :
                            off[n - 1] + 1 = st[n] /\ off[n] = lineEndOffset(b, st, n)
<1> DEFINE k == Len(st)
<1>1. st # <<>> /\ st \in Seq(Nat)
  BY IndexExact
<1>2. PICK off : /\ Cut(b, k, off)
                 /\ \A n \in 1..k : off[n - 1] + 1 = st[n] /\ off[n] = lineEndOffset(b, st, n)
  BY IndexExact
<1>3. k \in Nat /\ DOMAIN st = 1..k
  BY <1>1, LenProperties
<1>4. LineCount(b) = k /\ Lines(b) = Sliced(b, k, off)
  <2> HIDE DEF k
  <2>q. QED BY <1>2, <1>3, CutSlices
<1>5. Indexed(b, st) = Sliced(b, k, off)
  <2> HIDE DEF k
  <2>q. QED BY <1>2, <1>3 DEF Indexed, Sliced
<1>q. QED BY <1>1, <1>2, <1>4, <1>5

\* What is printed of the lines g of a file.
Printed(c, g, sel) == FlattenSeq([n \in 1..c |-> Copies(g[n], matchCount(sel, n))])

\* It does not matter that lines after the last range are not looked at.
LEMMA Selected ==
    ASSUME NEW c \in Nat, NEW g \in [1..c -> Seq(Nat)], NEW sel \in Selections, MaxRanges \in Nat
    PROVE  /\ Printed(c, g, sel) \in Seq(Nat)
           /\ [n \in 1..c |-> Copies(g[n], matchCount(sel, n))] \in [1..c -> Seq(Nat)]
           /\ FlattenSeq([n \in 1..Min({maxEnd(sel), c}) |-> Copies(g[n], matchCount(sel, n))])
                = Printed(c, g, sel)
<1> DEFINE V == Seq(Nat)
           copies(n) == Copies(g[n], matchCount(sel, n))
           h == [n \in 1..c |-> copies(n)]
           m == Min({maxEnd(sel), c})
           e == maxEnd(sel)
<1>1. \A n \in 1..c : matchCount(sel, n) \in Nat /\ (n > e => matchCount(sel, n) = 0)
  BY MatchCounts, SMTT(60)
<1>2. \A n \in 1..c : g[n] \in Seq(Nat)
  OBVIOUS
<1>3. \A n \in 1..c : copies(n) \in V /\ (n > e => copies(n) = <<>>)
  BY <1>1, <1>2, CopiesTyped
<1>4. e \in Nat
  BY MaxEndFound
<1>5. m \in Nat /\ m <= c /\ (m = c \/ m = e)
  <2> HIDE DEF m, e
  <2>1. m = IF e <= c THEN e ELSE c
    BY <1>4, Lesser DEF m, e
  <2>q. QED BY <1>4, <2>1
<1>6. h \in [1..c -> V]
  <2> HIDE DEF V, copies
  <2>q. QED BY <1>3
<1>7. \A i \in m + 1..c : h[i] = <<>>
  <2>1. ASSUME NEW i \in m + 1..c PROVE h[i] = <<>>
    <3>1. i \in 1..c /\ i > e
      <4> HIDE DEF m, e
      <4>q. QED BY <1>4, <1>5
    <3>2. copies(i) = <<>>
      <4> HIDE DEF copies, e
      <4>q. QED BY <1>3, <3>1
    <3> HIDE DEF copies
    <3>q. QED BY <3>1, <3>2
  <2>q. QED BY <2>1
<1>8. FlattenSeq(h) = FlattenSeq([i \in 1..m |-> h[i]])
  <2>1. h \in [1..c -> Seq(Nat)]
    BY <1>6
  <2> DEFINE p == [i \in 1..m |-> h[i]]
  <2> HIDE DEF m, h, e, V
  <2>2. Padded(Nat, m, c, h, p)
    BY <1>5, <1>7, <2>1 DEF Padded
  <2> HIDE DEF p
  <2>3. FlattenSeq(h) = FlattenSeq(p)
    BY <2>2, FlatPad
  <2>q. QED BY <2>3 DEF p
<1>9. [i \in 1..m |-> h[i]] = [i \in 1..m |-> copies(i)]
  <2>1. \A i \in 1..m : i \in 1..c
    <3> HIDE DEF m
    <3>q. QED BY <1>5
  <2> HIDE DEF m, copies
  <2>q. QED BY <2>1
<1>10. FlattenSeq(h) \in Seq(Nat)
  <2>1. h \in [1..c -> Seq(Nat)]
    BY <1>6
  <2> HIDE DEF h
  <2>q. QED BY <2>1, FlatOf
<1>11. h = [n \in 1..c |-> Copies(g[n], matchCount(sel, n))]
  OBVIOUS
<1>12. Printed(c, g, sel) = FlattenSeq(h)
  BY DEF Printed
<1>13. [i \in 1..m |-> copies(i)]
         = [n \in 1..Min({maxEnd(sel), c}) |-> Copies(g[n], matchCount(sel, n))]
  OBVIOUS
<1> HIDE DEF h, copies, m
<1>q. QED BY <1>6, <1>8, <1>9, <1>10, <1>11, <1>12, <1>13

\* sed -n: the lines selected, whether they are cut with an index or without.
LEMMA SedExact ==
    ASSUME NEW b \in Seq(Nat), NEW st, Prepared(b, st), NEW sel \in Selections,
           NEW max \in Nat, MaxRanges \in Nat
    PROVE  sedPrintSelectionBytesIndexed(b, st, sel, max)
             = Bounded(Printed(LineCount(b), Lines(b), sel), max)
<1> DEFINE c == LineCount(b)
           L == Lines(b)
<1>0. valid(sel) /\ c \in Nat /\ L \in [1..c -> Seq(Nat)] /\ Len(L) = c
  BY LinesTyped, SelectionTypes
<1>1. CASE b = <<>>
  <2>1. c = 0
    BY <1>1, LineFacts
  <2>2. Printed(c, L, sel) = <<>>
    <3> DEFINE z == 0
               h == [n \in 1..z |-> Copies(L[n], matchCount(sel, n))]
    <3>1. h \in [1..0 -> Seq(Nat)]
      OBVIOUS
    <3>2. FlattenSeq(h) = <<>>
      <4> HIDE DEF h
      <4>q. QED BY <3>1, FlatEmpty
    <3>3. Printed(z, L, sel) = FlattenSeq(h)
      BY DEF Printed
    <3> HIDE DEF h, L, c
    <3>q. QED BY <2>1, <3>2, <3>3
  <2>3. Bounded(<<>>, max) = Result(<<>>)
    <3>1. Len(<<>>) = 0
      BY EmptySeq
    <3>2. ~(max > 0 /\ Len(<<>>) > max)
      BY <3>1
    <3>q. QED BY <3>2 DEF Bounded
  <2>4. sedPrintSelectionBytesIndexed(b, st, sel, max) = Result(<<>>)
    BY <1>0, <1>1 DEF sedPrintSelectionBytesIndexed
  <2>q. QED BY <2>2, <2>3, <2>4
<1>2. CASE b # <<>>
  <2> DEFINE lines == IF st # <<>> THEN Indexed(b, st) ELSE Scan(b)
  <2>1. lines = L
    <3>1. Scan(b) = Lines(b)
      BY ScanExact
    <3>2. ASSUME st = lineStartsForContent(b) PROVE Indexed(b, st) = Lines(b)
      BY <1>2, <3>2, IndexedLines
    <3>q. QED BY <3>1, <3>2 DEF Prepared
  <2>2. sedPrintSelectionBytesIndexed(b, st, sel, max)
          = Bounded(FlattenSeq([n \in 1..Min({maxEnd(sel), Len(lines)}) |->
                                   Copies(lines[n], matchCount(sel, n))]), max)
    BY <1>0, <1>2 DEF sedPrintSelectionBytesIndexed, Indexed
  <2> HIDE DEF lines, L, c
  <2>3. FlattenSeq([n \in 1..Min({maxEnd(sel), c}) |-> Copies(L[n], matchCount(sel, n))])
          = Printed(c, L, sel)
    BY <1>0, Selected
  <2>q. QED BY <1>0, <2>1, <2>2, <2>3 DEF L, c
<1>q. QED BY <1>1, <1>2

\* Lines between two.
Whole(b, from, to) == FlattenSeq([k \in 1..(to - from + 1) |-> TextOf(b, from + k - 1)])

FirstOf(c, count) == IF c > count THEN c - count + 1 ELSE 1

\* tail: the last lines, whether they are cut with an index or without.
LEMMA TailExact ==
    ASSUME NEW b \in Seq(Nat), NEW st, Prepared(b, st), NEW count \in Nat \ {0}
    PROVE  tailLineBytesIndexed(b, st, count)
             = Whole(b, FirstOf(LineCount(b), count), LineCount(b))
<1> DEFINE c == LineCount(b)
           first == FirstOf(c, count)
           d == c - first + 1
           L == Lines(b)
           V == Seq(Nat)
<1>0. /\ c \in Nat /\ L \in [1..c -> V] /\ L \in Seq(V) /\ Len(L) = c
      /\ Len(b) \in Nat /\ (c = 0 <=> b = <<>>)
  BY LinesTyped, LineFacts, LenProperties
<1>a. \A n \in 1..c : L[n] = TextOf(b, n)
  BY DEF Lines
<1> HIDE DEF L, c, V
<1>1. CASE b = <<>>
  <2>1. c = 0
    BY <1>0, <1>1
  <2>2. first = 1 /\ d = 0
    BY <2>1 DEF FirstOf
  <2> DEFINE h == [k \in 1..d |-> TextOf(b, first + k - 1)]
  <2>3. h \in [1..0 -> Seq(Nat)]
    <3> HIDE DEF d, first
    <3>q. QED BY <2>2
  <2>4. FlattenSeq(h) = <<>>
    <3> HIDE DEF h
    <3>q. QED BY <2>3, FlatEmpty
  <2>5. Whole(b, first, c) = FlattenSeq(h)
    BY DEF Whole
  <2>6. tailLineBytesIndexed(b, st, count) = <<>>
    BY <1>1 DEF tailLineBytesIndexed
  <2> HIDE DEF h, first
  <2>q. QED BY <2>4, <2>5, <2>6 DEF first, c
<1>2. CASE b # <<>>
  <2>0. c # 0 /\ ~(count < 1)
    BY <1>0, <1>2
  <2>1. first \in 1..c /\ d \in Nat \ {0} /\ first + d - 1 = c
    BY <1>0, <2>0 DEF FirstOf
  <2>2. CASE st = <<>>
    <3>1. Scan(b) = L
      BY ScanExact DEF L
    <3>2. tailLineBytesIndexed(b, st, count) = FlattenSeq(SubSeq(L, first, Len(L)))
      <4>1. tailLineBytesIndexed(b, st, count)
              = LET lines == Scan(b)
                    f == IF Len(lines) > count THEN Len(lines) - count + 1 ELSE 1
                IN  FlattenSeq(SubSeq(lines, f, Len(lines)))
        BY <1>2, <2>0, <2>2 DEF tailLineBytesIndexed
      <4>q. QED BY <1>0, <3>1, <4>1 DEF FirstOf
    <3>3. SubSeq(L, first, c) = [k \in 1..d |-> TextOf(b, first + k - 1)]
      <4> DEFINE u == SubSeq(L, first, c)
                 w == [k \in 1..d |-> TextOf(b, first + k - 1)]
      <4> HIDE DEF first, d
      <4>1. first \in Int /\ c \in Int /\ first <= c /\ c - first + 1 = d
        BY <1>0, <2>1 DEF d
      <4>2. \A i \in first..c : i \in 1..c
        BY <1>0, <2>1
      <4>3. \A i \in first..c : L[i] \in V
        BY <1>0, <4>2
      <4>4. u \in Seq(V) /\ Len(u) = d /\ \A i \in 1..d : u[i] = L[first + i - 1]
        BY <4>1, <4>3, SubSeqProperties
      <4>5. \A i \in 1..d : first + i - 1 \in 1..c
        BY <1>0, <2>1
      <4>6. \A i \in 1..d : w[i] = L[first + i - 1] /\ w[i] \in V
        BY <1>0, <1>a, <4>5
      <4>7. w \in [1..d -> V]
        BY <4>6
      <4> HIDE DEF u, w
      <4>8. w \in Seq(V) /\ Len(w) = d
        BY <2>1, <4>7, Listed
      <4>9. u = w
        BY <4>4, <4>6, <4>8, SeqEqual
      <4>q. QED BY <4>9 DEF u, w
    <3>4. Whole(b, first, c) = FlattenSeq([k \in 1..d |-> TextOf(b, first + k - 1)])
      BY DEF Whole
    <3> HIDE DEF first, d
    <3>q. QED BY <1>0, <3>2, <3>3, <3>4 DEF first, c
  <2>3. CASE st # <<>>
    <3>1. st = lineStartsForContent(b)
      BY <2>3 DEF Prepared
    <3>2. Len(st) = c
      BY <1>2, <3>1, IndexedLines DEF c
    <3>3. PICK off : /\ Cut(b, Len(st), off)
                     /\ \A n \in 1..Len(st) :
                          off[n - 1] + 1 = st[n] /\ off[n] = lineEndOffset(b, st, n)
      BY <1>2, <3>1, IndexedLines
    <3>4. tailLineBytesIndexed(b, st, count) = SubSeq(b, st[first], lineEndOffset(b, st, c))
      BY <1>2, <2>0, <2>3, <3>2 DEF tailLineBytesIndexed, FirstOf
    <3>5. /\ \A n \in 0..c : off[n] \in Int /\ 0 <= off[n] /\ off[n] <= Len(b)
          /\ \A n \in 1..c : off[n - 1] \in Int /\ off[n] \in Int /\ off[n - 1] < off[n]
      BY <1>0, <3>2, <3>3, CutTypes
    <3>6. /\ \A n \in 1..c : TextOf(b, n) = SubSeq(b, off[n - 1] + 1, off[n])
          /\ \A n \in 1..c : off[n - 1] + 1 = st[n] /\ off[n] = lineEndOffset(b, st, n)
      BY <1>0, <3>2, <3>3, CutLines
    <3> HIDE DEF first, d
    <3> DEFINE new == [i \in 0..d |-> off[first - 1 + i]]
               g == [k \in 1..d |-> TextOf(b, first + k - 1)]
    <3>7. new \in [0..d -> 0..Len(b)]
      <4>1. \A i \in 0..d : first - 1 + i \in 0..c
        BY <1>0, <2>1
      <4>2. \A i \in 0..d : off[first - 1 + i] \in 0..Len(b)
        <5>1. ASSUME NEW i \in 0..d PROVE off[first - 1 + i] \in 0..Len(b)
          <6> DEFINE j == first - 1 + i
          <6>1. j \in 0..c
            BY <4>1
          <6> HIDE DEF j
          <6>2. off[j] \in 0..Len(b)
            BY <1>0, <3>5, <6>1
          <6>q. QED BY <6>2 DEF j
        <5>q. QED BY <5>1
      <4>q. QED BY <4>2
    <3>8. ASSUME NEW i \in 1..d
          PROVE  /\ new[i - 1] <= new[i]
                 /\ g[i] = SubSeq(b, new[i - 1] + 1, new[i])
      <4> DEFINE j == first + i - 1
      <4>1. j \in 1..c /\ first - 1 + i = j /\ first - 1 + (i - 1) = j - 1 /\ i \in 0..d /\ i - 1 \in 0..d
        BY <1>0, <2>1
      <4>2. new[i] = off[j] /\ new[i - 1] = off[j - 1]
        BY <4>1
      <4>3. g[i] = TextOf(b, j)
        OBVIOUS
      <4> HIDE DEF j, new, g
      <4>4. off[j - 1] <= off[j] /\ TextOf(b, j) = SubSeq(b, off[j - 1] + 1, off[j])
        BY <3>5, <3>6, <4>1
      <4>q. QED BY <4>2, <4>3, <4>4
    <3>9. new[0] + 1 = st[first] /\ new[d] = lineEndOffset(b, st, c)
      <4>1. 0 \in 0..d /\ d \in 0..d /\ first - 1 + 0 = first - 1 /\ first - 1 + d = c /\ c \in 1..c
        BY <1>0, <2>0, <2>1
      <4>2. new[0] = off[first - 1] /\ new[d] = off[c]
        BY <4>1
      <4> HIDE DEF new
      <4>q. QED BY <2>1, <3>6, <4>1, <4>2
    <3>10. g = [i \in 1..d |-> SubSeq(b, new[i - 1] + 1, new[i])]
      <4>1. g = [i \in 1..d |-> g[i]]
        OBVIOUS
      <4> HIDE DEF g, new
      <4>2. [i \in 1..d |-> g[i]] = [i \in 1..d |-> SubSeq(b, new[i - 1] + 1, new[i])]
        BY <3>8
      <4>q. QED BY <4>1, <4>2
    <3>11. Whole(b, first, c) = FlattenSeq(g)
      BY DEF Whole, d
    <3> HIDE DEF new, g
    <3>12. FlattenSeq([i \in 1..d |-> SubSeq(b, new[i - 1] + 1, new[i])])
             = SubSeq(b, new[0] + 1, new[d])
      BY <2>1, <3>7, <3>8, FlatSlices
    <3>q. QED BY <3>4, <3>9, <3>10, <3>11, <3>12 DEF first, c
  <2>q. QED BY <2>2, <2>3
<1>q. QED BY <1>1, <1>2

(***************************************************************************)
(* head, and nl of a selection.                                            *)
(***************************************************************************)
LEMMA CloseFacts ==
    ASSUME NEW l \in Seq(Nat), Len(l) \in Nat \ {0}
    PROVE  /\ Close(l) = IF l[Len(l)] = NL THEN l ELSE Append(l, NL)
           /\ Terminated(l) <=> l[Len(l)] = NL
           /\ Close(l) \in Seq(Nat) /\ Len(Close(l)) \in Nat \ {0}
           /\ Close(l)[Len(Close(l))] = NL
           /\ Append(Body(l), NL) = Close(l)
           /\ (\A i \in 1..Len(l) - 1 : l[i] # NL)
                => \A i \in 1..Len(Close(l)) - 1 : Close(l)[i] # NL
<1> DEFINE n == Len(l)
<1>0. n \in Nat \ {0} /\ NL \in Nat
  BY DEF NL
<1>1. l # <<>>
  BY EmptySeq
<1>2. Close(l) = IF l[n] = NL THEN l ELSE Append(l, NL)
  BY <1>1 DEF Close, Terminated
<1>3. Terminated(l) <=> l[n] = NL
  BY <1>1 DEF Terminated
<1>4. CASE l[n] = NL
  <2>1. Close(l) = l
    BY <1>2, <1>4
  <2>2. Body(l) = SubSeq(l, 1, n - 1)
    BY <1>4 DEF Body
  <2> DEFINE z == n - 1
             u == 1
  <2>3. z \in Nat /\ n = z + 1 /\ u = 1 /\ u \in Int
    BY <1>0
  <2>4. \A i \in u..z : l[i] \in Nat
    <3>1. \A i \in 1..n : l[i] \in Nat
      BY LenProperties
    <3>2. \A i \in u..z : i \in 1..n
      BY <1>0
    <3>q. QED BY <3>1, <3>2
  <2> HIDE DEF z, u
  <2>5. /\ SubSeq(l, u, z) \in Seq(Nat)
        /\ Len(SubSeq(l, u, z)) = IF u <= z THEN z - u + 1 ELSE 0
        /\ \A i \in 1..z - u + 1 : SubSeq(l, u, z)[i] = l[u + i - 1]
    BY <2>3, <2>4, SubSeqProperties
  <2> DEFINE p == SubSeq(l, u, z)
             r == Append(p, NL)
  <2>6. p \in Seq(Nat) /\ Len(p) = z /\ \A i \in 1..z : p[i] = l[i]
    BY <2>3, <2>5
  <2> HIDE DEF p
  <2>7. r \in Seq(Nat) /\ Len(r) = z + 1 /\ r[z + 1] = NL /\ \A i \in 1..z : r[i] = l[i]
    BY <1>0, <2>6, AppendProperties
  <2> HIDE DEF r, n
  <2>8. \A i \in 1..n : r[i] = l[i]
    <3>1. ASSUME NEW i \in 1..n PROVE r[i] = l[i]
      <4>1. i = n \/ i \in 1..z
        BY <2>3
      <4>q. QED BY <1>4, <2>3, <2>7, <4>1
    <3>q. QED BY <3>1
  <2>9. r = l
    <3>1. Len(r) = Len(l) /\ \A i \in 1..Len(r) : r[i] = l[i]
      BY <2>3, <2>7, <2>8 DEF n
    <3>q. QED BY <2>7, <3>1, SeqEqual
  <2>10. Append(Body(l), NL) = l
    BY <2>2, <2>9 DEF r, p, z, u
  <2>q. QED BY <1>0, <1>2, <1>3, <1>4, <2>1, <2>10 DEF n
<1>5. CASE l[n] # NL
  <2> DEFINE r == Append(l, NL)
  <2>1. Close(l) = r
    BY <1>2, <1>5
  <2>2. Body(l) = l
    BY <1>5 DEF Body
  <2>3. r \in Seq(Nat) /\ Len(r) = n + 1 /\ r[n + 1] = NL /\ \A i \in 1..n : r[i] = l[i]
    BY <1>0, AppendProperties
  <2>4. ASSUME \A i \in 1..n - 1 : l[i] # NL, NEW i \in 1..n + 1 - 1 PROVE r[i] # NL
    <3>1. i \in 1..n /\ (i = n \/ i \in 1..n - 1)
      BY <1>0
    <3> HIDE DEF r, n
    <3>q. QED BY <1>5, <2>3, <2>4, <3>1
  <2> HIDE DEF r
  <2>5. Len(r) - 1 = n + 1 - 1 /\ Len(r) \in Nat \ {0} /\ r[Len(r)] = NL
    BY <1>0, <2>3
  <2>q. QED BY <1>2, <1>3, <2>1, <2>2, <2>3, <2>4, <2>5 DEF r
<1>q. QED BY <1>4, <1>5

\* The first lines are those of one range.
LEMMA FirstLines ==
    ASSUME NEW c \in Nat, NEW g \in [1..c -> Seq(Nat)], NEW last \in Nat \ {0},
           MaxRanges \in Nat \ {0}
    PROVE  Printed(c, g, singleLineSelection(1, last)) = FlattenSeq([n \in 1..Min({last, c}) |-> g[n]])
<1> DEFINE sel == singleLineSelection(1, last)
           m == Min({last, c})
<1>0. MaxRanges \in Nat /\ last \in Nat
  OBVIOUS
<1>1. sel \in Selections /\ maxEnd(sel) = last /\ \A n \in 1..last : matchCount(sel, n) = 1
  BY SingleSelection
<1>2. m = IF last <= c THEN last ELSE c
  BY Lesser
<1> HIDE DEF sel
<1>3. FlattenSeq([n \in 1..Min({maxEnd(sel), c}) |-> Copies(g[n], matchCount(sel, n))])
        = Printed(c, g, sel)
  BY <1>0, <1>1, Selected
<1>4. \A n \in 1..m : n \in 1..last /\ n \in 1..c
  <2> HIDE DEF m
  <2>q. QED BY <1>0, <1>2
<1>5. ASSUME NEW n \in 1..m PROVE Copies(g[n], matchCount(sel, n)) = g[n]
  <2>1. matchCount(sel, n) = 1 /\ g[n] \in Seq(Nat)
    BY <1>1, <1>4
  <2> DEFINE u == matchCount(sel, n)
             t == g[n]
  <2>2. u = 1 /\ u \in Nat /\ t \in Seq(Nat)
    BY <2>1
  <2> HIDE DEF u, t
  <2>3. Copies(t, u) = t
    BY <2>2, CopiesTyped
  <2>q. QED BY <2>3 DEF t, u
<1>6. [n \in 1..m |-> Copies(g[n], matchCount(sel, n))] = [n \in 1..m |-> g[n]]
  <2> HIDE DEF m
  <2>q. QED BY <1>5
<1>7. Min({maxEnd(sel), c}) = m
  BY <1>1
<1>q. QED BY <1>3, <1>6, <1>7 DEF sel

\* head is the first lines.
LEMMA HeadExact ==
    ASSUME NEW b \in Seq(Nat), NEW st, Prepared(b, st), NEW count \in Nat \ {0},
           MaxRanges \in Nat \ {0}
    PROVE  sedPrintSelectionBytesIndexed(b, st, singleLineSelection(1, count), 0)
             = Result(Whole(b, 1, Min({count, LineCount(b)})))
<1> DEFINE sel == singleLineSelection(1, count)
           c == LineCount(b)
           L == Lines(b)
           m == Min({count, c})
           z == 0
<1>0. MaxRanges \in Nat /\ sel \in Selections
  BY SingleSelection
<1>1. c \in Nat /\ L \in [1..c -> Seq(Nat)]
  BY LinesTyped
<1>2. sedPrintSelectionBytesIndexed(b, st, sel, z) = Bounded(Printed(c, L, sel), z)
  <2>1. z \in Nat
    OBVIOUS
  <2> HIDE DEF sel, z
  <2>q. QED BY <1>0, <2>1, SedExact
<1>3. \A out : Bounded(out, z) = Result(out)
  BY DEF Bounded
<1>4. Printed(c, L, sel) = FlattenSeq([n \in 1..m |-> L[n]])
  <2> HIDE DEF c, L
  <2>q. QED BY <1>1, FirstLines
<1>5. Whole(b, 1, m) = FlattenSeq([n \in 1..m |-> L[n]])
  <2>1. m \in Nat /\ m <= c
    <3> HIDE DEF m, c
    <3>1. m = IF count <= c THEN count ELSE c
      BY <1>1, Lesser DEF m
    <3>q. QED BY <1>1, <3>1
  <2>2. \A n \in 1..m : n \in 1..c
    <3> HIDE DEF m, c
    <3>q. QED BY <1>1, <2>1
  <2>3. \A n \in 1..m : L[n] = TextOf(b, 1 + n - 1)
    <3>1. ASSUME NEW n \in 1..m PROVE L[n] = TextOf(b, 1 + n - 1)
      <4>1. 1 + n - 1 = n /\ n \in 1..c
        <5> HIDE DEF c, m
        <5>q. QED BY <2>2
      <4>2. L[n] = TextOf(b, n)
        BY <4>1 DEF Lines
      <4>q. QED BY <4>1, <4>2
    <3>q. QED BY <3>1
  <2>4. m - 1 + 1 = m
    <3> HIDE DEF m
    <3>q. QED BY <2>1
  <2> HIDE DEF m, L
  <2>5. [n \in 1..m |-> L[n]] = [n \in 1..m |-> TextOf(b, 1 + n - 1)]
    BY <2>3
  <2>6. Whole(b, 1, m) = FlattenSeq([k \in 1..(m - 1 + 1) |-> TextOf(b, 1 + k - 1)])
    BY DEF Whole
  <2>q. QED BY <2>4, <2>5, <2>6
<1> HIDE DEF L, m, sel
<1>q. QED BY <1>2, <1>3, <1>4, <1>5 DEF m, sel

Numbered(b) == [n \in 1..LineCount(b) |-> Digits(n) \o <<TAB>> \o Close(TextOf(b, n))]

Delimited(b) == \E n \in 1..LineCount(b) : isDefaultNLLogicalPageDelimiter(Body(TextOf(b, n)))

\* A numbered line ends in its only newline.
LEMMA NumberedTyped ==
    ASSUME NEW b \in Seq(Nat)
    PROVE  /\ Numbered(b) \in [1..LineCount(b) -> Seq(Nat)]
           /\ \A n \in 1..LineCount(b) :
                /\ Len(Numbered(b)[n]) \in Nat \ {0}
                /\ Numbered(b)[n][Len(Numbered(b)[n])] = NL
                /\ \A i \in 1..Len(Numbered(b)[n]) - 1 : Numbered(b)[n][i] # NL
<1> DEFINE c == LineCount(b)
           V == Seq(Nat)
           row(n) == Digits(n) \o <<TAB>> \o Close(TextOf(b, n))
<1>0. c \in Nat
  BY LineFacts
<1>1. ASSUME NEW n \in 1..c
      PROVE  /\ row(n) \in V /\ Len(row(n)) \in Nat \ {0}
             /\ row(n)[Len(row(n))] = NL
             /\ \A i \in 1..Len(row(n)) - 1 : row(n)[i] # NL
  <2> DEFINE t == TextOf(b, n)
             d == Digits(n)
             a == <<TAB>>
             s == Close(t)
             h == d \o a
             r == h \o s
  <2>1. t \in Seq(Nat) /\ Len(t) \in Nat \ {0} /\ \A i \in 1..Len(t) - 1 : t[i] # NL
    BY LineFacts
  <2> HIDE DEF t
  <2>2. s \in Seq(Nat) /\ Len(s) \in Nat \ {0} /\ s[Len(s)] = NL /\ \A i \in 1..Len(s) - 1 : s[i] # NL
    BY <2>1, CloseFacts
  <2>3. n \in Nat /\ 48 + n \in Nat /\ 48 + n # NL /\ TAB \in Nat /\ TAB # NL
    BY <1>0 DEF NL, TAB
  <2>4. d \in Seq(Nat) /\ Len(d) = 1 /\ d[1] = 48 + n
    BY <2>3 DEF Digits
  <2>5. a \in Seq(Nat) /\ Len(a) = 1 /\ a[1] = TAB
    BY <2>3
  <2> HIDE DEF d, a, s
  <2>6. h \in Seq(Nat) /\ Len(h) = 2 /\ h[1] = 48 + n /\ h[2] = TAB
    <3>1. h \in Seq(Nat) /\ Len(h) = Len(d) + Len(a)
          /\ \A i \in 1..Len(d) + Len(a) : h[i] = IF i <= Len(d) THEN d[i] ELSE a[i - Len(d)]
      BY <2>4, <2>5, ConcatProperties
    <3> HIDE DEF h
    <3>2. Len(h) = 2 /\ \A i \in 1..2 : h[i] = IF i <= 1 THEN d[i] ELSE a[i - 1]
      BY <2>4, <2>5, <3>1
    <3>3. 1 \in 1..2 /\ 2 \in 1..2 /\ 1 <= 1 /\ ~(2 <= 1) /\ 2 - 1 = 1
      OBVIOUS
    <3>4. h[1] = d[1] /\ h[2] = a[1]
      BY <3>2, <3>3
    <3>q. QED BY <2>4, <2>5, <3>1, <3>2, <3>4
  <2> HIDE DEF h
  <2>7. r \in Seq(Nat) /\ Len(r) = 2 + Len(s)
        /\ \A i \in 1..2 + Len(s) : r[i] = IF i <= 2 THEN h[i] ELSE s[i - 2]
    <3>1. r \in Seq(Nat) /\ Len(r) = Len(h) + Len(s)
          /\ \A i \in 1..Len(h) + Len(s) : r[i] = IF i <= Len(h) THEN h[i] ELSE s[i - Len(h)]
      BY <2>2, <2>6, ConcatProperties
    <3>2. Len(h) = 2
      BY <2>6
    <3> HIDE DEF r
    <3>q. QED BY <3>1, <3>2
  <2> HIDE DEF r
  <2>8. r[Len(r)] = NL
    <3>1. Len(r) \in 1..2 + Len(s) /\ ~(Len(r) <= 2) /\ Len(r) - 2 = Len(s)
      BY <2>2, <2>7
    <3>q. QED BY <2>2, <2>7, <3>1
  <2>9. ASSUME NEW i \in 1..Len(r) - 1 PROVE r[i] # NL
    <3>1. CASE i <= 2
      <4>1. (i = 1 \/ i = 2) /\ i \in 1..2 + Len(s)
        BY <2>2, <2>7, <3>1
      <4>2. r[i] = h[i]
        BY <2>7, <3>1, <4>1
      <4>q. QED BY <2>3, <2>6, <4>1, <4>2
    <3>2. CASE ~(i <= 2)
      <4>1. i \in 1..2 + Len(s) /\ i - 2 \in 1..Len(s) - 1
        BY <2>2, <2>7, <3>2
      <4>2. r[i] = s[i - 2]
        BY <2>7, <3>2, <4>1
      <4>q. QED BY <2>2, <4>1, <4>2
    <3>q. QED BY <3>1, <3>2
  <2>10. Len(r) \in Nat \ {0}
    BY <2>2, <2>7
  <2>11. row(n) = r
    BY DEF r, h, d, a, s, t
  <2> HIDE DEF row
  <2>q. QED BY <2>7, <2>8, <2>9, <2>10, <2>11
<1>2. Numbered(b) = [n \in 1..c |-> row(n)]
  BY DEF Numbered
<1> HIDE DEF row, c
<1>3. Numbered(b) \in [1..c -> V]
  <2> HIDE DEF V
  <2>q. QED BY <1>1, <1>2
<1>4. \A n \in 1..c : Numbered(b)[n] = row(n)
  BY <1>2
<1>q. QED BY <1>1, <1>3, <1>4 DEF c

\* nl: every line numbered, or refused.
LEMMA NumberedExact ==
    ASSUME NEW b \in Seq(Nat), NEW sel \in Selections, NEW max \in Nat, MaxRanges \in Nat
    PROVE  numberedLineSelectionBytes(b, sel, max)
             = IF Delimited(b) THEN Failed
               ELSE Bounded(Printed(LineCount(b), Numbered(b), sel), max)
<1> DEFINE c == LineCount(b)
           L == Lines(b)
           G == Numbered(b)
           closed(line) == IF line[Len(line)] = NL THEN line ELSE Append(line, NL)
           row(n) == Digits(n) \o <<TAB>> \o closed(L[n])
<1>0. /\ valid(sel) /\ c \in Nat /\ Len(L) = c /\ DOMAIN L = 1..c /\ Scan(b) = L
      /\ G \in [1..c -> Seq(Nat)]
  BY LinesTyped, SelectionTypes, ScanExact, NumberedTyped
<1>1. \A n \in 1..c : L[n] = TextOf(b, n)
  BY DEF Lines
<1>2. (\E n \in DOMAIN L : isDefaultNLLogicalPageDelimiter(Body(L[n]))) <=> Delimited(b)
  <2> HIDE DEF L
  <2>q. QED BY <1>0, <1>1 DEF Delimited
<1>3. ASSUME NEW n \in 1..c PROVE row(n) = G[n]
  <2>1. TextOf(b, n) \in Seq(Nat) /\ Len(TextOf(b, n)) \in Nat \ {0}
    BY LineFacts
  <2>2. Close(TextOf(b, n)) = closed(TextOf(b, n))
    BY <2>1, CloseFacts
  <2>3. G[n] = Digits(n) \o <<TAB>> \o Close(TextOf(b, n))
    BY DEF Numbered
  <2> HIDE DEF closed, L
  <2>q. QED BY <1>1, <2>2, <2>3
<1>4. numberedLineSelectionBytes(b, sel, max)
        = IF \E n \in DOMAIN L : isDefaultNLLogicalPageDelimiter(Body(L[n])) THEN Failed
          ELSE IF L = <<>> THEN Result(<<>>)
          ELSE Bounded(FlattenSeq([n \in 1..Min({maxEnd(sel), Len(L)}) |->
                          Copies(row(n), matchCount(sel, n))]), max)
  <2>1. numberedLineSelectionBytes(b, sel, max)
        = LET lines == Scan(b)
          IN IF \E n \in DOMAIN lines : isDefaultNLLogicalPageDelimiter(Body(lines[n])) THEN Failed
          ELSE IF lines = <<>> THEN Result(<<>>)
          ELSE Bounded(FlattenSeq([n \in 1..Min({maxEnd(sel), Len(lines)}) |->
                          Copies(Digits(n) \o <<TAB>> \o closed(lines[n]), matchCount(sel, n))]), max)
    <3> HIDE DEF L
    <3>q. QED BY <1>0, Zenon DEF numberedLineSelectionBytes
  <2> HIDE DEF L, closed
  <2>q. QED BY <1>0, <2>1
<1> DEFINE m == Min({maxEnd(sel), c})
<1>5. [n \in 1..m |-> Copies(row(n), matchCount(sel, n))]
        = [n \in 1..m |-> Copies(G[n], matchCount(sel, n))]
  <2>1. maxEnd(sel) \in Nat
    BY MaxEndFound
  <2>2. m = IF maxEnd(sel) <= c THEN maxEnd(sel) ELSE c
    BY <1>0, <2>1, Lesser
  <2>3. \A n \in 1..m : n \in 1..c
    <3> HIDE DEF m, c
    <3>q. QED BY <1>0, <2>1, <2>2
  <2> HIDE DEF m, c, row, G
  <2>q. QED BY <1>3, <2>3
<1>6. FlattenSeq([n \in 1..m |-> Copies(G[n], matchCount(sel, n))]) = Printed(c, G, sel)
  <2> HIDE DEF G, c
  <2>q. QED BY <1>0, Selected
<1>7. ASSUME L = <<>> PROVE Bounded(Printed(c, G, sel), max) = Result(<<>>)
  <2>1. c = 0
    BY <1>0, <1>7
  <2> DEFINE h == [n \in 1..c |-> Copies(G[n], matchCount(sel, n))]
  <2>2. h \in [1..0 -> Seq(Nat)]
    <3> HIDE DEF c
    <3>q. QED BY <2>1
  <2>3. FlattenSeq(h) = <<>>
    <3> HIDE DEF h
    <3>q. QED BY <2>2, FlatEmpty
  <2>4. Printed(c, G, sel) = FlattenSeq(h)
    BY DEF Printed
  <2>5. Bounded(<<>>, max) = Result(<<>>)
    <3>1. Len(<<>>) = 0
      BY EmptySeq
    <3>2. ~(max > 0 /\ Len(<<>>) > max)
      BY <3>1
    <3>q. QED BY <3>2 DEF Bounded
  <2> HIDE DEF h, c, G
  <2>q. QED BY <2>3, <2>4, <2>5
<1>8. numberedLineSelectionBytes(b, sel, max)
        = IF Delimited(b) THEN Failed
          ELSE IF L = <<>> THEN Result(<<>>) ELSE Bounded(Printed(c, G, sel), max)
  <2> HIDE DEF L, G, row, c, m
  <2>1. FlattenSeq([n \in 1..Min({maxEnd(sel), Len(L)}) |-> Copies(row(n), matchCount(sel, n))])
          = Printed(c, G, sel)
    BY <1>0, <1>5, <1>6 DEF m
  <2>q. QED BY <1>2, <1>4, <2>1
<1>q. QED BY <1>7, <1>8

\* A page delimiter is made of the page symbol.
LEMMA DelimitedHasPage ==
    ASSUME NEW b \in Seq(Nat), Delimited(b) PROVE Page \in ToSet(b)
<1>1. PICK n \in 1..LineCount(b) : isDefaultNLLogicalPageDelimiter(Body(TextOf(b, n)))
  BY DEF Delimited
<1> DEFINE t == TextOf(b, n)
           y == Body(t)
<1>2. /\ t \in Seq(Nat) /\ Len(t) \in Nat \ {0}
      /\ \A i \in 1..Len(t) : \E j \in 1..Len(b) : t[i] = b[j]
  BY LineFacts
<1>3. Len(y) \in 1..3 /\ \A i \in DOMAIN y : y[i] = Page
  BY <1>1 DEF isDefaultNLLogicalPageDelimiter
<1> HIDE DEF t
<1>4. 1 \in DOMAIN y /\ y[1] = t[1]
  <2>1. CASE t[Len(t)] = NL
    <3> DEFINE u == 1
               z == Len(t) - 1
    <3>1. y = SubSeq(t, u, z)
      BY <2>1 DEF Body
    <3>2. u \in Int /\ z \in Int /\ \A i \in u..z : t[i] \in Nat
      <4>1. \A i \in 1..Len(t) : t[i] \in Nat
        BY <1>2, LenProperties
      <4>2. \A i \in u..z : i \in 1..Len(t)
        BY <1>2
      <4>q. QED BY <1>2, <4>1, <4>2
    <3> HIDE DEF u, z
    <3>3. /\ SubSeq(t, u, z) \in Seq(Nat)
          /\ Len(SubSeq(t, u, z)) = IF u <= z THEN z - u + 1 ELSE 0
          /\ \A i \in 1..z - u + 1 : SubSeq(t, u, z)[i] = t[u + i - 1]
      BY <3>2, SubSeqProperties
    <3> HIDE DEF y
    <3>4. y \in Seq(Nat) /\ DOMAIN y = 1..Len(y)
      BY <3>1, <3>3, LenProperties
    <3>5. Len(y) = z - u + 1 /\ 1 \in 1..z - u + 1
      BY <1>3, <3>1, <3>2, <3>3
    <3>6. y[1] = t[u + 1 - 1]
      BY <3>1, <3>3, <3>5
    <3>7. u + 1 - 1 = 1
      BY DEF u
    <3>q. QED BY <3>4, <3>5, <3>6, <3>7
  <2>2. CASE t[Len(t)] # NL
    <3>1. y = t
      BY <2>2 DEF Body
    <3>2. DOMAIN t = 1..Len(t)
      BY <1>2, LenProperties
    <3>3. 1 \in 1..Len(t)
      BY <1>2
    <3> HIDE DEF y
    <3>q. QED BY <3>1, <3>2, <3>3
  <2>q. QED BY <2>1, <2>2
<1>5. 1 \in 1..Len(t)
  BY <1>2
<1>6. PICK j \in 1..Len(b) : t[1] = b[j]
  BY <1>2, <1>5
<1>7. b[j] = Page /\ j \in DOMAIN b
  BY <1>3, <1>4, <1>6, LenProperties
<1>q. QED BY <1>7 DEF ToSet

(***************************************************************************)
(* nl of a whole file, grep and rg, and what sed itself prints.            *)
(***************************************************************************)
\* nl of a whole file.
LEMMA NumberedAllExact ==
    ASSUME NEW b \in Seq(Nat), NEW max \in Nat, MaxRanges \in Nat \ {0}
    PROVE  numberedAllLinesBytes(b, max)
             = IF Delimited(b) THEN Failed ELSE Bounded(FlattenSeq(Numbered(b)), max)
<1> DEFINE c == LineCount(b)
           G == Numbered(b)
           last == Len(b) + 1
           sel == singleLineSelection(1, last)
<1>0. /\ MaxRanges \in Nat /\ last \in Nat \ {0} /\ c \in Nat /\ c <= last
      /\ G \in [1..c -> Seq(Nat)]
  BY LineFacts, LenProperties, NumberedTyped
<1>1. sel \in Selections
  <2> HIDE DEF last
  <2>q. QED BY <1>0, SingleSelection
<1>2. numberedLineSelectionBytes(b, sel, max)
        = IF Delimited(b) THEN Failed ELSE Bounded(Printed(c, G, sel), max)
  <2> HIDE DEF sel
  <2>q. QED BY <1>0, <1>1, NumberedExact
<1>3. Printed(c, G, sel) = FlattenSeq([n \in 1..Min({last, c}) |-> G[n]])
  <2> HIDE DEF last, c, G
  <2>q. QED BY <1>0, FirstLines
<1>4. Min({last, c}) = c
  <2> HIDE DEF last, c
  <2>1. last \in Nat
    BY <1>0
  <2>2. Min({last, c}) = IF last <= c THEN last ELSE c
    BY <1>0, <2>1, Lesser
  <2>q. QED BY <1>0, <2>2
<1>5. [n \in 1..c |-> G[n]] = G
  <2> HIDE DEF G, c
  <2>q. QED BY <1>0
<1>6. Printed(c, G, sel) = FlattenSeq(G)
  <2> HIDE DEF G, c, sel, last
  <2>q. QED BY <1>3, <1>4, <1>5
<1>7. numberedAllLinesBytes(b, max) = numberedLineSelectionBytes(b, sel, max)
  BY DEF numberedAllLinesBytes
<1> HIDE DEF sel, G, c
<1>q. QED BY <1>2, <1>6, <1>7 DEF G

Found(b, pattern) == {n \in 1..LineCount(b) : Holds(Body(TextOf(b, n)), pattern)}

\* grep -F and rg -F: the lines that hold the pattern, where no byte is NUL.
LEMMA SearchExact ==
    ASSUME NEW b \in Seq(Nat), ~Binary(b), NEW op, op.pattern # <<>>, NEW number \in BOOLEAN,
           op.quiet \in BOOLEAN
    PROVE  LET r == Search(b, Matching(b, op.pattern, op.quiet, number))
           IN  r.ok /\ r.stdout = NativeSearch(b, op, number).stdout
                    /\ r.exit = NativeSearch(b, op, number).exit
<1> DEFINE c == LineCount(b)
           L == Lines(b)
           F == Found(b, op.pattern)
           head(n) == IF number THEN Append(Digits(n), Colon) ELSE <<>>
           ours(n) == IF n \notin F THEN <<>> ELSE head(n) \o Append(Body(L[n]), NL)
           theirs(n) == IF n \in F THEN head(n) \o Close(TextOf(b, n)) ELSE <<>>
           M == Matching(b, op.pattern, op.quiet, number)
           N == NativeSearch(b, op, number)
<1>0. c \in Nat /\ DOMAIN L = 1..c /\ Scan(b) = L /\ \A n \in 1..c : L[n] = TextOf(b, n)
  BY LinesTyped, ScanExact DEF Lines
<1>1. {n \in DOMAIN L : Holds(Body(L[n]), op.pattern)} = F
  <2> HIDE DEF L
  <2>q. QED BY <1>0 DEF Found
<1>2. /\ M.matched <=> F # {}
      /\ M.stdout = IF op.quiet THEN <<>> ELSE FlattenSeq([n \in 1..c |-> ours(n)])
  <2>1. M = LET lines == Scan(b)
                found == {n \in DOMAIN lines : Holds(Body(lines[n]), op.pattern)}
            IN  [matched |-> op.pattern # <<>> /\ found # {},
                 stdout |-> IF op.quiet \/ op.pattern = <<>> THEN <<>>
                    ELSE FlattenSeq([n \in DOMAIN lines |->
                            IF n \notin found THEN <<>>
                            ELSE head(n) \o Append(Body(lines[n]), NL)])]
    <3> HIDE DEF L, F
    <3>q. QED BY Zenon DEF Matching
  <2> HIDE DEF M, L, F, head
  <2>2. M = [matched |-> op.pattern # <<>> /\ F # {},
             stdout |-> IF op.quiet \/ op.pattern = <<>> THEN <<>>
                    ELSE FlattenSeq([n \in 1..c |-> ours(n)])]
    BY <1>0, <1>1, <2>1
  <2> HIDE DEF ours
  <2>q. QED BY <2>2
<1>3. /\ N.stdout = IF op.quiet \/ F = {} THEN <<>> ELSE FlattenSeq([n \in 1..c |-> theirs(n)])
      /\ N.exit = IF F = {} THEN 1 ELSE 0
  <2>1. N = LET found == {n \in 1..c : Holds(Body(TextOf(b, n)), op.pattern)}
                shown(n) == head(n) \o Close(TextOf(b, n))
            IN  [stdout |-> IF op.quiet \/ found = {} THEN <<>>
                    ELSE IF Binary(b) THEN Notice
                    ELSE FlattenSeq([n \in 1..c |-> IF n \in found THEN shown(n) ELSE <<>>]),
                 exit |-> IF found = {} THEN 1 ELSE 0]
    <3> HIDE DEF L, F
    <3>q. QED BY Zenon DEF NativeSearch
  <2>2. F = {n \in 1..c : Holds(Body(TextOf(b, n)), op.pattern)}
    BY DEF Found
  <2> HIDE DEF N, F, c, head
  <2>3. N = [stdout |-> IF op.quiet \/ F = {} THEN <<>>
                        ELSE IF Binary(b) THEN Notice ELSE FlattenSeq([n \in 1..c |-> theirs(n)]),
             exit |-> IF F = {} THEN 1 ELSE 0]
    BY <2>1, <2>2
  <2> HIDE DEF theirs
  <2>q. QED BY <2>3
<1>4. ASSUME NEW n \in 1..c PROVE ours(n) = theirs(n)
  <2>1. TextOf(b, n) \in Seq(Nat) /\ Len(TextOf(b, n)) \in Nat \ {0}
    BY LineFacts
  <2>2. Append(Body(TextOf(b, n)), NL) = Close(TextOf(b, n))
    BY <2>1, CloseFacts
  <2> HIDE DEF L, F, head
  <2>q. QED BY <1>0, <2>2
<1>5. [n \in 1..c |-> ours(n)] = [n \in 1..c |-> theirs(n)]
  <2> HIDE DEF ours, theirs, c
  <2>q. QED BY <1>4
<1>7. Search(b, M) = [ok |-> TRUE, stdout |-> IF M.matched THEN M.stdout ELSE <<>>,
                   exit |-> IF M.matched THEN 0 ELSE 1]
  BY DEF Search
<1> HIDE DEF M, N, F, c, ours, theirs
<1>8. Search(b, M).ok /\ Search(b, M).stdout = N.stdout /\ Search(b, M).exit = N.exit
  <2>1. CASE F = {}
    <3>1. ~M.matched
      BY <1>2, <2>1
    <3>2. N.stdout = <<>> /\ N.exit = 1
      BY <1>3, <2>1
    <3>q. QED BY <1>7, <3>1, <3>2
  <2>2. CASE F # {}
    <3>1. M.matched
      BY <1>2, <2>2
    <3>2. N.stdout = M.stdout /\ N.exit = 0
      BY <1>2, <1>3, <1>5, <2>2
    <3>q. QED BY <1>7, <3>1, <3>2
  <2>q. QED BY <2>1, <2>2
<1>q. QED BY <1>8 DEF M, N

OpenOnce(b, sel) == Terminated(b) \/ matchCount(sel, LineCount(b)) <= 1

\* What sed itself prints, where it prints no unterminated line twice.
LEMMA NativeSedExact ==
    ASSUME NEW b \in Seq(Nat), NEW sel \in Selections, OpenOnce(b, sel), MaxRanges \in Nat
    PROVE  NativeSed(b, sel) = Printed(LineCount(b), Lines(b), sel)
<1> DEFINE c == LineCount(b)
           V == Seq(Nat)
           Ok == {l \in V : Terminated(l)}
           text(n) == TextOf(b, n)
           mc(n) == matchCount(sel, n)
           one(n) == FlattenSeq([i \in DOMAIN sel |->
                        IF n \in sel[i].start..sel[i].end THEN <<TextOf(b, n)>> ELSE <<>>])
           cycle == [n \in 1..c |-> one(n)]
           printed == FlattenSeq(cycle)
<1>0. /\ c \in Nat
      /\ \A n \in 1..c : text(n) \in V /\ Len(text(n)) \in Nat \ {0}
      /\ \A n \in 1..c : n < c => text(n)[Len(text(n))] = NL
      /\ \A n \in 1..c : n = c => text(n)[Len(text(n))] = b[Len(b)]
      /\ (c = 0 <=> b = <<>>)
  BY LineFacts
<1>1. DOMAIN sel = 1..Len(sel) /\ Len(sel) \in Nat
  BY SelectionTypes
<1>2. \A n \in 1..c : mc(n) \in Nat
  BY MatchCounts
<1>3. ASSUME NEW n \in 1..c PROVE one(n) = Times(text(n), mc(n))
  <2> DEFINE A == {i \in 1..Len(sel) : n \in sel[i].start..sel[i].end}
             x == text(n)
             k == Len(sel)
  <2>1. mc(n) = Cardinality(A)
    BY <1>1 DEF matchCount
  <2>2. one(n) = FlattenSeq([i \in 1..k |-> IF i \in A THEN <<x>> ELSE <<>>])
    <3>1. [i \in DOMAIN sel |-> IF n \in sel[i].start..sel[i].end THEN <<TextOf(b, n)>> ELSE <<>>]
            = [i \in 1..k |-> IF i \in A THEN <<x>> ELSE <<>>]
      <4>1. \A i \in 1..k : i \in A <=> n \in sel[i].start..sel[i].end
        OBVIOUS
      <4>2. x = TextOf(b, n)
        OBVIOUS
      <4> HIDE DEF A, x, k
      <4>3. \A i \in 1..k : (IF i \in A THEN <<x>> ELSE <<>>)
                  = IF n \in sel[i].start..sel[i].end THEN <<TextOf(b, n)>> ELSE <<>>
        BY <4>1, <4>2
      <4>q. QED BY <1>1, <4>3 DEF k
    <3> HIDE DEF A, x, k
    <3>q. QED BY <3>1
  <2>3. A \in SUBSET (1..k) /\ x \in V /\ k \in Nat
    BY <1>0, <1>1
  <2> HIDE DEF A, x, k, V
  <2>4. FlattenSeq([i \in 1..k |-> IF i \in A THEN <<x>> ELSE <<>>]) = Times(x, Cardinality(A))
    BY <2>3, FlatSingles
  <2>q. QED BY <2>1, <2>2, <2>4 DEF x
<1>4. ASSUME NEW S, NEW n \in 1..c, text(n) \in S
      PROVE  cycle[n] \in Seq(S) /\ Len(cycle[n]) = mc(n)
  <2> DEFINE x == text(n)
             k == mc(n)
  <2>1. cycle[n] = Times(x, k)
    <3> HIDE DEF one, text, mc, c
    <3>q. QED BY <1>3
  <2>2. k \in Nat /\ x \in S
    BY <1>2, <1>4
  <2> HIDE DEF x, k
  <2>3. Times(x, k) \in [1..k -> S]
    BY <2>2 DEF Times
  <2>4. Times(x, k) \in Seq(S) /\ Len(Times(x, k)) = k
    <3> DEFINE g == Times(x, k)
    <3>1. g \in [1..k -> S]
      BY <2>3
    <3> HIDE DEF g
    <3>2. g \in Seq(S) /\ Len(g) = k
      BY <2>2, <3>1, Listed
    <3>q. QED BY <3>2 DEF g
  <2> HIDE DEF cycle
  <2>q. QED BY <2>1, <2>4 DEF k
<1>5. cycle \in [1..c -> Seq(Seq(Nat))]
  <2>1. \A n \in 1..c : cycle[n] \in Seq(Seq(Nat))
    BY <1>0, <1>4
  <2>2. cycle = [n \in 1..c |-> cycle[n]]
    <3> HIDE DEF one
    <3>q. QED OBVIOUS
  <2> HIDE DEF cycle, c
  <2>q. QED BY <2>1, <2>2
<1>6. printed \in Seq(V) /\ Len(printed) \in Nat /\ DOMAIN printed = 1..Len(printed)
  <2>1. printed \in Seq(V)
    <3> HIDE DEF cycle, c
    <3>1. cycle \in [1..c -> Seq(V)]
      BY <1>5
    <3> HIDE DEF V
    <3>q. QED BY <1>0, <3>1, FlatOf
  <2> HIDE DEF printed, V
  <2>q. QED BY <2>1, LenProperties
<1>7. ASSUME NEW n \in 1..c, n < c \/ Terminated(b) PROVE text(n) \in Ok
  <2>1. text(n)[Len(text(n))] = NL
    <3>1. CASE n < c
      BY <1>0, <3>1
    <3>2. CASE n = c
      <4>1. b # <<>> /\ Terminated(b)
        BY <1>0, <1>7, <3>2
      <4>2. b[Len(b)] = NL
        BY <4>1 DEF Terminated
      <4>q. QED BY <1>0, <3>2, <4>2
    <3>q. QED BY <1>0, <3>1, <3>2
  <2>2. Terminated(text(n))
    BY <2>1 DEF Terminated
  <2>q. QED BY <1>0, <2>2
<1>8. ASSUME NEW k \in 1..Len(printed), k < Len(printed) PROVE Close(printed[k]) = printed[k]
  <2>0. SUFFICES printed[k] \in Ok
    BY <2>0 DEF Close
  <2>1. CASE Terminated(b)
    <3>1. \A n \in 1..c : cycle[n] \in Seq(Ok)
      <4> HIDE DEF cycle, Ok, text, c
      <4>q. QED BY <1>4, <1>7, <2>1
    <3>2. cycle = [n \in 1..c |-> cycle[n]]
      <4> HIDE DEF one
      <4>q. QED OBVIOUS
    <3>3. cycle \in [1..c -> Seq(Ok)]
      <4> HIDE DEF cycle, c, Ok
      <4>q. QED BY <3>1, <3>2
    <3>4. printed \in Seq(Ok)
      <4> HIDE DEF cycle, c, Ok
      <4>q. QED BY <1>0, <3>3, FlatOf
    <3> HIDE DEF printed, Ok
    <3>q. QED BY <3>4, ElementOfSeq
  <2>2. CASE ~Terminated(b)
    <3>1. c # 0 /\ mc(c) <= 1
      BY <1>0, <2>2 DEF OpenOnce, Terminated
    <3> DEFINE d == c - 1
               h == [n \in 1..d |-> cycle[n]]
               p == FlattenSeq(h)
               q == cycle[c]
    <3>2. d \in Nat /\ c = d + 1 /\ c \in 1..c
      BY <1>0, <3>1
    <3>3. \A n \in 1..d : n \in 1..c /\ n < c
      <4> HIDE DEF c
      <4>q. QED BY <1>0
    <3>4. \A n \in 1..d : cycle[n] \in Seq(Ok)
      <4> HIDE DEF cycle, Ok, text, c, d
      <4>q. QED BY <1>4, <1>7, <3>3
    <3>5. h \in [1..d -> Seq(Ok)]
      <4> HIDE DEF cycle, Ok, d
      <4>q. QED BY <3>4
    <3>6. p \in Seq(Ok)
      <4> HIDE DEF h, Ok, d
      <4>q. QED BY <3>2, <3>5, FlatOf
    <3>7. q \in Seq(V) /\ Len(q) <= 1 /\ Len(q) \in Nat
      <4>1. text(c) \in V
        BY <1>0, <3>2
      <4>2. cycle[c] \in Seq(V) /\ Len(cycle[c]) = mc(c)
        <5> HIDE DEF cycle, V, text, mc, c
        <5>q. QED BY <1>4, <3>2, <4>1
      <4> HIDE DEF cycle, mc
      <4>q. QED BY <1>2, <3>1, <3>2, <4>2
    <3>8. printed = p \o q
      <4>1. h \in [1..d -> Seq(V)] /\ cycle \in [1..d + 1 -> Seq(V)] /\ \A n \in 1..d : cycle[n] = h[n]
        <5>1. cycle \in [1..c -> Seq(V)]
          BY <1>5
        <5> HIDE DEF cycle, c, V
        <5>q. QED BY <3>2, <3>3, <5>1
      <4> HIDE DEF h, cycle, d, V
      <4>2. FlattenSeq(cycle) = FlattenSeq(h) \o cycle[d + 1]
        BY <3>2, <4>1, FlatMore
      <4>q. QED BY <3>2, <4>2
    <3>9. p \in Seq(V)
      <4>1. Ok \subseteq V
        OBVIOUS
      <4> HIDE DEF p, Ok, V
      <4>q. QED BY <3>6, <4>1, SeqMonotonic
    <3> HIDE DEF printed, p, q, c, V
    <3>10. Len(p) \in Nat /\ Len(printed) = Len(p) + Len(q)
           /\ \A i \in 1..Len(p) + Len(q) : printed[i] = IF i <= Len(p) THEN p[i] ELSE q[i - Len(p)]
      BY <3>7, <3>8, <3>9, ConcatProperties, LenProperties
    <3>11. k \in 1..Len(p) /\ k \in 1..Len(p) + Len(q)
      BY <1>8, <3>7, <3>10
    <3>12. printed[k] = p[k]
      BY <3>10, <3>11
    <3> HIDE DEF Ok
    <3>13. p[k] \in Ok
      BY <3>6, <3>11, ElementOfSeq
    <3>q. QED BY <3>12, <3>13
  <2>q. QED BY <2>1, <2>2
<1> DEFINE ended(k) == IF k < Len(printed) THEN Close(printed[k]) ELSE printed[k]
<1>9. [k \in DOMAIN printed |-> ended(k)] = printed
  <2>1. \A k \in 1..Len(printed) : ended(k) = printed[k]
    <3> HIDE DEF printed
    <3>q. QED BY <1>8
  <2> HIDE DEF ended, printed, V
  <2>2. printed \in [1..Len(printed) -> V]
    BY <1>6, LenProperties
  <2>q. QED BY <1>6, <2>1, <2>2
<1>10. NativeSed(b, sel) = FlattenSeq([k \in DOMAIN printed |-> ended(k)])
  BY DEF NativeSed
<1>11. FlattenSeq(printed) = FlattenSeq([n \in 1..c |-> FlattenSeq(cycle[n])])
  <2>1. c \in Nat /\ cycle \in [1..c -> Seq(Seq(Nat))]
    BY <1>0, <1>5
  <2> HIDE DEF cycle, c, V, one
  <2>2. FlattenSeq(FlattenSeq(cycle)) = FlattenSeq([n \in 1..c |-> FlattenSeq(cycle[n])])
    BY <2>1, FlatFlat, ZenonT(60)
  <2>q. QED BY <2>2
<1>12. ASSUME NEW n \in 1..c PROVE FlattenSeq(cycle[n]) = Copies(Lines(b)[n], mc(n))
  <2>1. cycle[n] = Times(text(n), mc(n))
    <3> HIDE DEF one, text, mc, c
    <3>q. QED BY <1>3
  <2>2. Lines(b)[n] = text(n)
    BY DEF Lines
  <2> HIDE DEF cycle, text, mc
  <2>q. QED BY <2>1, <2>2 DEF Copies, Times
<1>13. [n \in 1..c |-> FlattenSeq(cycle[n])] = [n \in 1..c |-> Copies(Lines(b)[n], mc(n))]
  <2> HIDE DEF cycle, mc, c
  <2>q. QED BY <1>12
<1>14. Printed(c, Lines(b), sel) = FlattenSeq([n \in 1..c |-> Copies(Lines(b)[n], mc(n))])
  BY DEF Printed
<1> HIDE DEF printed, ended, cycle, mc, c
<1>15. NativeSed(b, sel) = Printed(c, Lines(b), sel)
  BY <1>9, <1>10, <1>11, <1>13, <1>14
<1>q. QED BY <1>15 DEF c

(***************************************************************************)
(* Lines put one after another are the lines of what that makes.           *)
(***************************************************************************)
\* A line with its newline.
Row(t) ==
    /\ t \in Seq(Nat) /\ Len(t) \in Nat \ {0} /\ t[Len(t)] = NL
    /\ \A i \in 1..Len(t) - 1 : t[i] # NL

\* Lines that all have their newline.
Shut(b, k, off) ==
    /\ off \in [0..k -> 0..Len(b)] /\ off[0] = 0 /\ off[k] = Len(b)
    /\ \A n \in 1..k :
         /\ off[n - 1] < off[n]
         /\ \A i \in off[n - 1] + 1..off[n] - 1 : b[i] # NL
         /\ b[off[n]] = NL

LEMMA ShutIsCut ==
    ASSUME NEW b \in Seq(Nat), NEW k \in Nat, NEW off, Shut(b, k, off)
    PROVE  Cut(b, k, off) /\ Terminated(b)
<1>1. Cut(b, k, off)
  BY DEF Shut, Cut
<1>2. ASSUME b # <<>> PROVE b[Len(b)] = NL
  <2>1. Len(b) # 0 /\ off[k] = Len(b) /\ off[0] = 0
    BY <1>2, EmptySeq DEF Shut
  <2>2. k \in 1..k
    BY <2>1
  <2>q. QED BY <2>1, <2>2 DEF Shut
<1>q. QED BY <1>1, <1>2 DEF Terminated

\* A further line after these.
Longer(b, t, k, off, new) ==
    /\ Shut(b \o t, k + 1, new)
    /\ \A n \in 1..k : SubSeq(b \o t, new[n - 1] + 1, new[n]) = SubSeq(b, off[n - 1] + 1, off[n])
    /\ SubSeq(b \o t, new[k] + 1, new[k + 1]) = t

\* A row put behind a file adds one line to its cut.
LEMMA ShutMore ==
    ASSUME NEW b \in Seq(Nat), NEW t, Row(t), NEW k \in Nat, NEW off, Shut(b, k, off)
    PROVE  \E new : Longer(b, t, k, off, new)
<1> DEFINE m == Len(b)
           l == Len(t)
           r == b \o t
           new == [n \in 0..k + 1 |-> IF n = k + 1 THEN m + l ELSE off[n]]
<1>0. /\ m \in Nat /\ l \in Nat \ {0} /\ t \in Seq(Nat) /\ t[l] = NL
      /\ \A i \in 1..l - 1 : t[i] # NL
      /\ \A i \in 1..m : b[i] \in Nat
      /\ \A i \in 1..l : t[i] \in Nat
  BY LenProperties DEF Row
<1>1. /\ r \in Seq(Nat) /\ Len(r) = m + l
      /\ \A i \in 1..m + l : r[i] = IF i <= m THEN b[i] ELSE t[i - m]
  BY <1>0, ConcatProperties
<1> HIDE DEF r
<1>2. /\ off[0] = 0 /\ off[k] = m
      /\ \A n \in 0..k : off[n] \in Int /\ 0 <= off[n] /\ off[n] <= m
      /\ \A n \in 1..k : off[n - 1] < off[n] /\ b[off[n]] = NL
      /\ \A n \in 1..k : \A i \in off[n - 1] + 1..off[n] - 1 : b[i] # NL
  <2>1. off \in [0..k -> 0..m]
    BY DEF Shut
  <2>2. \A n \in 0..k : off[n] \in 0..m
    <3> HIDE DEF m
    <3>q. QED BY <2>1
  <2>q. QED BY <1>0, <2>2 DEF Shut
<1> HIDE DEF m, l
<1>3. new[k + 1] = m + l /\ \A n \in 0..k : new[n] = off[n]
  <2>1. k + 1 \in 0..k + 1 /\ \A n \in 0..k : n \in 0..k + 1 /\ n # k + 1
    OBVIOUS
  <2>q. QED BY <2>1
<1>4. new \in [0..k + 1 -> 0..m + l]
  <2>1. ASSUME NEW n \in 0..k + 1 PROVE (IF n = k + 1 THEN m + l ELSE off[n]) \in 0..m + l
    <3>1. CASE n = k + 1
      BY <1>0, <3>1
    <3>2. CASE n # k + 1
      <4>1. n \in 0..k
        BY <3>2
      <4>q. QED BY <1>0, <1>2, <3>2, <4>1
    <3>q. QED BY <3>1, <3>2
  <2>q. QED BY <2>1
<1> HIDE DEF new
<1>5. ASSUME NEW n \in 1..k
      PROVE  /\ n \in 0..k /\ n - 1 \in 0..k /\ new[n] = off[n] /\ new[n - 1] = off[n - 1]
             /\ off[n - 1] \in Int /\ off[n] \in Int /\ 0 <= off[n - 1]
             /\ off[n - 1] < off[n] /\ off[n] <= m
  <2>1. n \in 0..k /\ n - 1 \in 0..k
    OBVIOUS
  <2>q. QED BY <1>2, <1>3, <2>1
<1>6. ASSUME NEW n \in 1..k + 1
      PROVE  /\ new[n - 1] < new[n]
             /\ \A i \in new[n - 1] + 1..new[n] - 1 : r[i] # NL
             /\ r[new[n]] = NL
  <2>1. CASE n = k + 1
    <3>1. n - 1 = k /\ k \in 0..k
      BY <2>1
    <3>2. new[n - 1] = m /\ new[n] = m + l
      BY <1>2, <1>3, <2>1, <3>1
    <3>3. r[m + l] = NL
      <4>1. m + l \in 1..m + l /\ ~(m + l <= m) /\ m + l - m = l
        BY <1>0
      <4>q. QED BY <1>0, <1>1, <4>1
    <3>4. ASSUME NEW i \in m + 1..m + l - 1 PROVE r[i] # NL
      <4>1. i \in 1..m + l /\ ~(i <= m) /\ i - m \in 1..l - 1
        BY <1>0
      <4>q. QED BY <1>0, <1>1, <4>1
    <3>q. QED BY <1>0, <3>2, <3>3, <3>4
  <2>2. CASE n # k + 1
    <3>1. n \in 1..k
      BY <2>2
    <3>2. /\ new[n] = off[n] /\ new[n - 1] = off[n - 1]
          /\ off[n - 1] \in Int /\ off[n] \in Int /\ 0 <= off[n - 1]
          /\ off[n - 1] < off[n] /\ off[n] <= m
      BY <1>5, <3>1
    <3>3. \A i \in 1..m : r[i] = b[i]
      BY <1>0, <1>1
    <3>4. off[n] \in 1..m /\ \A i \in off[n - 1] + 1..off[n] - 1 : i \in 1..m
      BY <1>0, <3>2
    <3>5. r[off[n]] = NL
      BY <1>2, <3>1, <3>3, <3>4
    <3>6. \A i \in off[n - 1] + 1..off[n] - 1 : r[i] # NL
      BY <1>2, <3>1, <3>3, <3>4
    <3>q. QED BY <3>2, <3>5, <3>6
  <2>q. QED BY <2>1, <2>2
<1>7. Shut(r, k + 1, new)
  <2>1. new[0] = 0
    BY <1>2, <1>3
  <2>2. new \in [0..k + 1 -> 0..Len(r)] /\ new[k + 1] = Len(r)
    BY <1>1, <1>3, <1>4
  <2>q. QED BY <1>6, <2>1, <2>2 DEF Shut
<1>8. ASSUME NEW n \in 1..k
      PROVE  SubSeq(r, new[n - 1] + 1, new[n]) = SubSeq(b, off[n - 1] + 1, off[n])
  <2> DEFINE x == off[n - 1] + 1
             y == off[n]
  <2>1. x \in 1..m /\ y \in 1..m
    <3> DEFINE p == off[n - 1]
               q == off[n]
    <3>1. p \in Int /\ q \in Int /\ 0 <= p /\ p < q /\ q <= m
      BY <1>5
    <3> HIDE DEF p, q
    <3>2. p + 1 \in 1..m /\ q \in 1..m
      BY <1>0, <3>1
    <3>q. QED BY <3>2 DEF p, q
  <2>2. new[n - 1] + 1 = x /\ new[n] = y
    BY <1>5
  <2> HIDE DEF x, y
  <2>3. SubSeq(b \o t, x, y) = SubSeq(b, x, y)
    <3>1. m = Len(b)
      BY DEF m
    <3>q. QED BY <1>0, <2>1, <3>1, SubSeqOfConcat1
  <2>q. QED BY <2>2, <2>3 DEF r, x, y
<1>9. SubSeq(r, new[k] + 1, new[k + 1]) = t
  <2> DEFINE x == m + 1
             y == m + l
  <2>1. new[k] + 1 = x /\ new[k + 1] = y
    BY <1>2, <1>3
  <2>2. x \in Len(b) + 1..Len(b) + Len(t) /\ y \in Len(b) + 1..Len(b) + Len(t)
    BY <1>0 DEF m, l
  <2>3. x - Len(b) = 1 /\ y - Len(b) = Len(t)
    BY <1>0 DEF m, l
  <2> HIDE DEF x, y
  <2>4. SubSeq(b \o t, x, y) = SubSeq(t, x - Len(b), y - Len(b))
    BY <1>0, <2>2, SubSeqOfConcat2
  <2>5. SubSeq(t, 1, Len(t)) = t
    BY <1>0, SubSeqFull
  <2>q. QED BY <2>1, <2>3, <2>4, <2>5 DEF r
<1>10. Longer(b, t, k, off, new)
  BY <1>7, <1>8, <1>9 DEF r, Longer
<1>q. QED BY <1>10

\* Lines laid one after another are the lines of what that makes.
LEMMA JoinedLines ==
    ASSUME NEW c \in Nat, NEW f \in [1..c -> Seq(Nat)], \A n \in 1..c : Row(f[n])
    PROVE  LET b == FlattenSeq(f)
           IN  b \in Seq(Nat) /\ LineCount(b) = c /\ Lines(b) = f /\ Terminated(b)
<1> DEFINE Rows(n) == {g \in [1..n -> Seq(Nat)] : \A i \in 1..n : Row(g[i])}
           Laying(n, g, off) == /\ Shut(FlattenSeq(g), n, off)
                                /\ \A i \in 1..n : g[i] = SubSeq(FlattenSeq(g), off[i - 1] + 1, off[i])
           T == {n \in Nat : \A g \in Rows(n) : \E off : Laying(n, g, off)}
<1>1. 0 \in T
  <2>1. ASSUME NEW g \in Rows(0) PROVE \E off : Laying(0, g, off)
    <3> DEFINE off == [n \in 0..0 |-> 0]
               e == FlattenSeq(g)
    <3>1. e = <<>>
      <4>1. g \in [1..0 -> Seq(Nat)]
        OBVIOUS
      <4>q. QED BY <4>1, FlatEmpty
    <3>2. Len(e) = 0
      BY <3>1
    <3>3. off \in [0..0 -> 0..Len(e)] /\ off[0] = 0
      BY <3>2
    <3> HIDE DEF off, e
    <3>4. Shut(e, 0, off)
      BY <3>2, <3>3 DEF Shut
    <3>5. Laying(0, g, off)
      BY <3>4 DEF e
    <3> HIDE DEF Laying
    <3>q. QED BY <3>5
  <2> HIDE DEF Rows, Laying
  <2>q. QED BY <2>1
<1>2. ASSUME NEW n \in T PROVE n + 1 \in T
  <2>0. n \in Nat /\ n + 1 \in Nat /\ \A g \in Rows(n) : \E off : Laying(n, g, off)
    <3> HIDE DEF Rows, Laying
    <3>q. QED OBVIOUS
  <2>1. ASSUME NEW g \in Rows(n + 1) PROVE \E off : Laying(n + 1, g, off)
    <3> DEFINE h == [i \in 1..n |-> g[i]]
               t == g[n + 1]
               b == FlattenSeq(h)
               k == n
    <3>1. g \in [1..n + 1 -> Seq(Nat)] /\ \A i \in 1..n + 1 : Row(g[i])
      OBVIOUS
    <3>2. \A i \in 1..n : i \in 1..n + 1
      BY <2>0
    <3>3. h \in Rows(n)
      BY <3>1, <3>2
    <3>4. PICK off : Laying(n, h, off)
      <4> HIDE DEF Rows, Laying, h
      <4>q. QED BY <2>0, <3>3
    <3>5. Row(t)
      BY <2>0, <3>1
    <3>6. h \in [1..n -> Seq(Nat)] /\ \A i \in 1..n : g[i] = h[i]
      BY <3>1, <3>2
    <3> HIDE DEF h
    <3>7. b \in Seq(Nat)
      BY <2>0, <3>6, FlatOf
    <3>8. FlattenSeq(g) = b \o t
      <4>1. n \in Nat
        BY <2>0
      <4>q. QED BY <3>1, <3>6, <4>1, FlatMore
    <3>9. Shut(b, n, off) /\ \A i \in 1..n : h[i] = SubSeq(b, off[i - 1] + 1, off[i])
      BY <3>4
    <3> HIDE DEF b, t
    <3>a. \E new : Longer(b, t, n, off, new)
      <4>1. n \in Nat
        BY <2>0
      <4>2. Shut(b, n, off)
        BY <3>9
      <4>q. QED BY ONLY <3>5, <3>7, <4>1, <4>2, ShutMore
    <3>b. PICK new : Longer(b, t, n, off, new)
      BY <3>a
    <3>10. /\ Shut(b \o t, n + 1, new)
           /\ \A i \in 1..n : SubSeq(b \o t, new[i - 1] + 1, new[i])
                                = SubSeq(b, off[i - 1] + 1, off[i])
           /\ SubSeq(b \o t, new[n] + 1, new[n + 1]) = t
      BY <3>b DEF Longer
    <3>11. ASSUME NEW i \in 1..n + 1 PROVE g[i] = SubSeq(b \o t, new[i - 1] + 1, new[i])
      <4>1. CASE i = n + 1
        <5>1. i - 1 = n
          BY <2>0, <4>1
        <5>q. QED BY <3>10, <4>1, <5>1 DEF t
      <4>2. CASE i # n + 1
        <5>1. i \in 1..n
          BY <2>0, <4>2
        <5>q. QED BY <3>6, <3>9, <3>10, <5>1
      <4>q. QED BY <4>1, <4>2
    <3>12. Laying(n + 1, g, new)
      BY <3>8, <3>10, <3>11
    <3> HIDE DEF Laying
    <3>q. QED BY <3>12
  <2> HIDE DEF Rows, Laying
  <2>q. QED BY <2>0, <2>1
<1>3. T = Nat
  <2>1. T \in SUBSET Nat
    OBVIOUS
  <2> HIDE DEF T
  <2>q. QED BY <1>1, <1>2, <2>1, Induction
<1>4. c \in T /\ f \in Rows(c)
  <2>1. f \in Rows(c)
    OBVIOUS
  <2> HIDE DEF T
  <2>q. QED BY <1>3, <2>1
<1>5. PICK off : Laying(c, f, off)
  <2> HIDE DEF Rows, Laying
  <2>q. QED BY <1>4
<1> DEFINE b == FlattenSeq(f)
<1>6. Shut(b, c, off) /\ \A i \in 1..c : f[i] = SubSeq(b, off[i - 1] + 1, off[i])
  BY <1>5
<1>7. b \in Seq(Nat)
  BY FlatOf
<1> HIDE DEF b, T, Rows, Laying
<1>8. Cut(b, c, off) /\ Terminated(b)
  BY <1>6, <1>7, ShutIsCut
<1>9. LineCount(b) = c /\ Lines(b) = Sliced(b, c, off)
  BY <1>7, <1>8, CutSlices
<1>10. Sliced(b, c, off) = f
  <2>1. f = [i \in 1..c |-> f[i]]
    OBVIOUS
  <2>2. [i \in 1..c |-> f[i]] = [i \in 1..c |-> SubSeq(b, off[i - 1] + 1, off[i])]
    BY <1>6
  <2>q. QED BY <2>1, <2>2 DEF Sliced
<1>11. b \in Seq(Nat) /\ LineCount(b) = c /\ Lines(b) = f /\ Terminated(b)
  BY <1>7, <1>8, <1>9, <1>10
<1>q. QED BY <1>11 DEF b

(***************************************************************************)
(* Every read.                                                             *)
(***************************************************************************)
\* Only bytes are read, whatever is appended to the file.
LEMMA ReadsInit == ASSUME ReadsAssumption, Init PROVE TypeOK
<1>1. content = <<>> /\ operation \in Operations
  BY DEF Init
<1>2. content \in Seq(Alphabet) /\ Len(content) = 0
  <2> DEFINE e == <<>>
  <2>1. e \in Seq(Alphabet) /\ Len(e) = 0
    BY EmptySeq
  <2>q. QED BY <1>1, <2>1
<1>q. QED BY <1>1, <1>2 DEF TypeOK, ReadsAssumption

LEMMA ReadsNext ==
    ASSUME ReadsAssumption, TypeOK, [Next]_<<content, operation>> PROVE TypeOK'
<1>1. CASE UNCHANGED <<content, operation>>
  BY <1>1 DEF TypeOK
<1>2. ASSUME NEW b \in Alphabet, Grow(b) PROVE TypeOK'
  <2>1. /\ content \in Seq(Alphabet) /\ Len(content) \in Nat /\ Len(content) < MaxLength
        /\ content' = Append(content, b) /\ operation' = operation
    BY <1>2, LenProperties DEF TypeOK, Grow
  <2>2. content' \in Seq(Alphabet) /\ Len(content') = Len(content) + 1
    BY <2>1, AppendProperties
  <2>q. QED BY <2>1, <2>2 DEF TypeOK, ReadsAssumption
<1>q. QED BY <1>1, <1>2 DEF Next

LEMMA WiderSeq ==
    ASSUME NEW S, NEW T, S \subseteq T, NEW s \in Seq(S) PROVE s \in Seq(T)
<1> DEFINE n == Len(s)
<1>1. n \in Nat /\ s \in [1..n -> S]
  BY LenProperties
<1> HIDE DEF n
<1>2. s \in [1..n -> T]
  BY <1>1
<1>q. QED BY <1>1, <1>2, Listed

\* What a read is made of.
LEMMA ClausesTyped ==
    ASSUME ReadsAssumption, NEW s, Len(s) \in Nat, DOMAIN s = 1..Len(s),
           \A i \in 1..Len(s) : s[i] \in Clauses
    PROVE  parseSedPrintSelection(s) = <<>> \/ parseSedPrintSelection(s) \in Selections
<1> DEFINE n == Len(s)
           end(c) == IF c.end = 0 THEN c.start ELSE c.end
           V == [start : Nat, end : Nat]
           sel == [i \in DOMAIN s |-> [start |-> s[i].start, end |-> end(s[i])]]
           good == /\ n \in 1..MaxRanges
                   /\ \A i \in DOMAIN s :
                        /\ s[i].start \in 1..MaxLine
                        /\ end(s[i]) \in s[i].start..MaxLine
                        /\ end(s[i]) - s[i].start <= MaxWidth
<1>1. parseSedPrintSelection(s) = IF good THEN sel ELSE <<>>
  BY DEF parseSedPrintSelection
<1>2. ASSUME good PROVE sel \in Selections
  <2>0. n \in Nat /\ n \in 1..MaxRanges /\ DOMAIN s = 1..n /\ MaxLine \in Nat
    BY <1>2 DEF ReadsAssumption
  <2>1. ASSUME NEW i \in 1..n
        PROVE  /\ s[i].start \in Nat /\ s[i].start > 0 /\ end(s[i]) \in Nat
               /\ end(s[i]) >= s[i].start
    <3>1. s[i].start \in 1..MaxLine /\ end(s[i]) \in s[i].start..MaxLine
      BY <1>2, <2>0
    <3> HIDE DEF end
    <3>q. QED BY <2>0, <3>1
  <2>2. sel \in [1..n -> V]
    <3>1. \A i \in 1..n : [start |-> s[i].start, end |-> end(s[i])] \in V
      <4> HIDE DEF end
      <4>q. QED BY <2>1
    <3> HIDE DEF end, V, n
    <3>q. QED BY <2>0, <3>1
  <2>3. \A i \in 1..n : sel[i].start = s[i].start /\ sel[i].end = end(s[i])
    <3> HIDE DEF end, n
    <3>q. QED BY <2>0
  <2> HIDE DEF sel, V, n, end
  <2>4. sel \in Seq(V) /\ Len(sel) = n
    BY <2>0, <2>2, Listed
  <2>5. DOMAIN sel = 1..n
    BY <2>2
  <2>6. \A i \in DOMAIN sel : sel[i].start > 0 /\ sel[i].end >= sel[i].start
    BY <2>1, <2>3, <2>5
  <2>7. valid(sel)
    BY <2>0, <2>4, <2>6 DEF valid
  <2>q. QED BY <2>4, <2>7 DEF Selections, V
<1> HIDE DEF good, sel
<1>q. QED BY <1>1, <1>2

\* What a read may be.
LEMMA OperationsAre ==
    ASSUME ReadsAssumption, NEW op \in Operations
    PROVE  \/ op.kind \in {"cat", "nl"}
           \/ op.kind \in {"head", "tail"} /\ op.count \in Nat \ {0}
           \/ op.kind = "sed" /\ (op.selection = <<>> \/ op.selection \in Selections)
           \/ op.kind = "grep" /\ op.pattern # <<>> /\ op.quiet \in BOOLEAN
           \/ op.kind = "rg" /\ op.pattern # <<>> /\ op.quiet \in BOOLEAN /\ op.number \in BOOLEAN
<1>1. CASE op \in [kind : {"cat", "nl"}]
  BY <1>1
<1>2. CASE op \in [kind : {"head", "tail"}, count : 1..MaxLine]
  BY <1>2 DEF ReadsAssumption
<1>3. CASE op \in [kind : {"sed"},
                   selection : {parseSedPrintSelection(<<c, d>>) : c, d \in Clauses}
                               \cup {parseSedPrintSelection(<<c>>) : c \in Clauses}]
  <2> DEFINE Taken(s) == s = <<>> \/ s \in Selections
             pair(c, d) == parseSedPrintSelection(<<c, d>>)
             single(c) == parseSedPrintSelection(<<c>>)
  <2>1. ASSUME NEW c \in Clauses, NEW d \in Clauses PROVE Taken(pair(c, d))
    <3> DEFINE s == <<c, d>>
    <3>1. Len(s) \in Nat /\ DOMAIN s = 1..Len(s) /\ \A i \in 1..Len(s) : s[i] \in Clauses
      OBVIOUS
    <3> HIDE DEF s
    <3>2. parseSedPrintSelection(s) = <<>> \/ parseSedPrintSelection(s) \in Selections
      BY <3>1, ClausesTyped
    <3>q. QED BY <3>2 DEF s
  <2>2. ASSUME NEW c \in Clauses PROVE Taken(single(c))
    <3> DEFINE s == <<c>>
    <3>1. Len(s) \in Nat /\ DOMAIN s = 1..Len(s) /\ \A i \in 1..Len(s) : s[i] \in Clauses
      OBVIOUS
    <3> HIDE DEF s
    <3>2. parseSedPrintSelection(s) = <<>> \/ parseSedPrintSelection(s) \in Selections
      BY <3>1, ClausesTyped
    <3>q. QED BY <3>2 DEF s
  <2>3. /\ op.kind = "sed"
        /\ op.selection \in {pair(c, d) : c, d \in Clauses} \cup {single(c) : c \in Clauses}
    BY <1>3
  <2>4. Taken(op.selection)
    <3> HIDE DEF Taken, pair, single
    <3>q. QED BY <2>1, <2>2, <2>3
  <2>q. QED BY <2>3, <2>4
<1>4. CASE op \in [kind : {"grep"}, pattern : Needles, quiet : BOOLEAN]
  BY <1>4 DEF ReadsAssumption
<1>5. CASE op \in [kind : {"rg"}, pattern : Needles, quiet : BOOLEAN, number : BOOLEAN]
  BY <1>5 DEF ReadsAssumption
<1>q. QED BY <1>1, <1>2, <1>3, <1>4, <1>5 DEF Operations

\* What the command prints, unless it is too large.
Faithful(b, st, op) ==
    LET n == Native(b, op)
    IN  Answered(b, st, op) = IF Len(n.stdout) > MaxOutput THEN Failed
                              ELSE [ok |-> TRUE, stdout |-> n.stdout, exit |-> n.exit]

Limited(r) == IF Len(r.stdout) > MaxOutput THEN Failed ELSE r

LEMMA LimitFails == ASSUME MaxOutput \in Nat PROVE Limited(Failed) = Failed
<1>1. Len(Failed.stdout) = 0
  BY DEF Failed
<1>q. QED BY <1>1 DEF Limited

\* The output limit, applied twice, is one limit.
LEMMA LimitOnce ==
    ASSUME MaxOutput \in Nat, NEW out \in Seq(Nat)
    PROVE  Limited(Bounded(out, MaxOutput)) = IF Len(out) > MaxOutput THEN Failed ELSE Result(out)
<1>0. Len(out) \in Nat
  BY LenProperties
<1>1. Result(out).stdout = out
  BY DEF Result
<1>2. CASE Len(out) > MaxOutput
  <2>1. Limited(Result(out)) = Failed
    BY <1>1, <1>2 DEF Limited
  <2>2. Limited(Failed) = Failed
    BY LimitFails
  <2>q. QED BY <1>2, <2>1, <2>2 DEF Bounded
<1>3. CASE ~(Len(out) > MaxOutput)
  <2>1. Bounded(out, MaxOutput) = Result(out)
    BY <1>3 DEF Bounded
  <2>2. Limited(Result(out)) = Result(out)
    BY <1>1, <1>3 DEF Limited
  <2>q. QED BY <1>3, <2>1, <2>2
<1>q. QED BY <1>2, <1>3

LEMMA AnsweredIs ==
    ASSUME NEW b, NEW st, NEW op
    PROVE  Answered(b, st, op) = Limited(warmFileCommandOutputIndexed(b, st, op))
BY DEF Answered, Limited

\* An answer that is made of what the command prints.
LEMMA FaithfulIf ==
    ASSUME NEW b, NEW st, NEW op, NEW out, NEW exit,
           warmFileCommandOutputIndexed(b, st, op) = [ok |-> TRUE, stdout |-> out, exit |-> exit],
           Native(b, op) = [stdout |-> out, exit |-> exit]
    PROVE  Faithful(b, st, op)
BY AnsweredIs DEF Faithful, Limited

LEMMA CatRead ==
    ASSUME NEW b, NEW st, NEW op, op.kind = "cat" PROVE Faithful(b, st, op)
<1>1. warmFileCommandOutputIndexed(b, st, op) = [ok |-> TRUE, stdout |-> b, exit |-> 0]
  BY DEF warmFileCommandOutputIndexed, Result
<1>2. Native(b, op) = [stdout |-> b, exit |-> 0]
  BY DEF Native
<1>q. QED BY <1>1, <1>2, FaithfulIf

LEMMA HeadRead ==
    ASSUME ReadsAssumption, NEW b \in Seq(Nat), NEW st, Prepared(b, st),
           NEW op, op.kind = "head", op.count \in Nat \ {0}
    PROVE  Faithful(b, st, op)
<1> DEFINE count == op.count
           out == Whole(b, 1, Min({count, LineCount(b)}))
<1>1. warmFileCommandOutputIndexed(b, st, op)
        = sedPrintSelectionBytesIndexed(b, st, singleLineSelection(1, count), 0)
  BY DEF warmFileCommandOutputIndexed
<1>2. sedPrintSelectionBytesIndexed(b, st, singleLineSelection(1, count), 0) = Result(out)
  <2>1. count \in Nat \ {0} /\ MaxRanges \in Nat \ {0}
    BY DEF ReadsAssumption
  <2> HIDE DEF count
  <2>q. QED BY <2>1, HeadExact
<1>3. Native(b, op) = [stdout |-> out, exit |-> 0]
  BY DEF Native, Whole
<1> HIDE DEF out
<1>4. warmFileCommandOutputIndexed(b, st, op) = [ok |-> TRUE, stdout |-> out, exit |-> 0]
  BY <1>1, <1>2 DEF Result
<1>q. QED BY <1>3, <1>4, FaithfulIf

LEMMA TailRead ==
    ASSUME ReadsAssumption, NEW b \in Seq(Nat), NEW st, Prepared(b, st),
           NEW op, op.kind = "tail", op.count \in Nat \ {0}
    PROVE  Faithful(b, st, op)
<1> DEFINE count == op.count
           out == Whole(b, FirstOf(LineCount(b), count), LineCount(b))
<1>1. warmFileCommandOutputIndexed(b, st, op) = Result(tailLineBytesIndexed(b, st, count))
  BY DEF warmFileCommandOutputIndexed
<1>2. tailLineBytesIndexed(b, st, count) = out
  <2>1. count \in Nat \ {0}
    OBVIOUS
  <2> HIDE DEF count
  <2>q. QED BY <2>1, TailExact
<1>3. Native(b, op) = [stdout |-> out, exit |-> 0]
  BY DEF Native, Whole, FirstOf
<1> HIDE DEF out
<1>4. warmFileCommandOutputIndexed(b, st, op) = [ok |-> TRUE, stdout |-> out, exit |-> 0]
  BY <1>1, <1>2 DEF Result
<1>q. QED BY <1>3, <1>4, FaithfulIf

Searches(op) == op.kind = "grep" \/ (op.kind = "rg" /\ op.number \in BOOLEAN)

LEMMA SearchRead ==
    ASSUME ReadsAssumption, NEW b \in Seq(Nat), NEW st, NEW op, op.pattern # <<>>, op.quiet \in BOOLEAN,
           Searches(op), ~Binary(b)
    PROVE  Faithful(b, st, op)
<1>1. ASSUME NEW number \in BOOLEAN,
             warmFileCommandOutputIndexed(b, st, op) = Search(b, Matching(b, op.pattern, op.quiet, number)),
             Native(b, op) = NativeSearch(b, op, number)
      PROVE  Faithful(b, st, op)
  <2> DEFINE r == Search(b, Matching(b, op.pattern, op.quiet, number))
             n == NativeSearch(b, op, number)
  <2>1. r.ok /\ r.stdout = n.stdout /\ r.exit = n.exit
    BY SearchExact
  <2>2. r = [ok |-> TRUE, stdout |-> r.stdout, exit |-> r.exit]
    BY DEF Search
  <2>3. n = [stdout |-> n.stdout, exit |-> n.exit]
    BY DEF NativeSearch
  <2> HIDE DEF r, n
  <2> DEFINE out == n.stdout
             exit == n.exit
  <2>4. r = [ok |-> TRUE, stdout |-> out, exit |-> exit] /\ n = [stdout |-> out, exit |-> exit]
    BY <2>1, <2>2, <2>3
  <2> HIDE DEF out, exit
  <2>q. QED BY <1>1, <2>4, FaithfulIf DEF r, n
<1>2. CASE op.kind = "grep"
  <2>1. warmFileCommandOutputIndexed(b, st, op) = Search(b, Matching(b, op.pattern, op.quiet, FALSE))
    BY <1>2 DEF warmFileCommandOutputIndexed, fixedGrepOutput
  <2>2. Native(b, op) = NativeSearch(b, op, FALSE)
    BY <1>2 DEF Native
  <2>q. QED BY <1>1, <2>1, <2>2
<1>3. CASE op.kind = "rg" /\ op.number \in BOOLEAN
  <2>1. warmFileCommandOutputIndexed(b, st, op)
          = Search(b, Matching(b, op.pattern, op.quiet, op.number))
    BY <1>3 DEF warmFileCommandOutputIndexed, fixedRgOutput
  <2>2. Native(b, op) = NativeSearch(b, op, op.number)
    BY <1>3 DEF Native
  <2>q. QED BY <1>1, <1>3, <2>1, <2>2
<1>q. QED BY <1>2, <1>3 DEF Searches

LEMMA BinaryRead ==
    ASSUME ReadsAssumption, NEW b, NEW st, NEW op, Searches(op), Binary(b)
    PROVE  Answered(b, st, op) = Failed
<1>1. ASSUME NEW m PROVE Search(b, m) = Failed
  BY DEF Search
<1>2. warmFileCommandOutputIndexed(b, st, op) = Failed
  <2>1. CASE op.kind = "grep"
    BY <1>1, <2>1 DEF warmFileCommandOutputIndexed
  <2>2. CASE op.kind = "rg"
    BY <1>1, <2>2 DEF warmFileCommandOutputIndexed
  <2>q. QED BY <2>1, <2>2 DEF Searches
<1>q. QED BY <1>2, AnsweredIs, LimitFails DEF ReadsAssumption

LEMMA NumberRead ==
    ASSUME ReadsAssumption, NEW b \in Seq(Nat), NEW st, NEW op, op.kind = "nl"
    PROVE  IF Delimited(b) THEN Answered(b, st, op) = Failed ELSE Faithful(b, st, op)
<1> DEFINE out == FlattenSeq(Numbered(b))
<1>0. MaxOutput \in Nat /\ MaxRanges \in Nat \ {0}
  BY DEF ReadsAssumption
<1>1. warmFileCommandOutputIndexed(b, st, op) = numberedAllLinesBytes(b, MaxOutput)
  BY DEF warmFileCommandOutputIndexed
<1>2. numberedAllLinesBytes(b, MaxOutput) = IF Delimited(b) THEN Failed ELSE Bounded(out, MaxOutput)
  BY <1>0, NumberedAllExact
<1>3. Native(b, op) = [stdout |-> out, exit |-> 0]
  BY DEF Native, Numbered
<1>4. out \in Seq(Nat)
  <2>1. LineCount(b) \in Nat /\ Numbered(b) \in [1..LineCount(b) -> Seq(Nat)]
    BY LineFacts, NumberedTyped
  <2>q. QED BY <2>1, FlatOf
<1> HIDE DEF out
<1>5. CASE Delimited(b)
  BY <1>0, <1>1, <1>2, <1>5, AnsweredIs, LimitFails
<1>6. CASE ~Delimited(b)
  <2>1. Answered(b, st, op) = Limited(Bounded(out, MaxOutput))
    BY <1>1, <1>2, <1>6, AnsweredIs
  <2>2. Answered(b, st, op) = IF Len(out) > MaxOutput THEN Failed ELSE Result(out)
    BY <1>0, <1>4, <2>1, LimitOnce
  <2>q. QED BY <1>3, <1>6, <2>2 DEF Faithful, Result
<1>q. QED BY <1>5, <1>6

LEMMA SedRead ==
    ASSUME ReadsAssumption, NEW b \in Seq(Nat), NEW st, Prepared(b, st),
           NEW op, op.kind = "sed", op.selection \in Selections
    PROVE  LET out == Printed(LineCount(b), Lines(b), op.selection)
           IN  /\ Answered(b, st, op) = IF Len(out) > MaxOutput THEN Failed ELSE Result(out)
               /\ OpenOnce(b, op.selection) => Faithful(b, st, op)
<1> DEFINE sel == op.selection
           out == Printed(LineCount(b), Lines(b), sel)
<1>0. MaxOutput \in Nat /\ MaxRanges \in Nat /\ sel \in Selections
  BY DEF ReadsAssumption
<1>1. warmFileCommandOutputIndexed(b, st, op) = sedPrintSelectionBytesIndexed(b, st, sel, MaxOutput)
  BY DEF warmFileCommandOutputIndexed
<1>2. Native(b, op) = [stdout |-> NativeSed(b, sel), exit |-> 0]
  BY DEF Native
<1> HIDE DEF sel
<1>3. sedPrintSelectionBytesIndexed(b, st, sel, MaxOutput) = Bounded(out, MaxOutput)
  BY <1>0, SedExact
<1>4. out \in Seq(Nat)
  <2> DEFINE c == LineCount(b)
             g == Lines(b)
  <2>1. c \in Nat /\ g \in [1..c -> Seq(Nat)]
    BY LinesTyped
  <2> HIDE DEF c, g
  <2>2. Printed(c, g, sel) \in Seq(Nat)
    BY <1>0, <2>1, Selected
  <2>q. QED BY <2>2 DEF c, g
<1>5. OpenOnce(b, sel) => NativeSed(b, sel) = out
  BY <1>0, NativeSedExact
<1> HIDE DEF out
<1>6. Answered(b, st, op) = IF Len(out) > MaxOutput THEN Failed ELSE Result(out)
  <2>1. Answered(b, st, op) = Limited(Bounded(out, MaxOutput))
    BY <1>1, <1>3, AnsweredIs
  <2>q. QED BY <1>0, <1>4, <2>1, LimitOnce
<1>7. OpenOnce(b, sel) => Faithful(b, st, op)
  BY <1>2, <1>5, <1>6 DEF Faithful, Result
<1>q. QED BY <1>6, <1>7 DEF sel, out

LEMMA NoneRead ==
    ASSUME ReadsAssumption, NEW b, NEW st, NEW op, op.kind = "sed", op.selection = <<>>
    PROVE  Answered(b, st, op) = Failed
<1> DEFINE sel == op.selection
<1>1. warmFileCommandOutputIndexed(b, st, op) = sedPrintSelectionBytesIndexed(b, st, sel, MaxOutput)
  BY DEF warmFileCommandOutputIndexed
<1>2. Len(sel) = 0
  BY EmptySeq
<1>3. ~valid(sel)
  BY <1>2 DEF valid
<1> HIDE DEF sel
<1>4. sedPrintSelectionBytesIndexed(b, st, sel, MaxOutput) = Failed
  BY <1>3 DEF sedPrintSelectionBytesIndexed
<1>q. QED BY <1>1, <1>4, AnsweredIs, LimitFails DEF ReadsAssumption

\* Every kind of read, with an index of the line starts and without.
LEMMA ReadsAnswered ==
    ASSUME ReadsAssumption, TypeOK PROVE ReadExact
<1> DEFINE b == content
           op == operation
           st == lineStartsForContent(content)
           no == <<>>
           indexed == Answered(b, st, op)
           scanned == Answered(b, no, op)
           native == Native(b, op)
           excused == \/ Len(native.stdout) > MaxOutput
                      \/ op.kind = "nl" /\ Page \in ToSet(b)
                      \/ op.kind \in {"grep", "rg"} /\ Binary(b)
                      \/ op.kind = "sed" /\ op.selection = <<>>
                      \/ RepeatsOpenLine
<1>0. b \in Seq(Nat) /\ op \in Operations
  <2>1. content \in Seq(Alphabet) /\ Alphabet \subseteq Nat
    BY DEF TypeOK, ReadsAssumption
  <2>2. content \in Seq(Nat)
    BY <2>1, WiderSeq
  <2>q. QED BY <2>2 DEF TypeOK
<1>1. Prepared(b, st) /\ Prepared(b, no)
  BY DEF Prepared
<1>2. ReadExact
        <=> /\ indexed = scanned
            /\ (indexed.ok /\ ~RepeatsOpenLine) =>
                  indexed.stdout = native.stdout /\ indexed.exit = native.exit
            /\ ~indexed.ok => excused
  BY DEF ReadExact
<1>3. RepeatsOpenLine
        <=> op.kind = "sed" /\ ~Terminated(b) /\ matchCount(op.selection, LineCount(b)) > 1
  BY DEF RepeatsOpenLine
<1>4. ASSUME Faithful(b, st, op), Faithful(b, no, op) PROVE ReadExact
  <2>1. indexed = IF Len(native.stdout) > MaxOutput THEN Failed
                  ELSE [ok |-> TRUE, stdout |-> native.stdout, exit |-> native.exit]
    BY <1>4 DEF Faithful
  <2>2. scanned = IF Len(native.stdout) > MaxOutput THEN Failed
                  ELSE [ok |-> TRUE, stdout |-> native.stdout, exit |-> native.exit]
    BY <1>4 DEF Faithful
  <2> HIDE DEF indexed, scanned, native, b, op, st, no
  <2>3. CASE Len(native.stdout) > MaxOutput
    <3>1. indexed = Failed /\ scanned = Failed /\ excused /\ ~Failed.ok
      BY <2>1, <2>2, <2>3 DEF Failed
    <3> HIDE DEF excused
    <3>q. QED BY <1>2, <3>1
  <2>4. CASE ~(Len(native.stdout) > MaxOutput)
    <3>1. indexed = scanned /\ indexed.ok /\ indexed.stdout = native.stdout
          /\ indexed.exit = native.exit
      BY <2>1, <2>2, <2>4
    <3> HIDE DEF excused
    <3>q. QED BY <1>2, <3>1
  <2>q. QED BY <2>3, <2>4
<1>5. ASSUME indexed = Failed, scanned = Failed, excused PROVE ReadExact
  <2>1. ~Failed.ok
    BY DEF Failed
  <2> HIDE DEF indexed, scanned, native, b, op, st, no, excused
  <2>q. QED BY <1>2, <1>5, <2>1
<1> HIDE DEF native, excused
<1>6. CASE op.kind = "cat"
  BY <1>4, <1>6, CatRead
<1>7. CASE op.kind = "head" /\ op.count \in Nat \ {0}
  <2> HIDE DEF b, op, st, no
  <2>q. QED BY <1>0, <1>1, <1>4, <1>7, HeadRead
<1>8. CASE op.kind = "tail" /\ op.count \in Nat \ {0}
  <2> HIDE DEF b, op, st, no
  <2>q. QED BY <1>0, <1>1, <1>4, <1>8, TailRead
<1>9. CASE op.kind = "grep" /\ op.pattern # <<>> /\ op.quiet \in BOOLEAN
  <2>1. Searches(op) /\ op.pattern # <<>> /\ op.quiet \in BOOLEAN
    <3> HIDE DEF op
    <3>q. QED BY <1>9 DEF Searches
  <2>2. CASE ~Binary(b)
    <3> HIDE DEF b, op, st, no
    <3>q. QED BY <1>0, <1>4, <2>1, <2>2, SearchRead
  <2>3. CASE Binary(b)
    <3>1. indexed = Failed /\ scanned = Failed
      <4> HIDE DEF b, op, st, no
      <4>q. QED BY <2>1, <2>3, BinaryRead
    <3>2. excused
      <4> HIDE DEF b, op, st, no
      <4>q. QED BY <1>9, <2>3 DEF excused
    <3>q. QED BY <1>5, <3>1, <3>2
  <2>q. QED BY <2>2, <2>3
<1>10. CASE op.kind = "rg" /\ op.pattern # <<>> /\ op.quiet \in BOOLEAN /\ op.number \in BOOLEAN
  <2>1. Searches(op) /\ op.pattern # <<>> /\ op.quiet \in BOOLEAN
    <3> HIDE DEF op
    <3>q. QED BY <1>10 DEF Searches
  <2>2. CASE ~Binary(b)
    <3> HIDE DEF b, op, st, no
    <3>q. QED BY <1>0, <1>4, <2>1, <2>2, SearchRead
  <2>3. CASE Binary(b)
    <3>1. indexed = Failed /\ scanned = Failed
      <4> HIDE DEF b, op, st, no
      <4>q. QED BY <2>1, <2>3, BinaryRead
    <3>2. excused
      <4> HIDE DEF b, op, st, no
      <4>q. QED BY <1>10, <2>3 DEF excused
    <3>q. QED BY <1>5, <3>1, <3>2
  <2>q. QED BY <2>2, <2>3
<1>11. CASE op.kind = "nl"
  <2>1. CASE Delimited(b)
    <3>1. Page \in ToSet(b)
      <4> HIDE DEF b
      <4>q. QED BY <1>0, <2>1, DelimitedHasPage
    <3>2. indexed = Failed /\ scanned = Failed
      <4> HIDE DEF b, op, st, no
      <4>q. QED BY <1>0, <1>11, <2>1, NumberRead
    <3>3. excused
      BY <1>11, <3>1 DEF excused
    <3>q. QED BY <1>5, <3>2, <3>3
  <2>2. CASE ~Delimited(b)
    <3> HIDE DEF b, op, st, no
    <3>q. QED BY <1>0, <1>4, <1>11, <2>2, NumberRead
  <2>q. QED BY <2>1, <2>2
<1>12. CASE op.kind = "sed" /\ op.selection = <<>>
  <2>1. indexed = Failed /\ scanned = Failed
    <3> HIDE DEF b, op, st, no
    <3>q. QED BY <1>12, NoneRead
  <2>2. excused
    BY <1>12 DEF excused
  <2>q. QED BY <1>5, <2>1, <2>2
<1>13. CASE op.kind = "sed" /\ op.selection \in Selections
  <2> DEFINE out == Printed(LineCount(b), Lines(b), op.selection)
  <2>1. /\ indexed = IF Len(out) > MaxOutput THEN Failed ELSE Result(out)
        /\ OpenOnce(b, op.selection) => Faithful(b, st, op)
    <3> HIDE DEF b, op, st, no
    <3>q. QED BY <1>0, <1>1, <1>13, SedRead
  <2>2. /\ scanned = IF Len(out) > MaxOutput THEN Failed ELSE Result(out)
        /\ OpenOnce(b, op.selection) => Faithful(b, no, op)
    <3> HIDE DEF b, op, st, no
    <3>q. QED BY <1>0, <1>1, <1>13, SedRead
  <2>3. CASE OpenOnce(b, op.selection)
    BY <1>4, <2>1, <2>2, <2>3
  <2>4. CASE ~OpenOnce(b, op.selection)
    <3>1. ~Terminated(b) /\ ~(matchCount(op.selection, LineCount(b)) <= 1)
      BY <2>4 DEF OpenOnce
    <3>2. matchCount(op.selection, LineCount(b)) \in Nat
      <4> HIDE DEF b, op
      <4>1. LineCount(b) \in Nat /\ MaxRanges \in Nat
        BY <1>0, LineFacts DEF ReadsAssumption
      <4>q. QED BY <1>13, <4>1, MatchCounts
    <3>3. RepeatsOpenLine
      <4> HIDE DEF b, op
      <4>q. QED BY <1>3, <1>13, <3>1, <3>2
    <3>4. excused
      BY <3>3 DEF excused
    <3>5. indexed = scanned
      BY <2>1, <2>2
    <3> HIDE DEF indexed, scanned, b, op, st, no
    <3>q. QED BY <1>2, <3>3, <3>4, <3>5
  <2>q. QED BY <2>3, <2>4
<1>14. \/ op.kind = "cat" \/ op.kind = "nl"
       \/ op.kind = "head" /\ op.count \in Nat \ {0}
       \/ op.kind = "tail" /\ op.count \in Nat \ {0}
       \/ op.kind = "sed" /\ (op.selection = <<>> \/ op.selection \in Selections)
       \/ op.kind = "grep" /\ op.pattern # <<>> /\ op.quiet \in BOOLEAN
       \/ op.kind = "rg" /\ op.pattern # <<>> /\ op.quiet \in BOOLEAN /\ op.number \in BOOLEAN
  <2> HIDE DEF op
  <2>q. QED BY <1>0, OperationsAre
<1>q. QED BY <1>6, <1>7, <1>8, <1>9, <1>10, <1>11, <1>12, <1>13, <1>14

\* nl and sed in one pass.
LEMMA FusedAnswered ==
    ASSUME ReadsAssumption, TypeOK PROVE FusedExact
<1> DEFINE b == content
           sel == operation.selection
           z == 0
           fused == numberedLineSelectionBytes(b, sel, z)
           all == numberedAllLinesBytes(b, z)
           g == Numbered(b)
           c == LineCount(b)
           text == FlattenSeq(g)
<1> SUFFICES ASSUME operation.kind = "sed"
             PROVE  IF sel = <<>> THEN ~fused.ok
                    ELSE fused.ok = all.ok /\ (fused.ok => fused.stdout = NativeSed(all.stdout, sel))
  BY DEF FusedExact
<1>0. /\ b \in Seq(Nat) /\ MaxRanges \in Nat /\ MaxRanges \in Nat \ {0} /\ z \in Nat
      /\ sel = <<>> \/ sel \in Selections
  <2>1. content \in Seq(Alphabet) /\ Alphabet \subseteq Nat /\ operation \in Operations
    BY DEF TypeOK, ReadsAssumption
  <2>2. content \in Seq(Nat)
    BY <2>1, WiderSeq
  <2>3. sel = <<>> \/ sel \in Selections
    BY <2>1, OperationsAre
  <2>q. QED BY <2>2, <2>3 DEF ReadsAssumption
<1>a. \A out : Bounded(out, z) = Result(out)
  BY DEF Bounded
<1>b. ~Failed.ok /\ \A out : Result(out).ok /\ Result(out).stdout = out
  BY DEF Failed, Result
<1> HIDE DEF b, sel, z
<1>1. CASE sel = <<>>
  <2>1. Len(sel) = 0
    BY <1>1, EmptySeq
  <2>2. ~valid(sel)
    BY <2>1 DEF valid
  <2>3. fused = Failed
    BY <2>2 DEF numberedLineSelectionBytes
  <2>q. QED BY <1>1, <1>b, <2>3
<1>2. CASE sel # <<>>
  <2>0. sel \in Selections
    BY <1>0, <1>2
  <2>1. fused = IF Delimited(b) THEN Failed ELSE Bounded(Printed(c, g, sel), z)
    BY <1>0, <2>0, NumberedExact
  <2>2. all = IF Delimited(b) THEN Failed ELSE Bounded(text, z)
    BY <1>0, NumberedAllExact
  <2>3. c \in Nat /\ g \in [1..c -> Seq(Nat)] /\ \A n \in 1..c : Row(g[n])
    <3>1. c \in Nat
      BY <1>0, LineFacts
    <3>2. /\ g \in [1..c -> Seq(Nat)]
          /\ \A n \in 1..c :
               /\ Len(g[n]) \in Nat \ {0} /\ g[n][Len(g[n])] = NL
               /\ \A i \in 1..Len(g[n]) - 1 : g[n][i] # NL
      BY <1>0, NumberedTyped
    <3> HIDE DEF g, c
    <3>3. \A n \in 1..c : g[n] \in Seq(Nat)
      BY <3>2
    <3>q. QED BY <3>1, <3>2, <3>3 DEF Row
  <2> HIDE DEF fused, all
  <2>4. NativeSed(text, sel) = Printed(c, g, sel)
    <3> HIDE DEF g, c, text
    <3>1. text \in Seq(Nat) /\ LineCount(text) = c /\ Lines(text) = g /\ Terminated(text)
      BY <2>3, JoinedLines DEF text
    <3>2. OpenOnce(text, sel)
      BY <3>1 DEF OpenOnce
    <3>3. NativeSed(text, sel) = Printed(LineCount(text), Lines(text), sel)
      BY <1>0, <2>0, <3>1, <3>2, NativeSedExact
    <3>q. QED BY <3>1, <3>3
  <2> HIDE DEF g, c, text
  <2>5. CASE Delimited(b)
    BY <1>2, <1>b, <2>1, <2>2, <2>5
  <2>6. CASE ~Delimited(b)
    <3>1. fused = Result(Printed(c, g, sel)) /\ all = Result(text)
      BY <1>a, <2>1, <2>2, <2>6
    <3>q. QED BY <1>2, <1>b, <2>4, <3>1
  <2>q. QED BY <2>5, <2>6
<1>q. QED BY <1>1, <1>2

\* Types.
LEMMA ReadsTypedAlways == ASSUME ReadsAssumption PROVE Spec => []TypeOK
<1>1. Init => TypeOK
  BY ReadsInit
<1>2. TypeOK /\ [Next]_<<content, operation>> => TypeOK'
  BY ReadsNext
<1>q. QED BY <1>1, <1>2, PTL DEF Spec

\* A read that warmFileCommandOutputIndexed answers from the bytes of a file is
\* what its command prints, with the index of line starts or without, and is
\* refused only for the reasons ReadExact gives.
THEOREM ReadsExact == ASSUME ReadsAssumption PROVE Spec => []ReadExact
BY ReadsTypedAlways, ReadsAnswered, PTL

\* What numberedLineSelectionBytes prints of a file in one pass is what sed
\* prints of the output of nl, and it answers whenever nl does.
THEOREM FusedIsExact == ASSUME ReadsAssumption PROVE Spec => []FusedExact
BY ReadsTypedAlways, FusedAnswered, PTL
=============================================================================
