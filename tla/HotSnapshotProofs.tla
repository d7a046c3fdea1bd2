------------------------- MODULE HotSnapshotProofs -------------------------
(***************************************************************************)
(* What a lookup in the snapshot file can find, for any pool of answers,   *)
(* any bounds and any number of publications: the binary search is right   *)
(* in a file whose keys ascend, what is laid out is read back, the best of *)
(* the answers are kept, and of a damaged file nothing is believed that    *)
(* was not published for the proof asked about.                            *)
(***************************************************************************)
EXTENDS HotSnapshot, TLAPS, WellFoundedInduction, FiniteSetTheorems

(***************************************************************************)
(* Numbers.                                                                *)
(***************************************************************************)

LEMMA Least == ASSUME NEW T \in SUBSET Nat, T # {} PROVE \E n \in T : \A m \in T : n <= m
<1> DEFINE R == {p \in Nat \X Nat : p[1] < p[2]}
<1>1. IsWellFoundedOn(R, Nat)
  BY NatLessThanWellFounded DEF OpToRel
<1>2. ASSUME NEW m \in Nat, NEW n \in Nat, m < n PROVE <<m, n>> \in R
  BY <1>2
<1> HIDE DEF R
<1>3. PICK n \in T : \A m \in T : <<m, n>> \notin R
  BY <1>1, WFMin
<1>4. ASSUME NEW m \in T PROVE n <= m
  <2>1. m \in Nat /\ n \in Nat
    OBVIOUS
  <2>2. ~(m < n)
    BY <1>2, <1>3, <2>1
  <2>q. QED BY <2>1, <2>2
<1>q. QED BY <1>4

\* Induction, over a set of numbers.
LEMMA Induction ==
    ASSUME NEW S \in SUBSET Nat, 0 \in S, \A n \in S : n + 1 \in S PROVE S = Nat
<1> DEFINE T == Nat \ S
<1>1. ASSUME T # {} PROVE FALSE
  <2>1. PICK n \in T : \A m \in T : n <= m
    <3> HIDE DEF T
    <3>1. T \in SUBSET Nat
      BY DEF T
    <3>q. QED BY <1>1, <3>1, Least
  <2>2. n \in Nat /\ n # 0
    OBVIOUS
  <2>3. n - 1 \in Nat /\ n - 1 \notin T
    BY <2>1, <2>2
  <2>4. n - 1 + 1 = n
    BY <2>2
  <2>q. QED BY <2>3, <2>4
<1>q. QED BY <1>1

(***************************************************************************)
(* A computation of n rounds: where each round leads is given by next.     *)
(***************************************************************************)
Goes(f, V, first, n, next) ==
    f \in [0..n -> V] /\ f[0] = first /\ \A i \in 1..n : f[i] = next[<<i, f[i - 1]>>]

LEMMA Rounds ==
    ASSUME NEW V, NEW first \in V, NEW n \in Nat, NEW next \in [(1..n) \X V -> V]
    PROVE  \E f : Goes(f, V, first, n, next)
<1> DEFINE Computes(f, k) == f[0] = first /\ \A i \in 1..k : f[i] = next[<<i, f[i - 1]>>]
           S == {k \in Nat : k <= n => \E f \in [0..k -> V] : Computes(f, k)}
<1>1. 0 \in S
  <2>1. [i \in 0..0 |-> first] \in [0..0 -> V] /\ Computes([i \in 0..0 |-> first], 0)
    OBVIOUS
  <2>q. QED BY <2>1
<1>2. ASSUME NEW k \in S PROVE k + 1 \in S
  <2> DEFINE Holds(m) == \E f \in [0..m -> V] : Computes(f, m)
  <2>0. k \in Nat /\ k + 1 \in Nat /\ (k <= n => Holds(k)) /\ (k + 1 \in S <=> (k + 1 <= n => Holds(k + 1)))
    <3> HIDE DEF Holds, Computes
    <3>q. QED BY DEF Holds
  <2>1. SUFFICES ASSUME k + 1 <= n PROVE Holds(k + 1)
    BY <2>0
  <2>2. PICK f \in [0..k -> V] : Computes(f, k)
    BY <2>0, <2>1
  <2> DEFINE g == [i \in 0..(k + 1) |-> IF i = k + 1 THEN next[<<k + 1, f[k]>>] ELSE f[i]]
  <2>3. f[k] \in V /\ next[<<k + 1, f[k]>>] \in V
    BY <2>0, <2>1
  <2>4. g \in [0..(k + 1) -> V]
    BY <2>0, <2>3
  <2>5. g[0] = first
    BY <2>0, <2>2
  <2>6. ASSUME NEW i \in 1..(k + 1) PROVE g[i] = next[<<i, g[i - 1]>>]
    <3>1. CASE i = k + 1
      BY <2>0, <3>1
    <3>2. CASE i # k + 1
      <4>1. i \in 1..k /\ i \in 0..k /\ i - 1 \in 0..k /\ i - 1 # k + 1
        BY <2>0, <3>2
      <4>2. g[i] = f[i] /\ g[i - 1] = f[i - 1]
        BY <2>0, <4>1
      <4>q. QED BY <2>2, <4>1, <4>2
    <3>q. QED BY <3>1, <3>2
  <2>7. Computes(g, k + 1)
    BY <2>5, <2>6
  <2> HIDE DEF g, Computes
  <2>q. QED BY <2>4, <2>7
<1>3. S = Nat
  <2>1. S \in SUBSET Nat
    OBVIOUS
  <2> HIDE DEF S
  <2>q. QED BY <1>1, <1>2, <2>1, Induction
<1>4. n \in S
  <2> HIDE DEF S
  <2>q. QED BY <1>3
<1>q. QED BY <1>4 DEF Goes

(***************************************************************************)
(* The binary search.                                                      *)
(***************************************************************************)
Between(count) == [lo : 0..count, hi : 0..count]

SearchStep(data, count, key, f, i) ==
    IF i = 0 THEN [lo |-> 0, hi |-> count] ELSE Narrowed(data, key, f[i - 1])

Searches(data, count, key, f) ==
    f = [i \in 0..count |-> SearchStep(data, count, key, f, i)]

LEMMA RangeIs ==
    ASSUME NEW data, NEW count, NEW key
    PROVE  hotSnapshotCommandRange(data, count, key)
             = (CHOOSE f : Searches(data, count, key, f))[count].lo
BY DEF hotSnapshotCommandRange, Searches, SearchStep

LEMMA NarrowedIs ==
    ASSUME NEW data, NEW count \in Nat, NEW key, NEW r \in Between(count)
    PROVE  Narrowed(data, key, r) \in Between(count)
BY DEF Narrowed, Between

LEMMA SomeSearch ==
    ASSUME NEW data, NEW count \in Nat, NEW key
    PROVE  \E f : Searches(data, count, key, f)
<1> DEFINE V == Between(count)
           first == [lo |-> 0, hi |-> count]
           next == [p \in (1..count) \X V |-> Narrowed(data, key, p[2])]
<1>1. first \in V
  BY DEF Between
<1>2. next \in [(1..count) \X V -> V]
  BY NarrowedIs
<1>3. PICK f : Goes(f, V, first, count, next)
  <2> HIDE DEF V, first, next
  <2>q. QED BY <1>1, <1>2, Rounds
<1>4. ASSUME NEW i \in 0..count PROVE f[i] = SearchStep(data, count, key, f, i)
  <2>1. CASE i = 0
    BY <1>3, <2>1 DEF SearchStep, Goes
  <2>2. CASE i # 0
    <3>1. <<i, f[i - 1]>> \in (1..count) \X V
      BY <1>3, <2>2 DEF Goes
    <3>2. next[<<i, f[i - 1]>>] = Narrowed(data, key, f[i - 1])
      BY <3>1
    <3> HIDE DEF next, V, first
    <3>3. f[i] = next[<<i, f[i - 1]>>]
      BY <1>3, <2>2 DEF Goes
    <3>q. QED BY <2>2, <3>2, <3>3 DEF SearchStep
  <2>q. QED BY <2>1, <2>2
<1>5. f = [i \in 0..count |-> SearchStep(data, count, key, f, i)]
  BY <1>3, <1>4 DEF Goes
<1>q. QED BY <1>5 DEF Searches

\* After i rounds what lies below the range has smaller keys and what lies above
\* has not, if the keys ascend; and at most count - i places are left.
SearchedTo(data, count, key, f, i) ==
    /\ f[i] \in Between(count)
    /\ f[i].lo <= f[i].hi /\ f[i].hi - f[i].lo <= count - i
    /\ (\A j, k \in 1..count : KeyAt(data, j) \in Nat /\ (j <= k => KeyAt(data, j) <= KeyAt(data, k))) =>
          /\ \A j \in 1..f[i].lo : KeyAt(data, j) < key
          /\ \A j \in (f[i].hi + 1)..count : KeyAt(data, j) >= key

LEMMA SearchRound ==
    ASSUME NEW data, NEW count \in Nat, NEW key \in Nat, NEW f, Searches(data, count, key, f),
           NEW i \in Nat, i + 1 <= count, SearchedTo(data, count, key, f, i)
    PROVE  SearchedTo(data, count, key, f, i + 1)
<1> DEFINE r == f[i]
           mid == (r.lo + r.hi) \div 2
           Ascends == \A j, k \in 1..count :
                        KeyAt(data, j) \in Nat /\ (j <= k => KeyAt(data, j) <= KeyAt(data, k))
<1>1. f[i + 1] = Narrowed(data, key, r)
  <2>1. f[i + 1] = SearchStep(data, count, key, f, i + 1)
    BY DEF Searches
  <2>q. QED BY <2>1 DEF SearchStep
<1>2. r \in Between(count) /\ r.lo \in 0..count /\ r.hi \in 0..count /\ r.lo <= r.hi /\ r.hi - r.lo <= count - i
  BY DEF SearchedTo, Between
<1>3. CASE r.lo >= r.hi
  <2>1. f[i + 1] = r
    BY <1>1, <1>3 DEF Narrowed
  <2>q. QED BY <1>2, <1>3, <2>1 DEF SearchedTo
<1>4. CASE r.lo < r.hi /\ KeyAt(data, mid + 1) < key
  <2>1. mid \in r.lo..(r.hi - 1) /\ mid \in 0..count /\ mid + 1 \in 1..count
    BY <1>2, <1>4
  <2>2. f[i + 1] = [r EXCEPT !.lo = mid + 1]
    BY <1>1, <1>2, <1>4 DEF Narrowed
  <2>3. f[i + 1].lo = mid + 1 /\ f[i + 1].hi = r.hi /\ f[i + 1] \in Between(count)
    BY <1>2, <2>1, <2>2 DEF Between
  <2>4. ASSUME Ascends, NEW j \in 1..(mid + 1) PROVE KeyAt(data, j) < key
    <3>1. KeyAt(data, j) \in Nat /\ KeyAt(data, mid + 1) \in Nat /\ KeyAt(data, j) <= KeyAt(data, mid + 1)
      BY <2>1, <2>4
    <3>q. QED BY <1>4, <3>1
  <2>5. Ascends => \A j \in (r.hi + 1)..count : KeyAt(data, j) >= key
    BY DEF SearchedTo
  <2> HIDE DEF mid
  <2>q. QED BY <1>2, <1>4, <2>1, <2>3, <2>4, <2>5 DEF SearchedTo
<1>5. CASE r.lo < r.hi /\ ~(KeyAt(data, mid + 1) < key)
  <2>1. mid \in r.lo..(r.hi - 1) /\ mid \in 0..count /\ mid + 1 \in 1..count
    BY <1>2, <1>5
  <2>2. f[i + 1] = [r EXCEPT !.hi = mid]
    BY <1>1, <1>2, <1>5 DEF Narrowed
  <2>3. f[i + 1].lo = r.lo /\ f[i + 1].hi = mid /\ f[i + 1] \in Between(count)
    BY <1>2, <2>1, <2>2 DEF Between
  <2>4. ASSUME Ascends, NEW j \in (mid + 1)..count PROVE KeyAt(data, j) >= key
    <3>1. KeyAt(data, j) \in Nat /\ KeyAt(data, mid + 1) \in Nat /\ KeyAt(data, mid + 1) <= KeyAt(data, j)
      BY <2>1, <2>4
    <3>q. QED BY <1>5, <3>1
  <2>5. Ascends => \A j \in 1..r.lo : KeyAt(data, j) < key
    BY DEF SearchedTo
  <2> HIDE DEF mid
  <2>q. QED BY <1>2, <1>5, <2>1, <2>3, <2>4, <2>5 DEF SearchedTo
<1>q. QED BY <1>2, <1>3, <1>4, <1>5

LEMMA SearchFinds ==
    ASSUME NEW data, NEW count \in Nat, NEW key \in Nat
    PROVE  LET start == hotSnapshotCommandRange(data, count, key)
           IN  /\ start \in 0..count
               /\ (\A j, k \in 1..count : KeyAt(data, j) \in Nat /\ (j <= k => KeyAt(data, j) <= KeyAt(data, k))) =>
                     /\ \A j \in 1..start : KeyAt(data, j) < key
                     /\ \A j \in (start + 1)..count : KeyAt(data, j) >= key
<1> DEFINE f == CHOOSE f : Searches(data, count, key, f)
           S == {i \in Nat : i <= count => SearchedTo(data, count, key, f, i)}
<1>1. Searches(data, count, key, f)
  BY SomeSearch
<1> HIDE DEF f
<1>2. 0 \in S
  <2>1. f[0] = [lo |-> 0, hi |-> count]
    BY <1>1 DEF Searches, SearchStep
  <2>q. QED BY <2>1 DEF SearchedTo, Between
<1>3. ASSUME NEW i \in S PROVE i + 1 \in S
  BY <1>1, <1>3, SearchRound
<1>4. S = Nat
  <2>1. S \in SUBSET Nat
    OBVIOUS
  <2> HIDE DEF S
  <2>q. QED BY <1>2, <1>3, <2>1, Induction
<1>5. SearchedTo(data, count, key, f, count)
  BY <1>4
<1>6. f[count].lo \in 0..count /\ f[count].hi \in 0..count /\ f[count].lo = f[count].hi
  BY <1>5 DEF SearchedTo, Between
<1>7. hotSnapshotCommandRange(data, count, key) = f[count].lo
  BY RangeIs DEF f
<1>q. QED BY <1>5, <1>6, <1>7 DEF SearchedTo

(***************************************************************************)
(* The file that is encoded.                                               *)
(***************************************************************************)
ByteUnits == [unit : {"byte"}, value : Nat]

\* The payload of the first i answers, given that of the ones before.
Appended(items, payload, i) ==
    IF i = 0 THEN <<>>
    ELSE IF ~Fits(items[i]) THEN payload[i - 1]
    ELSE payload[i - 1] \o Bytes(items[i].stdout) \o Bytes(items[i].stderr)

Lays(items, payload) ==
    payload = [i \in 0..Len(items) |-> Appended(items, payload, i)]

Payload(items) == CHOOSE payload : Lays(items, payload)

Header(items) ==
    [unit |-> "header", count |-> Len(items), payloadOffset |-> 1 + Len(items),
     totalSize |-> 1 + Len(items) + Len(Payload(items)[Len(items)])]

Entries(items) ==
    [i \in 1..Len(items) |->
        IF Fits(items[i]) THEN Entry(items[i], 1 + Len(items) + Len(Payload(items)[i - 1]))
        ELSE Zero]

LEMMA EncodeIs ==
    ASSUME NEW items
    PROVE  encodeHotSnapshot(items)
             = IF \/ items = <<>> \/ Len(items) > MaxEntries
                  \/ 1 + Len(items) + Len(Payload(items)[Len(items)]) > MaxBytes
               THEN NoFile
               ELSE <<Header(items)>> \o Entries(items) \o Payload(items)[Len(items)]
BY DEF encodeHotSnapshot, Payload, Lays, Appended, Header, Entries

LEMMA BytesAre ==
    ASSUME NEW s \in Seq(Nat)
    PROVE  /\ Bytes(s) \in Seq(ByteUnits) /\ Len(Bytes(s)) = Len(s)
           /\ \A j \in 1..Len(s) : Bytes(s)[j] = [unit |-> "byte", value |-> s[j]]
<1>1. DOMAIN s = 1..Len(s) /\ Len(s) \in Nat
  OBVIOUS
<1>2. Bytes(s) = [j \in 1..Len(s) |-> [unit |-> "byte", value |-> s[j]]]
  BY <1>1 DEF Bytes
<1>q. QED BY <1>1, <1>2 DEF ByteUnits

LEMMA PoolTypes ==
    ASSUME PoolAssumption, NEW i \in Pool
    PROVE  /\ i.kind \in Kinds /\ i.key \in Nat /\ i.epoch \in Nat
           /\ i.stdout \in Seq(Nat) /\ i.stderr \in Seq(Nat)
           /\ Len(i.stdout) \in Nat /\ Len(i.stderr) \in Nat
           /\ Size(i) = Len(i.stdout) + Len(i.stderr)
           /\ MaxOutput \in Nat /\ MaxFile \in Nat /\ MaxCorpus \in Nat /\ MaxFile <= MaxOutput
           /\ MaxEntries \in Nat /\ MaxBytes \in Nat
<1>1. /\ i.kind \in Kinds /\ i.key \in Nat /\ i.epoch \in Nat
      /\ i.stdout \in Seq(Nat) /\ i.stderr \in Seq(Nat)
      /\ MaxOutput \in Nat /\ MaxFile \in 0..MaxOutput /\ MaxCorpus \in Nat
      /\ MaxEntries \in Nat /\ MaxBytes \in Nat
  BY DEF PoolAssumption
<1>q. QED BY <1>1 DEF Size

LEMMA SomePayload ==
    ASSUME PoolAssumption, NEW items \in Seq(Pool)
    PROVE  /\ Payload(items) \in [0..Len(items) -> Seq(ByteUnits)]
           /\ \A i \in 0..Len(items) : Payload(items)[i] = Appended(items, Payload(items), i)
<1> DEFINE n == Len(items)
           V == Seq(ByteUnits)
           first == <<>>
           next == [p \in (1..n) \X V |->
                       IF ~Fits(items[p[1]]) THEN p[2]
                       ELSE p[2] \o Bytes(items[p[1]].stdout) \o Bytes(items[p[1]].stderr)]
<1>0. n \in Nat
  OBVIOUS
<1>1. first \in V
  OBVIOUS
<1>2. ASSUME NEW i \in 1..n, NEW v \in V
      PROVE  v \o Bytes(items[i].stdout) \o Bytes(items[i].stderr) \in V
  <2>1. items[i] \in Pool
    OBVIOUS
  <2>2. Bytes(items[i].stdout) \in V /\ Bytes(items[i].stderr) \in V
    BY <2>1, PoolTypes, BytesAre
  <2> HIDE DEF V
  <2>q. QED BY <2>2 DEF V
<1>3. next \in [(1..n) \X V -> V]
  <2> HIDE DEF V
  <2>q. QED BY <1>2
<1>4. PICK f : Goes(f, V, first, n, next)
  <2> HIDE DEF V, first, next, n
  <2>q. QED BY <1>0, <1>1, <1>3, Rounds
<1>5. ASSUME NEW i \in 0..n PROVE f[i] = Appended(items, f, i)
  <2>1. CASE i = 0
    BY <1>4, <2>1 DEF Appended, Goes
  <2>2. CASE i # 0
    <3>1. i \in 1..n /\ f[i - 1] \in V
      BY <1>0, <1>4, <2>2 DEF Goes
    <3>2. f[i] = next[<<i, f[i - 1]>>]
      BY <1>4, <3>1 DEF Goes
    <3>3. next[<<i, f[i - 1]>>]
            = IF ~Fits(items[i]) THEN f[i - 1]
              ELSE f[i - 1] \o Bytes(items[i].stdout) \o Bytes(items[i].stderr)
      <4> HIDE DEF V, n
      <4>q. QED BY <3>1
    <3> HIDE DEF next, V
    <3>q. QED BY <2>2, <3>2, <3>3 DEF Appended
  <2>q. QED BY <2>1, <2>2
<1>6. Lays(items, f)
  BY <1>4, <1>5 DEF Goes, Lays
<1> DEFINE g == Payload(items)
<1>7. Lays(items, g)
  BY <1>6 DEF Payload
<1> HIDE DEF g
<1>8. \A i \in 0..n : g[i] = Appended(items, g, i)
  BY <1>7 DEF Lays
<1> DEFINE S == {i \in Nat : i <= n => g[i] \in V}
<1>9. 0 \in S
  <2>1. 0 \in 0..n /\ <<>> \in V
    BY <1>0
  <2>2. g[0] = <<>>
    BY <1>8, <2>1 DEF Appended
  <2>q. QED BY <2>1, <2>2
<1>10. ASSUME NEW i \in S PROVE i + 1 \in S
  <2>1. SUFFICES ASSUME i + 1 <= n PROVE g[i + 1] \in V
    OBVIOUS
  <2>2. i \in Nat /\ i + 1 \in 1..n /\ i + 1 \in 0..n /\ g[i] \in V /\ i + 1 - 1 = i /\ i + 1 # 0
    BY <1>0, <2>1
  <2>3. g[i + 1] = Appended(items, g, i + 1)
    BY <1>8, <2>2
  <2>4. g[i] \o Bytes(items[i + 1].stdout) \o Bytes(items[i + 1].stderr) \in V
    BY <1>2, <2>2
  <2> HIDE DEF V, S
  <2>q. QED BY <2>2, <2>3, <2>4 DEF Appended
<1>11. S = Nat
  <2>1. S \in SUBSET Nat
    OBVIOUS
  <2> HIDE DEF S
  <2>q. QED BY <1>9, <1>10, <2>1, Induction
<1>12. \A i \in 0..n : g[i] \in V
  BY <1>0, <1>11
<1>13. g \in [0..n -> V]
  BY <1>7, <1>12 DEF Lays
<1>q. QED BY <1>8, <1>13 DEF g

LEMMA TwoParts ==
    ASSUME NEW V, NEW r \in Seq(V), NEW s \in Seq(V)
    PROVE  /\ r \o s \in Seq(V) /\ Len(r \o s) = Len(r) + Len(s)
           /\ \A j \in 1..Len(r) : (r \o s)[j] = r[j]
           /\ \A j \in 1..Len(s) : (r \o s)[Len(r) + j] = s[j]
OBVIOUS

LEMMA ThreeParts ==
    ASSUME NEW V, NEW r \in Seq(V), NEW s \in Seq(V), NEW t \in Seq(V)
    PROVE  LET all == (r \o s) \o t
           IN  /\ Len(all) = Len(r) + Len(s) + Len(t) /\ all \in Seq(V)
               /\ \A j \in 1..Len(r) : all[j] = r[j]
               /\ \A j \in 1..Len(s) : all[Len(r) + j] = s[j]
               /\ \A j \in 1..Len(t) : all[Len(r) + Len(s) + j] = t[j]
<1>1. Len(r) \in Nat /\ Len(s) \in Nat /\ Len(t) \in Nat
  OBVIOUS
<1> DEFINE u == r \o s
<1>2. /\ u \in Seq(V) /\ Len(u) = Len(r) + Len(s)
      /\ \A j \in 1..Len(r) : u[j] = r[j]
      /\ \A j \in 1..Len(s) : u[Len(r) + j] = s[j]
  BY <1>1
<1> HIDE DEF u
<1>3. /\ u \o t \in Seq(V) /\ Len(u \o t) = Len(u) + Len(t)
      /\ \A j \in 1..Len(u) : (u \o t)[j] = u[j]
      /\ \A j \in 1..Len(t) : (u \o t)[Len(u) + j] = t[j]
  <2>1. u \in Seq(V)
    BY <1>2
  <2>q. QED BY <2>1
<1>4. /\ \A j \in 1..Len(r) : j \in 1..Len(u)
      /\ \A j \in 1..Len(s) : Len(r) + j \in 1..Len(u)
  BY <1>1, <1>2
<1>q. QED BY <1>2, <1>3, <1>4 DEF u

LEMMA PayloadStep ==
    ASSUME PoolAssumption, NEW items \in Seq(Pool), NEW i \in 1..Len(items)
    PROVE  \/ Payload(items)[i] = Payload(items)[i - 1]
           \/ Payload(items)[i]
                = (Payload(items)[i - 1] \o Bytes(items[i].stdout)) \o Bytes(items[i].stderr)
<1>1. i \in 0..Len(items) /\ i # 0
  OBVIOUS
<1>2. Payload(items)[i] = Appended(items, Payload(items), i)
  BY <1>1, SomePayload
<1>q. QED BY <1>1, <1>2 DEF Appended

\* What has been laid out stays where it is.
LEMMA PayloadGrows ==
    ASSUME PoolAssumption, NEW items \in Seq(Pool), NEW i \in 0..Len(items)
    PROVE  \A k \in i..Len(items) :
             /\ Len(Payload(items)[i]) <= Len(Payload(items)[k])
             /\ \A j \in 1..Len(Payload(items)[i]) :
                   Payload(items)[k][j] = Payload(items)[i][j]
<1> DEFINE n == Len(items)
           g == Payload(items)
           Kept(k) == /\ Len(g[i]) <= Len(g[k])
                      /\ \A j \in 1..Len(g[i]) : g[k][j] = g[i][j]
           S == {d \in Nat : i + d <= n => Kept(i + d)}
<1>0. n \in Nat
  OBVIOUS
<1>1. /\ \A k \in 0..n : g[k] \in Seq(ByteUnits) /\ Len(g[k]) \in Nat
      /\ \A k \in 0..n : g[k] = Appended(items, g, k)
  BY SomePayload
<1> HIDE DEF g
<1>2. 0 \in S
  BY <1>1
<1>3. ASSUME NEW d \in S PROVE d + 1 \in S
  <2> DEFINE k == i + d
  <2>1. SUFFICES ASSUME k + 1 <= n PROVE Kept(k + 1)
    OBVIOUS
  <2>2. k + 1 \in 1..n /\ k + 1 \in 0..n /\ k \in 0..n /\ k \in Nat /\ k + 1 - 1 = k /\ k + 1 # 0 /\ Kept(k)
    BY <1>0, <2>1
  <2>3. g[k + 1] = g[k] \/ g[k + 1] = g[k] \o Bytes(items[k + 1].stdout) \o Bytes(items[k + 1].stderr)
    <3>1. PICK m \in 1..Len(items) : m = k + 1 /\ m - 1 = k
      BY <2>2
    <3>2. \/ g[m] = g[m - 1]
          \/ g[m] = (g[m - 1] \o Bytes(items[m].stdout)) \o Bytes(items[m].stderr)
      BY PayloadStep DEF g
    <3> HIDE DEF k
    <3>q. QED BY ONLY <3>1, <3>2
  <2>4. items[k + 1] \in Pool
    BY <2>2
  <2>5. /\ Bytes(items[k + 1].stdout) \in Seq(ByteUnits)
        /\ Bytes(items[k + 1].stderr) \in Seq(ByteUnits)
    BY <2>4, PoolTypes, BytesAre
  <2>6. \/ g[k + 1] = g[k]
        \/ /\ Len(g[k + 1]) >= Len(g[k]) /\ Len(g[k]) \in Nat /\ Len(g[k + 1]) \in Nat
           /\ \A j \in 1..Len(g[k]) : g[k + 1][j] = g[k][j]
    <3> HIDE DEF k, Kept
    <3>1. CASE g[k + 1] = g[k]
      BY <3>1
    <3>2. CASE g[k + 1] = g[k] \o Bytes(items[k + 1].stdout) \o Bytes(items[k + 1].stderr)
      <4> DEFINE r == g[k]
                 s == Bytes(items[k + 1].stdout)
                 t == Bytes(items[k + 1].stderr)
      <4>1. r \in Seq(ByteUnits) /\ s \in Seq(ByteUnits) /\ t \in Seq(ByteUnits)
        BY <1>1, <2>2, <2>5
      <4>2. g[k + 1] = (r \o s) \o t
        BY <3>2
      <4> HIDE DEF r, s, t
      <4>3. /\ Len((r \o s) \o t) = Len(r) + Len(s) + Len(t)
            /\ \A j \in 1..Len(r) : ((r \o s) \o t)[j] = r[j]
        BY <4>1, ThreeParts
      <4>4. Len(r) \in Nat /\ Len(s) \in Nat /\ Len(t) \in Nat
        BY <4>1
      <4>q. QED BY <4>2, <4>3, <4>4 DEF r
    <3>q. QED BY <2>3, <3>1, <3>2
  <2> HIDE DEF k
  <2>7. Len(g[i]) \in Nat
    BY <1>1
  <2>8. CASE g[k + 1] = g[k]
    BY <2>2, <2>8
  <2>9. CASE /\ Len(g[k + 1]) >= Len(g[k]) /\ Len(g[k]) \in Nat /\ Len(g[k + 1]) \in Nat
             /\ \A j \in 1..Len(g[k]) : g[k + 1][j] = g[k][j]
    <3>1. Len(g[i]) <= Len(g[k]) /\ \A j \in 1..Len(g[i]) : g[k][j] = g[i][j]
      BY <2>2
    <3>2. Len(g[i]) <= Len(g[k + 1])
      BY <2>7, <2>9, <3>1
    <3>3. ASSUME NEW j \in 1..Len(g[i]) PROVE g[k + 1][j] = g[i][j]
      <4>1. j \in 1..Len(g[k])
        BY <2>7, <2>9, <3>1
      <4>q. QED BY <2>9, <3>1, <4>1
    <3>q. QED BY <3>2, <3>3
  <2>q. QED BY <2>6, <2>8, <2>9
<1>4. S = Nat
  <2>1. S \in SUBSET Nat
    OBVIOUS
  <2> HIDE DEF S
  <2>q. QED BY <1>2, <1>3, <2>1, Induction
<1>5. ASSUME NEW k \in i..n PROVE Kept(k)
  <2>1. k - i \in Nat /\ i + (k - i) = k /\ k <= n
    BY <1>0
  <2>2. k - i \in S
    BY <1>4, <2>1
  <2>q. QED BY <2>1, <2>2
<1>q. QED BY <1>5 DEF g

\* Where the answer that is laid out ith is, in the whole payload.
LEMMA PayloadHolds ==
    ASSUME PoolAssumption, NEW items \in Seq(Pool), NEW i \in 1..Len(items), Fits(items[i])
    PROVE  LET all == Payload(items)[Len(items)]
               at  == Len(Payload(items)[i - 1])
           IN  /\ all \in Seq(ByteUnits) /\ at \in Nat
               /\ at + Len(items[i].stdout) + Len(items[i].stderr) <= Len(all)
               /\ \A j \in 1..Len(items[i].stdout) :
                     all[at + j] = [unit |-> "byte", value |-> items[i].stdout[j]]
               /\ \A j \in 1..Len(items[i].stderr) :
                     all[at + Len(items[i].stdout) + j] = [unit |-> "byte", value |-> items[i].stderr[j]]
<1> DEFINE n == Len(items)
           g == Payload(items)
           out == Bytes(items[i].stdout)
           err == Bytes(items[i].stderr)
<1>1. /\ \A k \in 0..n : g[k] \in Seq(ByteUnits) /\ Len(g[k]) \in Nat
      /\ \A k \in 0..n : g[k] = Appended(items, g, k)
  BY SomePayload
<1>2. i \in 0..n /\ i - 1 \in 0..n /\ n \in 0..n /\ n \in i..n /\ i # 0
  OBVIOUS
<1>3. /\ Len(g[i]) <= Len(g[n])
      /\ \A j \in 1..Len(g[i]) : g[n][j] = g[i][j]
  BY <1>2, PayloadGrows
<1>4. items[i] \in Pool
  OBVIOUS
<1>5. /\ out \in Seq(ByteUnits) /\ Len(out) = Len(items[i].stdout)
      /\ err \in Seq(ByteUnits) /\ Len(err) = Len(items[i].stderr)
      /\ \A j \in 1..Len(items[i].stdout) : out[j] = [unit |-> "byte", value |-> items[i].stdout[j]]
      /\ \A j \in 1..Len(items[i].stderr) : err[j] = [unit |-> "byte", value |-> items[i].stderr[j]]
      /\ Len(items[i].stdout) \in Nat /\ Len(items[i].stderr) \in Nat
  BY <1>4, PoolTypes, BytesAre
<1>6. g[i] = (g[i - 1] \o out) \o err
  <2> HIDE DEF g
  <2>q. QED BY <1>1, <1>2 DEF Appended
<1>7. g[i - 1] \in Seq(ByteUnits) /\ Len(g[i - 1]) \in Nat /\ g[n] \in Seq(ByteUnits)
  BY <1>1, <1>2
<1> HIDE DEF g, out, err, n
<1>8. /\ Len(g[i]) = Len(g[i - 1]) + Len(out) + Len(err)
      /\ \A j \in 1..Len(out) : g[i][Len(g[i - 1]) + j] = out[j]
      /\ \A j \in 1..Len(err) : g[i][Len(g[i - 1]) + Len(out) + j] = err[j]
  <2>1. /\ Len((g[i - 1] \o out) \o err) = Len(g[i - 1]) + Len(out) + Len(err)
        /\ \A j \in 1..Len(out) : ((g[i - 1] \o out) \o err)[Len(g[i - 1]) + j] = out[j]
        /\ \A j \in 1..Len(err) : ((g[i - 1] \o out) \o err)[Len(g[i - 1]) + Len(out) + j] = err[j]
    <3> DEFINE pre == g[i - 1]
    <3>1. pre \in Seq(ByteUnits) /\ out \in Seq(ByteUnits) /\ err \in Seq(ByteUnits)
      BY <1>5, <1>7
    <3> HIDE DEF pre
    <3>2. /\ Len((pre \o out) \o err) = Len(pre) + Len(out) + Len(err)
          /\ \A j \in 1..Len(out) : ((pre \o out) \o err)[Len(pre) + j] = out[j]
          /\ \A j \in 1..Len(err) : ((pre \o out) \o err)[Len(pre) + Len(out) + j] = err[j]
      BY ONLY <3>1, ThreeParts
    <3>q. QED BY <3>2 DEF pre
  <2>q. QED BY <1>6, <2>1
<1>9. /\ \A j \in 1..Len(out) : g[n][Len(g[i - 1]) + j] = out[j]
      /\ \A j \in 1..Len(err) : g[n][Len(g[i - 1]) + Len(out) + j] = err[j]
  <2>1. /\ \A j \in 1..Len(out) : Len(g[i - 1]) + j \in 1..Len(g[i])
        /\ \A j \in 1..Len(err) : Len(g[i - 1]) + Len(out) + j \in 1..Len(g[i])
    <3>1. Len(out) \in Nat /\ Len(err) \in Nat /\ Len(g[i - 1]) \in Nat
      BY <1>5, <1>7
    <3>2. Len(g[i]) = Len(g[i - 1]) + Len(out) + Len(err)
      BY <1>8
    <3>q. QED BY <3>1, <3>2
  <2>q. QED BY <1>3, <1>8, <2>1
<1>q. QED BY <1>3, <1>5, <1>7, <1>8, <1>9 DEF g, n

(***************************************************************************)
(* Whatever is left of a file.                                             *)
(***************************************************************************)
Headers == [unit : {"header"}, count : Nat, payloadOffset : Nat, totalSize : Nat]

Units(items) ==
    Headers \cup {Zero} \cup ByteUnits \cup {Entry(i, at) : i \in items, at \in Nat}

Usables(items) == dedupeHotSnapshotCandidates({i \in items : Usable(i)})

Above(items, a) == {b \in Usables(items) : Precedes(b, a)}

Kept(items) == {a \in Usables(items) : Cardinality(Above(items, a)) < MaxEntries}

LEMMA CandidatesAre ==
    ASSUME NEW items \in SUBSET Pool, IsFiniteSet(items), NEW s \in hotSnapshotCandidates(items)
    PROVE  /\ Kept(items) \in SUBSET items /\ IsFiniteSet(Kept(items))
           /\ s \in [1..Cardinality(Kept(items)) -> Kept(items)]
           /\ s \in Seq(items) /\ Len(s) = Cardinality(Kept(items))
           /\ \A i, j \in 1..Len(s) : i # j => s[i] # s[j]
           /\ \A i, j \in 1..Len(s) : i < j => ~InOrder(s[j], s[i])
<1> DEFINE K == Kept(items)
           n == Cardinality(K)
<1>1. K \in SUBSET items
  BY DEF Kept, Usables, dedupeHotSnapshotCandidates
<1>2. IsFiniteSet(K) /\ n \in Nat
  BY <1>1, FS_Subset, FS_CardinalityType
<1>3. s \in {t \in SetToSeqs(K) : \A i, j \in DOMAIN t : i < j => ~InOrder(t[j], t[i])}
  BY DEF hotSnapshotCandidates, Kept, Usables, Above
<1> HIDE DEF K
<1>4. s \in [1..n -> K] /\ \A i, j \in 1..n : i # j => s[i] # s[j]
  BY <1>3 DEF SetToSeqs
<1>5. DOMAIN s = 1..n /\ \A i, j \in 1..n : i < j => ~InOrder(s[j], s[i])
  BY <1>3, <1>4
<1>6. s \in Seq(items) /\ Len(s) = n
  BY <1>1, <1>2, <1>4
<1>q. QED BY <1>1, <1>2, <1>4, <1>5, <1>6 DEF K

LEMMA EncodedIs ==
    ASSUME PoolAssumption, NEW items \in Seq(Pool), encodeHotSnapshot(items) # NoFile
    PROVE  LET data == encodeHotSnapshot(items)
               n    == Len(items)
               all  == Payload(items)[n]
           IN  /\ n \in Nat /\ n > 0 /\ all \in Seq(ByteUnits) /\ Len(all) \in Nat
               /\ Len(data) = 1 + n + Len(all) /\ Len(data) <= MaxBytes
               /\ data[1] = Header(items) /\ Header(items) \in Headers
               /\ \A i \in 1..n : data[1 + i] = Entries(items)[i]
               /\ \A j \in 1..Len(all) : data[1 + n + j] = all[j]
               /\ data = [k \in 1..Len(data) |-> data[k]]
<1> DEFINE n == Len(items)
           all == Payload(items)[n]
           V == Headers \cup {Entries(items)[i] : i \in 1..n} \cup ByteUnits
<1>1. n \in Nat /\ n \in 0..n
  OBVIOUS
<1>2. all \in Seq(ByteUnits) /\ Len(all) \in Nat
  <2>1. all \in Seq(ByteUnits)
    BY <1>1, SomePayload
  <2> HIDE DEF all
  <2>q. QED BY <2>1
<1>3. /\ items # <<>> /\ ~(1 + n + Len(all) > MaxBytes)
      /\ encodeHotSnapshot(items) = <<Header(items)>> \o Entries(items) \o all
  BY EncodeIs
<1>4. n > 0
  BY <1>1, <1>3
<1>5. Header(items) \in Headers
  <2> HIDE DEF all
  <2>1. Header(items) = [unit |-> "header", count |-> n, payloadOffset |-> 1 + n,
                         totalSize |-> 1 + n + Len(all)]
    BY DEF Header, all
  <2>q. QED BY <1>1, <1>2, <2>1 DEF Headers
<1>6. Entries(items) \in Seq(V) /\ Len(Entries(items)) = n
  <2> DEFINE E == Entries(items)
  <2>1. DOMAIN E = 1..n /\ E = [i \in 1..n |-> E[i]]
    BY DEF Entries
  <2> HIDE DEF E
  <2>2. \A i \in 1..n : E[i] \in V
    BY DEF E
  <2> HIDE DEF V
  <2>3. E \in [1..n -> V]
    BY <2>1, <2>2
  <2>q. QED BY <1>1, <2>1, <2>3 DEF E
<1>7. <<Header(items)>> \in Seq(V) /\ Len(<<Header(items)>>) = 1 /\ <<Header(items)>>[1] = Header(items)
  BY <1>5
<1>8. all \in Seq(V)
  <2>1. ByteUnits \subseteq V
    OBVIOUS
  <2> HIDE DEF V, all
  <2>q. QED BY <1>2, <2>1
<1>9. MaxBytes \in Nat
  BY DEF PoolAssumption
<1> DEFINE r == <<Header(items)>>
           s == Entries(items)
<1>10. /\ Len((r \o s) \o all) = Len(r) + Len(s) + Len(all)
       /\ \A j \in 1..Len(r) : ((r \o s) \o all)[j] = r[j]
       /\ \A j \in 1..Len(s) : ((r \o s) \o all)[Len(r) + j] = s[j]
       /\ \A j \in 1..Len(all) : ((r \o s) \o all)[Len(r) + Len(s) + j] = all[j]
       /\ (r \o s) \o all \in Seq(V)
  <2>1. r \in Seq(V) /\ s \in Seq(V) /\ all \in Seq(V)
    BY <1>6, <1>7, <1>8
  <2> HIDE DEF V, r, s, all
  <2>q. QED BY <2>1, ThreeParts
<1>11. Len(r) = 1 /\ Len(s) = n /\ 1 \in 1..Len(r)
  BY <1>6, <1>7
<1> DEFINE data == encodeHotSnapshot(items)
<1>12. /\ Len(data) = 1 + n + Len(all)
       /\ data[1] = r[1]
       /\ \A j \in 1..n : data[1 + j] = s[j]
       /\ \A j \in 1..Len(all) : data[1 + n + j] = all[j]
  <2>1. data = (r \o s) \o all
    BY <1>3
  <2> HIDE DEF data, r, s, all
  <2>q. QED BY <1>10, <1>11, <2>1
<1>13. Len(data) <= MaxBytes
  <2> HIDE DEF data, all
  <2>q. QED BY <1>1, <1>2, <1>3, <1>9, <1>12
<1>14. data = [k \in 1..Len(data) |-> data[k]]
  <2>1. data \in Seq(V)
    <3>1. data = (r \o s) \o all
      BY <1>3
    <3>q. QED BY <1>10, <3>1
  <2> HIDE DEF data, V
  <2>q. QED BY <2>1
<1>q. QED BY <1>1, <1>2, <1>4, <1>5, <1>7, <1>12, <1>13, <1>14

LEMMA EncodedUnits ==
    ASSUME PoolAssumption, NEW own \in SUBSET Pool, NEW items \in Seq(own)
    PROVE  /\ encodeHotSnapshot(items) \in Seq(Units(own))
           /\ Len(encodeHotSnapshot(items)) <= MaxBytes
<1> DEFINE data == encodeHotSnapshot(items)
           n == Len(items)
           all == Payload(items)[n]
<1>1. CASE data = NoFile
  <2>1. MaxBytes \in Nat
    BY DEF PoolAssumption
  <2>q. QED BY <1>1, <2>1 DEF NoFile
<1>2. CASE data # NoFile
  <2>1. items \in Seq(Pool)
    OBVIOUS
  <2>2. /\ n \in Nat /\ all \in Seq(ByteUnits) /\ Len(all) \in Nat
        /\ Len(data) = 1 + n + Len(all) /\ Len(data) <= MaxBytes
        /\ data[1] \in Headers
        /\ \A i \in 1..n : data[1 + i] = Entries(items)[i]
        /\ \A j \in 1..Len(all) : data[1 + n + j] = all[j]
    BY <1>2, <2>1, EncodedIs
  <2>3. ASSUME NEW i \in 1..n PROVE Entries(items)[i] \in Units(own)
    <3>1. Entries(items)[i] = IF Fits(items[i]) THEN Entry(items[i], 1 + n + Len(Payload(items)[i - 1]))
                              ELSE Zero
      BY DEF Entries
    <3>2. Payload(items)[i - 1] \in Seq(ByteUnits)
      <4>1. i - 1 \in 0..n
        BY <2>2
      <4>q. QED BY <2>1, <4>1, SomePayload
    <3>3. Len(Payload(items)[i - 1]) \in Nat
      BY <3>2
    <3>4. items[i] \in own
      OBVIOUS
    <3>5. PICK at \in Nat : at = 1 + n + Len(Payload(items)[i - 1])
      <4> DEFINE before == Len(Payload(items)[i - 1])
      <4> HIDE DEF before, n
      <4>1. before \in Nat /\ n \in Nat
        BY <2>2, <3>3 DEF before
      <4>2. 1 + n + before \in Nat
        BY <4>1
      <4>q. QED BY <4>2 DEF before
    <3> HIDE DEF n
    <3>6. CASE Fits(items[i])
      <4>1. Entries(items)[i] = Entry(items[i], at)
        BY <3>1, <3>5, <3>6
      <4>q. QED BY <3>4, <4>1 DEF Units
    <3>7. CASE ~Fits(items[i])
      BY <3>1, <3>7 DEF Units
    <3>q. QED BY <3>6, <3>7
  <2>4. ASSUME NEW k \in 1..Len(data) PROVE data[k] \in Units(own)
    <3>1. CASE k = 1
      BY <2>2, <3>1 DEF Units
    <3>2. CASE k # 1 /\ k <= 1 + n
      <4>1. PICK i \in 1..n : k = 1 + i
        <5>1. k - 1 \in 1..n /\ k = 1 + (k - 1)
          BY <2>2, <3>2
        <5>q. QED BY <5>1
      <4>q. QED BY <2>2, <2>3, <4>1
    <3>3. CASE k > 1 + n
      <4>1. PICK j \in 1..Len(all) : k = 1 + n + j
        <5> HIDE DEF all, n, data
        <5>1. k - (1 + n) \in 1..Len(all) /\ k = 1 + n + (k - (1 + n))
          BY <2>2, <3>3
        <5>q. QED BY <5>1
      <4>2. all[j] \in ByteUnits
        BY <2>2
      <4>q. QED BY <2>2, <4>1, <4>2 DEF Units
    <3>q. QED BY <2>2, <3>1, <3>2, <3>3
  <2>5. data \in Seq(Units(own))
    <3>1. data = [k \in 1..Len(data) |-> data[k]]
      BY <1>2, <2>1, EncodedIs
    <3>2. Len(data) \in Nat
      <4> HIDE DEF all, n, data
      <4>q. QED BY <2>2
    <3> HIDE DEF data
    <3>q. QED BY <2>4, <3>1, <3>2
  <2>q. QED BY <2>2, <2>5
<1>q. QED BY <1>1, <1>2

(***************************************************************************)
(* What every step keeps.                                                  *)
(***************************************************************************)
\* What is prepared and published is from the pool, and the file is made of
\* what was published.
SnapshotInv ==
    /\ prepared \in SUBSET Pool /\ IsFiniteSet(prepared)
    /\ published \in SUBSET Pool /\ IsFiniteSet(published)
    /\ file \in Seq(Units(published)) /\ Len(file) <= MaxBytes

LEMMA SnapshotInit == ASSUME PoolAssumption, Init PROVE SnapshotInv
<1>1. MaxBytes \in Nat
  BY DEF PoolAssumption
<1>2. IsFiniteSet({})
  BY FS_EmptySet
<1>q. QED BY <1>1, <1>2 DEF Init, NoFile, SnapshotInv

LEMMA SnapshotNext ==
    ASSUME PoolAssumption, SnapshotInv, [Next]_vars
    PROVE  SnapshotInv'
<1>0. MaxBytes \in Nat
  BY DEF PoolAssumption
<1>1. CASE UNCHANGED vars
  BY <1>1 DEF vars, SnapshotInv, Units
<1>2. ASSUME NEW item \in Pool, Prepare(item) PROVE SnapshotInv'
  <2>1. prepared' = prepared \cup {item} /\ UNCHANGED <<file, published>>
    BY <1>2 DEF Prepare
  <2>2. IsFiniteSet(prepared')
    BY <2>1, FS_AddElement DEF SnapshotInv
  <2>q. QED BY <2>1, <2>2 DEF SnapshotInv
<1>3. CASE publishHotSnapshot
  <2>1. PICK items \in hotSnapshotCandidates(prepared) : file' = encodeHotSnapshot(items)
    BY <1>3 DEF publishHotSnapshot
  <2>2. published' = prepared /\ prepared' = prepared
    BY <1>3 DEF publishHotSnapshot
  <2>3. items \in Seq(prepared)
    BY <2>1, CandidatesAre DEF SnapshotInv
  <2>4. file' \in Seq(Units(prepared)) /\ Len(file') <= MaxBytes
    BY <2>1, <2>3, EncodedUnits DEF SnapshotInv
  <2>q. QED BY <2>2, <2>4 DEF SnapshotInv
<1>4. CASE Damage
  <2>1. UNCHANGED <<prepared, published>>
    BY <1>4 DEF Damage
  <2> DEFINE U == Units(published)
  <2>2. file \in Seq(U) /\ Len(file) <= MaxBytes /\ Zero \in U /\ Len(file) \in Nat
    BY DEF SnapshotInv, Units
  <2> HIDE DEF U
  <2>3. CASE Truncated
    <3>1. PICK n \in 1..(Len(file) - 1) : file' = SubSeq(file, 1, n)
      BY <2>3 DEF Truncated
    <3>2. file' \in Seq(U) /\ Len(file') = n
      BY <2>2, <3>1
    <3>3. Len(file') <= MaxBytes
      BY <1>0, <2>2, <3>1, <3>2
    <3>q. QED BY <2>1, <3>2, <3>3 DEF SnapshotInv, U
  <2>4. CASE Unwritten
    <3>1. PICK i \in DOMAIN file : file' = [file EXCEPT ![i] = Zero]
      BY <2>4 DEF Unwritten
    <3>2. file' \in Seq(U) /\ Len(file') = Len(file)
      BY <2>2, <3>1
    <3>q. QED BY <2>1, <2>2, <3>2 DEF SnapshotInv, U
  <2>q. QED BY <1>4, <2>3, <2>4 DEF Damage
<1>q. QED BY <1>1, <1>2, <1>3, <1>4 DEF Next

LEMMA TypesHold == ASSUME PoolAssumption PROVE SnapshotInv => TypeOK
<1>1. ASSUME SnapshotInv, NEW i \in DOMAIN file
      PROVE  file[i].unit \in {"header", "entry", "byte", "zero"}
  <2>1. file[i] \in Units(published)
    BY <1>1 DEF SnapshotInv
  <2>q. QED BY <2>1 DEF Units, Headers, ByteUnits, Zero, Entry
<1>q. QED BY <1>1 DEF SnapshotInv, TypeOK

(***************************************************************************)
(* Nothing is found but what was published for the proof.                  *)
(***************************************************************************)

\* The entry a lookup hands to Read.
Matches(data, key, epoch) ==
    LET start == hotSnapshotCommandRange(data, data[1].count, key)
        own   == {i \in (start + 1)..data[1].count :
                    \A j \in (start + 1)..i : KeyAt(data, j) = key}
    IN  {i \in own : data[1 + i].epoch = epoch}

LEMMA DecodeIs ==
    ASSUME NEW data, NEW key, NEW epoch, NEW kind, NEW max
    PROVE  decodeHotSnapshotPayload(data, key, epoch, kind, max)
             = IF ~HeaderValid(data) \/ key = 0 \/ epoch = 0 \/ Matches(data, key, epoch) = {}
               THEN NoAnswer
               ELSE Read(data, data[1 + Min(Matches(data, key, epoch))], kind, max)
BY DEF decodeHotSnapshotPayload, Matches

LEMMA HeaderIs ==
    ASSUME NEW own, NEW data \in Seq(Units(own)), HeaderValid(data)
    PROVE  /\ data[1] \in Headers /\ data[1].count \in Nat /\ Len(data) \in Nat
           /\ data[1].payloadOffset = 1 + data[1].count
           /\ 1 + data[1].count <= Len(data)
<1>1. Len(data) \in Nat /\ 1 \in DOMAIN data /\ data[1].unit = "header"
  BY DEF HeaderValid
<1>2. data[1] \in Units(own)
  BY <1>1
<1>3. data[1] \in Headers
  BY <1>1, <1>2 DEF Units, ByteUnits, Zero, Entry
<1>q. QED BY <1>1, <1>3 DEF HeaderValid, Headers

LEMMA FirstMatch ==
    ASSUME NEW own, NEW data \in Seq(Units(own)), HeaderValid(data),
           NEW key \in Nat, NEW epoch, key # 0, Matches(data, key, epoch) # {}
    PROVE  LET m == Min(Matches(data, key, epoch))
           IN  /\ m \in Matches(data, key, epoch) /\ \A k \in Matches(data, key, epoch) : m <= k
               /\ m \in 1..data[1].count /\ 1 + m \in 1..Len(data)
               /\ \E i \in own, at \in Nat : data[1 + m] = Entry(i, at) /\ i.key = key /\ i.epoch = epoch
<1> DEFINE M == Matches(data, key, epoch)
           m == Min(M)
           count == data[1].count
           start == hotSnapshotCommandRange(data, count, key)
<1>1. count \in Nat /\ Len(data) \in Nat /\ 1 + count <= Len(data)
  BY HeaderIs
<1>2. start \in 0..count
  <2> HIDE DEF count
  <2>q. QED BY <1>1, SearchFinds
<1>3. M = {i \in {i \in (start + 1)..count : \A j \in (start + 1)..i : KeyAt(data, j) = key} :
             data[1 + i].epoch = epoch}
  BY DEF Matches
<1> HIDE DEF M, start, count
<1>4. M \in SUBSET Nat /\ M # {}
  BY <1>1, <1>2, <1>3 DEF M
<1>5. m \in M /\ \A k \in M : m <= k
  BY <1>4, Least DEF Min
<1> HIDE DEF m
<1>6. m \in 1..count /\ m \in (start + 1)..m /\ m \in (start + 1)..count
  BY <1>1, <1>2, <1>3, <1>5
<1>7. 1 + m \in 1..Len(data) /\ data[1 + m] \in Units(own)
  <2>1. 1 + m \in 1..Len(data)
    BY <1>1, <1>6
  <2>q. QED BY <2>1
<1>8. KeyAt(data, m) = key /\ data[1 + m].epoch = epoch
  BY <1>3, <1>5, <1>6
<1>9. data[1 + m].unit = "entry" /\ data[1 + m].key = key
  BY <1>8 DEF KeyAt
<1>10. PICK i \in own, at \in Nat : data[1 + m] = Entry(i, at)
  BY <1>7, <1>9 DEF Units, Headers, ByteUnits, Zero
<1>11. i.key = key /\ i.epoch = epoch
  BY <1>8, <1>9, <1>10 DEF Entry
<1>q. QED BY <1>5, <1>6, <1>7, <1>10, <1>11 DEF M, m, count

LEMMA FoundPublished ==
    ASSUME PoolAssumption, SnapshotInv, NEW p \in Places, Lookup(p[1], p[2], p[3]).hit
    PROVE  \E i \in published :
              <<i.key, i.epoch, i.kind>> = p /\ Lookup(p[1], p[2], p[3]) = Answer(i)
<1>1. PICK q \in Pool : p = <<q.key, q.epoch, q.kind>>
  BY DEF Places
<1>2. p[1] = q.key /\ p[2] = q.epoch /\ p[3] = q.kind /\ p[1] \in Nat
  BY <1>1, PoolTypes
<1> DEFINE key == p[1]
           epoch == p[2]
           kind == p[3]
           max == Limit[kind]
           M == Matches(file, key, epoch)
           entry == file[1 + Min(M)]
<1>3. ~NoAnswer.hit
  BY DEF NoAnswer
<1>4. /\ Lookup(key, epoch, kind) = decodeHotSnapshotPayload(file, key, epoch, kind, max)
      /\ HeaderValid(file) /\ key # 0 /\ M # {}
      /\ Lookup(key, epoch, kind) = Read(file, entry, kind, max)
  BY <1>3, DecodeIs DEF Lookup
<1>5. PICK i \in published, at \in Nat : entry = Entry(i, at) /\ i.key = key /\ i.epoch = epoch
  <2>1. file \in Seq(Units(published))
    BY DEF SnapshotInv
  <2>q. QED BY <1>2, <1>4, <2>1, FirstMatch
<1> HIDE DEF entry, M, max
<1>6. entry.kind = kind /\ \E out, err : /\ out = entry.stdoutHash /\ err = entry.stderrHash
        /\ Read(file, entry, kind, max) = [hit |-> TRUE, stdout |-> out, stderr |-> err, exit |-> entry.exit]
  BY <1>3, <1>4 DEF Read
<1>7. i.kind = kind /\ Lookup(key, epoch, kind) = Answer(i)
  BY <1>4, <1>5, <1>6 DEF Entry, Answer
<1>8. <<i.key, i.epoch, i.kind>> = p
  BY <1>1, <1>2, <1>5, <1>7
<1>q. QED BY <1>7, <1>8

LEMMA NeverAnotherHolds == ASSUME PoolAssumption PROVE SnapshotInv => NeverAnother
BY FoundPublished DEF NeverAnother

(***************************************************************************)
(* Which answers are kept.                                                 *)
(***************************************************************************)
LEMMA PriorityIs == ASSUME NEW i PROVE hotSnapshotCandidatePriority(i) \in Nat
BY DEF hotSnapshotCandidatePriority

\* Answers are ranked, those that rank the same by their keys.
LEMMA Ranks ==
    ASSUME PoolAssumption, NEW a \in Pool, NEW b \in Pool
    PROVE  /\ ~Outranks(a, a) /\ ~(Outranks(a, b) /\ Outranks(b, a))
           /\ ~Precedes(a, a) /\ ~(Precedes(a, b) /\ Precedes(b, a))
           /\ Precedes(a, b) \/ Precedes(b, a) \/ (a.key = b.key /\ a.epoch = b.epoch)
           /\ \A c \in Pool : Precedes(a, b) /\ Precedes(b, c) => Precedes(a, c)
<1>1. \A i \in Pool : /\ hotSnapshotCandidatePriority(i) \in Nat
                      /\ i.preparedAt \in Nat /\ i.wall \in Nat
                      /\ i.key \in Nat /\ i.epoch \in Nat
  BY PriorityIs DEF PoolAssumption
<1>2. ~Outranks(a, a) /\ ~(Outranks(a, b) /\ Outranks(b, a))
  BY <1>1 DEF Outranks
<1>3. /\ ~Precedes(a, a) /\ ~(Precedes(a, b) /\ Precedes(b, a))
      /\ Precedes(a, b) \/ Precedes(b, a) \/ (a.key = b.key /\ a.epoch = b.epoch)
  BY <1>1, <1>2 DEF Precedes, InOrder
<1>4. ASSUME NEW c \in Pool, Precedes(a, b), Precedes(b, c) PROVE Precedes(a, c)
  BY <1>1, <1>4 DEF Outranks, Precedes, InOrder
<1>q. QED BY <1>2, <1>3, <1>4

LEMMA SizeIs ==
    ASSUME PoolAssumption, NEW i \in Pool
    PROVE  Size(i) \in Nat /\ Size(i) = Len(i.stdout) + Len(i.stderr)
<1> DEFINE o == Len(i.stdout)
           e == Len(i.stderr)
<1>1. o \in Nat /\ e \in Nat /\ Size(i) = o + e
  BY PoolTypes
<1> HIDE DEF o, e
<1>2. Size(i) \in Nat
  BY <1>1
<1>q. QED BY <1>1, <1>2 DEF o, e

\* Of two answers for one proof one is better.
LEMMA BetterIs ==
    ASSUME PoolAssumption, NEW a \in Pool, NEW b \in Pool, SameProof(a, b)
    PROVE  (a # b => betterHotSnapshotCandidate(a, b)) <=> ~betterHotSnapshotCandidate(b, a)
<1>1. Size(a) \in Nat /\ Size(b) \in Nat
  BY SizeIs
<1>2. ~(betterHotSnapshotCandidate(a, b) /\ betterHotSnapshotCandidate(b, a))
  BY <1>1, Ranks DEF betterHotSnapshotCandidate
<1>3. a # b => betterHotSnapshotCandidate(a, b) \/ betterHotSnapshotCandidate(b, a)
  BY DEF PoolAssumption
<1>q. QED BY <1>2, <1>3

\* What dedupeHotSnapshotCandidates leaves of the usable answers: the best for
\* each proof.
LEMMA UsablesAre ==
    ASSUME PoolAssumption, NEW items \in SUBSET Pool
    PROVE  LET fit == {i \in items : Usable(i)}
           IN  Usables(items) =
                 {i \in fit : \A j \in fit : SameProof(i, j) /\ i # j => betterHotSnapshotCandidate(i, j)}
<1> DEFINE fit == {i \in items : Usable(i)}
<1>1. ASSUME NEW i \in fit, NEW j \in fit
      PROVE  SameProof(i, j) =>
               ((i # j => betterHotSnapshotCandidate(i, j)) <=> ~betterHotSnapshotCandidate(j, i))
  <2>1. i \in Pool /\ j \in Pool
    OBVIOUS
  <2>q. QED BY <2>1, BetterIs
<1>2. Usables(items) = {i \in fit : ~\E j \in fit : SameProof(i, j) /\ betterHotSnapshotCandidate(j, i)}
  BY DEF Usables, dedupeHotSnapshotCandidates
<1> HIDE DEF fit
<1>3. Usables(items) =
        {i \in fit : \A j \in fit : SameProof(i, j) /\ i # j => betterHotSnapshotCandidate(i, j)}
  BY <1>1, <1>2
<1>q. QED BY <1>3 DEF fit

\* And one for each key and epoch.
LEMMA UsablesApart ==
    ASSUME PoolAssumption, NEW items \in SUBSET Pool,
           NEW a \in Usables(items), NEW b \in Usables(items), a # b
    PROVE  ~(a.key = b.key /\ a.epoch = b.epoch)
<1>1. SUFFICES ASSUME a.key = b.key, a.epoch = b.epoch PROVE FALSE
  OBVIOUS
<1>2. a \in Pool /\ b \in Pool /\ a \in items /\ b \in items /\ Usable(a) /\ Usable(b)
  BY DEF Usables, dedupeHotSnapshotCandidates
<1>3. SameProof(a, b) /\ SameProof(b, a)
  BY <1>1, <1>2 DEF SameProof, PoolAssumption
<1>4. ~betterHotSnapshotCandidate(a, b) /\ ~betterHotSnapshotCandidate(b, a)
  BY <1>2, <1>3 DEF Usables, dedupeHotSnapshotCandidates
<1>q. QED BY <1>2, <1>3, <1>4 DEF PoolAssumption

\* At most MaxEntries are kept: all others precede the last of them.
LEMMA KeptFew ==
    ASSUME PoolAssumption, NEW items \in SUBSET Pool, IsFiniteSet(items)
    PROVE  Cardinality(Kept(items)) <= MaxEntries /\ Cardinality(Kept(items)) \in Nat
<1> DEFINE K == Kept(items)
           T == {MaxEntries - Cardinality(Above(items, x)) : x \in K}
<1>0. MaxEntries \in Nat
  BY DEF PoolAssumption
<1>1. Usables(items) \in SUBSET items /\ K \in SUBSET items /\ \A x : Above(items, x) \in SUBSET Usables(items)
  BY DEF Kept, Usables, dedupeHotSnapshotCandidates, Above
<1>2. IsFiniteSet(K) /\ \A x : IsFiniteSet(Above(items, x)) /\ Cardinality(Above(items, x)) \in Nat
  BY <1>1, FS_Subset, FS_CardinalityType
<1>3. \A x \in K : x \in Usables(items) /\ Cardinality(Above(items, x)) < MaxEntries
  BY DEF Kept
<1> HIDE DEF K
<1>4. CASE K = {}
  BY <1>0, <1>4, FS_EmptySet DEF K
<1>5. CASE K # {}
  <2>1. T \in SUBSET Nat /\ T # {}
    BY <1>0, <1>2, <1>3, <1>5
  <2>2. PICK t \in T : \A u \in T : t <= u
    <3> HIDE DEF T
    <3>q. QED BY <2>1, Least
  <2>3. PICK x \in K : \A y \in K :
          MaxEntries - Cardinality(Above(items, x)) <= MaxEntries - Cardinality(Above(items, y))
    BY <2>2
  <2>4. ASSUME NEW y \in K, y # x PROVE Precedes(y, x)
    <3>0. x \in Pool /\ y \in Pool /\ ~(x.key = y.key /\ x.epoch = y.epoch)
      BY <1>1, <1>3, <2>4, UsablesApart
    <3>1. SUFFICES ASSUME Precedes(x, y) PROVE FALSE
      BY <3>0, Ranks
    <3>2. Above(items, x) \cup {x} \in SUBSET Above(items, y)
      <4>1. x \in Above(items, y)
        BY <1>3, <3>1 DEF Above
      <4>2. ASSUME NEW b \in Above(items, x) PROVE b \in Above(items, y)
        <5>1. b \in Usables(items) /\ Precedes(b, x) /\ b \in Pool /\ x \in Pool /\ y \in Pool
          BY <1>1 DEF Above
        <5>2. Precedes(b, y)
          BY <3>1, <5>1, Ranks
        <5>q. QED BY <5>1, <5>2 DEF Above
      <4>q. QED BY <4>1, <4>2
    <3>3. x \notin Above(items, x)
      BY <1>1, Ranks DEF Above
    <3>4. Cardinality(Above(items, x) \cup {x}) = Cardinality(Above(items, x)) + 1
      BY <1>2, <3>3, FS_AddElement
    <3>5. Cardinality(Above(items, x) \cup {x}) <= Cardinality(Above(items, y))
      BY <1>2, <3>2, FS_Subset
    <3>q. QED BY <1>0, <1>2, <2>3, <3>4, <3>5
  <2>5. K \ {x} \in SUBSET Above(items, x)
    BY <1>3, <2>4 DEF Above
  <2>6. Cardinality(K \ {x}) <= Cardinality(Above(items, x))
    BY <1>2, <2>5, FS_Subset
  <2>7. Cardinality(K \ {x}) = Cardinality(K) - 1
    BY <1>2, FS_RemoveElement
  <2>8. Cardinality(K) \in Nat
    BY <1>2, FS_CardinalityType
  <2>q. QED BY <1>0, <1>2, <1>3, <2>6, <2>7, <2>8 DEF K
<1>q. QED BY <1>4, <1>5

\* Each kept answer has a place.
LEMMA KeptPlaced ==
    ASSUME NEW items \in SUBSET Pool, IsFiniteSet(items), NEW s \in hotSnapshotCandidates(items),
           NEW x \in Kept(items)
    PROVE  \E i \in 1..Len(s) : s[i] = x
<1> DEFINE K == Kept(items)
           n == Cardinality(K)
<1>1. /\ IsFiniteSet(K) /\ s \in [1..n -> K] /\ Len(s) = n
      /\ \A i, j \in 1..n : i # j => s[i] # s[j]
  BY CandidatesAre
<1> HIDE DEF K
<1>2. n \in Nat
  BY <1>1, FS_CardinalityType
<1>3. IsFiniteSet(1..n) /\ Cardinality(1..n) = n
  BY <1>2, FS_Interval
<1>4. s \in Injection(1..n, K)
  BY <1>1 DEF Injection, IsInjective
<1>5. s \in Surjection(1..n, K)
  BY <1>1, <1>3, <1>4, FS_Injection, FS_Surjection, FS_Bijection DEF Bijection
<1>q. QED BY <1>1, <1>5 DEF Surjection, K

(***************************************************************************)
(* Reading back what was written.                                          *)
(***************************************************************************)

LEMMA PartIs ==
    ASSUME NEW data, NEW at \in Nat, NEW n \in Nat
    PROVE  SubSeq(data, at + 1, at + n) = [j \in 1..n |-> data[at + j]]
OBVIOUS

\* The bytes laid out at a place are read from it.
LEMMA SliceIs ==
    ASSUME NEW data, NEW bytes \in Seq(Nat), NEW at \in Nat,
           \A j \in 1..Len(bytes) : data[at + j] = [unit |-> "byte", value |-> bytes[j]]
    PROVE  Contents(SubSeq(data, at + 1, at + Len(bytes))) = bytes
<1> DEFINE n == Len(bytes)
           part == SubSeq(data, at + 1, at + n)
<1>1. n \in Nat /\ bytes = [j \in 1..n |-> bytes[j]]
  OBVIOUS
<1>2. part = [j \in 1..n |-> data[at + j]]
  <2> HIDE DEF n
  <2>q. QED BY <1>1, PartIs
<1>3. DOMAIN part = 1..n /\ \A j \in 1..n : part[j] = [unit |-> "byte", value |-> bytes[j]]
  BY <1>2
<1> HIDE DEF part, n
<1>4. Contents(part) = [j \in 1..n |-> bytes[j]]
  BY <1>3 DEF Contents
<1>q. QED BY <1>1, <1>4 DEF part, n

LEMMA UsableFits ==
    ASSUME PoolAssumption, NEW i \in Pool, Usable(i)
    PROVE  Fits(i) /\ Size(i) <= Limit[i.kind] /\ i.key # 0 /\ i.epoch # 0
<1>1. /\ i.kind \in {"exact", "warm", "corpus"} /\ Size(i) \in Nat
      /\ MaxOutput \in Nat /\ MaxFile \in Nat /\ MaxCorpus \in Nat /\ MaxFile <= MaxOutput
      /\ (i.kind # "exact" => i.key # 0)
  <2>1. i.kind \in Kinds
    BY PoolTypes
  <2>2. Size(i) \in Nat
    BY SizeIs
  <2>3. Kinds = {"exact", "warm", "corpus"}
    BY DEF Kinds, Limit
  <2>q. QED BY <2>1, <2>2, <2>3, PoolTypes DEF PoolAssumption
<1>2. Limit["exact"] = MaxOutput /\ Limit["warm"] = MaxFile /\ Limit["corpus"] = MaxCorpus
  BY DEF Limit
<1>3. CASE i.kind = "exact"
  BY <1>1, <1>2, <1>3 DEF Usable, Fits
<1>4. CASE i.kind = "warm"
  BY <1>1, <1>2, <1>4 DEF Usable, Fits
<1>5. CASE i.kind = "corpus"
  BY <1>1, <1>2, <1>5 DEF Usable, Fits
<1>q. QED BY <1>1, <1>3, <1>4, <1>5

\* A whole file: its header is valid, its entries are those of what was kept, in
\* the order of their keys, and each is read as the answer it stands for.
LEMMA WholeFile ==
    ASSUME PoolAssumption, NEW items \in SUBSET Pool, IsFiniteSet(items),
           NEW s \in hotSnapshotCandidates(items), encodeHotSnapshot(s) # NoFile
    PROVE  LET data == encodeHotSnapshot(s)
               n == Len(s)
           IN  /\ n \in Nat /\ HeaderValid(data) /\ data[1].count = n
               /\ \A i \in 1..n :
                     /\ s[i] \in Kept(items) /\ s[i] \in Pool /\ Usable(s[i])
                     /\ KeyAt(data, i) = s[i].key /\ data[1 + i].epoch = s[i].epoch
                     /\ Read(data, data[1 + i], s[i].kind, Limit[s[i].kind]) = Answer(s[i])
               /\ \A i, j \in 1..n : KeyAt(data, i) \in Nat
                     /\ (i <= j => KeyAt(data, i) <= KeyAt(data, j))
<1> DEFINE data == encodeHotSnapshot(s)
           n == Len(s)
           all == Payload(s)[n]
<1>1. /\ Kept(items) \in SUBSET items /\ s \in Seq(items) /\ n = Cardinality(Kept(items))
      /\ s \in [1..n -> Kept(items)]
      /\ \A i, j \in 1..n : i < j => ~InOrder(s[j], s[i])
  BY CandidatesAre
<1>2. s \in Seq(Pool)
  BY <1>1
<1>3. n \in Nat /\ n <= MaxEntries /\ MaxEntries \in Nat /\ MaxBytes \in Nat
  BY <1>1, KeptFew DEF PoolAssumption
<1>4. /\ all \in Seq(ByteUnits) /\ Len(all) \in Nat
      /\ Len(data) = 1 + n + Len(all) /\ Len(data) <= MaxBytes
      /\ data[1] = Header(s)
      /\ \A i \in 1..n : data[1 + i] = Entries(s)[i]
      /\ \A j \in 1..Len(all) : data[1 + n + j] = all[j]
  BY <1>2, EncodedIs
<1>5. /\ data[1].unit = "header" /\ data[1].count = n /\ data[1].payloadOffset = 1 + n
      /\ data[1].totalSize = 1 + n + Len(all)
  BY <1>4 DEF Header
<1>6. HeaderValid(data)
  <2> HIDE DEF data, n, all
  <2>1. Len(data) \in 1..MaxBytes /\ 1 + n <= Len(data)
    BY <1>3, <1>4
  <2>q. QED BY <1>3, <1>4, <1>5, <2>1 DEF HeaderValid
<1>7. ASSUME NEW i \in 1..n PROVE s[i] \in Kept(items) /\ s[i] \in Pool /\ Usable(s[i])
  <2>1. s[i] \in Kept(items)
    BY <1>1
  <2>2. s[i] \in Pool /\ Usable(s[i])
    BY <1>1, <2>1 DEF Kept, Usables, dedupeHotSnapshotCandidates
  <2>q. QED BY <2>1, <2>2
<1>8. ASSUME NEW i \in 1..n
      PROVE  \E at \in Nat :
                /\ data[1 + i] = Entry(s[i], 1 + n + at)
                /\ at + Len(s[i].stdout) + Len(s[i].stderr) <= Len(all)
                /\ \A j \in 1..Len(s[i].stdout) :
                      all[at + j] = [unit |-> "byte", value |-> s[i].stdout[j]]
                /\ \A j \in 1..Len(s[i].stderr) :
                      all[at + Len(s[i].stdout) + j] = [unit |-> "byte", value |-> s[i].stderr[j]]
  <2>1. Fits(s[i])
    BY <1>7, UsableFits
  <2>2. Entries(s)[i] = Entry(s[i], 1 + n + Len(Payload(s)[i - 1]))
    BY <2>1 DEF Entries
  <2>3. /\ Len(Payload(s)[i - 1]) \in Nat
        /\ Len(Payload(s)[i - 1]) + Len(s[i].stdout) + Len(s[i].stderr) <= Len(all)
        /\ \A j \in 1..Len(s[i].stdout) :
              all[Len(Payload(s)[i - 1]) + j] = [unit |-> "byte", value |-> s[i].stdout[j]]
        /\ \A j \in 1..Len(s[i].stderr) :
              all[Len(Payload(s)[i - 1]) + Len(s[i].stdout) + j] = [unit |-> "byte", value |-> s[i].stderr[j]]
    BY <1>2, <2>1, PayloadHolds
  <2>4. data[1 + i] = Entry(s[i], 1 + n + Len(Payload(s)[i - 1]))
    BY <1>4, <2>2
  <2> HIDE DEF data, n, all
  <2>q. QED BY <2>3, <2>4
<1> HIDE DEF data, n, all
<1>9. ASSUME NEW i \in 1..n
      PROVE  /\ KeyAt(data, i) = s[i].key /\ data[1 + i].epoch = s[i].epoch
             /\ Read(data, data[1 + i], s[i].kind, Limit[s[i].kind]) = Answer(s[i])
  <2>1. PICK at \in Nat :
                /\ data[1 + i] = Entry(s[i], 1 + n + at)
                /\ at + Len(s[i].stdout) + Len(s[i].stderr) <= Len(all)
                /\ \A j \in 1..Len(s[i].stdout) :
                      all[at + j] = [unit |-> "byte", value |-> s[i].stdout[j]]
                /\ \A j \in 1..Len(s[i].stderr) :
                      all[at + Len(s[i].stdout) + j] = [unit |-> "byte", value |-> s[i].stderr[j]]
    BY <1>8
  <2> DEFINE entry == Entry(s[i], 1 + n + at)
             o == Len(s[i].stdout)
             e == Len(s[i].stderr)
             from == 1 + n + at
  <2>2. /\ entry.unit = "entry" /\ entry.key = s[i].key /\ entry.epoch = s[i].epoch
        /\ entry.kind = s[i].kind /\ entry.exit = s[i].exit
        /\ entry.stdoutOffset = from /\ entry.stdoutLen = o
        /\ entry.stderrOffset = from + o /\ entry.stderrLen = e
        /\ entry.stdoutHash = s[i].stdout /\ entry.stderrHash = s[i].stderr
    BY DEF Entry
  <2>3. /\ s[i].stdout \in Seq(Nat) /\ s[i].stderr \in Seq(Nat) /\ o \in Nat /\ e \in Nat
        /\ Size(s[i]) = o + e
    BY <1>7, PoolTypes
  <2>4. Size(s[i]) <= Limit[s[i].kind]
    BY <1>7, UsableFits
  <2> HIDE DEF entry, o, e
  <2>5. from \in Nat /\ from + o \in Nat
    BY <1>3, <2>3
  <2>6. /\ \A j \in 1..o : data[from + j] = [unit |-> "byte", value |-> s[i].stdout[j]]
        /\ \A j \in 1..e : data[(from + o) + j] = [unit |-> "byte", value |-> s[i].stderr[j]]
    <3>0. at + o + e <= Len(all)
      BY <2>1 DEF o, e
    <3>1. ASSUME NEW j \in 1..o PROVE data[from + j] = [unit |-> "byte", value |-> s[i].stdout[j]]
      <4>1. at + j \in 1..Len(all) /\ from + j = 1 + n + (at + j)
        BY <1>3, <1>4, <2>3, <3>0
      <4>2. data[1 + n + (at + j)] = all[at + j]
        BY <1>4, <4>1
      <4>3. all[at + j] = [unit |-> "byte", value |-> s[i].stdout[j]]
        BY <2>1 DEF o
      <4> HIDE DEF from
      <4>q. QED BY <4>1, <4>2, <4>3
    <3>2. ASSUME NEW j \in 1..e
          PROVE  data[(from + o) + j] = [unit |-> "byte", value |-> s[i].stderr[j]]
      <4>1. at + o + j \in 1..Len(all) /\ (from + o) + j = 1 + n + (at + o + j)
        BY <1>3, <1>4, <2>3, <3>0
      <4>2. data[1 + n + (at + o + j)] = all[at + o + j]
        BY <1>4, <4>1
      <4>3. all[at + o + j] = [unit |-> "byte", value |-> s[i].stderr[j]]
        BY <2>1 DEF o, e
      <4> HIDE DEF from
      <4>q. QED BY <4>1, <4>2, <4>3
    <3>q. QED BY <3>1, <3>2
  <2>7. /\ from >= data[1].payloadOffset /\ from + o >= data[1].payloadOffset
        /\ from + o <= Len(data) /\ (from + o) + e <= Len(data)
    <3>1. data[1].payloadOffset = 1 + n
      BY <1>5
    <3>2. at + o + e <= Len(all)
      BY <2>1 DEF o, e
    <3>q. QED BY <1>3, <1>4, <2>3, <3>1, <3>2
  <2> HIDE DEF from
  <2>8. /\ Contents(SubSeq(data, from + 1, from + o)) = s[i].stdout
        /\ Contents(SubSeq(data, (from + o) + 1, (from + o) + e)) = s[i].stderr
    <3>1. Contents(SubSeq(data, from + 1, from + o)) = s[i].stdout
      BY <2>3, <2>5, <2>6, SliceIs DEF o
    <3> DEFINE next == from + o
    <3>2. next \in Nat /\ \A j \in 1..e : data[next + j] = [unit |-> "byte", value |-> s[i].stderr[j]]
      BY <2>5, <2>6
    <3> HIDE DEF next
    <3>3. Contents(SubSeq(data, next + 1, next + e)) = s[i].stderr
      BY <2>3, <3>2, SliceIs DEF e
    <3>q. QED BY <3>1, <3>3 DEF next
  <2>9. o + e <= Limit[s[i].kind]
    BY <2>3, <2>4
  <2>10. Read(data, entry, s[i].kind, Limit[s[i].kind]) = Answer(s[i])
    BY <2>2, <2>7, <2>8, <2>9 DEF Read, Answer
  <2>11. data[1 + i] = entry
    BY <2>1 DEF entry
  <2>12. KeyAt(data, i) = s[i].key
    BY <2>2, <2>11 DEF KeyAt
  <2>q. QED BY <2>2, <2>10, <2>11, <2>12
<1>10. ASSUME NEW i \in 1..n, NEW j \in 1..n
       PROVE  KeyAt(data, i) \in Nat /\ (i <= j => KeyAt(data, i) <= KeyAt(data, j))
  <2>1. KeyAt(data, i) = s[i].key /\ KeyAt(data, j) = s[j].key
    BY <1>9
  <2>2. s[i].key \in Nat /\ s[j].key \in Nat
    BY <1>7, PoolTypes
  <2>3. i < j => ~(s[j].key < s[i].key)
    BY <1>1 DEF InOrder
  <2>q. QED BY <1>3, <2>1, <2>2, <2>3
<1>q. QED BY <1>3, <1>5, <1>6, <1>7, <1>9, <1>10 DEF data, n

(***************************************************************************)
(* What a lookup in a whole file finds.                                    *)
(***************************************************************************)
\* In a whole file the places that match a key and an epoch are those of the
\* answers that have them.
LEMMA WholeMatches ==
    ASSUME PoolAssumption, NEW items \in SUBSET Pool, IsFiniteSet(items),
           NEW s \in hotSnapshotCandidates(items), encodeHotSnapshot(s) # NoFile,
           NEW key \in Nat, NEW epoch
    PROVE  Matches(encodeHotSnapshot(s), key, epoch)
             = {i \in 1..Len(s) : s[i].key = key /\ s[i].epoch = epoch}
<1> DEFINE data == encodeHotSnapshot(s)
           n == Len(s)
           start == hotSnapshotCommandRange(data, n, key)
<1>1. /\ n \in Nat /\ data[1].count = n
      /\ \A i \in 1..n : KeyAt(data, i) = s[i].key /\ data[1 + i].epoch = s[i].epoch
      /\ \A i, j \in 1..n : KeyAt(data, i) \in Nat /\ (i <= j => KeyAt(data, i) <= KeyAt(data, j))
  BY WholeFile
<1>2. /\ start \in 0..n
      /\ \A j \in 1..start : KeyAt(data, j) < key
      /\ \A j \in (start + 1)..n : KeyAt(data, j) >= key
  <2> HIDE DEF data, n
  <2>q. QED BY <1>1, SearchFinds
<1>3. Matches(data, key, epoch)
        = {i \in {i \in (start + 1)..n : \A j \in (start + 1)..i : KeyAt(data, j) = key} :
             data[1 + i].epoch = epoch}
  BY <1>1 DEF Matches
<1> HIDE DEF data, n, start
<1>4. ASSUME NEW i \in Matches(data, key, epoch)
      PROVE  i \in 1..n /\ s[i].key = key /\ s[i].epoch = epoch
  <2>1. i \in 1..n /\ i \in (start + 1)..i
    BY <1>1, <1>2, <1>3
  <2>2. KeyAt(data, i) = key /\ data[1 + i].epoch = epoch
    BY <1>3, <2>1
  <2>q. QED BY <1>1, <2>1, <2>2
<1>5. ASSUME NEW i \in 1..n, s[i].key = key, s[i].epoch = epoch
      PROVE  i \in Matches(data, key, epoch)
  <2>1. KeyAt(data, i) = key /\ data[1 + i].epoch = epoch
    BY <1>1, <1>5
  <2>2. i \notin 1..start
    BY <1>2, <2>1
  <2>3. i \in (start + 1)..n
    BY <1>1, <1>2, <2>2
  <2>4. ASSUME NEW j \in (start + 1)..i PROVE KeyAt(data, j) = key
    <3>1. j \in (start + 1)..n /\ j \in 1..n /\ j <= i
      BY <1>1, <1>2, <2>3
    <3>2. KeyAt(data, j) >= key /\ KeyAt(data, j) <= key /\ KeyAt(data, j) \in Nat
      BY <1>1, <1>2, <2>1, <3>1
    <3>q. QED BY <3>2
  <2>q. QED BY <1>3, <2>1, <2>3, <2>4
<1>q. QED BY <1>4, <1>5 DEF data, n

\* What a lookup in a whole file finds: a kept answer that is for the proof, or
\* nothing if none is.
LEMMA WholeLookup ==
    ASSUME PoolAssumption, SnapshotInv, Whole, NEW p \in Places
    PROVE  LET found == Lookup(p[1], p[2], p[3])
               own   == {i \in Kept(published) : <<i.key, i.epoch, i.kind>> = p}
           IN  IF found.hit THEN \E i \in own : found = Answer(i) ELSE own = {}
<1>1. PICK q \in Pool : p = <<q.key, q.epoch, q.kind>>
  BY DEF Places
<1> DEFINE key == p[1]
           epoch == p[2]
           kind == p[3]
           own == {i \in Kept(published) : <<i.key, i.epoch, i.kind>> = p}
           found == Lookup(key, epoch, kind)
<1>2. key = q.key /\ epoch = q.epoch /\ kind = q.kind /\ key \in Nat
  BY <1>1, PoolTypes
<1>3. PICK s \in hotSnapshotCandidates(published) : file = encodeHotSnapshot(s) /\ file # NoFile
  BY DEF Whole
<1>4. published \in SUBSET Pool /\ IsFiniteSet(published) /\ file \in Seq(Units(published))
  BY DEF SnapshotInv
<1>5. Kept(published) \in SUBSET published /\ \A i \in Kept(published) : Usable(i)
  BY DEF Kept, Usables, dedupeHotSnapshotCandidates
<1> DEFINE n == Len(s)
           M == Matches(file, key, epoch)
<1>6. M = {i \in 1..n : s[i].key = key /\ s[i].epoch = epoch}
  BY <1>2, <1>3, <1>4, WholeMatches
<1>7. /\ HeaderValid(file)
      /\ \A i \in 1..n :
            /\ s[i] \in Kept(published) /\ s[i] \in Pool
            /\ Read(file, file[1 + i], s[i].kind, Limit[s[i].kind]) = Answer(s[i])
  BY <1>3, <1>4, WholeFile
<1>8. found = IF key = 0 \/ epoch = 0 \/ M = {} THEN NoAnswer
              ELSE Read(file, file[1 + Min(M)], kind, Limit[kind])
  BY <1>3, <1>7, DecodeIs DEF Lookup
<1>9. ~NoAnswer.hit
  BY DEF NoAnswer
<1>10. CASE key = 0 \/ epoch = 0
  <2>1. ASSUME NEW i \in own PROVE FALSE
    <3>1. i \in Pool /\ Usable(i) /\ i.key = key /\ i.epoch = epoch
      BY <1>1, <1>2, <1>4, <1>5
    <3>q. QED BY <1>10, <3>1, UsableFits
  <2>q. QED BY <1>8, <1>9, <1>10, <2>1
<1>11. CASE M = {}
  <2>1. ASSUME NEW x \in own PROVE FALSE
    <3>1. x \in Kept(published) /\ x.key = key /\ x.epoch = epoch
      BY <1>1, <1>2
    <3>2. PICK i \in 1..n : s[i] = x
      BY <1>3, <1>4, <3>1, KeptPlaced
    <3>3. i \in M
      BY <1>6, <3>1, <3>2
    <3>q. QED BY <1>11, <3>3
  <2>2. ~found.hit
    <3> HIDE DEF found
    <3>q. QED BY <1>8, <1>9, <1>11
  <2>q. QED BY <2>1, <2>2
<1>12. CASE ~(key = 0 \/ epoch = 0) /\ M # {}
  <2> DEFINE m == Min(M)
  <2>1. m \in M
    BY <1>2, <1>4, <1>7, <1>12, FirstMatch
  <2> HIDE DEF m
  <2>2. m \in 1..n /\ s[m].key = key /\ s[m].epoch = epoch
    BY <1>6, <2>1
  <2>3. s[m] \in Kept(published) /\ s[m] \in Pool
    BY <1>7, <2>2
  <2>4. s[m].kind = kind
    BY <1>2, <2>2, <2>3 DEF PoolAssumption
  <2>5. Read(file, file[1 + m], kind, Limit[kind]) = Answer(s[m])
    BY <1>7, <2>2, <2>4
  <2>6. found = Answer(s[m])
    BY <1>8, <1>12, <2>5 DEF m
  <2>7. s[m] \in own
    BY <1>1, <1>2, <2>2, <2>3, <2>4
  <2>8. found.hit
    BY <2>6 DEF Answer
  <2> HIDE DEF found, own
  <2>q. QED BY <2>6, <2>7, <2>8 DEF found, own
<1>q. QED BY <1>10, <1>11, <1>12

LEMMA FoundExactHolds == ASSUME PoolAssumption PROVE SnapshotInv => FoundExact
<1> DEFINE fit == {i \in published : Usable(i)}
           best(i) == \A j \in fit : SameProof(i, j) /\ i # j => betterHotSnapshotCandidate(i, j)
           above(i) == {j \in fit : best(j) /\ Precedes(j, i)}
           own(p) == {i \in fit : <<i.key, i.epoch, i.kind>> = p}
<1>1. SUFFICES ASSUME SnapshotInv, Whole, NEW p \in Places
               PROVE  LET found == Lookup(p[1], p[2], p[3])
                      IN  IF found.hit
                          THEN \E i \in own(p) : best(i) /\ found = Answer(i)
                                                   /\ Cardinality(above(i)) < MaxEntries
                          ELSE \A i \in own(p) : best(i) => Cardinality(above(i)) >= MaxEntries
  BY DEF FoundExact
<1>2. published \in SUBSET Pool /\ IsFiniteSet(published) /\ MaxEntries \in Nat
  BY <1>1 DEF SnapshotInv, PoolAssumption
<1>3. Usables(published) = {i \in fit : best(i)}
  BY <1>2, UsablesAre
<1> HIDE DEF best
<1>4. \A i : above(i) = Above(published, i)
  BY <1>3 DEF Above
<1>5. \A i : IsFiniteSet(above(i)) /\ Cardinality(above(i)) \in Nat
  BY <1>2, FS_Subset, FS_CardinalityType
<1> HIDE DEF above
<1>6. Kept(published) = {i \in fit : best(i) /\ Cardinality(above(i)) < MaxEntries}
  BY <1>3, <1>4 DEF Kept
<1> DEFINE found == Lookup(p[1], p[2], p[3])
<1>7. IF found.hit
      THEN \E i \in {i \in Kept(published) : <<i.key, i.epoch, i.kind>> = p} : found = Answer(i)
      ELSE {i \in Kept(published) : <<i.key, i.epoch, i.kind>> = p} = {}
  BY <1>1, WholeLookup
<1> HIDE DEF found, fit
<1>8. CASE found.hit
  BY <1>6, <1>7, <1>8 DEF found
<1>9. CASE ~found.hit
  <2>1. ASSUME NEW i \in own(p), best(i), ~(Cardinality(above(i)) >= MaxEntries) PROVE FALSE
    <3>1. Cardinality(above(i)) < MaxEntries
      BY <1>2, <1>5, <2>1
    <3>2. i \in Kept(published)
      BY <1>6, <2>1, <3>1
    <3>q. QED BY <1>7, <1>9, <2>1, <3>2
  <2>q. QED BY <1>9, <2>1 DEF found
<1>q. QED BY <1>8, <1>9

(***************************************************************************)
(* In every behaviour.                                                     *)
(***************************************************************************)

\* Every variable keeps its type, and the file its bound.
THEOREM SnapshotTyped == ASSUME PoolAssumption PROVE Spec => []TypeOK
BY SnapshotInit, SnapshotNext, TypesHold, PTL DEF Spec

\* Whatever is left of a file, what is found in it was published for the very
\* proof that was asked about.
THEOREM AnswersOwnProof == ASSUME PoolAssumption PROVE Spec => []NeverAnother
BY SnapshotInit, SnapshotNext, NeverAnotherHolds, PTL DEF Spec

\* In a whole file the best usable answer for a proof is found, as it was
\* prepared, unless MaxEntries others precede it.
THEOREM BestIsFound == ASSUME PoolAssumption PROVE Spec => []FoundExact
BY SnapshotInit, SnapshotNext, FoundExactHolds, PTL DEF Spec
=============================================================================
