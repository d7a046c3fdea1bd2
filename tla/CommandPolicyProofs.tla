------------------------- MODULE CommandPolicyProofs -------------------------
(***************************************************************************)
(* Which command lines may be answered, for any words and any number of    *)
(* them: only lines that look, and each understood as its program reads    *)
(* it.  A scan of a line and a walk of a path are computed round by round; *)
(* the proofs go through two scans side by side, the policy's and the      *)
(* program's, and say after each round what the two have in common.        *)
(***************************************************************************)
EXTENDS CommandPolicy, FiniteSetTheorems, WellFoundedInduction, TLAPS

(***************************************************************************)
(* Numbers.                                                                *)
(***************************************************************************)

\* A set of numbers that is not empty has a least one.
LEMMA Least == ASSUME NEW T \in SUBSET Nat, T # {} PROVE \E n \in T : \A m \in T : n <= m
<1> DEFINE R == {p \in Nat \X Nat : p[1] < p[2]}
<1>1. IsWellFoundedOn(R, Nat)
  BY NatLessThanWellFounded DEF OpToRel
<1>2. ASSUME NEW m \in Nat, NEW n \in Nat, m < n PROVE <<m, n>> \in R
  BY <1>2
<1> HIDE DEF R
<1>3. PICK n \in T : \A m \in T : <<m, n>> \notin R
  BY <1>1, WFMin
<1>4. ASSUME NEW m \in T PROVE n <= m
  <2>1. m \in Nat /\ n \in Nat
    OBVIOUS
  <2>2. ~(m < n)
    BY <1>2, <1>3, <2>1
  <2>q. QED BY <2>1, <2>2
<1>q. QED BY <1>4

\* Induction, over a set of numbers.
LEMMA Induction ==
    ASSUME NEW S \in SUBSET Nat, 0 \in S, \A n \in S : n + 1 \in S PROVE S = Nat
<1> DEFINE T == Nat \ S
<1>1. ASSUME T # {} PROVE FALSE
  <2>1. PICK n \in T : \A m \in T : n <= m
    <3> HIDE DEF T
    <3>1. T \in SUBSET Nat
      BY DEF T
    <3>q. QED BY <1>1, <3>1, Least
  <2>2. n \in Nat /\ n # 0
    OBVIOUS
  <2>3. n - 1 \in Nat /\ n - 1 \notin T
    BY <2>1, <2>2
  <2>4. n - 1 + 1 = n
    BY <2>2
  <2>q. QED BY <2>3, <2>4
<1>q. QED BY <1>1

(***************************************************************************)
(* A computation of n rounds: where each round leads is given by next.     *)
(***************************************************************************)
Goes(f, V, first, n, next) ==
    f \in [0..n -> V] /\ f[0] = first /\ \A i \in 1..n : f[i] = next[<<i, f[i - 1]>>]

\* Every computation of n rounds can be carried out.
LEMMA Rounds ==
    ASSUME NEW V, NEW first \in V, NEW n \in Nat, NEW next \in [(1..n) \X V -> V]
    PROVE  \E f : Goes(f, V, first, n, next)
<1> DEFINE Computes(f, k) == f[0] = first /\ \A i \in 1..k : f[i] = next[<<i, f[i - 1]>>]
           S == {k \in Nat : k <= n => \E f \in [0..k -> V] : Computes(f, k)}
<1>1. 0 \in S
  <2>1. [i \in 0..0 |-> first] \in [0..0 -> V] /\ Computes([i \in 0..0 |-> first], 0)
    OBVIOUS
  <2>q. QED BY <2>1
<1>2. ASSUME NEW k \in S PROVE k + 1 \in S
  <2> DEFINE Holds(m) == \E f \in [0..m -> V] : Computes(f, m)
  <2>0. k \in Nat /\ k + 1 \in Nat /\ (k <= n => Holds(k)) /\ (k + 1 \in S <=> (k + 1 <= n => Holds(k + 1)))
    <3> HIDE DEF Holds, Computes
    <3>q. QED BY DEF Holds
  <2>1. SUFFICES ASSUME k + 1 <= n PROVE Holds(k + 1)
    BY <2>0
  <2>2. PICK f \in [0..k -> V] : Computes(f, k)
    BY <2>0, <2>1
  <2> DEFINE g == [i \in 0..(k + 1) |-> IF i = k + 1 THEN next[<<k + 1, f[k]>>] ELSE f[i]]
  <2>3. f[k] \in V /\ next[<<k + 1, f[k]>>] \in V
    BY <2>0, <2>1
  <2>4. g \in [0..(k + 1) -> V]
    BY <2>0, <2>3
  <2>5. g[0] = first
    BY <2>0, <2>2
  <2>6. ASSUME NEW i \in 1..(k + 1) PROVE g[i] = next[<<i, g[i - 1]>>]
    <3>1. CASE i = k + 1
      BY <2>0, <3>1
    <3>2. CASE i # k + 1
      <4>1. i \in 1..k /\ i \in 0..k /\ i - 1 \in 0..k /\ i - 1 # k + 1
        BY <2>0, <3>2
      <4>2. g[i] = f[i] /\ g[i - 1] = f[i - 1]
        BY <2>0, <4>1
      <4>q. QED BY <2>2, <4>1, <4>2
    <3>q. QED BY <3>1, <3>2
  <2>7. Computes(g, k + 1)
    BY <2>5, <2>6
  <2> HIDE DEF g, Computes
  <2>q. QED BY <2>4, <2>7
<1>3. S = Nat
  <2>1. S \in SUBSET Nat
    OBVIOUS
  <2> HIDE DEF S
  <2>q. QED BY <1>1, <1>2, <2>1, Induction
<1>4. n \in S
  <2> HIDE DEF S
  <2>q. QED BY <1>3
<1>q. QED BY <1>4 DEF Goes

(***************************************************************************)
(* The scans of a command line and of a path are computations in rounds.   *)
(***************************************************************************)

\* What each round computes is a state if what it computes from is one.
LEMMA Computed ==
    ASSUME NEW V, NEW first \in V, NEW n \in Nat, NEW next \in [(1..n) \X V -> V], NEW g,
           g[0] = first, \A i \in 1..n : g[i - 1] \in V => g[i] = next[<<i, g[i - 1]>>]
    PROVE  \A i \in 0..n : g[i] \in V
<1> DEFINE S == {k \in Nat : k <= n => g[k] \in V}
<1>1. 0 \in S
  OBVIOUS
<1>2. ASSUME NEW k \in S PROVE k + 1 \in S
  <2>1. k \in Nat /\ k + 1 \in Nat /\ (k <= n => g[k] \in V)
    OBVIOUS
  <2>2. ASSUME k + 1 <= n PROVE g[k + 1] \in V
    <3>1. k + 1 \in 1..n /\ k + 1 - 1 = k /\ g[k] \in V
      BY <2>1, <2>2
    <3>2. g[k + 1] = next[<<k + 1, g[k]>>] /\ <<k + 1, g[k]>> \in (1..n) \X V
      BY <3>1
    <3>q. QED BY <3>2
  <2>q. QED BY <2>1, <2>2
<1>3. S = Nat
  <2>1. S \in SUBSET Nat
    OBVIOUS
  <2> HIDE DEF S
  <2>q. QED BY <1>1, <1>2, <2>1, Induction
<1>q. QED BY <1>3

\* Texts are strings: said so that it can be seen that these are some.
Texts   == STRING \cup {"", "/", "r", ".", "git"}
Spelled == [flag : Texts, val : Texts]

LEMMA SomeTexts == "" \in Texts /\ "/" \in Texts /\ "r" \in Texts /\ "git" \in Texts
BY DEF Texts

LEMMA Wider == ASSUME NEW S, NEW T, S \subseteq T, NEW s \in Seq(S) PROVE s \in Seq(T)
OBVIOUS

LEMMA StringsAreTexts == STRING \subseteq Texts
BY DEF Texts

LEMMA WordsAreSpelled == ASSUME NEW line \in Seq(Word) PROVE line \in Seq(Spelled)
<1>1. Word \subseteq Spelled
  BY StringsAreTexts DEF Word, Spelled
<1>q. QED BY <1>1, Wider

LEMMA Empties == ASSUME NEW S PROVE <<>> \in Seq(S) /\ {} \in SUBSET S
OBVIOUS

LEMMA Longer ==
    ASSUME NEW S, NEW s \in Seq(S), NEW v \in S PROVE Append(s, v) \in Seq(S) /\ <<v>> \in Seq(S)
OBVIOUS

LEMMA Couple == ASSUME NEW S, NEW a \in S, NEW b \in S PROVE <<a, b>> \in Seq(S)
OBVIOUS

Parts     == Seq(Texts)
OptState  == [want : Texts, options : SUBSET (Texts \X Texts), operands : Seq(Texts)]
RgState   == [ok : BOOLEAN, want : Texts, pattern : Seq(Texts), paths : Seq(Texts)]
GitState  == [ok : BOOLEAN, want : Texts, cwd : Parts, rest : Seq(Spelled)]
ReadState == [ok : BOOLEAN, want : Texts, cwd : Parts, config : SUBSET Texts, words : Seq(Spelled)]

OptBegin  == [want |-> "", options |-> {}, operands |-> <<>>]
RgBegin   == [ok |-> TRUE, want |-> "", pattern |-> <<>>, paths |-> <<>>]
GitBegin  == [ok |-> TRUE, want |-> "", cwd |-> Root, rest |-> <<>>]
ReadBegin == [ok |-> TRUE, want |-> "", cwd |-> Root, config |-> {}, words |-> <<>>]

RgParsed(line, end) ==
    [end EXCEPT !.ok = end.ok /\ Name(line) = "rg" /\ end.want = "" /\ end.paths # <<>>]

GitNormalized(line, end) ==
    IF end.ok /\ end.want = ""
    THEN Invocation(<<W("git")>> \o end.rest, end.cwd, TRUE)
    ELSE Invocation(line, Root, FALSE)

GitUnderstood(end) == [end EXCEPT !.ok = end.ok /\ end.want = ""]

LEMMA WordTypes ==
    ASSUME NEW w \in Spelled
    PROVE  /\ w.flag \in Texts /\ w.val \in Texts /\ Text(w) \in Texts
           /\ w = [flag |-> w.flag, val |-> w.val]
BY DEF Spelled, Text

LEMMA PathTypes ==
    ASSUME PolicyAssumption, NEW val \in Texts
    PROVE  /\ PathOf(val) \in Parts
           /\ \A i \in 2..Len(PathOf(val)) : PathOf(val)[i] # "/"
<1>1. CASE val = ""
  <2>1. PathOf(val) = <<>>
    BY <1>1 DEF PathOf
  <2>q. QED BY <2>1, Empties DEF Parts
<1>2. CASE val # "" /\ val \in DOMAIN Paths
  <2>1. Paths[val] \in Seq(STRING) /\ \A i \in 2..Len(Paths[val]) : Paths[val][i] # "/"
    BY <1>2 DEF PolicyAssumption
  <2>2. Paths[val] \in Parts
    BY <2>1, StringsAreTexts, Wider DEF Parts
  <2>q. QED BY <1>2, <2>1, <2>2 DEF PathOf
<1>3. CASE val # "" /\ val \notin DOMAIN Paths
  <2>1. PathOf(val) = <<val>>
    BY <1>3 DEF PathOf
  <2>q. QED BY <2>1 DEF Parts
<1>q. QED BY <1>1, <1>2, <1>3

LEMMA CleanStarts == <<>> \in Parts
BY DEF Parts

LEMMA CleanSteps == ASSUME NEW done \in Parts, NEW p \in Texts PROVE Cleaned(done, p) \in Parts
<1>1. CASE done = <<>>
  BY <1>1 DEF Cleaned, Parts
<1>2. CASE done # <<>>
  <2>1. Len(done) - 1 \in 0..Len(done)
    BY <1>2 DEF Parts
  <2>2. SubSeq(done, 1, Len(done) - 1) \in Parts
    BY <2>1 DEF Parts
  <2>q. QED BY <2>2 DEF Cleaned, Parts
<1>q. QED BY <1>1, <1>2

CleanRecursion(parts, f) ==
    f = [i \in 0..Len(parts) |-> IF i = 0 THEN <<>> ELSE Cleaned(f[i - 1], parts[i])]

\* filepath.Clean: there is a function of its rounds, as its recursion asks.
LEMMA SomeClean ==
    ASSUME NEW parts \in Parts
    PROVE  \E f : CleanRecursion(parts, f)
<1> DEFINE n == Len(parts)
           V == Parts
           next == [p \in (1..n) \X V |-> Cleaned(p[2], parts[p[1]])]
<1>0. n \in Nat
  BY DEF Parts
<1>1. <<>> \in V
  BY CleanStarts
<1>2. next \in [(1..n) \X V -> V]
  <2>1. \A i \in 1..n : parts[i] \in Texts
    BY DEF Parts
  <2> HIDE DEF n
  <2>q. QED BY <1>0, <2>1, CleanSteps
<1>3. PICK f : Goes(f, V, <<>>, n, next)
  <2> HIDE DEF V, next, n
  <2>q. QED BY <1>0, <1>1, <1>2, Rounds
<1>4. ASSUME NEW i \in 0..n
      PROVE  f[i] = IF i = 0 THEN <<>> ELSE Cleaned(f[i - 1], parts[i])
  <2>1. CASE i = 0
    BY <1>3, <2>1 DEF Goes
  <2>2. CASE i # 0
    <3>1. <<i, f[i - 1]>> \in (1..n) \X V
      BY <1>0, <1>3, <2>2 DEF Goes
    <3>2. next[<<i, f[i - 1]>>] = Cleaned(f[i - 1], parts[i])
      BY <3>1
    <3> HIDE DEF next, V
    <3>3. f[i] = next[<<i, f[i - 1]>>]
      BY <1>0, <1>3, <2>2 DEF Goes
    <3>q. QED BY <2>2, <3>2, <3>3
  <2>q. QED BY <2>1, <2>2
<1>5. f = [i \in 0..n |-> IF i = 0 THEN <<>> ELSE Cleaned(f[i - 1], parts[i])]
  BY <1>3, <1>4 DEF Goes
<1>q. QED BY <1>5 DEF CleanRecursion

\* filepath.Clean, round by round: what the CHOOSE of its recursion picks is it.
LEMMA CleanRuns ==
    ASSUME NEW parts \in Parts
    PROVE  \E s \in [0..Len(parts) -> Parts] :
              /\ s[0] = <<>>
              /\ \A i \in 1..Len(parts) : s[i] = Cleaned(s[i - 1], parts[i])
              /\ Clean(parts) = s[Len(parts)]
<1> DEFINE n == Len(parts)
           V == Parts
           s == CHOOSE f : CleanRecursion(parts, f)
           next == [p \in (1..n) \X V |-> Cleaned(p[2], parts[p[1]])]
<1>0. n \in Nat
  BY DEF Parts
<1>1. CleanRecursion(parts, s)
  BY SomeClean
<1>2. Clean(parts) = s[n]
  BY DEF Clean, CleanRecursion
<1> HIDE DEF s
<1>3. /\ s[0] = <<>> /\ DOMAIN s = 0..n /\ s = [i \in 0..n |-> s[i]]
      /\ \A i \in 1..n : s[i] = Cleaned(s[i - 1], parts[i])
  <2>1. s = [i \in 0..n |-> IF i = 0 THEN <<>> ELSE Cleaned(s[i - 1], parts[i])]
    BY <1>1 DEF CleanRecursion
  <2> HIDE DEF n
  <2>2. DOMAIN s = 0..n /\ s = [i \in 0..n |-> s[i]]
    BY <2>1
  <2>3. s[0] = <<>>
    BY <1>0, <2>1
  <2>4. ASSUME NEW i \in 1..n PROVE s[i] = Cleaned(s[i - 1], parts[i])
    <3>1. i \in 0..n /\ i # 0
      BY <1>0
    <3>q. QED BY <2>1, <3>1
  <2>q. QED BY <2>2, <2>3, <2>4
<1>4. <<>> \in V
  BY CleanStarts
<1>5. next \in [(1..n) \X V -> V]
  <2>1. \A i \in 1..n : parts[i] \in Texts
    BY DEF Parts
  <2> HIDE DEF n
  <2>q. QED BY <1>0, <2>1, CleanSteps
<1>6. ASSUME NEW i \in 1..n, s[i - 1] \in V PROVE s[i] = next[<<i, s[i - 1]>>]
  BY <1>3, <1>6
<1>7. \A i \in 0..n : s[i] \in V
  <2> HIDE DEF V, next, n
  <2>q. QED BY <1>0, <1>3, <1>4, <1>5, <1>6, Computed
<1>8. s \in [0..n -> V]
  <2> HIDE DEF V, n
  <2>q. QED BY <1>3, <1>7
<1>q. QED BY <1>2, <1>3, <1>8

LEMMA WalkSteps == ASSUME NEW at \in Parts, NEW p \in Texts PROVE Entered(at, p) \in Parts
<1>1. CASE Len(at) > 1
  <2>1. Len(at) - 1 \in 0..Len(at)
    BY <1>1 DEF Parts
  <2>2. SubSeq(at, 1, Len(at) - 1) \in Parts
    BY <2>1 DEF Parts
  <2>q. QED BY <2>2 DEF Entered, Parts
<1>2. CASE ~(Len(at) > 1)
  BY <1>2 DEF Entered, Parts
<1>q. QED BY <1>1, <1>2

WalkRecursion(cwd, parts, f) ==
    f = [i \in 0..Len(parts) |-> IF i = 0 THEN cwd ELSE Entered(f[i - 1], parts[i])]

\* A walk: there is a function of its rounds.
LEMMA SomeWalk ==
    ASSUME NEW cwd \in Parts, NEW parts \in Parts
    PROVE  \E f : WalkRecursion(cwd, parts, f)
<1> DEFINE n == Len(parts)
           V == Parts
           next == [p \in (1..n) \X V |-> Entered(p[2], parts[p[1]])]
<1>0. n \in Nat
  BY DEF Parts
<1>1. cwd \in V
  OBVIOUS
<1>2. next \in [(1..n) \X V -> V]
  <2>1. \A i \in 1..n : parts[i] \in Texts
    BY DEF Parts
  <2> HIDE DEF n
  <2>q. QED BY <1>0, <2>1, WalkSteps
<1>3. PICK f : Goes(f, V, cwd, n, next)
  <2> HIDE DEF V, next, n
  <2>q. QED BY <1>0, <1>1, <1>2, Rounds
<1>4. ASSUME NEW i \in 0..n
      PROVE  f[i] = IF i = 0 THEN cwd ELSE Entered(f[i - 1], parts[i])
  <2>1. CASE i = 0
    BY <1>3, <2>1 DEF Goes
  <2>2. CASE i # 0
    <3>1. <<i, f[i - 1]>> \in (1..n) \X V
      BY <1>0, <1>3, <2>2 DEF Goes
    <3>2. next[<<i, f[i - 1]>>] = Entered(f[i - 1], parts[i])
      BY <3>1
    <3> HIDE DEF next, V
    <3>3. f[i] = next[<<i, f[i - 1]>>]
      BY <1>0, <1>3, <2>2 DEF Goes
    <3>q. QED BY <2>2, <3>2, <3>3
  <2>q. QED BY <2>1, <2>2
<1>5. f = [i \in 0..n |-> IF i = 0 THEN cwd ELSE Entered(f[i - 1], parts[i])]
  BY <1>3, <1>4 DEF Goes
<1>q. QED BY <1>5 DEF WalkRecursion

\* A walk, round by round.
LEMMA WalkRuns ==
    ASSUME NEW cwd \in Parts, NEW parts \in Parts
    PROVE  \E s \in [0..Len(parts) -> Parts] :
              /\ s[0] = cwd
              /\ \A i \in 1..Len(parts) : s[i] = Entered(s[i - 1], parts[i])
              /\ Walk(cwd, parts) = s[Len(parts)]
<1> DEFINE n == Len(parts)
           V == Parts
           s == CHOOSE f : WalkRecursion(cwd, parts, f)
           next == [p \in (1..n) \X V |-> Entered(p[2], parts[p[1]])]
<1>0. n \in Nat
  BY DEF Parts
<1>1. WalkRecursion(cwd, parts, s)
  BY SomeWalk
<1>2. Walk(cwd, parts) = s[n]
  BY DEF Walk, WalkRecursion
<1> HIDE DEF s
<1>3. /\ s[0] = cwd /\ DOMAIN s = 0..n /\ s = [i \in 0..n |-> s[i]]
      /\ \A i \in 1..n : s[i] = Entered(s[i - 1], parts[i])
  <2>1. s = [i \in 0..n |-> IF i = 0 THEN cwd ELSE Entered(s[i - 1], parts[i])]
    BY <1>1 DEF WalkRecursion
  <2> HIDE DEF n
  <2>2. DOMAIN s = 0..n /\ s = [i \in 0..n |-> s[i]]
    BY <2>1
  <2>3. s[0] = cwd
    BY <1>0, <2>1
  <2>4. ASSUME NEW i \in 1..n PROVE s[i] = Entered(s[i - 1], parts[i])
    <3>1. i \in 0..n /\ i # 0
      BY <1>0
    <3>q. QED BY <2>1, <3>1
  <2>q. QED BY <2>2, <2>3, <2>4
<1>4. cwd \in V
  OBVIOUS
<1>5. next \in [(1..n) \X V -> V]
  <2>1. \A i \in 1..n : parts[i] \in Texts
    BY DEF Parts
  <2> HIDE DEF n
  <2>q. QED BY <1>0, <2>1, WalkSteps
<1>6. ASSUME NEW i \in 1..n, s[i - 1] \in V PROVE s[i] = next[<<i, s[i - 1]>>]
  BY <1>3, <1>6
<1>7. \A i \in 0..n : s[i] \in V
  <2> HIDE DEF V, next, n
  <2>q. QED BY <1>0, <1>3, <1>4, <1>5, <1>6, Computed
<1>8. s \in [0..n -> V]
  <2> HIDE DEF V, n
  <2>q. QED BY <1>3, <1>7
<1>q. QED BY <1>2, <1>3, <1>8

LEMMA CleanTyped == ASSUME NEW parts \in Parts PROVE Clean(parts) \in Parts
<1>1. PICK s \in [0..Len(parts) -> Parts] : Clean(parts) = s[Len(parts)]
  BY CleanRuns
<1>q. QED BY <1>1 DEF Parts

LEMMA WalkTyped ==
    ASSUME NEW cwd \in Parts, NEW parts \in Parts PROVE Walk(cwd, parts) \in Parts
<1>1. PICK s \in [0..Len(parts) -> Parts] : Walk(cwd, parts) = s[Len(parts)]
  BY WalkRuns
<1>q. QED BY <1>1 DEF Parts

LEMMA OptStarts == OptBegin \in OptState
BY SomeTexts, Empties, Zenon DEF OptBegin, OptState

LEMMA OptSteps ==
    ASSUME NEW s \in OptState, NEW w \in Spelled, NEW valued PROVE Option(valued, s, w) \in OptState
<1>1. /\ w.flag \in Texts /\ w.val \in Texts /\ Text(w) \in Texts /\ "" \in Texts
      /\ s.want \in Texts
  BY WordTypes, SomeTexts DEF OptState
<1>2. /\ s.options \cup {<<s.want, Text(w)>>} \in SUBSET (Texts \X Texts)
      /\ s.options \cup {<<w.flag, w.val>>} \in SUBSET (Texts \X Texts)
  <2>1. s.options \in SUBSET (Texts \X Texts)
    BY DEF OptState
  <2>a. s.want \in Texts /\ Text(w) \in Texts
    BY <1>1
  <2>b. w.flag \in Texts /\ w.val \in Texts
    BY <1>1
  <2>2. s.options \cup {<<s.want, Text(w)>>} \in SUBSET (Texts \X Texts)
    BY <2>a, <2>1
  <2>3. s.options \cup {<<w.flag, w.val>>} \in SUBSET (Texts \X Texts)
    BY <2>b, <2>1
  <2>q. QED BY <2>2, <2>3
<1>3. Append(s.operands, w.val) \in Seq(Texts)
  <2>1. s.operands \in Seq(Texts)
    BY DEF OptState
  <2>q. QED BY <1>1, <2>1, Longer, Zenon
<1>q. QED BY <1>1, <1>2, <1>3 DEF Option, OptState

OptRecursion(line, f) ==
    f = [i \in 0..Len(line) - 1 |-> IF i = 0 THEN OptBegin ELSE Option(ValueFlags(Name(line)), f[i - 1], line[i + 1])]

\* Options and operands of a line: there is a function of the rounds.
LEMMA SomeOpt ==
    ASSUME NEW line \in Seq(Spelled), line # <<>>
    PROVE  \E f : OptRecursion(line, f)
<1> DEFINE n == Len(line) - 1
           V == OptState
           next == [p \in (1..n) \X V |-> Option(ValueFlags(Name(line)), p[2], line[p[1] + 1])]
<1>0. n \in Nat
  OBVIOUS
<1>1. OptBegin \in V
  BY OptStarts
<1>2. next \in [(1..n) \X V -> V]
  BY <1>0, OptSteps
<1>3. PICK f : Goes(f, V, OptBegin, n, next)
  <2> HIDE DEF V, next, n
  <2>q. QED BY <1>0, <1>1, <1>2, Rounds
<1>4. ASSUME NEW i \in 0..n
      PROVE  f[i] = IF i = 0 THEN OptBegin ELSE Option(ValueFlags(Name(line)), f[i - 1], line[i + 1])
  <2>1. CASE i = 0
    BY <1>3, <2>1 DEF Goes
  <2>2. CASE i # 0
    <3>1. <<i, f[i - 1]>> \in (1..n) \X V
      BY <1>0, <1>3, <2>2 DEF Goes
    <3>2. next[<<i, f[i - 1]>>] = Option(ValueFlags(Name(line)), f[i - 1], line[i + 1])
      BY <3>1
    <3> HIDE DEF next, V
    <3>3. f[i] = next[<<i, f[i - 1]>>]
      BY <1>0, <1>3, <2>2 DEF Goes
    <3>q. QED BY <2>2, <3>2, <3>3
  <2>q. QED BY <2>1, <2>2
<1>5. f = [i \in 0..n |-> IF i = 0 THEN OptBegin ELSE Option(ValueFlags(Name(line)), f[i - 1], line[i + 1])]
  BY <1>3, <1>4 DEF Goes
<1>q. QED BY <1>5 DEF OptRecursion

\* Options and operands of a line, word by word.
LEMMA OptRuns ==
    ASSUME NEW line \in Seq(Spelled), line # <<>>
    PROVE  \E s \in [0..Len(line) - 1 -> OptState] :
              /\ s[0] = OptBegin
              /\ \A i \in 1..Len(line) - 1 : s[i] = Option(ValueFlags(Name(line)), s[i - 1], line[i + 1])
              /\ Getopt(line) = s[Len(line) - 1]
<1> DEFINE n == Len(line) - 1
           V == OptState
           s == CHOOSE f : OptRecursion(line, f)
           next == [p \in (1..n) \X V |-> Option(ValueFlags(Name(line)), p[2], line[p[1] + 1])]
<1>0. n \in Nat
  OBVIOUS
<1>1. OptRecursion(line, s)
  BY SomeOpt
<1>2. Getopt(line) = s[n]
  BY DEF Getopt, OptRecursion, OptBegin
<1> HIDE DEF s
<1>3. /\ s[0] = OptBegin /\ DOMAIN s = 0..n /\ s = [i \in 0..n |-> s[i]]
      /\ \A i \in 1..n : s[i] = Option(ValueFlags(Name(line)), s[i - 1], line[i + 1])
  <2>1. s = [i \in 0..n |-> IF i = 0 THEN OptBegin ELSE Option(ValueFlags(Name(line)), s[i - 1], line[i + 1])]
    BY <1>1 DEF OptRecursion
  <2> HIDE DEF n
  <2>2. DOMAIN s = 0..n /\ s = [i \in 0..n |-> s[i]]
    BY <2>1
  <2>3. s[0] = OptBegin
    BY <1>0, <2>1
  <2>4. ASSUME NEW i \in 1..n PROVE s[i] = Option(ValueFlags(Name(line)), s[i - 1], line[i + 1])
    <3>1. i \in 0..n /\ i # 0
      BY <1>0
    <3>q. QED BY <2>1, <3>1
  <2>q. QED BY <2>2, <2>3, <2>4
<1>4. OptBegin \in V
  BY OptStarts
<1>5. next \in [(1..n) \X V -> V]
  BY <1>0, OptSteps
<1>6. ASSUME NEW i \in 1..n, s[i - 1] \in V PROVE s[i] = next[<<i, s[i - 1]>>]
  BY <1>3, <1>6
<1>7. \A i \in 0..n : s[i] \in V
  <2> HIDE DEF V, next, n
  <2>q. QED BY <1>0, <1>3, <1>4, <1>5, <1>6, Computed
<1>8. s \in [0..n -> V]
  <2> HIDE DEF V, n
  <2>q. QED BY <1>3, <1>7
<1>q. QED BY <1>2, <1>3, <1>8

LEMMA RgStarts == RgBegin \in RgState
BY SomeTexts, Empties, Zenon DEF RgBegin, RgState

LEMMA RgSteps == ASSUME NEW s \in RgState, NEW w \in Spelled PROVE RgWord(s, w) \in RgState
<1>1. w.flag \in Texts /\ w.val \in Texts /\ "" \in Texts
  BY WordTypes, SomeTexts
<1>2. Append(s.paths, w.val) \in Seq(Texts) /\ <<w.val>> \in Seq(Texts)
  <2>1. s.paths \in Seq(Texts)
    BY DEF RgState
  <2>q. QED BY <1>1, <2>1, Longer, Zenon
<1>3. /\ ValidRgValue(s.want, Text(w)) \in BOOLEAN /\ ValidRgValue(w.flag, w.val) \in BOOLEAN
      /\ Searched(w) \in BOOLEAN
  <2>1. \A flag, val : ValidRgValue(flag, val) \in BOOLEAN
    BY DEF ValidRgValue
  <2>2. Searched(w) \in BOOLEAN
    BY DEF Searched
  <2>q. QED BY <2>1, <2>2
<1> HIDE DEF Texts
<1>q. QED BY <1>1, <1>2, <1>3 DEF RgWord, RgState

RgRecursion(line, f) ==
    f = [i \in 0..Len(line) - 1 |-> IF i = 0 THEN RgBegin ELSE RgWord(f[i - 1], line[i + 1])]

\* The policy's scan of a search: there is a function of its rounds.
LEMMA SomeRg ==
    ASSUME NEW line \in Seq(Spelled), line # <<>>
    PROVE  \E f : RgRecursion(line, f)
<1> DEFINE n == Len(line) - 1
           V == RgState
           next == [p \in (1..n) \X V |-> RgWord(p[2], line[p[1] + 1])]
<1>0. n \in Nat
  OBVIOUS
<1>1. RgBegin \in V
  BY RgStarts
<1>2. next \in [(1..n) \X V -> V]
  BY <1>0, RgSteps
<1>3. PICK f : Goes(f, V, RgBegin, n, next)
  <2> HIDE DEF V, next, n
  <2>q. QED BY <1>0, <1>1, <1>2, Rounds
<1>4. ASSUME NEW i \in 0..n
      PROVE  f[i] = IF i = 0 THEN RgBegin ELSE RgWord(f[i - 1], line[i + 1])
  <2>1. CASE i = 0
    BY <1>3, <2>1 DEF Goes
  <2>2. CASE i # 0
    <3>1. <<i, f[i - 1]>> \in (1..n) \X V
      BY <1>0, <1>3, <2>2 DEF Goes
    <3>2. next[<<i, f[i - 1]>>] = RgWord(f[i - 1], line[i + 1])
      BY <3>1
    <3> HIDE DEF next, V
    <3>3. f[i] = next[<<i, f[i - 1]>>]
      BY <1>0, <1>3, <2>2 DEF Goes
    <3>q. QED BY <2>2, <3>2, <3>3
  <2>q. QED BY <2>1, <2>2
<1>5. f = [i \in 0..n |-> IF i = 0 THEN RgBegin ELSE RgWord(f[i - 1], line[i + 1])]
  BY <1>3, <1>4 DEF Goes
<1>q. QED BY <1>5 DEF RgRecursion

\* The policy's scan of a search, word by word.
LEMMA RgRuns ==
    ASSUME NEW line \in Seq(Spelled), line # <<>>
    PROVE  \E s \in [0..Len(line) - 1 -> RgState] :
              /\ s[0] = RgBegin
              /\ \A i \in 1..Len(line) - 1 : s[i] = RgWord(s[i - 1], line[i + 1])
              /\ parseBoundedRgRepoArgs(line) = RgParsed(line, s[Len(line) - 1])
<1> DEFINE n == Len(line) - 1
           V == RgState
           s == CHOOSE f : RgRecursion(line, f)
           next == [p \in (1..n) \X V |-> RgWord(p[2], line[p[1] + 1])]
<1>0. n \in Nat
  OBVIOUS
<1>1. RgRecursion(line, s)
  BY SomeRg
<1>2. parseBoundedRgRepoArgs(line) = RgParsed(line, s[n])
  BY DEF parseBoundedRgRepoArgs, RgRecursion, RgBegin, RgParsed
<1> HIDE DEF s
<1>3. /\ s[0] = RgBegin /\ DOMAIN s = 0..n /\ s = [i \in 0..n |-> s[i]]
      /\ \A i \in 1..n : s[i] = RgWord(s[i - 1], line[i + 1])
  <2>1. s = [i \in 0..n |-> IF i = 0 THEN RgBegin ELSE RgWord(s[i - 1], line[i + 1])]
    BY <1>1 DEF RgRecursion
  <2> HIDE DEF n
  <2>2. DOMAIN s = 0..n /\ s = [i \in 0..n |-> s[i]]
    BY <2>1
  <2>3. s[0] = RgBegin
    BY <1>0, <2>1
  <2>4. ASSUME NEW i \in 1..n PROVE s[i] = RgWord(s[i - 1], line[i + 1])
    <3>1. i \in 0..n /\ i # 0
      BY <1>0
    <3>q. QED BY <2>1, <3>1
  <2>q. QED BY <2>2, <2>3, <2>4
<1>4. RgBegin \in V
  BY RgStarts
<1>5. next \in [(1..n) \X V -> V]
  BY <1>0, RgSteps
<1>6. ASSUME NEW i \in 1..n, s[i - 1] \in V PROVE s[i] = next[<<i, s[i - 1]>>]
  BY <1>3, <1>6
<1>7. \A i \in 0..n : s[i] \in V
  <2> HIDE DEF V, next, n
  <2>q. QED BY <1>0, <1>3, <1>4, <1>5, <1>6, Computed
<1>8. s \in [0..n -> V]
  <2> HIDE DEF V, n
  <2>q. QED BY <1>3, <1>7
<1>q. QED BY <1>2, <1>3, <1>8

LEMMA RootTyped == Root \in Parts
<1>1. <<"/", "r">> \in Seq(Texts)
  BY SomeTexts, Couple
<1>q. QED BY <1>1 DEF Root, Parts

LEMMA ResolveTyped ==
    ASSUME PolicyAssumption, NEW cwd \in Parts, NEW value \in Texts
    PROVE  resolveGitCWD(cwd, value) \in Parts
<1>1. PathOf(value) \in Parts /\ cwd \o PathOf(value) \in Parts
  BY PathTypes DEF Parts
<1>q. QED BY <1>1, CleanTyped DEF resolveGitCWD

LEMMA GitStarts == GitBegin \in GitState
BY RootTyped, SomeTexts, Empties, Zenon DEF GitBegin, GitState

LEMMA ValuedTyped ==
    ASSUME PolicyAssumption, NEW s \in GitState, NEW flag \in Texts, NEW value \in Texts
    PROVE  Valued(s, flag, value) \in GitState
<1>1. resolveGitCWD(s.cwd, value) \in Parts
  BY ResolveTyped DEF GitState
<1>q. QED BY <1>1 DEF Valued, GitState

LEMMA GitSteps ==
    ASSUME PolicyAssumption, NEW s \in GitState, NEW w \in Spelled
    PROVE  GitOption(s, w) \in GitState
<1>1. [s EXCEPT !.want = ""] \in GitState /\ s.want \in Texts
  BY SomeTexts DEF GitState
<1>2. /\ Valued([s EXCEPT !.want = ""], s.want, Text(w)) \in GitState
      /\ Valued(s, w.flag, w.val) \in GitState
  BY <1>1, WordTypes, ValuedTyped
<1>3. /\ [s EXCEPT !.rest = Append(s.rest, w)] \in GitState
      /\ [s EXCEPT !.rest = <<w>>] \in GitState
      /\ [s EXCEPT !.want = w.flag] \in GitState
  <2>1. w.flag \in Texts
    BY WordTypes
  <2>2. Append(s.rest, w) \in Seq(Spelled) /\ <<w>> \in Seq(Spelled)
    BY DEF GitState
  <2>q. QED BY <2>1, <2>2 DEF GitState
<1>q. QED BY <1>2, <1>3 DEF GitOption

GitRecursion(line, f) ==
    f = [i \in 0..Len(line) - 1 |-> IF i = 0 THEN GitBegin ELSE GitOption(f[i - 1], line[i + 1])]

\* The policy's scan of git's options: there is a function of its rounds.
LEMMA SomeGit ==
    ASSUME PolicyAssumption, NEW line \in Seq(Spelled), line # <<>>
    PROVE  \E f : GitRecursion(line, f)
<1> DEFINE n == Len(line) - 1
           V == GitState
           next == [p \in (1..n) \X V |-> GitOption(p[2], line[p[1] + 1])]
<1>0. n \in Nat
  OBVIOUS
<1>1. GitBegin \in V
  BY GitStarts
<1>2. next \in [(1..n) \X V -> V]
  BY <1>0, GitSteps
<1>3. PICK f : Goes(f, V, GitBegin, n, next)
  <2> HIDE DEF V, next, n
  <2>q. QED BY <1>0, <1>1, <1>2, Rounds
<1>4. ASSUME NEW i \in 0..n
      PROVE  f[i] = IF i = 0 THEN GitBegin ELSE GitOption(f[i - 1], line[i + 1])
  <2>1. CASE i = 0
    BY <1>3, <2>1 DEF Goes
  <2>2. CASE i # 0
    <3>1. <<i, f[i - 1]>> \in (1..n) \X V
      BY <1>0, <1>3, <2>2 DEF Goes
    <3>2. next[<<i, f[i - 1]>>] = GitOption(f[i - 1], line[i + 1])
      BY <3>1
    <3> HIDE DEF next, V
    <3>3. f[i] = next[<<i, f[i - 1]>>]
      BY <1>0, <1>3, <2>2 DEF Goes
    <3>q. QED BY <2>2, <3>2, <3>3
  <2>q. QED BY <2>1, <2>2
<1>5. f = [i \in 0..n |-> IF i = 0 THEN GitBegin ELSE GitOption(f[i - 1], line[i + 1])]
  BY <1>3, <1>4 DEF Goes
<1>q. QED BY <1>5 DEF GitRecursion

\* The policy's scan of git's options, word by word.
LEMMA GitRuns ==
    ASSUME PolicyAssumption, NEW line \in Seq(Spelled), line # <<>>
    PROVE  \E s \in [0..Len(line) - 1 -> GitState] :
              /\ s[0] = GitBegin
              /\ \A i \in 1..Len(line) - 1 : s[i] = GitOption(s[i - 1], line[i + 1])
              /\ GitOptions(line) = GitNormalized(line, s[Len(line) - 1])
<1> DEFINE n == Len(line) - 1
           V == GitState
           s == CHOOSE f : GitRecursion(line, f)
           next == [p \in (1..n) \X V |-> GitOption(p[2], line[p[1] + 1])]
<1>0. n \in Nat
  OBVIOUS
<1>1. GitRecursion(line, s)
  BY SomeGit
<1>2. GitOptions(line) = GitNormalized(line, s[n])
  BY DEF GitOptions, GitRecursion, GitBegin, GitNormalized
<1> HIDE DEF s
<1>3. /\ s[0] = GitBegin /\ DOMAIN s = 0..n /\ s = [i \in 0..n |-> s[i]]
      /\ \A i \in 1..n : s[i] = GitOption(s[i - 1], line[i + 1])
  <2>1. s = [i \in 0..n |-> IF i = 0 THEN GitBegin ELSE GitOption(s[i - 1], line[i + 1])]
    BY <1>1 DEF GitRecursion
  <2> HIDE DEF n
  <2>2. DOMAIN s = 0..n /\ s = [i \in 0..n |-> s[i]]
    BY <2>1
  <2>3. s[0] = GitBegin
    BY <1>0, <2>1
  <2>4. ASSUME NEW i \in 1..n PROVE s[i] = GitOption(s[i - 1], line[i + 1])
    <3>1. i \in 0..n /\ i # 0
      BY <1>0
    <3>q. QED BY <2>1, <3>1
  <2>q. QED BY <2>2, <2>3, <2>4
<1>4. GitBegin \in V
  BY GitStarts
<1>5. next \in [(1..n) \X V -> V]
  BY <1>0, GitSteps
<1>6. ASSUME NEW i \in 1..n, s[i - 1] \in V PROVE s[i] = next[<<i, s[i - 1]>>]
  BY <1>3, <1>6
<1>7. \A i \in 0..n : s[i] \in V
  <2> HIDE DEF V, next, n
  <2>q. QED BY <1>0, <1>3, <1>4, <1>5, <1>6, Computed
<1>8. s \in [0..n -> V]
  <2> HIDE DEF V, n
  <2>q. QED BY <1>3, <1>7
<1>q. QED BY <1>2, <1>3, <1>8

LEMMA ReadStarts == ReadBegin \in ReadState
BY RootTyped, SomeTexts, Empties, Zenon DEF ReadBegin, ReadState

LEMMA ReadSteps ==
    ASSUME PolicyAssumption, NEW s \in ReadState, NEW w \in Spelled
    PROVE  GitRead(s, w) \in ReadState
<1>1. Walk(s.cwd, PathOf(Text(w))) \in Parts
  BY WordTypes, PathTypes, WalkTyped DEF ReadState
<1>2. w.flag \in Texts /\ Text(w) \in Texts /\ "" \in Texts
  BY WordTypes, SomeTexts
<1>3. Append(s.words, w) \in Seq(Spelled) /\ <<w>> \in Seq(Spelled)
  BY DEF ReadState
<1>4. s.config \cup {Text(w)} \in SUBSET Texts
  BY <1>2 DEF ReadState
<1>q. QED BY <1>1, <1>2, <1>3, <1>4 DEF GitRead, ReadState

ReadRecursion(line, f) ==
    f = [i \in 0..Len(line) - 1 |-> IF i = 0 THEN ReadBegin ELSE GitRead(f[i - 1], line[i + 1])]

\* git's own scan of its options: there is a function of its rounds.
LEMMA SomeRead ==
    ASSUME PolicyAssumption, NEW line \in Seq(Spelled), line # <<>>
    PROVE  \E f : ReadRecursion(line, f)
<1> DEFINE n == Len(line) - 1
           V == ReadState
           next == [p \in (1..n) \X V |-> GitRead(p[2], line[p[1] + 1])]
<1>0. n \in Nat
  OBVIOUS
<1>1. ReadBegin \in V
  BY ReadStarts
<1>2. next \in [(1..n) \X V -> V]
  BY <1>0, ReadSteps
<1>3. PICK f : Goes(f, V, ReadBegin, n, next)
  <2> HIDE DEF V, next, n
  <2>q. QED BY <1>0, <1>1, <1>2, Rounds
<1>4. ASSUME NEW i \in 0..n
      PROVE  f[i] = IF i = 0 THEN ReadBegin ELSE GitRead(f[i - 1], line[i + 1])
  <2>1. CASE i = 0
    BY <1>3, <2>1 DEF Goes
  <2>2. CASE i # 0
    <3>1. <<i, f[i - 1]>> \in (1..n) \X V
      BY <1>0, <1>3, <2>2 DEF Goes
    <3>2. next[<<i, f[i - 1]>>] = GitRead(f[i - 1], line[i + 1])
      BY <3>1
    <3> HIDE DEF next, V
    <3>3. f[i] = next[<<i, f[i - 1]>>]
      BY <1>0, <1>3, <2>2 DEF Goes
    <3>q. QED BY <2>2, <3>2, <3>3
  <2>q. QED BY <2>1, <2>2
<1>5. f = [i \in 0..n |-> IF i = 0 THEN ReadBegin ELSE GitRead(f[i - 1], line[i + 1])]
  BY <1>3, <1>4 DEF Goes
<1>q. QED BY <1>5 DEF ReadRecursion

\* git's own scan of its options, word by word.
LEMMA ReadRuns ==
    ASSUME PolicyAssumption, NEW line \in Seq(Spelled), line # <<>>
    PROVE  \E s \in [0..Len(line) - 1 -> ReadState] :
              /\ s[0] = ReadBegin
              /\ \A i \in 1..Len(line) - 1 : s[i] = GitRead(s[i - 1], line[i + 1])
              /\ GitReads(line) = GitUnderstood(s[Len(line) - 1])
<1> DEFINE n == Len(line) - 1
           V == ReadState
           s == CHOOSE f : ReadRecursion(line, f)
           next == [p \in (1..n) \X V |-> GitRead(p[2], line[p[1] + 1])]
<1>0. n \in Nat
  OBVIOUS
<1>1. ReadRecursion(line, s)
  BY SomeRead
<1>2. GitReads(line) = GitUnderstood(s[n])
  BY DEF GitReads, ReadRecursion, ReadBegin, GitUnderstood
<1> HIDE DEF s
<1>3. /\ s[0] = ReadBegin /\ DOMAIN s = 0..n /\ s = [i \in 0..n |-> s[i]]
      /\ \A i \in 1..n : s[i] = GitRead(s[i - 1], line[i + 1])
  <2>1. s = [i \in 0..n |-> IF i = 0 THEN ReadBegin ELSE GitRead(s[i - 1], line[i + 1])]
    BY <1>1 DEF ReadRecursion
  <2> HIDE DEF n
  <2>2. DOMAIN s = 0..n /\ s = [i \in 0..n |-> s[i]]
    BY <2>1
  <2>3. s[0] = ReadBegin
    BY <1>0, <2>1
  <2>4. ASSUME NEW i \in 1..n PROVE s[i] = GitRead(s[i - 1], line[i + 1])
    <3>1. i \in 0..n /\ i # 0
      BY <1>0
    <3>q. QED BY <2>1, <3>1
  <2>q. QED BY <2>2, <2>3, <2>4
<1>4. ReadBegin \in V
  BY ReadStarts
<1>5. next \in [(1..n) \X V -> V]
  BY <1>0, ReadSteps
<1>6. ASSUME NEW i \in 1..n, s[i - 1] \in V PROVE s[i] = next[<<i, s[i - 1]>>]
  BY <1>3, <1>6
<1>7. \A i \in 0..n : s[i] \in V
  <2> HIDE DEF V, next, n
  <2>q. QED BY <1>0, <1>3, <1>4, <1>5, <1>6, Computed
<1>8. s \in [0..n -> V]
  <2> HIDE DEF V, n
  <2>q. QED BY <1>3, <1>7
<1>q. QED BY <1>2, <1>3, <1>8

\* From 1 on.
LEMMA FromOne ==
    ASSUME NEW n \in Nat, NEW S \in SUBSET (1..n), 1 \in S,
           \A k \in S : k + 1 <= n => k + 1 \in S
    PROVE  n \in S
<1> DEFINE T == {k \in Nat : k + 1 <= n => k + 1 \in S}
<1>1. 0 \in T
  OBVIOUS
<1>2. ASSUME NEW k \in T PROVE k + 1 \in T
  OBVIOUS
<1>3. T = Nat
  <2>1. T \in SUBSET Nat
    OBVIOUS
  <2> HIDE DEF T
  <2>q. QED BY <1>1, <1>2, <2>1, Induction
<1>4. n >= 1 /\ n - 1 \in Nat /\ n - 1 + 1 = n
  OBVIOUS
<1>5. n - 1 \in T
  <2> HIDE DEF T
  <2>q. QED BY <1>3, <1>4
<1>q. QED BY <1>4, <1>5

LEMMA Window ==
    ASSUME NEW S, NEW line \in Seq(S), NEW k \in Nat, k >= 1, k + 1 < Len(line)
    PROVE  /\ SubSeq(line, 2, k + 2) = Append(SubSeq(line, 2, k + 1), line[k + 2])
           /\ SubSeq(line, 2, k + 1) # <<>>
<1>1. Len(SubSeq(line, 2, k + 1)) = k
  OBVIOUS
<1>q. QED BY <1>1

LEMMA Ends ==
    ASSUME NEW S, NEW line \in Seq(S), Len(line) > 1
    PROVE  /\ Tail(line) = SubSeq(line, 2, Len(line)) /\ SubSeq(line, 2, 2) = <<line[2]>>
           /\ Tail(line) # <<>> /\ Tail(line)[1] = line[2]
<1>1. Tail(line) = SubSeq(line, 2, Len(line)) /\ Len(Tail(line)) = Len(line) - 1
  OBVIOUS
<1>2. SubSeq(line, 2, 2) = <<line[2]>>
  <2>1. SubSeq(line, 2, 2) = [i \in 1..1 |-> line[i + 1]]
    BY DEF SubSeq
  <2>2. [i \in 1..1 |-> line[i + 1]] = [i \in 1..1 |-> line[2]]
    OBVIOUS
  <2>3. \A x : [i \in 1..1 |-> x] = <<x>>
    OBVIOUS
  <2>q. QED BY <2>1, <2>2, <2>3
<1>3. Tail(line) # <<>>
  <2>1. Len(Tail(line)) # 0
    BY <1>1
  <2>2. Len(<<>>) = 0
    OBVIOUS
  <2>q. QED BY <2>1, <2>2, Zenon
<1>4. Tail(line)[1] = line[2]
  OBVIOUS
<1>q. QED BY <1>1, <1>2, <1>3, <1>4

\* git without options of its own is read as it stands.
LEMMA GitAsItStands ==
    ASSUME PolicyAssumption, NEW line \in Seq(Spelled), Len(line) > 1, ~IsFlag(line[2])
    PROVE  /\ GitReads(line).ok /\ GitReads(line).words = Tail(line)
           /\ GitReads(line).cwd = Root /\ GitReads(line).config = {}
<1> DEFINE n == Len(line) - 1
<1>0. n \in Nat /\ n >= 1 /\ line # <<>> /\ Len(line) = n + 1 /\ Len(line) \in Nat
  OBVIOUS
<1>1. PICK s \in [0..n -> ReadState] :
         /\ s[0] = ReadBegin
         /\ \A i \in 1..n : s[i] = GitRead(s[i - 1], line[i + 1])
         /\ GitReads(line) = GitUnderstood(s[n])
  BY <1>0, ReadRuns
<1> DEFINE Good(t, k) == /\ t.ok /\ t.want = "" /\ t.words = SubSeq(line, 2, k + 1)
                         /\ t.cwd = Root /\ t.config = {}
           S == {k \in 1..n : Good(s[k], k)}
<1>2. 1 \in S
  <2>1. s[1] = GitRead(ReadBegin, line[2])
    BY <1>0, <1>1
  <2>2. GitRead(ReadBegin, line[2]) = [ReadBegin EXCEPT !.words = <<line[2]>>]
    BY DEF GitRead, ReadBegin
  <2>3. s[1].ok /\ s[1].want = "" /\ s[1].words = <<line[2]>> /\ s[1].cwd = Root /\ s[1].config = {}
    BY <2>1, <2>2 DEF ReadBegin
  <2>4. Good(s[1], 1)
    <3>1. 1 + 1 = 2
      OBVIOUS
    <3>q. QED BY <2>3, <3>1, Ends
  <2> HIDE DEF n, Good
  <2>q. QED BY <1>0, <2>4
<1>3. ASSUME NEW k \in S, k + 1 <= n PROVE k + 1 \in S
  <2>0. k \in Nat /\ k >= 1 /\ k + 1 \in 1..n /\ k + 1 < Len(line) /\ k \in 0..n /\ k + 1 + 1 = k + 2
    <3> HIDE DEF n, Good
    <3>q. QED BY <1>0, <1>3
  <2>2. Good(s[k], k) /\ s[k] \in ReadState
    <3> HIDE DEF n, Good
    <3>q. QED BY <1>1, <2>0
  <2>3. s[k + 1] = GitRead(s[k], line[k + 2])
    <3> HIDE DEF n, Good
    <3>1. k + 1 - 1 = k
      BY <2>0
    <3>q. QED BY <1>1, <2>0, <3>1
  <2>5. /\ SubSeq(line, 2, k + 1) # <<>>
        /\ SubSeq(line, 2, k + 2) = Append(SubSeq(line, 2, k + 1), line[k + 2])
    BY <2>0, Window
  <2>6. s[k + 1] = [s[k] EXCEPT !.words = Append(s[k].words, line[k + 2])]
    BY <2>2, <2>3, <2>5 DEF GitRead
  <2>7. /\ s[k + 1].ok /\ s[k + 1].want = "" /\ s[k + 1].words = SubSeq(line, 2, k + 2)
        /\ s[k + 1].cwd = Root /\ s[k + 1].config = {}
    BY <2>2, <2>5, <2>6 DEF ReadState
  <2>8. Good(s[k + 1], k + 1)
    BY <2>0, <2>7, Zenon
  <2> HIDE DEF n, Good
  <2>q. QED BY <2>0, <2>8
<1>5. Good(s[n], n)
  <2> HIDE DEF n, Good
  <2>1. S \in SUBSET (1..n)
    OBVIOUS
  <2>2. n \in S
    <3> HIDE DEF S
    <3>q. QED BY <1>0, <1>2, <1>3, <2>1, FromOne
  <2>q. QED BY <2>2
<1>6. s[n] \in ReadState
  BY <1>0, <1>1
<1>7. Tail(line) = SubSeq(line, 2, n + 1)
  BY <1>0, Ends
<1> HIDE DEF n
<1>q. QED BY <1>1, <1>5, <1>6, <1>7 DEF GitUnderstood, ReadState

\* Options of short lines.
LEMMA Unrolled ==
    ASSUME NEW line \in Seq(Spelled), line # <<>>
    PROVE  LET valued == ValueFlags(Name(line))
               one   == Option(valued, OptBegin, line[2])
               two   == Option(valued, one, line[3])
               three == Option(valued, two, line[4])
               four  == Option(valued, three, line[5])
           IN  /\ Len(line) = 2 => Getopt(line) = one
               /\ Len(line) = 3 => Getopt(line) = two
               /\ Len(line) = 4 => Getopt(line) = three
               /\ Len(line) = 5 => Getopt(line) = four
<1> DEFINE n == Len(line) - 1
           valued == ValueFlags(Name(line))
<1>0. n \in Nat /\ Len(line) = n + 1
  OBVIOUS
<1>1. PICK s \in [0..n -> OptState] :
         /\ s[0] = OptBegin
         /\ \A i \in 1..n : s[i] = Option(valued, s[i - 1], line[i + 1])
         /\ Getopt(line) = s[n]
  BY OptRuns
<1> HIDE DEF n, valued
<1>2. /\ n >= 1 => s[1] = Option(valued, OptBegin, line[2])
      /\ n >= 2 => s[2] = Option(valued, s[1], line[3])
      /\ n >= 3 => s[3] = Option(valued, s[2], line[4])
      /\ n >= 4 => s[4] = Option(valued, s[3], line[5])
  BY <1>0, <1>1
<1>3. (n >= 1 <=> Len(line) >= 2) /\ (n = 1 <=> Len(line) = 2) /\ (n = 2 <=> Len(line) = 3)
      /\ (n = 3 <=> Len(line) = 4) /\ (n = 4 <=> Len(line) = 5)
  BY <1>0
<1>q. QED BY <1>0, <1>1, <1>2, <1>3 DEF valued

LEMMA Joined ==
    ASSUME NEW a, NEW b, NEW c, NEW d
    PROVE  /\ <<a, b>> \o <<>> = <<a, b>>
           /\ <<a, b>> \o <<c>> = <<a, b, c>>
           /\ <<a, b>> \o <<c, d>> = <<a, b, c, d>>
<1>1. <<a, b>> \o <<>> = <<a, b>>
  OBVIOUS
<1> DEFINE V == {a, b, c, d}
<1>2. <<a, b>> \in Seq(V) /\ <<c>> \in Seq(V) /\ <<c, d>> \in Seq(V)
  OBVIOUS
<1>3. <<a, b>> \o <<c>> = <<a, b, c>>
  <2> DEFINE s == <<a, b>> \o <<c>>
  <2>1. s \in Seq(V) /\ Len(s) = 3
    BY <1>2
  <2>2. s[1] = a /\ s[2] = b /\ s[3] = c
    BY <1>2
  <2> HIDE DEF s, V
  <2>3. s = <<s[1], s[2], s[3]>>
    BY <2>1
  <2>q. QED BY <2>2, <2>3 DEF s
<1>4. <<a, b>> \o <<c, d>> = <<a, b, c, d>>
  <2> DEFINE s == <<a, b>> \o <<c, d>>
  <2>1. s \in Seq(V) /\ Len(s) = 4
    BY <1>2
  <2>2. s[1] = a /\ s[2] = b /\ s[3] = c /\ s[4] = d
    BY <1>2
  <2> HIDE DEF s, V
  <2>3. s = <<s[1], s[2], s[3], s[4]>>
    BY <2>1
  <2>q. QED BY <2>2, <2>3 DEF s
<1>q. QED BY <1>1, <1>3, <1>4

LEMMA WordShape ==
    ASSUME NEW x
    PROVE  /\ W(x).flag = "" /\ W(x).val = x /\ ~IsFlag(W(x)) /\ Text(W(x)) = x
           /\ F(x).flag = x /\ F(x).val = ""
BY DEF W, F, IsFlag, Text

LEMMA Plain ==
    ASSUME NEW w \in Spelled, ~IsFlag(w)
    PROVE  w.flag = "" /\ w = W(w.val) /\ Text(w) = w.val
BY DEF Spelled, W, IsFlag, Text

LEMMA Flagged ==
    ASSUME NEW w \in Spelled, NEW x, w.flag = x, w.val = "" PROVE w = F(x)
BY DEF Spelled, F

LEMMA Prefixed ==
    ASSUME NEW S, NEW line \in Seq(S), Len(line) >= 3
    PROVE  SubSeq(line, 1, 3) = <<line[1], line[2], line[3]>>
<1>1. SubSeq(line, 1, 3) = [i \in 1..3 |-> line[i]]
  BY DEF SubSeq
<1>2. SubSeq(line, 1, 3)[1] = line[1] /\ SubSeq(line, 1, 3)[2] = line[2] /\ SubSeq(line, 1, 3)[3] = line[3]
  BY <1>1
<1>3. SubSeq(line, 1, 3) \in Seq(S) /\ Len(SubSeq(line, 1, 3)) = 3
  OBVIOUS
<1>4. ASSUME NEW s \in Seq(S), Len(s) = 3 PROVE s = <<s[1], s[2], s[3]>>
  BY <1>4
<1>q. QED BY <1>2, <1>3, <1>4

LEMMA AsTuple ==
    ASSUME NEW S, NEW line \in Seq(S)
    PROVE  /\ Len(line) = 1 => line = <<line[1]>>
           /\ Len(line) = 2 => line = <<line[1], line[2]>>
           /\ Len(line) = 3 => line = <<line[1], line[2], line[3]>>
OBVIOUS

FileReaders == {"cat", "sed", "head", "tail", "nl", "grep", "rg"}

\* Only the readers of files parse as a read of a file.
LEMMA ReaderNames ==
    ASSUME NEW line, parseWarmFileOperation(line) # NoOperation
    PROVE  Name(line) \in FileReaders
BY DEF parseWarmFileOperation, FileReaders

\* Only rg parses as a bounded search.
LEMMA RgName ==
    ASSUME NEW line \in Seq(Spelled), line # <<>>, isBoundedRgRepoSearch(line)
    PROVE  Name(line) = "rg"
<1>1. PICK end \in RgState : parseBoundedRgRepoArgs(line) = RgParsed(line, end)
  <2>1. PICK s \in [0..Len(line) - 1 -> RgState] :
           parseBoundedRgRepoArgs(line) = RgParsed(line, s[Len(line) - 1])
    BY RgRuns
  <2>2. Len(line) - 1 \in 0..Len(line) - 1
    OBVIOUS
  <2>q. QED BY <2>1, <2>2
<1>q. QED BY <1>1 DEF isBoundedRgRepoSearch, RgParsed, RgState

Matched(line) ==
    \/ isGitMetadata(line) \/ isGitRepoState(line) \/ isGitHeadSubjectLog(line)
    \/ isToolVersionProbe(line) \/ isBoundedGitOnelineLog(line)

\* A line of git that is allowed is one of those matched for git.
LEMMA GitAllowed ==
    ASSUME NEW line \in Seq(Spelled), line # <<>>, IsReplayAllowed(line), Name(line) = "git"
    PROVE  Matched(line)
<1>1. ~isReplayableFileInspection(line)
  <2>1. Name(line) \notin FileReaders /\ Name(line) # "file"
    BY DEF FileReaders
  <2>q. QED BY <2>1, ReaderNames DEF isReplayableFileInspection
<1>2. ~isDirectoryListing(line) /\ ~isBoundedRgRepoSearch(line)
  BY RgName DEF isDirectoryListing
<1>3. ~isCommandPathLookup(line) /\ ~isPrintenvProbe(line)
  BY DEF isCommandPathLookup, isPrintenvProbe
<1>4. ~isStaticEnvironmentProbe(line)
  <2>1. ASSUME line = <<W("uname"), F("-a")>> PROVE FALSE
    <3>1. line[1] = W("uname")
      BY <2>1
    <3>2. line[1].val = "uname"
      BY <3>1, WordShape
    <3>q. QED BY <3>2 DEF Name
  <2>q. QED BY <2>1 DEF isStaticEnvironmentProbe
<1>q. QED BY <1>1, <1>2, <1>3, <1>4
          DEF IsReplayAllowed, IsFastPathAllowed, IsProofGatedReplayCandidate, isEnvironmentProbe, Matched

GitHead(line, sub) == Len(line) > 1 /\ line[2] = W(sub)

LEMMA SubcommandOf ==
    ASSUME NEW sub, NEW line, NEW w
    PROVE  /\ line = Git(sub, <<>>) => GitHead(line, sub)
           /\ line = Git(sub, <<w>>) => GitHead(line, sub)
<1>1. ASSUME line = Git(sub, <<>>) PROVE GitHead(line, sub)
  <2>1. line = <<W("git"), W(sub)>>
    BY <1>1 DEF Git
  <2>q. QED BY <2>1 DEF GitHead
<1>2. ASSUME line = Git(sub, <<w>>) PROVE GitHead(line, sub)
  <2>1. line = <<W("git"), W(sub), w>>
    BY <1>2, Joined DEF Git
  <2>q. QED BY <2>1 DEF GitHead
<1>q. QED BY <1>1, <1>2

\* Every matched line asks one of the questions; --version is one of git itself.
LEMMA GitAsks ==
    ASSUME NEW line \in Seq(Spelled), line # <<>>, ~IsFlag(line[1]), Name(line) = "git", Matched(line)
    PROVE  \/ \E sub \in {"status", "diff", "log", "rev-parse", "ls-files", "version"} : GitHead(line, sub)
           \/ line = <<W("git"), W("branch"), F("--show-current")>>
           \/ line = <<W("git"), F("--version")>>
<1>1. CASE isGitMetadata(line)
  <2>1. CASE isGitBranchShowCurrent(line)
    <3>1. line = Git("branch", <<F("--show-current")>>)
      BY <2>1 DEF isGitBranchShowCurrent
    <3>q. QED BY <3>1, Joined DEF Git
  <2>2. CASE line = Git("rev-parse", <<F("--abbrev-ref"), W("HEAD")>>)
    <3>1. line = <<W("git"), W("rev-parse"), F("--abbrev-ref"), W("HEAD")>>
      BY <2>2, Joined DEF Git
    <3>2. GitHead(line, "rev-parse")
      BY <3>1 DEF GitHead
    <3>q. QED BY <3>2
  <2>3. CASE \E w \in {W("HEAD"), F("--git-dir"), F("--show-toplevel")} : line = Git("rev-parse", <<w>>)
    BY <2>3, SubcommandOf
  <2>q. QED BY <1>1, <2>1, <2>2, <2>3 DEF isGitMetadata
<1>2. CASE isGitRepoState(line)
  <2>1. CASE isGitLsFiles(line)
    BY <2>1, SubcommandOf DEF isGitLsFiles
  <2>2. CASE isGitStatusState(line)
    BY <2>2, SubcommandOf DEF isGitStatusState
  <2>3. CASE isGitReadOnlyDiff(line)
    <3>1. CASE line \in {Git("diff", <<>>), Git("diff", <<F("--stat")>>), Git("diff", <<F("--check")>>)}
      BY <3>1, SubcommandOf
    <3>2. CASE Len(line) >= 4 /\ SubSeq(line, 1, 3) = Git("diff", <<F("--")>>)
      <4>1. SubSeq(line, 1, 3) = <<W("git"), W("diff"), F("--")>>
        BY <3>2, Joined DEF Git
      <4>2. SubSeq(line, 1, 3) = <<line[1], line[2], line[3]>>
        <5>1. Len(line) >= 3
          BY <3>2
        <5>q. QED BY <5>1, Prefixed
      <4>3. line[2] = W("diff")
        BY <4>1, <4>2
      <4>4. Len(line) > 1
        BY <3>2
      <4>q. QED BY <4>3, <4>4 DEF GitHead
    <3>q. QED BY <2>3, <3>1, <3>2 DEF isGitReadOnlyDiff
  <2>q. QED BY <1>2, <2>1, <2>2, <2>3 DEF isGitRepoState
<1>3. CASE isGitHeadSubjectLog(line)
  <2>1. line = <<W("git"), W("log"), A("-", "1"), F("--format")>>
    BY <1>3, Joined DEF isGitHeadSubjectLog, Git
  <2>2. GitHead(line, "log")
    BY <2>1 DEF GitHead
  <2>q. QED BY <2>2
<1>4. CASE isBoundedGitOnelineLog(line)
  <2>1. Len(line) >= 6 /\ line[2] = W("log")
    BY <1>4 DEF isBoundedGitOnelineLog
  <2>2. GitHead(line, "log")
    BY <2>1 DEF GitHead
  <2>q. QED BY <2>2
<1>5. CASE isToolVersionProbe(line)
  <2>1. CASE line \in {<<W("go"), W("version")>>, <<W("git"), W("version")>>}
    <3>1. Len(line) > 1 /\ line[2] = W("version")
      BY <2>1
    <3>2. GitHead(line, "version")
      BY <3>1 DEF GitHead
    <3>q. QED BY <3>2
  <2>2. CASE Len(line) = 2 /\ line[2] = F("--version")
    <3>1. line[1] = W("git")
      <4>1. line[1] \in Spelled
        OBVIOUS
      <4>q. QED BY <4>1, Plain DEF Name
    <3>2. line = <<line[1], line[2]>>
      BY <2>2
    <3>q. QED BY <2>2, <3>1, <3>2
  <2>q. QED BY <1>5, <2>1, <2>2 DEF isToolVersionProbe
<1>q. QED BY <1>1, <1>2, <1>3, <1>4, <1>5 DEF Matched

\* A line matched for git only looks.
LEMMA GitLooks ==
    ASSUME PolicyAssumption, NEW line \in Seq(Spelled), line # <<>>, ~IsFlag(line[1]),
           Name(line) = "git", Matched(line)
    PROVE  OnlyLooks(line)
<1>1. ASSUME NEW sub \in {"status", "diff", "log", "rev-parse", "ls-files", "version"}, GitHead(line, sub)
      PROVE  OnlyLooks(line)
  <2>1. Len(line) > 1 /\ line[2] = W(sub) /\ ~IsFlag(line[2]) /\ line[2] \in Questions
    BY <1>1, WordShape DEF GitHead, Questions
  <2>2. GitReads(line).ok /\ GitReads(line).words = Tail(line)
    BY <2>1, GitAsItStands
  <2>3. Tail(line) # <<>> /\ Tail(line)[1] = line[2]
    BY <2>1, Ends
  <2>q. QED BY <2>1, <2>2, <2>3 DEF OnlyLooks
<1>2. ASSUME line = <<W("git"), W("branch"), F("--show-current")>> PROVE OnlyLooks(line)
  <2>1. Len(line) > 1 /\ line[2] = W("branch") /\ Tail(line) = <<W("branch"), F("--show-current")>>
    BY <1>2
  <2>2. ~IsFlag(line[2])
    BY <2>1, WordShape
  <2>3. GitReads(line).ok /\ GitReads(line).words = Tail(line)
    BY <2>1, <2>2, GitAsItStands
  <2>q. QED BY <2>1, <2>3 DEF OnlyLooks
<1>3. ASSUME line = <<W("git"), F("--version")>> PROVE OnlyLooks(line)
  BY <1>3 DEF OnlyLooks
<1>q. QED BY <1>1, <1>2, <1>3, GitAsks

OptAt(options, operands) == [want |-> "", options |-> options, operands |-> operands]

\* No option is spelled as nothing.
Named(valued) == \A x \in valued : x # ""

TakesNext(valued, w) == w.val = "" /\ w.flag \in valued

\* A plain word is an operand, and a flag without a value to come a switch.
LEMMA OperandRead ==
    ASSUME NEW valued, NEW o, NEW p, NEW w, ~IsFlag(w), Named(valued)
    PROVE  Option(valued, OptAt(o, p), w) = OptAt(o, Append(p, w.val))
<1>1. w.flag = "" /\ ~(w.val = "" /\ w.flag \in valued)
  BY DEF IsFlag, Named
<1>2. Option(valued, OptAt(o, p), w) = [OptAt(o, p) EXCEPT !.operands = Append(p, w.val)]
  BY <1>1 DEF Option, OptAt, IsFlag
<1>q. QED BY <1>2 DEF OptAt

LEMMA SwitchRead ==
    ASSUME NEW valued, NEW o, NEW p, NEW w, IsFlag(w), ~TakesNext(valued, w)
    PROVE  Option(valued, OptAt(o, p), w) = OptAt(o \cup {<<w.flag, w.val>>}, p)
<1>2. Option(valued, OptAt(o, p), w) = [OptAt(o, p) EXCEPT !.options = o \cup {<<w.flag, w.val>>}]
  BY DEF Option, OptAt, TakesNext
<1>q. QED BY <1>2 DEF OptAt

LEMMA FirstSwitch ==
    ASSUME NEW valued, NEW p, NEW w, IsFlag(w), ~TakesNext(valued, w)
    PROVE  Option(valued, OptAt({}, p), w) = OptAt({<<w.flag, w.val>>}, p)
<1> DEFINE none == {}
<1>1. none \cup {<<w.flag, w.val>>} = {<<w.flag, w.val>>}
  OBVIOUS
<1> HIDE DEF none
<1>2. Option(valued, OptAt(none, p), w) = OptAt(none \cup {<<w.flag, w.val>>}, p)
  BY SwitchRead
<1>q. QED BY <1>1, <1>2, Zenon DEF none

LEMMA ValueRead ==
    ASSUME NEW valued, NEW o, NEW p, NEW w, NEW v, IsFlag(w), TakesNext(valued, w)
    PROVE  Option(valued, Option(valued, OptAt(o, p), w), v) = OptAt(o \cup {<<w.flag, Text(v)>>}, p)
<1>1. Option(valued, OptAt(o, p), w) = [OptAt(o, p) EXCEPT !.want = w.flag]
  BY DEF Option, OptAt, TakesNext
<1>2. Option(valued, [OptAt(o, p) EXCEPT !.want = w.flag], v)
      = [want |-> "", options |-> o \cup {<<w.flag, Text(v)>>}, operands |-> p]
  BY DEF Option, OptAt, IsFlag
<1>q. QED BY <1>1, <1>2 DEF OptAt

LEMMA OptBeginIs == OptBegin = OptAt({}, <<>>)
BY DEF OptBegin, OptAt

LEMMA Sums ==
    ASSUME NEW a, NEW b PROVE Append(<<>>, a) = <<a>> /\ Append(<<a>>, b) = <<a, b>>
<1>1. Append(<<>>, a) = <<a>>
  OBVIOUS
<1> DEFINE V == {a, b}
           s == Append(<<a>>, b)
<1>2. s \in Seq(V) /\ Len(s) = 2 /\ s[1] = a /\ s[2] = b
  OBVIOUS
<1>3. s = <<a, b>>
  <2> HIDE DEF s, V
  <2>1. s = <<s[1], s[2]>>
    BY <1>2
  <2>q. QED BY <1>2, <2>1
<1>q. QED BY <1>1, <1>3

LEMMA OptAtIs ==
    ASSUME NEW o, NEW p
    PROVE  OptAt(o, p).options = o /\ OptAt(o, p).operands = p
BY DEF OptAt

LEMMA TwoOperands ==
    ASSUME NEW valued, NEW o, NEW w, NEW v, ~IsFlag(w), ~IsFlag(v), Named(valued)
    PROVE  Option(valued, Option(valued, OptAt(o, <<>>), w), v) = OptAt(o, <<w.val, v.val>>)
<1> DEFINE none == <<>>
           one == <<w.val>>
<1>1. Append(none, w.val) = one
  BY Sums
<1>2. Append(one, v.val) = <<w.val, v.val>>
  BY Sums
<1> HIDE DEF none, one
<1>3. Option(valued, OptAt(o, none), w) = OptAt(o, Append(none, w.val))
  BY OperandRead
<1>4. Option(valued, OptAt(o, one), v) = OptAt(o, Append(one, v.val))
  BY OperandRead
<1>5. none = <<>> /\ one = <<w.val>>
  BY DEF none, one
<1>q. QED BY <1>1, <1>2, <1>3, <1>4, <1>5, Zenon

\* -n, a program and a file.
LEMMA SedOptions ==
    ASSUME NEW w, NEW v, ~IsFlag(w), ~IsFlag(v)
    PROVE  Option({}, Option({}, Option({}, OptBegin, F("-n")), w), v)
           = OptAt({<<"-n", "">>}, <<w.val, v.val>>)
<1>1. F("-n").flag = "-n" /\ F("-n").val = ""
  BY WordShape
<1>0. IsFlag(F("-n"))
  BY <1>1 DEF IsFlag
<1>2. Option({}, OptAt({}, <<>>), F("-n")) = OptAt({<<"-n", "">>}, <<>>)
  <2>0. ~TakesNext({}, F("-n"))
    BY DEF TakesNext
  <2>1. Option({}, OptAt({}, <<>>), F("-n")) = OptAt({<<F("-n").flag, F("-n").val>>}, <<>>)
    BY <1>0, <2>0, FirstSwitch
  <2>q. QED BY <1>1, <2>1, Zenon
<1>3. Named({})
  BY DEF Named
<1>4. Option({}, Option({}, OptAt({<<"-n", "">>}, <<>>), w), v) = OptAt({<<"-n", "">>}, <<w.val, v.val>>)
  <2> DEFINE o == {<<"-n", "">>}
             none == {}
             p == <<>>
  <2>1. Named(none)
    BY <1>3
  <2> HIDE DEF o, none
  <2>2. Option(none, Option(none, OptAt(o, <<>>), w), v) = OptAt(o, <<w.val, v.val>>)
    BY <2>1, TwoOperands
  <2>q. QED BY <2>2, Zenon DEF o, none
<1>q. QED BY <1>2, <1>4, OptBeginIs, Zenon

\* The one program that could do more with an argument is given a selection.
LEMMA SedLooks ==
    ASSUME NEW line \in Seq(Spelled), line # <<>>, Name(line) = "sed",
           parseWarmFileOperation(line) # NoOperation
    PROVE  OnlyLooks(line)
<1>1. /\ Len(line) = 4 /\ line[2] = F("-n") /\ ~IsFlag(line[3]) /\ line[3].val \in Selections
      /\ ~IsFlag(line[4])
  BY DEF parseWarmFileOperation, Inspected
<1>2. ValueFlags(Name(line)) = {}
  BY DEF ValueFlags
<1>3. Getopt(line) = Option({}, Option({}, Option({}, OptBegin, F("-n")), line[3]), line[4])
  BY <1>1, <1>2, Unrolled
<1> DEFINE o == {<<"-n", "">>}
           p == <<line[3].val, line[4].val>>
<1>4. Getopt(line) = OptAt(o, p)
  BY <1>1, <1>3, SedOptions
<1>5. Getopt(line).operands = p
  <2> HIDE DEF o, p
  <2>q. QED BY <1>4, OptAtIs
<1>q. QED BY <1>1, <1>5 DEF OnlyLooks

RgValues == ContextFlags \cup {"-g"}
RgValued == {"-g", "-C", "-A", "-B", "--pre"}

AgreeWant(s, t) == t.want = s.want /\ s.want \in RgValues \cup {""}
AgreeOptions(t) == \A o \in t.options : o[1] # "--pre"
AgreeOperands(s, t) ==
    t.operands = s.pattern \o s.paths /\ (s.pattern = <<>> => s.paths = <<>>)
AgreeSearched(s) == \A i \in DOMAIN s.paths : Searched(W(s.paths[i]))
\* What the policy's scan of a search and rg's have in common.
Agree(s, t) == AgreeWant(s, t) /\ AgreeOptions(t) /\ AgreeOperands(s, t) /\ AgreeSearched(s)

LEMMA MoreOptions ==
    ASSUME NEW t \in OptState, AgreeOptions(t), NEW a, NEW b, a # "--pre", NEW u,
           u.options = t.options \cup {<<a, b>>}
    PROVE  AgreeOptions(u)
BY DEF AgreeOptions

\* Bounded searches: the policy's scan and the program's agree after each word,
\* here the value of the flag before it,
LEMMA RgStepWanted ==
    ASSUME NEW s \in RgState, NEW t \in OptState, NEW w \in Spelled, Agree(s, t),
           s.want # "", RgWord(s, w).ok
    PROVE  s.ok /\ Agree(RgWord(s, w), Option(RgValued, t, w))
<1> DEFINE u == RgWord(s, w)
           v == Option(RgValued, t, w)
<1>1. u = [s EXCEPT !.want = "", !.ok = s.ok /\ ValidRgValue(s.want, Text(w))]
  BY DEF RgWord
<1>2. t.want = s.want
  BY DEF Agree, AgreeWant
<1>3. v = [t EXCEPT !.want = "", !.options = t.options \cup {<<t.want, Text(w)>>}]
  BY <1>2 DEF Option
<1> HIDE DEF u, v
<1>4. s.ok /\ u.want = "" /\ v.want = ""
  BY <1>1, <1>3 DEF RgState, OptState, u
<1>5. /\ u.pattern = s.pattern /\ u.paths = s.paths /\ v.operands = t.operands
      /\ v.options = t.options \cup {<<t.want, Text(w)>>}
  BY <1>1, <1>3 DEF RgState, OptState
<1>6. s.want # "--pre"
  BY DEF Agree, AgreeWant, RgValues, ContextFlags
<1>7. AgreeOptions(v)
  BY <1>2, <1>5, <1>6, MoreOptions DEF Agree
<1>8. AgreeWant(u, v) /\ AgreeOperands(u, v) /\ AgreeSearched(u)
  BY <1>4, <1>5 DEF Agree, AgreeWant, AgreeOperands, AgreeSearched
<1>q. QED BY <1>4, <1>7, <1>8 DEF Agree, u, v

\* a flag that takes a value,
LEMMA RgStepFlag ==
    ASSUME NEW s \in RgState, NEW t \in OptState, NEW w \in Spelled, Agree(s, t),
           s.want = "", w.flag \in RgValues, RgWord(s, w).ok
    PROVE  s.ok /\ Agree(RgWord(s, w), Option(RgValued, t, w))
<1> DEFINE u == RgWord(s, w)
           v == Option(RgValued, t, w)
<1>0. t.want = "" /\ w.flag \in RgValued /\ w.flag # "--pre" /\ w.flag # "" /\ IsFlag(w)
  BY DEF Agree, AgreeWant, RgValues, RgValued, ContextFlags, IsFlag
<1>1. CASE w.val = ""
  <2>1. u = [s EXCEPT !.want = w.flag]
    BY <1>1 DEF RgWord, RgValues
  <2>2. v = [t EXCEPT !.want = w.flag]
    BY <1>0, <1>1 DEF Option
  <2> HIDE DEF u, v
  <2>3. /\ s.ok /\ u.want = w.flag /\ v.want = w.flag
        /\ u.pattern = s.pattern /\ u.paths = s.paths /\ v.operands = t.operands
        /\ v.options = t.options
    BY <2>1, <2>2 DEF RgState, OptState, u
  <2>4. Agree(u, v)
    BY <2>3 DEF Agree, AgreeWant, AgreeOptions, AgreeOperands, AgreeSearched
  <2>q. QED BY <2>3, <2>4 DEF u, v
<1>2. CASE w.val # ""
  <2>1. u = [s EXCEPT !.ok = s.ok /\ ValidRgValue(w.flag, w.val)]
    BY <1>2 DEF RgWord, RgValues
  <2>2. v = [t EXCEPT !.options = t.options \cup {<<w.flag, w.val>>}]
    BY <1>0, <1>2 DEF Option
  <2> HIDE DEF u, v
  <2>3. /\ s.ok /\ u.want = s.want /\ v.want = t.want
        /\ u.pattern = s.pattern /\ u.paths = s.paths /\ v.operands = t.operands
        /\ v.options = t.options \cup {<<w.flag, w.val>>}
    BY <2>1, <2>2 DEF RgState, OptState, u
  <2>4. AgreeOptions(v)
    BY <1>0, <2>3, MoreOptions DEF Agree
  <2>5. AgreeWant(u, v) /\ AgreeOperands(u, v) /\ AgreeSearched(u)
    BY <2>3 DEF Agree, AgreeWant, AgreeOperands, AgreeSearched
  <2>q. QED BY <2>3, <2>4, <2>5 DEF Agree, u, v
<1>q. QED BY <1>1, <1>2

\* a switch,
LEMMA RgStepSwitch ==
    ASSUME NEW s \in RgState, NEW t \in OptState, NEW w \in Spelled, Agree(s, t),
           s.want = "", w.flag \notin RgValues, IsFlag(w), RgWord(s, w).ok
    PROVE  s.ok /\ Agree(RgWord(s, w), Option(RgValued, t, w))
<1> DEFINE u == RgWord(s, w)
           v == Option(RgValued, t, w)
<1>1. u = [s EXCEPT !.ok = s.ok /\ w.val = "" /\ w.flag \in RgSwitches]
  BY DEF RgWord, RgValues
<1>2. s.ok /\ w.val = "" /\ w.flag \in RgSwitches
  BY <1>1 DEF RgState
<1>3. t.want = "" /\ w.flag \notin RgValued /\ w.flag # "--pre"
  BY <1>2 DEF Agree, AgreeWant, RgSwitches, RgValued
<1>4. v = [t EXCEPT !.options = t.options \cup {<<w.flag, w.val>>}]
  BY <1>3 DEF Option
<1> HIDE DEF u, v
<1>5. /\ u.want = s.want /\ v.want = t.want
      /\ u.pattern = s.pattern /\ u.paths = s.paths /\ v.operands = t.operands
      /\ v.options = t.options \cup {<<w.flag, w.val>>}
  BY <1>1, <1>4 DEF RgState, OptState
<1>6. AgreeOptions(v)
  BY <1>3, <1>5, MoreOptions DEF Agree
<1>7. AgreeWant(u, v) /\ AgreeOperands(u, v) /\ AgreeSearched(u)
  BY <1>5 DEF Agree, AgreeWant, AgreeOperands, AgreeSearched
<1>q. QED BY <1>2, <1>6, <1>7 DEF Agree, u, v

AfterAll(p, q, v) == Append(p \o q, v) = p \o Append(q, v)

LEMMA AppendJoined ==
    ASSUME NEW S, NEW p \in Seq(S), NEW q \in Seq(S), NEW v \in S
    PROVE  AfterAll(p, q, v)
BY DEF AfterAll

LEMMA AlsoRead ==
    ASSUME NEW S, NEW s, NEW t, NEW u, NEW v, NEW x \in S, AgreeOperands(s, t),
           s.pattern \in Seq(S), s.paths \in Seq(S), s.pattern # <<>>,
           u.pattern = s.pattern, u.paths = Append(s.paths, x), v.operands = Append(t.operands, x)
    PROVE  AgreeOperands(u, v)
<1> DEFINE p == s.pattern
           q == s.paths
<1>1. AfterAll(p, q, x)
  <2>1. p \in Seq(S) /\ q \in Seq(S)
    OBVIOUS
  <2> HIDE DEF p, q
  <2>q. QED BY <2>1, AppendJoined
<1>2. t.operands = p \o q
  BY DEF AgreeOperands
<1>3. v.operands = p \o Append(q, x)
  <2> HIDE DEF p, q
  <2>q. QED BY <1>1, <1>2, Zenon DEF AfterAll
<1>q. QED BY <1>3, Zenon DEF AgreeOperands

LEMMA NothingBefore ==
    ASSUME NEW S, NEW v \in S
    PROVE  Append(<<>> \o <<>>, v) = <<v>> \o <<>>
OBVIOUS

\* the pattern,
LEMMA RgStepPattern ==
    ASSUME NEW s \in RgState, NEW t \in OptState, NEW w \in Spelled, Agree(s, t),
           s.want = "", ~IsFlag(w), s.pattern = <<>>, RgWord(s, w).ok
    PROVE  s.ok /\ Agree(RgWord(s, w), Option(RgValued, t, w))
<1> DEFINE u == RgWord(s, w)
           v == Option(RgValued, t, w)
<1>0. w.flag = "" /\ w.flag \notin RgValues /\ w.flag \notin RgValued
  BY DEF IsFlag, RgValues, ContextFlags, RgValued
<1>1. u = [s EXCEPT !.pattern = <<w.val>>, !.ok = s.ok /\ w.val # ""]
  BY <1>0 DEF RgWord, RgValues
<1>2. s.ok
  BY <1>1 DEF RgState
<1>3. t.want = ""
  BY DEF Agree, AgreeWant
<1>4. v = [t EXCEPT !.operands = Append(t.operands, w.val)]
  BY <1>0, <1>3 DEF Option
<1> HIDE DEF u, v
<1>5. /\ u.want = s.want /\ v.want = t.want
      /\ u.pattern = <<w.val>> /\ u.paths = s.paths /\ v.operands = Append(t.operands, w.val)
      /\ v.options = t.options
  BY <1>1, <1>4 DEF RgState, OptState
<1>6. AgreeOperands(u, v)
  <2>1. s.paths = <<>> /\ t.operands = s.pattern \o s.paths
    BY DEF Agree, AgreeOperands
  <2>2. u.paths = <<>> /\ t.operands = <<>> \o <<>>
    BY <1>5, <2>1
  <2>3. v.operands = u.pattern \o u.paths
    <3>1. w.val \in Texts
      BY WordTypes
    <3>q. QED BY <1>5, <2>2, <3>1, NothingBefore
  <2>q. QED BY <2>2, <2>3 DEF AgreeOperands
<1>7. AgreeWant(u, v) /\ AgreeOptions(v) /\ AgreeSearched(u)
  BY <1>5 DEF Agree, AgreeWant, AgreeOptions, AgreeSearched
<1>q. QED BY <1>2, <1>6, <1>7 DEF Agree, u, v

LEMMA AlsoSearched ==
    ASSUME NEW s, NEW u, NEW S, s.paths \in Seq(S), AgreeSearched(s), NEW v \in S, Searched(W(v)),
           u.paths = Append(s.paths, v)
    PROVE  AgreeSearched(u)
<1>1. DOMAIN u.paths = 1..Len(s.paths) + 1
  OBVIOUS
<1>2. \A i \in 1..Len(s.paths) : u.paths[i] = s.paths[i]
  OBVIOUS
<1>3. u.paths[Len(s.paths) + 1] = v
  OBVIOUS
<1>q. QED BY <1>1, <1>2, <1>3 DEF AgreeSearched

\* a path,
LEMMA RgStepPath ==
    ASSUME NEW s \in RgState, NEW t \in OptState, NEW w \in Spelled, Agree(s, t),
           s.want = "", ~IsFlag(w), s.pattern # <<>>, RgWord(s, w).ok
    PROVE  s.ok /\ Agree(RgWord(s, w), Option(RgValued, t, w))
<1> DEFINE u == RgWord(s, w)
           v == Option(RgValued, t, w)
<1>0. w.flag = "" /\ w.flag \notin RgValues /\ w.flag \notin RgValued
  BY DEF IsFlag, RgValues, ContextFlags, RgValued
<1>1. u = [s EXCEPT !.paths = Append(s.paths, w.val), !.ok = s.ok /\ Searched(w)]
  BY <1>0 DEF RgWord, RgValues
<1>2. s.ok /\ Searched(w)
  BY <1>1 DEF RgState
<1>3. t.want = ""
  BY DEF Agree, AgreeWant
<1>4. v = [t EXCEPT !.operands = Append(t.operands, w.val)]
  BY <1>0, <1>3 DEF Option
<1> HIDE DEF u, v
<1>5. /\ u.want = s.want /\ v.want = t.want
      /\ u.pattern = s.pattern /\ u.paths = Append(s.paths, w.val)
      /\ v.operands = Append(t.operands, w.val) /\ v.options = t.options
  BY <1>1, <1>4 DEF RgState, OptState
<1>a. w.val \in Texts /\ s.paths \in Seq(Texts) /\ s.pattern \in Seq(Texts)
  BY WordTypes DEF RgState
<1>6. AgreeOperands(u, v)
  <2>1. AgreeOperands(s, t)
    BY DEF Agree
  <2>q. QED BY <1>5, <1>a, <2>1, AlsoRead
<1>7. AgreeSearched(u)
  <2>1. Searched(W(w.val))
    BY <1>2, Plain
  <2>q. QED BY <1>5, <1>a, <2>1, AlsoSearched DEF Agree
<1>8. AgreeWant(u, v) /\ AgreeOptions(v)
  BY <1>5 DEF Agree, AgreeWant, AgreeOptions
<1>q. QED BY <1>2, <1>6, <1>7, <1>8 DEF Agree, u, v

\* and so after any word.
LEMMA RgStep ==
    ASSUME NEW s \in RgState, NEW t \in OptState, NEW w \in Spelled, Agree(s, t), RgWord(s, w).ok
    PROVE  s.ok /\ Agree(RgWord(s, w), Option(RgValued, t, w))
<1>1. IsFlag(w) \/ w.flag \notin RgValues
  BY DEF IsFlag, RgValues, ContextFlags
<1>q. QED BY <1>1, RgStepWanted, RgStepFlag, RgStepSwitch, RgStepPattern, RgStepPath

LEMMA RgBegins == Agree(RgBegin, OptBegin)
BY DEF Agree, AgreeWant, AgreeOptions, AgreeOperands, AgreeSearched, RgBegin, OptBegin

LEMMA OkBefore ==
    ASSUME NEW s \in RgState, NEW w \in Spelled, RgWord(s, w).ok PROVE s.ok
BY DEF RgWord, RgState

\* A bounded search is read as it was parsed.
LEMMA RgUnderstood ==
    ASSUME NEW line \in Seq(Spelled), line # <<>>, isBoundedRgRepoSearch(line)
    PROVE  Agree(parseBoundedRgRepoArgs(line), Getopt(line))
<1> DEFINE n == Len(line) - 1
<1>0. n \in Nat /\ Len(line) = n + 1
  OBVIOUS
<1>1. PICK s \in [0..n -> RgState] :
         /\ s[0] = RgBegin
         /\ \A i \in 1..n : s[i] = RgWord(s[i - 1], line[i + 1])
         /\ parseBoundedRgRepoArgs(line) = RgParsed(line, s[n])
  BY RgRuns
<1>2. ValueFlags(Name(line)) = RgValued
  BY RgName DEF ValueFlags, RgValued
<1>3. PICK t \in [0..n -> OptState] :
         /\ t[0] = OptBegin
         /\ \A i \in 1..n : t[i] = Option(RgValued, t[i - 1], line[i + 1])
         /\ Getopt(line) = t[n]
  BY <1>2, OptRuns
<1>4. \A i \in 1..n : line[i + 1] \in Spelled
  OBVIOUS
<1> HIDE DEF n
<1> DEFINE S == {k \in Nat : k <= n => (s[k].ok => Agree(s[k], t[k]))}
<1>5. 0 \in S
  BY <1>1, <1>3, RgBegins
<1>6. ASSUME NEW k \in S PROVE k + 1 \in S
  <2>1. SUFFICES ASSUME k + 1 <= n, s[k + 1].ok PROVE Agree(s[k + 1], t[k + 1])
    OBVIOUS
  <2>2. k + 1 \in 1..n /\ k \in 0..n /\ k + 1 - 1 = k /\ (s[k].ok => Agree(s[k], t[k]))
    BY <1>0, <2>1
  <2>3. s[k + 1] = RgWord(s[k], line[k + 2]) /\ t[k + 1] = Option(RgValued, t[k], line[k + 2])
    BY <1>1, <1>3, <2>2
  <2>4. line[k + 2] \in Spelled
    BY <1>4, <2>2
  <2>5. s[k] \in RgState /\ t[k] \in OptState
    BY <2>2
  <2>6. s[k].ok
    BY <2>1, <2>3, <2>4, <2>5, OkBefore
  <2>q. QED BY <2>1, <2>2, <2>3, <2>4, <2>5, <2>6, RgStep
<1>7. S = Nat
  <2>1. S \in SUBSET Nat
    OBVIOUS
  <2> HIDE DEF S
  <2>q. QED BY <1>5, <1>6, <2>1, Induction
<1>8. s[n].ok => Agree(s[n], t[n])
  BY <1>0, <1>7
<1> DEFINE end == s[n]
<1>9. end \in RgState
  BY <1>0
<1> HIDE DEF end
<1>10. end.ok => Agree(end, Getopt(line))
  BY <1>3, <1>8 DEF end
<1>11. parseBoundedRgRepoArgs(line) = RgParsed(line, end)
  BY <1>1 DEF end
<1>12. RgParsed(line, end).ok => end.ok
  BY <1>9 DEF RgParsed, RgState
<1>13. /\ RgParsed(line, end).want = end.want /\ RgParsed(line, end).pattern = end.pattern
       /\ RgParsed(line, end).paths = end.paths
  BY <1>9 DEF RgParsed, RgState
<1>14. Agree(end, Getopt(line))
  BY <1>10, <1>11, <1>12 DEF isBoundedRgRepoSearch
<1>q. QED BY <1>11, <1>13, <1>14 DEF Agree, AgreeWant, AgreeOperands, AgreeSearched

(***************************************************************************)
(* Two operands among switches.                                            *)
(***************************************************************************)
Spread(line, a, b) ==
    /\ a \in 2..Len(line) /\ b \in 2..Len(line) /\ a < b
    /\ \A i \in 2..Len(line) : IsFlag(line[i]) <=> (i # a /\ i # b)

SwitchesUpTo(line, a, b, k) == {<<line[j].flag, line[j].val>> : j \in (2..(k + 1)) \ {a, b}}

OperandsUpTo(line, a, b, k) ==
    IF k + 1 < a THEN <<>>
    ELSE IF k + 1 < b THEN <<line[a].val>>
    ELSE <<line[a].val, line[b].val>>

UpTo(line, a, b, k) == OptAt(SwitchesUpTo(line, a, b, k), OperandsUpTo(line, a, b, k))

LEMMA SpreadBegins ==
    ASSUME NEW line \in Seq(Spelled), NEW a, NEW b, Spread(line, a, b)
    PROVE  UpTo(line, a, b, 0) = OptBegin
<1>1. SwitchesUpTo(line, a, b, 0) = {}
  BY DEF SwitchesUpTo
<1>2. OperandsUpTo(line, a, b, 0) = <<>>
  BY DEF OperandsUpTo, Spread
<1>q. QED BY <1>1, <1>2, OptBeginIs, Zenon DEF UpTo

LEMMA SpreadOperand ==
    ASSUME NEW line \in Seq(Spelled), NEW a, NEW b, Spread(line, a, b),
           NEW k \in Nat, k + 2 <= Len(line), k + 2 = a \/ k + 2 = b
    PROVE  /\ SwitchesUpTo(line, a, b, k + 1) = SwitchesUpTo(line, a, b, k)
           /\ OperandsUpTo(line, a, b, k + 1) = Append(OperandsUpTo(line, a, b, k), line[k + 2].val)
<1>1. (2..(k + 1 + 1)) \ {a, b} = (2..(k + 1)) \ {a, b}
  BY DEF Spread
<1>2. SwitchesUpTo(line, a, b, k + 1) = SwitchesUpTo(line, a, b, k)
  BY <1>1 DEF SwitchesUpTo
<1>3. CASE k + 2 = a
  <2>1. OperandsUpTo(line, a, b, k) = <<>> /\ OperandsUpTo(line, a, b, k + 1) = <<line[a].val>>
    BY <1>3 DEF OperandsUpTo, Spread
  <2>q. QED BY <1>2, <1>3, <2>1, Sums
<1>4. CASE k + 2 = b
  <2>1. /\ OperandsUpTo(line, a, b, k) = <<line[a].val>>
        /\ OperandsUpTo(line, a, b, k + 1) = <<line[a].val, line[b].val>>
    BY <1>4 DEF OperandsUpTo, Spread
  <2>q. QED BY <1>2, <1>4, <2>1, Sums
<1>q. QED BY <1>3, <1>4

LEMMA SpreadSwitch ==
    ASSUME NEW line \in Seq(Spelled), NEW a, NEW b, Spread(line, a, b),
           NEW k \in Nat, k + 2 <= Len(line), k + 2 # a, k + 2 # b
    PROVE  /\ SwitchesUpTo(line, a, b, k + 1)
              = SwitchesUpTo(line, a, b, k) \cup {<<line[k + 2].flag, line[k + 2].val>>}
           /\ OperandsUpTo(line, a, b, k + 1) = OperandsUpTo(line, a, b, k)
<1>1. (2..(k + 1 + 1)) \ {a, b} = ((2..(k + 1)) \ {a, b}) \cup {k + 2}
  OBVIOUS
<1>2. SwitchesUpTo(line, a, b, k + 1)
      = SwitchesUpTo(line, a, b, k) \cup {<<line[k + 2].flag, line[k + 2].val>>}
  BY <1>1 DEF SwitchesUpTo
<1>3. OperandsUpTo(line, a, b, k + 1) = OperandsUpTo(line, a, b, k)
  BY DEF OperandsUpTo, Spread
<1>q. QED BY <1>2, <1>3

LEMMA SpreadStep ==
    ASSUME NEW line \in Seq(Spelled), NEW a, NEW b, Spread(line, a, b), NEW valued, Named(valued),
           \A i \in 2..Len(line) : IsFlag(line[i]) => ~TakesNext(valued, line[i]),
           NEW k \in Nat, k + 2 <= Len(line)
    PROVE  Option(valued, UpTo(line, a, b, k), line[k + 2]) = UpTo(line, a, b, k + 1)
<1>0. k + 2 \in 2..Len(line)
  OBVIOUS
<1>1. CASE k + 2 = a \/ k + 2 = b
  <2>1. ~IsFlag(line[k + 2])
    BY <1>0, <1>1 DEF Spread
  <2>2. Option(valued, UpTo(line, a, b, k), line[k + 2])
        = OptAt(SwitchesUpTo(line, a, b, k), Append(OperandsUpTo(line, a, b, k), line[k + 2].val))
    BY <2>1, OperandRead DEF UpTo
  <2>q. QED BY <1>1, <2>2, SpreadOperand DEF UpTo
<1>2. CASE k + 2 # a /\ k + 2 # b
  <2>1. IsFlag(line[k + 2]) /\ ~TakesNext(valued, line[k + 2])
    BY <1>0, <1>2 DEF Spread
  <2>2. Option(valued, UpTo(line, a, b, k), line[k + 2])
        = OptAt(SwitchesUpTo(line, a, b, k) \cup {<<line[k + 2].flag, line[k + 2].val>>},
                OperandsUpTo(line, a, b, k))
    BY <2>1, SwitchRead DEF UpTo
  <2>3. /\ SwitchesUpTo(line, a, b, k + 1)
           = SwitchesUpTo(line, a, b, k) \cup {<<line[k + 2].flag, line[k + 2].val>>}
        /\ OperandsUpTo(line, a, b, k + 1) = OperandsUpTo(line, a, b, k)
    BY <1>2, SpreadSwitch
  <2>q. QED BY <2>2, <2>3, Zenon DEF UpTo
<1>q. QED BY <1>1, <1>2

\* Two operands anywhere among switches are read as the two operands, and the rest
\* as the switches.
LEMMA SpreadRead ==
    ASSUME NEW line \in Seq(Spelled), line # <<>>, NEW a, NEW b, Spread(line, a, b),
           Named(ValueFlags(Name(line))),
           \A i \in 2..Len(line) : IsFlag(line[i]) => ~TakesNext(ValueFlags(Name(line)), line[i])
    PROVE  Getopt(line) = OptAt({<<line[j].flag, line[j].val>> : j \in (2..Len(line)) \ {a, b}},
                                <<line[a].val, line[b].val>>)
<1> DEFINE n == Len(line) - 1
           valued == ValueFlags(Name(line))
<1>0. n \in Nat /\ Len(line) = n + 1
  OBVIOUS
<1>1. PICK t \in [0..n -> OptState] :
         /\ t[0] = OptBegin
         /\ \A i \in 1..n : t[i] = Option(valued, t[i - 1], line[i + 1])
         /\ Getopt(line) = t[n]
  BY OptRuns
<1> HIDE DEF n, valued
<1> DEFINE S == {k \in Nat : k <= n => t[k] = UpTo(line, a, b, k)}
<1>2. 0 \in S
  BY <1>1, SpreadBegins
<1>3. ASSUME NEW k \in S PROVE k + 1 \in S
  <2>1. SUFFICES ASSUME k + 1 <= n PROVE t[k + 1] = UpTo(line, a, b, k + 1)
    OBVIOUS
  <2>2. k \in Nat /\ k + 1 \in 1..n /\ k + 1 - 1 = k /\ k + 2 <= Len(line) /\ k + 1 + 1 = k + 2
    BY <1>0, <2>1
  <2>3. t[k] = UpTo(line, a, b, k)
    <3>1. k <= n
      BY <1>0, <2>1
    <3>q. QED BY <3>1
  <2>4. t[k + 1] = Option(valued, t[k], line[k + 2])
    BY <1>1, <2>2
  <2>5. Option(valued, UpTo(line, a, b, k), line[k + 2]) = UpTo(line, a, b, k + 1)
    BY <2>2, SpreadStep DEF valued
  <2>q. QED BY <2>3, <2>4, <2>5
<1>4. S = Nat
  <2>1. S \in SUBSET Nat
    OBVIOUS
  <2> HIDE DEF S
  <2>q. QED BY <1>2, <1>3, <2>1, Induction
<1>5. Getopt(line) = UpTo(line, a, b, n)
  BY <1>0, <1>1, <1>4
<1>6. OperandsUpTo(line, a, b, n) = <<line[a].val, line[b].val>>
  BY <1>0 DEF OperandsUpTo, Spread
<1>7. SwitchesUpTo(line, a, b, n) = {<<line[j].flag, line[j].val>> : j \in (2..Len(line)) \ {a, b}}
  BY <1>0 DEF SwitchesUpTo
<1>q. QED BY <1>5, <1>6, <1>7, Zenon DEF UpTo

\* A set of two positions has a first and a second.
LEMMA TwoNumbers ==
    ASSUME NEW n \in Nat, NEW P \in SUBSET (2..n), Cardinality(P) = 2
    PROVE  \E a \in 2..n, b \in 2..n : a < b /\ P = {a, b}
<1>1. IsFiniteSet(P)
  <2>1. IsFiniteSet(2..n)
    BY FS_Interval
  <2> DEFINE I == 2..n
  <2>2. IsFiniteSet(I) /\ P \in SUBSET I
    BY <2>1
  <2> HIDE DEF I
  <2>q. QED BY <2>2, FS_Subset
<1>2. PICK x \in P : TRUE
  <2>1. P # {}
    BY FS_EmptySet
  <2>q. QED BY <2>1
<1>3. IsFiniteSet(P \ {x}) /\ Cardinality(P \ {x}) = 1
  BY <1>1, <1>2, FS_RemoveElement
<1>4. PICK y \in P \ {x} : TRUE
  <2>1. P \ {x} # {}
    BY <1>3, FS_EmptySet
  <2>q. QED BY <2>1
<1>5. IsFiniteSet((P \ {x}) \ {y}) /\ Cardinality((P \ {x}) \ {y}) = 0
  BY <1>3, <1>4, FS_RemoveElement
<1>6. (P \ {x}) \ {y} = {}
  BY <1>5, FS_EmptySet
<1>7. P = {x, y} /\ x # y /\ x \in 2..n /\ y \in 2..n
  BY <1>2, <1>4, <1>6
<1>8. CASE x < y
  BY <1>7, <1>8
<1>9. CASE y < x
  BY <1>7, <1>9
<1>q. QED BY <1>7, <1>8, <1>9

LEMMA Outermost ==
    ASSUME NEW a \in Nat, NEW b \in Nat, a < b PROVE Min({a, b}) = a /\ Max({a, b}) = b
BY DEF Min, Max

\* What is parsed as a search of one file for a fixed string.
PlainOf(line) == {i \in 2..Len(line) : ~IsFlag(line[i])}
FlagsOf(line) == {line[i] : i \in (2..Len(line)) \ PlainOf(line)}

LEMMA FixedRgParsed ==
    ASSUME NEW line, parseFixedRgArgs(line) # NoOperation
    PROVE  /\ Cardinality(PlainOf(line)) = 2
           /\ FlagsOf(line) \subseteq {F("-F"), F("-q"), F("-n")} /\ F("-F") \in FlagsOf(line)
           /\ parseFixedRgArgs(line)
              = [Operation("rg", line[Max(PlainOf(line))]) EXCEPT
                   !.pattern = line[Min(PlainOf(line))].val,
                   !.quiet = F("-q") \in FlagsOf(line), !.number = F("-n") \in FlagsOf(line)]
           /\ Inspected(line[Max(PlainOf(line))])
BY Zenon DEF parseFixedRgArgs, PlainOf, FlagsOf

LEMMA RgValuedNamed == ValueFlags("rg") = RgValued /\ Named(RgValued)
<1>1. ValueFlags("rg") = RgValued
  BY DEF ValueFlags, RgValued
<1>2. Named(RgValued)
  BY DEF Named, RgValued
<1>q. QED BY <1>1, <1>2

LEMMA FixedFlags ==
    ASSUME NEW f \in {F("-F"), F("-q"), F("-n")}
    PROVE  f.flag \in {"-F", "-q", "-n"} /\ f.val = "" /\ f.flag # "--pre" /\ ~TakesNext(RgValued, f)
<1>1. f.flag \in {"-F", "-q", "-n"} /\ f.val = ""
  BY WordShape
<1>2. f.flag # "--pre" /\ f.flag \notin RgValued
  BY <1>1 DEF RgValued
<1>q. QED BY <1>1, <1>2 DEF TakesNext

\* A fixed search of one file is read as its flags, its pattern and its file.
LEMMA FixedRgRead ==
    ASSUME NEW line \in Seq(Spelled), line # <<>>, Name(line) = "rg",
           parseFixedRgArgs(line) # NoOperation
    PROVE  Getopt(line) = OptAt({<<f.flag, f.val>> : f \in FlagsOf(line)},
                                <<line[Min(PlainOf(line))].val, line[Max(PlainOf(line))].val>>)
<1> DEFINE n == Len(line)
<1>0. n \in Nat /\ PlainOf(line) \in SUBSET (2..n)
  BY DEF PlainOf
<1>1. PICK a \in 2..n, b \in 2..n : a < b /\ PlainOf(line) = {a, b}
  <2>1. Cardinality(PlainOf(line)) = 2
    BY FixedRgParsed
  <2> HIDE DEF n
  <2>q. QED BY <1>0, <2>1, TwoNumbers
<1>2. Spread(line, a, b)
  <2>1. ASSUME NEW i \in 2..n PROVE IsFlag(line[i]) <=> (i # a /\ i # b)
    <3>1. i \in PlainOf(line) <=> i \in {a, b}
      BY <1>1
    <3>q. QED BY <3>1 DEF PlainOf
  <2>q. QED BY <1>1, <2>1 DEF Spread
<1>3. ASSUME NEW i \in 2..n, IsFlag(line[i]) PROVE ~TakesNext(ValueFlags(Name(line)), line[i])
  <2>1. line[i] \in FlagsOf(line)
    BY <1>3 DEF FlagsOf, PlainOf
  <2>2. line[i] \in {F("-F"), F("-q"), F("-n")}
    BY <2>1, FixedRgParsed
  <2>q. QED BY <2>2, FixedFlags, RgValuedNamed
<1>4. Getopt(line) = OptAt({<<line[j].flag, line[j].val>> : j \in (2..Len(line)) \ {a, b}},
                           <<line[a].val, line[b].val>>)
  BY <1>2, <1>3, RgValuedNamed, SpreadRead
<1>5. {<<line[j].flag, line[j].val>> : j \in (2..Len(line)) \ {a, b}} = {<<f.flag, f.val>> : f \in FlagsOf(line)}
  BY <1>1 DEF FlagsOf
<1>6. Min(PlainOf(line)) = a /\ Max(PlainOf(line)) = b
  <2>1. a \in Nat /\ b \in Nat /\ a < b
    BY <1>0, <1>1
  <2>q. QED BY <1>1, <2>1, Outermost
<1>q. QED BY <1>4, <1>5, <1>6

LEMMA GitFirst ==
    ASSUME NEW sub, NEW line, NEW v, NEW w
    PROVE  /\ line = Git(sub, <<>>) => line[1] = W("git")
           /\ line = Git(sub, <<w>>) => line[1] = W("git")
           /\ line = Git(sub, <<v, w>>) => line[1] = W("git")
<1>1. ASSUME line = Git(sub, <<>>) PROVE line[1] = W("git")
  <2>1. line = <<W("git"), W(sub)>>
    BY <1>1, Joined DEF Git
  <2>q. QED BY <2>1
<1>2. ASSUME line = Git(sub, <<w>>) PROVE line[1] = W("git")
  <2>1. line = <<W("git"), W(sub), w>>
    BY <1>2, Joined DEF Git
  <2>q. QED BY <2>1
<1>3. ASSUME line = Git(sub, <<v, w>>) PROVE line[1] = W("git")
  <2>1. line = <<W("git"), W(sub), v, w>>
    BY <1>3, Joined DEF Git
  <2>q. QED BY <2>1
<1>q. QED BY <1>1, <1>2, <1>3

\* What is matched for git is a line of git.
LEMMA GitNames ==
    ASSUME NEW line \in Seq(Spelled), line # <<>>,
           \/ isGitMetadata(line) \/ isGitRepoState(line)
           \/ isGitHeadSubjectLog(line) \/ isBoundedGitOnelineLog(line)
    PROVE  Name(line) = "git"
<1>0. SUFFICES ASSUME ~isBoundedGitOnelineLog(line) PROVE line[1] = W("git")
  <2>1. line[1] = W("git") => line[1].val = "git"
    BY WordShape
  <2>q. QED BY <2>1 DEF Name, isBoundedGitOnelineLog
<1>1. CASE isGitMetadata(line)
  BY <1>1, GitFirst DEF isGitMetadata, isGitBranchShowCurrent
<1>2. CASE isGitHeadSubjectLog(line)
  BY <1>2, GitFirst DEF isGitHeadSubjectLog
<1>3. CASE isGitStatusState(line)
  BY <1>3, GitFirst DEF isGitStatusState
<1>4. CASE isGitLsFiles(line)
  BY <1>4, GitFirst DEF isGitLsFiles
<1>5. CASE isGitReadOnlyDiff(line)
  <2>1. CASE line \in {Git("diff", <<>>), Git("diff", <<F("--stat")>>), Git("diff", <<F("--check")>>)}
    BY <2>1, GitFirst
  <2>2. CASE Len(line) >= 4 /\ SubSeq(line, 1, 3) = Git("diff", <<F("--")>>)
    <3>1. SubSeq(line, 1, 3)[1] = W("git")
      BY <2>2, GitFirst
    <3>2. SubSeq(line, 1, 3) = <<line[1], line[2], line[3]>>
      <4>1. Len(line) >= 3
        BY <2>2
      <4>q. QED BY <4>1, Prefixed
    <3>q. QED BY <3>1, <3>2
  <2>q. QED BY <1>5, <2>1, <2>2 DEF isGitReadOnlyDiff
<1>q. QED BY <1>0, <1>1, <1>2, <1>3, <1>4, <1>5 DEF isGitRepoState

\* What is allowed and is not git's.
LEMMA OtherAllowed ==
    ASSUME NEW line \in Seq(Spelled), line # <<>>, IsReplayAllowed(line), Name(line) # "git"
    PROVE  \/ isReplayableFileInspection(line) \/ isDirectoryListing(line)
           \/ isEnvironmentProbe(line) \/ isBoundedRgRepoSearch(line)
BY GitNames DEF IsReplayAllowed, IsFastPathAllowed, IsProofGatedReplayCandidate

\* Probes of the environment, by program.
LEMMA ProbeNames ==
    ASSUME NEW line \in Seq(Spelled), line # <<>>, isEnvironmentProbe(line)
    PROVE  \/ isToolVersionProbe(line)
           \/ Name(line) \in {"which", "whoami", "uname", "printenv"}
<1>1. ASSUME line = <<W("uname"), F("-a")>> PROVE Name(line) = "uname"
  <2>1. line[1] = W("uname")
    BY <1>1
  <2>2. line[1].val = "uname"
    BY <2>1, WordShape
  <2>q. QED BY <2>2 DEF Name
<1>q. QED BY <1>1 DEF isEnvironmentProbe, isCommandPathLookup, isStaticEnvironmentProbe, isPrintenvProbe

LEMMA VersionWords ==
    ASSUME NEW line \in Seq(Spelled), line # <<>>, isToolVersionProbe(line)
    PROVE  /\ Len(line) = 2 /\ line[2] \in {W("version"), F("--version")}
           /\ Name(line) \in {"go", "git", "npm", "python", "rg", "cargo"}
           /\ Name(line) = "rg" => line[2] = F("--version")
<1>1. ASSUME NEW p \in {"go", "git"}, line = <<W(p), W("version")>>
      PROVE  Len(line) = 2 /\ line[2] = W("version") /\ Name(line) = p
  <2>1. Len(line) = 2 /\ line[2] = W("version") /\ line[1] = W(p)
    BY <1>1
  <2>2. line[1].val = p
    BY <2>1, WordShape
  <2>q. QED BY <2>1, <2>2 DEF Name
<1>2. CASE line \in {<<W("go"), W("version")>>, <<W("git"), W("version")>>}
  BY <1>1, <1>2
<1>3. CASE Len(line) = 2 /\ line[2] = F("--version")
           /\ Name(line) \in {"git", "npm", "python", "rg", "cargo"}
  BY <1>3
<1>q. QED BY <1>2, <1>3 DEF isToolVersionProbe

\* Nothing that is allowed of rg starts another program.
LEMMA RgLooks ==
    ASSUME NEW line \in Seq(Spelled), line # <<>>, IsReplayAllowed(line), Name(line) = "rg"
    PROVE  OnlyLooks(line)
<1>0. SUFFICES ASSUME NEW o \in Getopt(line).options PROVE o[1] # "--pre"
  BY DEF OnlyLooks
<1>1. CASE isBoundedRgRepoSearch(line)
  BY <1>1, RgUnderstood DEF Agree, AgreeOptions
<1>2. CASE parseFixedRgArgs(line) # NoOperation
  <2>1. Getopt(line).options = {<<f.flag, f.val>> : f \in FlagsOf(line)}
    <3> DEFINE opts == {<<f.flag, f.val>> : f \in FlagsOf(line)}
               ops == <<line[Min(PlainOf(line))].val, line[Max(PlainOf(line))].val>>
    <3>1. Getopt(line) = OptAt(opts, ops)
      BY <1>2, FixedRgRead
    <3> HIDE DEF opts, ops
    <3>2. Getopt(line).options = opts
      BY <3>1, OptAtIs
    <3>q. QED BY <3>2 DEF opts
  <2>2. PICK f \in FlagsOf(line) : o = <<f.flag, f.val>>
    BY <2>1
  <2>3. f \in {F("-F"), F("-q"), F("-n")}
    BY <1>2, FixedRgParsed
  <2>4. f.flag # "--pre"
    BY <2>3, FixedFlags
  <2>q. QED BY <2>2, <2>4
<1>3. CASE isToolVersionProbe(line)
  <2>1. Len(line) = 2 /\ line[2] = F("--version")
    BY <1>3, VersionWords
  <2>2. Getopt(line) = Option(RgValued, OptBegin, line[2])
    BY <2>1, Unrolled, RgValuedNamed
  <2>3. line[2].flag = "--version" /\ line[2].val = ""
    BY <2>1, WordShape
  <2>4. IsFlag(line[2]) /\ ~TakesNext(RgValued, line[2])
    BY <2>3 DEF IsFlag, TakesNext, RgValued
  <2>5. Option(RgValued, OptAt({}, <<>>), line[2]) = OptAt({<<line[2].flag, line[2].val>>}, <<>>)
    BY <2>4, FirstSwitch
  <2>6. Getopt(line).options = {<<line[2].flag, line[2].val>>}
    BY <2>2, <2>5, OptBeginIs, OptAtIs
  <2>7. o = <<line[2].flag, line[2].val>>
    BY <2>6
  <2>q. QED BY <2>3, <2>7
<1>4. isBoundedRgRepoSearch(line) \/ parseFixedRgArgs(line) # NoOperation \/ isToolVersionProbe(line)
  <2>1. parseWarmFileOperation(line) # NoOperation => parseFixedRgArgs(line) # NoOperation
    BY DEF parseWarmFileOperation
  <2>2. Name(line) \notin {"which", "whoami", "uname", "printenv", "ls", "file", "git"}
    OBVIOUS
  <2>q. QED BY <2>1, <2>2, OtherAllowed, ProbeNames DEF isReplayableFileInspection, isDirectoryListing
<1>q. QED BY <1>1, <1>2, <1>3, <1>4

\* Whatever is allowed only looks.
LEMMA AllowedLooks ==
    ASSUME PolicyAssumption, NEW line \in Seq(Spelled), line # <<>>, ~IsFlag(line[1]), IsReplayAllowed(line)
    PROVE  OnlyLooks(line)
<1>1. CASE Name(line) = "git"
  BY <1>1, GitAllowed, GitLooks
<1>2. CASE Name(line) = "rg"
  BY <1>2, RgLooks
<1>3. CASE Name(line) = "sed"
  <2>1. Name(line) \notin {"git", "ls", "file", "rg", "which", "whoami", "uname", "printenv",
                           "go", "npm", "python", "cargo"}
    BY <1>3
  <2>2. parseWarmFileOperation(line) # NoOperation
    BY <2>1, OtherAllowed, ProbeNames, VersionWords, RgName DEF isReplayableFileInspection, isDirectoryListing
  <2>q. QED BY <1>3, <2>2, SedLooks
<1>4. CASE Name(line) \in {"go", "npm", "python", "node", "cargo", "make"}
  <2>1. Name(line) \notin {"git", "ls", "file", "rg", "which", "whoami", "uname", "printenv", "sed"}
    BY <1>4
  <2>2. Name(line) \notin FileReaders
    BY <1>4 DEF FileReaders
  <2>3. isToolVersionProbe(line)
    BY <2>1, <2>2, OtherAllowed, ProbeNames, ReaderNames, RgName DEF isReplayableFileInspection, isDirectoryListing
  <2>q. QED BY <2>1, <2>3, VersionWords DEF OnlyLooks
<1>q. QED BY <1>1, <1>2, <1>3, <1>4 DEF OnlyLooks

\* Whatever is allowed is of a known family, and none of those that are never replayed.
LEMMA AllowedKnown ==
    ASSUME NEW line \in Seq(Spelled), line # <<>>, IsReplayAllowed(line)
    PROVE  Classify(line) \notin NeverFamilies \cup {"unknown"}
<1>1. CASE isEnvironmentProbe(line)
  BY <1>1 DEF Classify, NeverFamilies
<1>2. CASE ~isEnvironmentProbe(line) /\ Name(line) = "git"
  <2>1. Matched(line) /\ ~isToolVersionProbe(line)
    BY <1>2, GitAllowed DEF isEnvironmentProbe
  <2>2. ClassifyGit(line) \in {"metadata", "repo state"}
    BY <2>1 DEF Matched, ClassifyGit
  <2>q. QED BY <1>2, <2>2 DEF Classify, NeverFamilies
<1>3. CASE ~isEnvironmentProbe(line) /\ Name(line) # "git"
  <2>1. isReplayableFileInspection(line) \/ isSearch(line)
    BY <1>3, OtherAllowed DEF isSearch
  <2>q. QED BY <1>3, <2>1 DEF Classify, NeverFamilies
<1>q. QED BY <1>1, <1>2, <1>3

\* Nothing is decided to be replayed that is not allowed.
LEMMA MayReplayAllowed ==
    ASSUME NEW line, MayReplay(line) PROVE IsReplayAllowed(line)
BY DEF MayReplay, Decide, IsReplayAllowed

(***************************************************************************)
(* Directories.                                                            *)
(***************************************************************************)

\* A directory spelled from the top, without detours.
Normal(at) ==
    /\ at \in Parts /\ at # <<>> /\ at[1] = "/"
    /\ \A i \in 2..Len(at) : at[i] \notin {"/", ".", ".."}

LEMMA OneOrMore ==
    ASSUME NEW at \in Parts, at # <<>>
    PROVE  /\ Len(at) \in Nat /\ Len(at) >= 1 /\ (Len(at) # 1 => Len(at) > 1 /\ Len(at) \in 2..Len(at))
           /\ \A x : at = <<x>> => Len(at) = 1
<1>1. Len(at) \in Nat /\ Len(at) # 0
  BY DEF Parts
<1>2. \A x : at = <<x>> => Len(at) = 1
  OBVIOUS
<1>3. Len(at) >= 1 /\ (Len(at) # 1 => Len(at) > 1 /\ Len(at) \in 2..Len(at))
  <2> DEFINE n == Len(at)
  <2> HIDE DEF n
  <2>1. n \in Nat /\ n # 0
    BY <1>1 DEF n
  <2>2. n >= 1 /\ (n # 1 => n > 1 /\ n \in 2..n)
    BY <2>1
  <2>q. QED BY <2>2 DEF n
<1>q. QED BY <1>1, <1>2, <1>3

\* From a directory so spelled, Clean and chdir take the same step.
LEMMA NormalNext ==
    ASSUME NEW at, Normal(at), NEW p \in Texts, p # "/"
    PROVE  Normal(Entered(at, p)) /\ Cleaned(at, p) = Entered(at, p)
<1>0. at \in Parts /\ at # <<>> /\ at[1] = "/" /\ Len(at) \in Nat /\ Len(at) >= 1
  BY DEF Normal, Parts
<1>1. CASE p = "."
  BY <1>1 DEF Entered, Cleaned
<1>2. CASE p # "." /\ p # ".."
  <2>1. Entered(at, p) = Append(at, p) /\ Cleaned(at, p) = Append(at, p)
    BY <1>2 DEF Entered, Cleaned
  <2>2. Append(at, p) \in Parts /\ Len(Append(at, p)) = Len(at) + 1
    BY <1>0 DEF Parts
  <2>3. \A i \in 1..Len(at) : Append(at, p)[i] = at[i]
    BY <1>0 DEF Parts
  <2>4. Append(at, p)[Len(at) + 1] = p
    BY <1>0 DEF Parts
  <2>5. \A i \in 2..Len(at) + 1 : i \in 2..Len(at) \/ i = Len(at) + 1
    BY <1>0
  <2>6. Normal(Append(at, p))
    <3>1. Append(at, p)[1] = "/" /\ Append(at, p) # <<>>
      BY <1>0, <2>2, <2>3
    <3>2. ASSUME NEW i \in 2..Len(at) + 1 PROVE Append(at, p)[i] \notin {"/", ".", ".."}
      BY <1>0, <1>2, <2>3, <2>4, <2>5 DEF Normal
    <3>q. QED BY <2>2, <3>1, <3>2 DEF Normal
  <2>q. QED BY <2>1, <2>6
<1>3. CASE p = ".." /\ Len(at) = 1
  <2>1. at = <<"/">>
    BY <1>0, <1>3, AsTuple DEF Parts
  <2>2. at[Len(at)] # ".."
    BY <1>0, <1>3
  <2>3. Entered(at, p) = at
    BY <1>3 DEF Entered
  <2>4. Cleaned(at, p) = at
    BY <1>0, <1>3, <2>1, <2>2 DEF Cleaned
  <2>q. QED BY <2>3, <2>4
<1>4. CASE p = ".." /\ Len(at) # 1
  <2>0. Len(at) > 1 /\ Len(at) \in 2..Len(at)
    BY <1>0, <1>4, OneOrMore
  <2>1. at[Len(at)] # ".."
    BY <2>0 DEF Normal
  <2>2. at # <<"/">>
    BY <1>0, <1>4, OneOrMore
  <2> DEFINE up == SubSeq(at, 1, Len(at) - 1)
  <2>3. Entered(at, p) = up
    BY <1>4, <2>0 DEF Entered
  <2>4. Cleaned(at, p) = up
    BY <1>0, <1>4, <2>1, <2>2 DEF Cleaned
  <2>5. up \in Parts /\ Len(up) = Len(at) - 1 /\ \A i \in 1..Len(at) - 1 : up[i] = at[i]
    BY <1>0, <2>0 DEF Parts
  <2> HIDE DEF up
  <2>6. up[1] = "/" /\ up # <<>>
    BY <1>0, <2>0, <2>5
  <2>7. ASSUME NEW i \in 2..Len(up) PROVE up[i] \notin {"/", ".", ".."}
    <3>1. i \in 1..Len(at) - 1 /\ i \in 2..Len(at)
      BY <2>5, <1>0
    <3>q. QED BY <2>5, <3>1 DEF Normal
  <2>q. QED BY <2>3, <2>4, <2>5, <2>6, <2>7 DEF Normal
<1>q. QED BY <1>1, <1>2, <1>3, <1>4

LEMMA RootNormal == Normal(Root)
<1>1. Root = <<"/", "r">>
  BY DEF Root
<1>2. Len(Root) = 2 /\ Root[1] = "/" /\ Root[2] = "r" /\ Root # <<>>
  BY <1>1
<1>3. \A i \in 2..2 : i = 2
  OBVIOUS
<1>q. QED BY <1>2, <1>3, RootTyped DEF Normal

\* Induction up to a bound.
LEMMA UpToBound ==
    ASSUME NEW n \in Nat, NEW S, 0 \in S, \A k \in 0..n : k \in S /\ k + 1 <= n => k + 1 \in S
    PROVE  n \in S
<1> DEFINE T == {k \in Nat : k <= n => k \in S}
<1>1. 0 \in T
  OBVIOUS
<1>2. ASSUME NEW k \in T PROVE k + 1 \in T
  OBVIOUS
<1>3. T = Nat
  <2>1. T \in SUBSET Nat
    OBVIOUS
  <2> HIDE DEF T
  <2>q. QED BY <1>1, <1>2, <2>1, Induction
<1>4. n \in T
  <2> HIDE DEF T
  <2>q. QED BY <1>3
<1>q. QED BY <1>4

LEMMA PartsAre == ASSUME NEW P \in Parts, NEW i \in 1..Len(P) PROVE P[i] \in Texts
BY DEF Parts

Cleans(Q, s) == \A i \in 1..Len(Q) : s[i] = Cleaned(s[i - 1], Q[i])
Walks(P, at) == \A i \in 1..Len(P) : at[i] = Entered(at[i - 1], P[i])

LEMMA Walked ==
    ASSUME NEW P, NEW at, NEW i \in 1..Len(P), NEW before, i - 1 = before
    PROVE  /\ Cleans(P, at) => at[i] = Cleaned(at[before], P[i])
           /\ Walks(P, at) => at[i] = Entered(at[before], P[i])
BY DEF Cleans, Walks

\* The same parts, none of them the top, from m on as from j on.
Aligned(P, j, Q, m) ==
    /\ Len(P) - j = Len(Q) - m
    /\ \A i \in 1..Len(P) - j : P[j + i] = Q[m + i] /\ P[j + i] # "/"

\* Clean and chdir keep together over the same parts.
LEMMA SameFrom ==
    ASSUME NEW P \in Parts, NEW Q \in Parts, NEW m \in 0..Len(Q), NEW j \in 0..Len(P),
           Aligned(P, j, Q, m), NEW s, Cleans(Q, s), NEW at, Walks(P, at),
           s[m] = at[j], Normal(s[m])
    PROVE  s[Len(Q)] = at[Len(P)] /\ Normal(s[Len(Q)])
<1> DEFINE n == Len(P) - j
           Good(i) == s[m + i] = at[j + i] /\ Normal(s[m + i])
           S == {i \in 0..n : Good(i)}
<1>0. n \in Nat /\ Len(P) \in Nat /\ Len(Q) \in Nat /\ Len(P) = j + n /\ Len(Q) = m + n
      /\ m \in Nat /\ j \in Nat
  BY DEF Parts, Aligned
<1>1. Good(0)
  BY <1>0
<1>2. ASSUME NEW k \in 0..n, Good(k), k + 1 <= n PROVE Good(k + 1)
  <2>1. /\ k + 1 \in 1..Len(P) - j /\ m + (k + 1) \in 1..Len(Q) /\ j + (k + 1) \in 1..Len(P)
        /\ m + (k + 1) - 1 = m + k /\ j + (k + 1) - 1 = j + k
    <3> HIDE DEF n, Good
    <3>q. QED BY <1>0, <1>2
  <2>2. P[j + (k + 1)] = Q[m + (k + 1)] /\ P[j + (k + 1)] # "/" /\ P[j + (k + 1)] \in Texts
    <3>1. P[j + (k + 1)] \in Texts
      BY <2>1, PartsAre
    <3>q. QED BY <2>1, <3>1 DEF Aligned
  <2>3. /\ s[m + (k + 1)] = Cleaned(s[m + k], Q[m + (k + 1)])
        /\ at[j + (k + 1)] = Entered(at[j + k], P[j + (k + 1)])
    <3> HIDE DEF n, Good
    <3>1. ASSUME NEW x, NEW x0, NEW y, NEW y0,
                 x = m + (k + 1), x0 = m + k, y = j + (k + 1), y0 = j + k
          PROVE  s[x] = Cleaned(s[x0], Q[x]) /\ at[y] = Entered(at[y0], P[y])
      <4>1. x \in 1..Len(Q) /\ y \in 1..Len(P) /\ x - 1 = x0 /\ y - 1 = y0
        BY <2>1, <3>1
      <4>2. s[x] = Cleaned(s[x0], Q[x])
        BY <4>1, Walked
      <4>3. at[y] = Entered(at[y0], P[y])
        BY <4>1, Walked
      <4>q. QED BY <4>2, <4>3
    <3>q. QED BY <3>1, Zenon
  <2>q. QED BY <1>2, <2>2, <2>3, NormalNext
<1>3. n \in S
  <2> HIDE DEF n, Good
  <2>1. 0 \in S
    BY <1>0, <1>1
  <2>2. ASSUME NEW k \in 0..n, k \in S, k + 1 <= n PROVE k + 1 \in S
    BY <1>0, <1>2, <2>2
  <2> HIDE DEF S
  <2>q. QED BY <1>0, <2>1, <2>2, UpToBound
<1>q. QED BY <1>0, <1>3

LEMMA NoTop ==
    ASSUME PolicyAssumption, NEW val \in Texts, ~IsAbs(PathOf(val))
    PROVE  \A i \in 1..Len(PathOf(val)) : PathOf(val)[i] # "/"
<1>1. /\ PathOf(val) \in Parts
      /\ \A i \in 2..Len(PathOf(val)) : PathOf(val)[i] # "/"
  BY PathTypes
<1>2. Len(PathOf(val)) \in Nat /\ \A i \in 1..Len(PathOf(val)) : i = 1 \/ i \in 2..Len(PathOf(val))
  BY <1>1 DEF Parts
<1>3. ASSUME NEW i \in 1..Len(PathOf(val)), i = 1 PROVE PathOf(val)[i] # "/"
  <2>1. PathOf(val) # <<>>
    BY <1>3
  <2>q. QED BY <1>3, <2>1 DEF IsAbs
<1>q. QED BY <1>1, <1>2, <1>3

LEMMA NormalNamed ==
    ASSUME NEW at, Normal(at), NEW i \in 1..Len(at) PROVE at[i] # "." /\ at[i] # ".."
<1>1. Len(at) \in Nat
  BY DEF Normal, Parts
<1>2. i = 1 \/ i \in 2..Len(at)
  BY <1>1
<1>q. QED BY <1>2 DEF Normal

LEMMA NextPrefix ==
    ASSUME NEW S, NEW p \in Seq(S), NEW k \in Nat, k + 1 \in 1..Len(p)
    PROVE  Append(SubSeq(p, 1, k), p[k + 1]) = SubSeq(p, 1, k + 1)
OBVIOUS

\* A directory spelled without detours is clean.
LEMMA NormalClean ==
    ASSUME NEW cwd, Normal(cwd), NEW Q \in Parts, Len(cwd) <= Len(Q),
           \A i \in 1..Len(cwd) : Q[i] = cwd[i],
           NEW s, s[0] = <<>>, Cleans(Q, s)
    PROVE  s[Len(cwd)] = cwd
<1> DEFINE n == Len(cwd)
           Good(k) == s[k] = SubSeq(cwd, 1, k)
           S == {k \in 0..n : Good(k)}
<1>0. n \in Nat /\ Len(Q) \in Nat /\ cwd \in Seq(Texts)
  BY DEF Normal, Parts
<1>1. Good(0)
  <2>1. SubSeq(cwd, 1, 0) = <<>>
    BY <1>0
  <2>q. QED BY <2>1
<1>2. ASSUME NEW k \in 0..n, Good(k), k + 1 <= n PROVE Good(k + 1)
  <2>1. k + 1 \in 1..Len(Q) /\ k + 1 - 1 = k /\ k + 1 \in 1..Len(cwd)
    BY <1>0, <1>2
  <2>2. s[k + 1] = Cleaned(SubSeq(cwd, 1, k), cwd[k + 1])
    <3>1. s[k + 1] = Cleaned(s[k], Q[k + 1]) /\ Q[k + 1] = cwd[k + 1]
      BY <2>1 DEF Cleans
    <3>q. QED BY <1>2, <3>1, Zenon
  <2>3. cwd[k + 1] # "." /\ cwd[k + 1] # ".."
    BY <2>1, NormalNamed
  <2>4. s[k + 1] = Append(SubSeq(cwd, 1, k), cwd[k + 1])
    BY <2>2, <2>3 DEF Cleaned
  <2>5. Append(SubSeq(cwd, 1, k), cwd[k + 1]) = SubSeq(cwd, 1, k + 1)
    BY <1>0, <2>1, NextPrefix
  <2>q. QED BY <2>4, <2>5
<1>3. n \in S
  <2> HIDE DEF n, Good
  <2>1. 0 \in S
    BY <1>0, <1>1
  <2>2. ASSUME NEW k \in 0..n, k \in S, k + 1 <= n PROVE k + 1 \in S
    BY <1>0, <1>2, <2>2
  <2> HIDE DEF S
  <2>q. QED BY <1>0, <2>1, <2>2, UpToBound
<1>4. SubSeq(cwd, 1, Len(cwd)) = cwd
  BY <1>0
<1>q. QED BY <1>3, <1>4

LEMMA Joining ==
    ASSUME NEW S, NEW p \in Seq(S), NEW q \in Seq(S)
    PROVE  /\ p \o q \in Seq(S) /\ Len(p \o q) = Len(p) + Len(q)
           /\ \A i \in 1..Len(p) : (p \o q)[i] = p[i]
           /\ \A i \in 1..Len(q) : (p \o q)[Len(p) + i] = q[i]
OBVIOUS

LEMMA TopNormal == Normal(<<"/">>)
<1> DEFINE top == <<"/">>
<1>1. "/" \in Texts
  BY SomeTexts
<1>2. top \in Parts /\ Len(top) = 1 /\ top[1] = "/"
  BY <1>1 DEF Parts
<1>3. top # <<>>
  OBVIOUS
<1>4. 2..1 = {}
  OBVIOUS
<1> HIDE DEF top
<1>5. Normal(top)
  BY <1>2, <1>3, <1>4 DEF Normal
<1>q. QED BY <1>5 DEF top

\* git's directory after a -C is the one it changes to.
LEMMA ResolveWalks ==
    ASSUME PolicyAssumption, NEW cwd, Normal(cwd), NEW val \in Texts
    PROVE  resolveGitCWD(cwd, val) = Walk(cwd, PathOf(val)) /\ Normal(resolveGitCWD(cwd, val))
<1> DEFINE P == PathOf(val)
<1>0. P \in Parts /\ cwd \in Parts /\ Len(P) \in Nat /\ Len(cwd) \in Nat
      /\ \A i \in 2..Len(P) : P[i] # "/"
  BY PathTypes DEF Normal, Parts
<1> HIDE DEF P
<1>1. PICK at \in [0..Len(P) -> Parts] :
         /\ at[0] = cwd
         /\ Walks(P, at)
         /\ Walk(cwd, P) = at[Len(P)]
  BY <1>0, WalkRuns DEF Walks
<1>2. CASE IsAbs(P)
  <2>1. PICK s \in [0..Len(P) -> Parts] :
           /\ s[0] = <<>>
           /\ Cleans(P, s)
           /\ Clean(P) = s[Len(P)]
    BY <1>0, CleanRuns DEF Cleans
  <2>2. P # <<>> /\ P[1] = "/"
    BY <1>2 DEF IsAbs
  <2>3. Len(P) >= 1
    BY <1>0, <2>2, OneOrMore
  <2>4. s[1] = Cleaned(<<>>, "/") /\ at[1] = Entered(cwd, "/")
    <3>1. 1 \in 1..Len(P) /\ 1 - 1 = 0
      BY <1>0, <2>3
    <3>q. QED BY <1>1, <2>1, <2>2, <3>1 DEF Cleans, Walks
  <2>5. s[1] = <<"/">> /\ at[1] = <<"/">>
    BY <2>4, Sums DEF Cleaned, Entered
  <2>6. Normal(<<"/">>)
    BY TopNormal
  <2>7. Clean(P) = Walk(cwd, P) /\ Normal(Clean(P))
    <3>1. 1 \in 0..Len(P) /\ Len(P) - 1 = Len(P) - 1
      BY <1>0, <2>3
    <3>2. \A i \in 1..Len(P) - 1 : P[1 + i] = P[1 + i] /\ P[1 + i] # "/"
      <4>1. \A i \in 1..Len(P) - 1 : 1 + i \in 2..Len(P)
        BY <1>0
      <4>q. QED BY <1>0, <4>1
    <3>3. s[1] = at[1] /\ Normal(s[1])
      BY <2>5, <2>6
    <3>4. Aligned(P, 1, P, 1)
      BY <3>1, <3>2 DEF Aligned
    <3>q. QED BY <1>0, <1>1, <2>1, <3>1, <3>3, <3>4, SameFrom
  <2>q. QED BY <1>2, <2>7 DEF resolveGitCWD, P
<1>3. CASE ~IsAbs(P)
  <2> DEFINE Q == cwd \o P
             m == Len(cwd)
  <2>0. /\ Q \in Parts /\ Len(Q) = m + Len(P) /\ \A i \in 1..m : Q[i] = cwd[i]
        /\ \A i \in 1..Len(P) : Q[m + i] = P[i]
    <3>1. P \in Seq(Texts) /\ cwd \in Seq(Texts)
      BY <1>0 DEF Parts
    <3>q. QED BY <3>1, Joining DEF Parts
  <2> HIDE DEF Q
  <2>1. PICK s \in [0..Len(Q) -> Parts] :
           /\ s[0] = <<>>
           /\ Cleans(Q, s)
           /\ Clean(Q) = s[Len(Q)]
    BY <2>0, CleanRuns DEF Cleans
  <2>2. s[m] = cwd
    <3>1. Len(cwd) <= Len(Q)
      BY <1>0, <2>0
    <3>q. QED BY <2>0, <2>1, <3>1, NormalClean
  <2>3. \A i \in 1..Len(P) : P[i] # "/"
    BY <1>3, NoTop DEF P
  <2>4. Clean(Q) = Walk(cwd, P) /\ Normal(Clean(Q))
    <3>1. m \in 0..Len(Q) /\ 0 \in 0..Len(P) /\ Len(P) - 0 = Len(Q) - m
      BY <1>0, <2>0
    <3>2. \A i \in 1..Len(P) - 0 : P[0 + i] = Q[m + i] /\ P[0 + i] # "/"
      <4>1. Len(P) - 0 = Len(P) /\ \A i \in 1..Len(P) : 0 + i = i
        BY <1>0
      <4>q. QED BY <2>0, <2>3, <4>1
    <3>3. s[m] = at[0] /\ Normal(s[m])
      BY <1>1, <2>2
    <3>4. Aligned(P, 0, Q, m)
      BY <3>1, <3>2 DEF Aligned
    <3> HIDE DEF m
    <3>5. P \in Parts /\ Q \in Parts /\ m \in 0..Len(Q) /\ 0 \in 0..Len(P) /\ Cleans(Q, s) /\ Walks(P, at)
      BY <1>0, <1>1, <2>0, <2>1, <3>1
    <3>6. s[Len(Q)] = at[Len(P)] /\ Normal(s[Len(Q)])
      BY <3>3, <3>4, <3>5, SameFrom
    <3>q. QED BY <1>1, <2>1, <3>6
  <2>q. QED BY <1>3, <2>4 DEF resolveGitCWD, P, Q
<1>q. QED BY <1>2, <1>3

(***************************************************************************)
(* A relative path without .. leads below where it is taken from.          *)
(***************************************************************************)
Below(s, at) ==
    /\ s \in Parts /\ at \in Parts /\ Len(at) = 2 + Len(s) /\ at[1] = "/" /\ at[2] = "r"
    /\ \A i \in 1..Len(s) : at[2 + i] = s[i] /\ s[i] # ".." /\ s[i] # "/"

Above(s) == s \in Parts /\ s # <<>> /\ s[1] = ".."

LEMMA FirstStays ==
    ASSUME NEW S, NEW s \in Seq(S), s # <<>>, NEW p \in S
    PROVE  /\ Append(s, p) # <<>> /\ Append(s, p)[1] = s[1]
           /\ Len(s) > 1 => SubSeq(s, 1, Len(s) - 1) # <<>> /\ SubSeq(s, 1, Len(s) - 1)[1] = s[1]
<1>1. Len(s) \in Nat /\ Len(s) >= 1
  OBVIOUS
<1>2. Len(Append(s, p)) = Len(s) + 1 /\ Append(s, p)[1] = s[1]
  BY <1>1
<1>3. ASSUME Len(s) > 1
      PROVE  Len(SubSeq(s, 1, Len(s) - 1)) = Len(s) - 1 /\ SubSeq(s, 1, Len(s) - 1)[1] = s[1]
  BY <1>1, <1>3
<1>4. Append(s, p) # <<>>
  BY <1>1, <1>2
<1>5. ASSUME Len(s) > 1 PROVE SubSeq(s, 1, Len(s) - 1) # <<>>
  <2>1. Len(SubSeq(s, 1, Len(s) - 1)) # 0
    <3> DEFINE n == Len(s)
               m == Len(SubSeq(s, 1, n - 1))
    <3>1. n \in Nat /\ n > 1 /\ m = n - 1
      BY <1>1, <1>3, <1>5
    <3> HIDE DEF n, m
    <3>2. m # 0
      BY <3>1
    <3>q. QED BY <3>2 DEF n, m
  <2>2. Len(<<>>) = 0
    OBVIOUS
  <2>q. QED BY <2>1, <2>2, Zenon
<1>q. QED BY <1>2, <1>3, <1>4, <1>5

\* What begins with .. keeps it.
LEMMA AboveStays ==
    ASSUME NEW s, Above(s), NEW p \in Texts PROVE Above(Cleaned(s, p))
<1>0. s \in Parts /\ s # <<>> /\ s[1] = ".." /\ s \in Seq(Texts)
  BY DEF Above, Parts
<1>1. Cleaned(s, p) \in Parts
  BY <1>0, CleanSteps
<1>2. CASE p = "."
  BY <1>2 DEF Cleaned
<1>3. CASE p # "." /\ (p # ".." \/ s[Len(s)] = "..")
  <2>1. Cleaned(s, p) = Append(s, p)
    BY <1>0, <1>3 DEF Cleaned
  <2>q. QED BY <1>0, <1>1, <2>1, FirstStays DEF Above
<1>4. CASE p = ".." /\ s[Len(s)] # ".."
  <2>1. Len(s) # 1
    BY <1>0, <1>4
  <2>2. Len(s) > 1
    BY <1>0, <2>1, OneOrMore
  <2>3. s # <<"/">>
    BY <1>0, <2>1, OneOrMore
  <2>4. Cleaned(s, p) = SubSeq(s, 1, Len(s) - 1)
    BY <1>0, <1>4, <2>3 DEF Cleaned
  <2>q. QED BY <1>0, <1>1, <2>2, <2>4, FirstStays DEF Above
<1>q. QED BY <1>2, <1>3, <1>4

LEMMA BelowTypes ==
    ASSUME NEW s, NEW at, Below(s, at)
    PROVE  s \in Seq(Texts) /\ at \in Seq(Texts) /\ Len(s) \in Nat /\ Len(at) = 2 + Len(s) /\ Len(at) > 1
BY DEF Below, Parts

LEMMA Added ==
    ASSUME NEW S, NEW s \in Seq(S), NEW p \in S
    PROVE  /\ Append(s, p) \in Seq(S) /\ Len(Append(s, p)) = Len(s) + 1
           /\ \A i \in 1..Len(s) : Append(s, p)[i] = s[i]
           /\ Append(s, p)[Len(s) + 1] = p
OBVIOUS

LEMMA Shortened ==
    ASSUME NEW S, NEW s \in Seq(S), Len(s) >= 1
    PROVE  /\ SubSeq(s, 1, Len(s) - 1) \in Seq(S) /\ Len(SubSeq(s, 1, Len(s) - 1)) = Len(s) - 1
           /\ \A i \in 1..Len(s) - 1 : SubSeq(s, 1, Len(s) - 1)[i] = s[i]
<1>1. Len(s) \in Nat
  OBVIOUS
<1>2. SubSeq(s, 1, Len(s) - 1) \in Seq(S)
  OBVIOUS
<1>3. Len(SubSeq(s, 1, Len(s) - 1)) = Len(s) - 1
  <2> DEFINE n == Len(s) - 1
  <2>1. n \in 0..Len(s)
    BY <1>1
  <2> HIDE DEF n
  <2>2. Len(SubSeq(s, 1, n)) = n
    BY <1>1, <2>1
  <2>q. QED BY <2>2 DEF n
<1>4. \A i \in 1..Len(s) - 1 : SubSeq(s, 1, Len(s) - 1)[i] = s[i]
  <2> DEFINE n == Len(s) - 1
  <2>1. SubSeq(s, 1, n) = [i \in 1..n |-> s[i]]
    <3>1. n \in Nat
      BY <1>1
    <3> HIDE DEF n
    <3>2. (1 + n) - 1 = n /\ \A i \in 1..n : (i + 1) - 1 = i
      BY <3>1
    <3>q. QED BY <3>1, <3>2 DEF SubSeq
  <2> HIDE DEF n
  <2>2. \A i \in 1..n : SubSeq(s, 1, n)[i] = s[i]
    BY <2>1
  <2>q. QED BY <2>2 DEF n
<1>q. QED BY <1>2, <1>3, <1>4

LEMMA BelowAppend ==
    ASSUME NEW s, NEW at, Below(s, at), NEW p \in Texts, p # "..", p # "/"
    PROVE  Below(Append(s, p), Append(at, p))
<1> DEFINE u == Append(s, p)
           v == Append(at, p)
           n == Len(s)
<1>0. s \in Seq(Texts) /\ at \in Seq(Texts) /\ n \in Nat /\ Len(at) = 2 + n
  BY BelowTypes
<1>1. u \in Parts /\ v \in Parts /\ Len(u) = n + 1 /\ Len(v) = 2 + n + 1
  BY <1>0, Added DEF Parts
<1>2. /\ \A i \in 1..n : u[i] = s[i]
      /\ \A i \in 1..2 + n : v[i] = at[i]
      /\ u[n + 1] = p /\ v[2 + n + 1] = p
  BY <1>0, Added
<1> HIDE DEF u, v, n
<1>3. \A i \in 1..n : at[2 + i] = s[i] /\ s[i] # ".." /\ s[i] # "/"
  BY DEF Below, n
<1>4. 1 \in 1..2 + n /\ 2 \in 1..2 + n
  BY <1>0
<1>5. v[1] = "/" /\ v[2] = "r"
  BY <1>2, <1>4 DEF Below
<1>6. ASSUME NEW i \in 1..n + 1 PROVE v[2 + i] = u[i] /\ u[i] # ".." /\ u[i] # "/"
  <2>1. CASE i \in 1..n
    <3>1. 2 + i \in 1..2 + n
      BY <1>0, <2>1
    <3>q. QED BY <1>2, <1>3, <2>1, <3>1
  <2>2. CASE i = n + 1
    <3>1. 2 + i = 2 + n + 1
      BY <1>0, <2>2
    <3>q. QED BY <1>2, <2>2, <3>1
  <2>3. i \in 1..n \/ i = n + 1
    BY <1>0
  <2>q. QED BY <2>1, <2>2, <2>3
<1>7. Len(v) = 2 + Len(u)
  BY <1>0, <1>1
<1>q. QED BY <1>1, <1>5, <1>6, <1>7 DEF Below, u, v

LEMMA BelowUp ==
    ASSUME NEW s, NEW at, Below(s, at), s # <<>>
    PROVE  Below(SubSeq(s, 1, Len(s) - 1), SubSeq(at, 1, Len(at) - 1))
<1> DEFINE n == Len(s)
           u == SubSeq(s, 1, n - 1)
           v == SubSeq(at, 1, Len(at) - 1)
<1>0. s \in Seq(Texts) /\ at \in Seq(Texts) /\ n \in Nat /\ Len(at) = 2 + n /\ n >= 1
  <2>1. s \in Parts
    BY DEF Below
  <2>q. QED BY <2>1, BelowTypes, OneOrMore
<1>1. u \in Parts /\ v \in Parts /\ Len(u) = n - 1 /\ Len(v) = 2 + n - 1
  BY <1>0, Shortened DEF Parts
<1>2. /\ \A i \in 1..n - 1 : u[i] = s[i]
      /\ \A i \in 1..2 + n - 1 : v[i] = at[i]
  BY <1>0, Shortened
<1> HIDE DEF u, v, n
<1>3. \A i \in 1..n : at[2 + i] = s[i] /\ s[i] # ".." /\ s[i] # "/"
  BY DEF Below, n
<1>4. 1 \in 1..2 + n - 1 /\ 2 \in 1..2 + n - 1
  BY <1>0
<1>5. v[1] = "/" /\ v[2] = "r"
  BY <1>2, <1>4 DEF Below
<1>6. ASSUME NEW i \in 1..n - 1 PROVE v[2 + i] = u[i] /\ u[i] # ".." /\ u[i] # "/"
  <2>1. i \in 1..n /\ 2 + i \in 1..2 + n - 1
    BY <1>0
  <2>q. QED BY <1>2, <1>3, <2>1
<1>7. Len(v) = 2 + Len(u)
  BY <1>0, <1>1
<1>q. QED BY <1>1, <1>5, <1>6, <1>7 DEF Below, u, v, n

\* Below the root, a part leads further down, or Clean has got above where it began.
LEMMA BelowStep ==
    ASSUME NEW s, NEW at, Below(s, at), NEW p \in Texts, p # "/"
    PROVE  Above(Cleaned(s, p)) \/ Below(Cleaned(s, p), Entered(at, p))
<1>0. s \in Parts /\ at \in Parts /\ Len(at) > 1
  BY BelowTypes DEF Below
<1>1. CASE p = "."
  <2>1. Cleaned(s, p) = s /\ Entered(at, p) = at
    BY <1>1 DEF Cleaned, Entered
  <2>q. QED BY <2>1
<1>2. CASE p # "." /\ p # ".."
  <2>1. Cleaned(s, p) = Append(s, p) /\ Entered(at, p) = Append(at, p)
    BY <1>2 DEF Cleaned, Entered
  <2>q. QED BY <1>2, <2>1, BelowAppend
<1>3. CASE p = ".." /\ s = <<>>
  <2> DEFINE up == <<"..">>
  <2>1. Cleaned(s, p) = up
    BY <1>3, Sums DEF Cleaned
  <2>2. up \in Parts
    BY <1>0, <2>1, CleanSteps
  <2>3. up # <<>> /\ up[1] = ".."
    OBVIOUS
  <2>q. QED BY <2>1, <2>2, <2>3 DEF Above
<1>4. CASE p = ".." /\ s # <<>>
  <2>1. Len(s) \in 1..Len(s) /\ 1 \in 1..Len(s)
    <3> DEFINE n == Len(s)
    <3>1. n \in Nat /\ n >= 1
      BY <1>0, <1>4, OneOrMore
    <3> HIDE DEF n
    <3>2. n \in 1..n /\ 1 \in 1..n
      BY <3>1
    <3>q. QED BY <3>2 DEF n
  <2>2. s[Len(s)] # ".." /\ s[1] # "/"
    BY <2>1 DEF Below
  <2>3. s # <<"/">>
    <3>1. s = <<"/">> => s[1] = "/"
      OBVIOUS
    <3>q. QED BY <2>2, <3>1
  <2>4. Cleaned(s, p) = SubSeq(s, 1, Len(s) - 1)
    BY <1>4, <2>2, <2>3 DEF Cleaned
  <2>5. Entered(at, p) = SubSeq(at, 1, Len(at) - 1)
    BY <1>0, <1>4 DEF Entered
  <2>q. QED BY <1>4, <2>4, <2>5, BelowUp
<1>q. QED BY <1>1, <1>2, <1>3, <1>4

LEMMA RootBelow == Below(<<>>, Root)
<1> DEFINE none == <<>>
<1>1. Root = <<"/", "r">>
  BY DEF Root
<1>2. Len(Root) = 2 /\ Root[1] = "/" /\ Root[2] = "r"
  BY <1>1
<1>3. none \in Parts /\ Len(none) = 0
  BY CleanStarts
<1>4. 1..0 = {} /\ 2 = 2 + 0
  OBVIOUS
<1> HIDE DEF none
<1>5. Below(none, Root)
  BY <1>2, <1>3, <1>4, RootTyped DEF Below
<1>q. QED BY <1>5 DEF none

\* A path that Clean does not take above its start leads below the root.
LEMMA BelowAll ==
    ASSUME NEW P \in Parts, \A i \in 1..Len(P) : P[i] # "/"
    PROVE  Above(Clean(P)) \/ Below(Clean(P), Walk(Root, P))
<1> DEFINE n == Len(P)
<1>0. n \in Nat
  BY DEF Parts
<1>1. PICK at \in [0..n -> Parts] : at[0] = Root /\ Walks(P, at) /\ Walk(Root, P) = at[n]
  BY RootTyped, WalkRuns DEF Walks
<1>2. PICK s \in [0..n -> Parts] : s[0] = <<>> /\ Cleans(P, s) /\ Clean(P) = s[n]
  BY CleanRuns DEF Cleans
<1> DEFINE Good(k) == Above(s[k]) \/ Below(s[k], at[k])
           S == {k \in 0..n : Good(k)}
<1>3. Good(0)
  BY <1>1, <1>2, RootBelow
<1>4. ASSUME NEW k \in 0..n, Good(k), k + 1 <= n PROVE Good(k + 1)
  <2> DEFINE j == k + 1
  <2>1. j \in 1..n /\ j - 1 = k
    BY <1>0, <1>4
  <2>2. P[j] \in Texts /\ P[j] # "/"
    BY <2>1, PartsAre
  <2> HIDE DEF j
  <2>3. s[j] = Cleaned(s[k], P[j]) /\ at[j] = Entered(at[k], P[j])
    <3>1. s[j] = Cleaned(s[k], P[j])
      BY <1>2, <2>1, Walked
    <3>2. at[j] = Entered(at[k], P[j])
      BY <1>1, <2>1, Walked
    <3>q. QED BY <3>1, <3>2
  <2>4. CASE Above(s[k])
    BY <2>2, <2>3, <2>4, AboveStays DEF j
  <2>5. CASE Below(s[k], at[k])
    BY <2>2, <2>3, <2>5, BelowStep DEF j
  <2>q. QED BY <1>4, <2>4, <2>5
<1>5. n \in S
  <2> HIDE DEF n, Good
  <2>1. 0 \in S
    BY <1>0, <1>3
  <2>2. ASSUME NEW k \in 0..n, k \in S, k + 1 <= n PROVE k + 1 \in S
    BY <1>0, <1>4, <2>2
  <2> HIDE DEF S
  <2>q. QED BY <1>0, <2>1, <2>2, UpToBound
<1>q. QED BY <1>1, <1>2, <1>5

\* A path that is clean, relative and without .. leads below the root.
LEMMA WalkSafe ==
    ASSUME PolicyAssumption, NEW val \in Texts, ~IsAbs(Clean(PathOf(val))),
           \A i \in DOMAIN Clean(PathOf(val)) : Clean(PathOf(val))[i] # ".."
    PROVE  Below(Clean(PathOf(val)), Walk(Root, PathOf(val)))
<1> DEFINE P == PathOf(val)
<1>1. P \in Parts
  BY PathTypes
<1>2. CASE IsAbs(P)
  <2>1. resolveGitCWD(Root, val) = Clean(P)
    BY <1>2 DEF resolveGitCWD
  <2>2. Normal(Clean(P))
    BY <2>1, RootNormal, ResolveWalks
  <2>q. QED BY <2>2 DEF Normal, IsAbs
<1>3. CASE ~IsAbs(P)
  <2>1. \A i \in 1..Len(P) : P[i] # "/"
    BY <1>3, NoTop
  <2> HIDE DEF P
  <2>2. Above(Clean(P)) \/ Below(Clean(P), Walk(Root, P))
    BY <1>1, <2>1, BelowAll
  <2>3. ~Above(Clean(P))
    <3>1. ASSUME Above(Clean(P)) PROVE 1 \in DOMAIN Clean(P) /\ Clean(P)[1] = ".."
      BY <3>1, OneOrMore DEF Above, Parts
    <3>q. QED BY <3>1 DEF P
  <2>q. QED BY <2>2, <2>3 DEF P
<1>q. QED BY <1>2, <1>3

\* What is below the root begins with it, and has no other names.
LEMMA BelowRooted ==
    ASSUME NEW s, NEW at, Below(s, at)
    PROVE  /\ IsPrefix(Root, at)
           /\ \A x \in ToSet(at) : x = "/" \/ x = "r" \/ \E i \in DOMAIN s : x = s[i]
<1>0. /\ s \in Seq(Texts) /\ at \in Seq(Texts) /\ Len(s) \in Nat /\ Len(at) = 2 + Len(s)
      /\ at[1] = "/" /\ at[2] = "r" /\ \A i \in 1..Len(s) : at[2 + i] = s[i]
  BY BelowTypes DEF Below
<1>1. SubSeq(at, 1, 2) = <<at[1], at[2]>>
  <2> HIDE DEF Texts
  <2>1. SubSeq(at, 1, 2) \in Seq(Texts) /\ Len(SubSeq(at, 1, 2)) = 2
        /\ SubSeq(at, 1, 2)[1] = at[1] /\ SubSeq(at, 1, 2)[2] = at[2]
    BY <1>0
  <2>q. QED BY <2>1, AsTuple
<1>2. Len(Root) = 2 /\ SubSeq(Root, 1, 2) = <<"/", "r">>
  <2>1. Root = <<"/", "r">>
    BY DEF Root
  <2>2. Len(Root) = 2
    BY <2>1
  <2>3. SubSeq(Root, 1, Len(Root)) = Root
    BY RootTyped DEF Parts
  <2>q. QED BY <2>1, <2>2, <2>3
<1>3. IsPrefix(Root, at)
  <2>1. SubSeq(at, 1, 2) = <<"/", "r">>
    BY <1>0, <1>1
  <2>2. 2 <= Len(at)
    BY <1>0
  <2>q. QED BY <1>2, <2>1, <2>2 DEF IsPrefix
<1>4. ASSUME NEW x \in ToSet(at) PROVE x = "/" \/ x = "r" \/ \E i \in DOMAIN s : x = s[i]
  <2>1. PICK j \in 1..Len(at) : x = at[j]
    BY <1>0 DEF ToSet
  <2>2. j = 1 \/ j = 2 \/ (j - 2 \in 1..Len(s) /\ 2 + (j - 2) = j)
    BY <1>0, <2>1
  <2>3. DOMAIN s = 1..Len(s)
    BY <1>0
  <2>4. ASSUME j - 2 \in 1..Len(s), 2 + (j - 2) = j PROVE \E i \in DOMAIN s : x = s[i]
    BY <1>0, <2>1, <2>3, <2>4, Zenon
  <2>q. QED BY <1>0, <2>1, <2>2, <2>4
<1>q. QED BY <1>3, <1>4

LEMMA NotHidden == "/" \notin Hidden /\ "r" \notin Hidden
BY DEF Hidden

InRoot(val) == IsPrefix(Root, Walk(Root, PathOf(val)))
NoHidden(val) == ToSet(Walk(Root, PathOf(val))) \cap Hidden = {}

\* A file that may be inspected lies in the tree, under no hidden name.
LEMMA InspectedSafe ==
    ASSUME PolicyAssumption, NEW w \in Spelled, Inspected(w)
    PROVE  ~IsFlag(w) /\ InRoot(w.val) /\ NoHidden(w.val)
<1> DEFINE P == PathOf(w.val)
           s == Clean(P)
           at == Walk(Root, P)
<1>1. ~IsFlag(w) /\ ~IsAbs(s) /\ \A i \in DOMAIN s : s[i] # ".." /\ s[i] \notin Hidden
  BY DEF Inspected, safeRelativeInspectionPath
<1>2. Below(s, at)
  <2>1. w.val \in Texts
    BY WordTypes
  <2>q. QED BY <1>1, <2>1, WalkSafe
<1> HIDE DEF P, s, at
<1>3. IsPrefix(Root, at) /\ \A x \in ToSet(at) : x = "/" \/ x = "r" \/ \E i \in DOMAIN s : x = s[i]
  BY <1>2, BelowRooted
<1>4. ToSet(at) \cap Hidden = {}
  <2>1. ASSUME NEW x \in ToSet(at) PROVE x \notin Hidden
    BY <1>1, <1>3, NotHidden
  <2>q. QED BY <2>1
<1>q. QED BY <1>1, <1>3, <1>4 DEF InRoot, NoHidden, P, at

\* A path that may be searched lies in the tree.
LEMMA SearchedSafe ==
    ASSUME PolicyAssumption, NEW val \in Texts, Searched(W(val)) PROVE InRoot(val)
<1> DEFINE s == Clean(PathOf(val))
<1>1. W(val).val = val
  BY WordShape
<1>2. CASE InTree(W(val))
  <2>1. ~IsAbs(s) /\ \A i \in DOMAIN s : s[i] # ".."
    BY <1>1, <1>2 DEF InTree, safeRelativeInspectionPath
  <2>q. QED BY <2>1, WalkSafe, BelowRooted DEF InRoot
<1>3. CASE s = <<>>
  <2>1. ~IsAbs(s) /\ \A i \in DOMAIN s : s[i] # ".."
    BY <1>3 DEF IsAbs
  <2>q. QED BY <2>1, WalkSafe, BelowRooted DEF InRoot
<1>q. QED BY <1>1, <1>2, <1>3 DEF Searched

\* The operands of a bounded search are its pattern and its paths, in the tree.
LEMMA BoundedSafe ==
    ASSUME PolicyAssumption, NEW line \in Seq(Spelled), line # <<>>, isBoundedRgRepoSearch(line)
    PROVE  LET rg == parseBoundedRgRepoArgs(line)
           IN  /\ Getopt(line).operands = rg.pattern \o rg.paths
               /\ \A i \in DOMAIN rg.paths : InRoot(rg.paths[i])
<1> DEFINE rg == parseBoundedRgRepoArgs(line)
<1>1. Agree(rg, Getopt(line))
  BY RgUnderstood
<1>2. PICK end \in RgState : rg = RgParsed(line, end)
  <2>1. PICK s \in [0..Len(line) - 1 -> RgState] :
           parseBoundedRgRepoArgs(line) = RgParsed(line, s[Len(line) - 1])
    BY RgRuns
  <2>2. Len(line) - 1 \in 0..Len(line) - 1
    OBVIOUS
  <2>q. QED BY <2>1, <2>2
<1>3. rg.paths \in Seq(Texts)
  BY <1>2 DEF RgParsed, RgState
<1> HIDE DEF rg
<1>4. ASSUME NEW i \in DOMAIN rg.paths PROVE InRoot(rg.paths[i])
  <2>1. rg.paths[i] \in Texts
    <3> HIDE DEF Texts
    <3>q. QED BY <1>3
  <2>2. Searched(W(rg.paths[i]))
    BY <1>1 DEF Agree, AgreeSearched
  <2>q. QED BY <2>1, <2>2, SearchedSafe
<1>5. Getopt(line).operands = rg.pattern \o rg.paths
  BY <1>1 DEF Agree, AgreeOperands
<1>q. QED BY <1>4, <1>5 DEF rg

(***************************************************************************)
(* The reads of one file.                                                  *)
(***************************************************************************)
LEMMA OneOperand ==
    ASSUME NEW valued, NEW o, NEW w, ~IsFlag(w), Named(valued)
    PROVE  Option(valued, OptAt(o, <<>>), w) = OptAt(o, <<w.val>>)
<1> DEFINE none == <<>>
           one == <<w.val>>
<1>1. Append(none, w.val) = one
  BY Sums
<1> HIDE DEF none, one
<1>2. Option(valued, OptAt(o, none), w) = OptAt(o, Append(none, w.val))
  BY OperandRead
<1>3. none = <<>> /\ one = <<w.val>>
  BY DEF none, one
<1>q. QED BY <1>1, <1>2, <1>3, Zenon

LEMMA NoneNamed == Named({})
BY DEF Named

LEMMA LastOne == ASSUME NEW a, NEW p, p = <<a>> PROVE Len(p) = 1 /\ p[1] = a /\ p[Len(p)] = a
OBVIOUS

LEMMA LastTwo ==
    ASSUME NEW a, NEW b, NEW p, p = <<a, b>> PROVE Len(p) = 2 /\ p[1] = a /\ p[Len(p)] = b
OBVIOUS

Reads(g, o, p) == g.want = "" /\ g.options = o /\ g.operands = p

LEMMA OptAtReads == ASSUME NEW g, NEW o, NEW p, g = OptAt(o, p) PROVE Reads(g, o, p)
BY DEF OptAt, Reads

LEMMA OperationIs ==
    ASSUME NEW kind, NEW w PROVE Operation(kind, w).kind = kind /\ Operation(kind, w).path = w.val
BY DEF Operation

Parsed(line) == parseWarmFileOperation(line)

\* cat of one file.
LEMMA SameCat ==
    ASSUME NEW line \in Seq(Spelled), line # <<>>, Name(line) = "cat", Parsed(line) # NoOperation
    PROVE  SameRead(Parsed(line), line) /\ Inspected(line[2]) /\ Parsed(line).path = line[2].val
<1>1. Len(line) = 2 /\ Inspected(line[2]) /\ Parsed(line) = Operation("cat", line[2])
  BY DEF parseWarmFileOperation, Parsed
<1>2. ValueFlags(Name(line)) = {} /\ ~IsFlag(line[2])
  BY <1>1 DEF ValueFlags, Inspected
<1>3. Getopt(line) = Option({}, OptBegin, line[2])
  BY <1>1, <1>2, Unrolled
<1> DEFINE none == {}
           one == <<line[2].val>>
<1>4. Option(none, OptAt(none, <<>>), line[2]) = OptAt(none, one)
  <2>1. Named(none)
    BY NoneNamed
  <2> HIDE DEF none
  <2>q. QED BY <1>2, <2>1, OneOperand
<1>5. Getopt(line) = OptAt(none, one)
  BY <1>3, <1>4, OptBeginIs
<1>6. Reads(Getopt(line), none, one)
  <2> HIDE DEF none, one
  <2>q. QED BY <1>5, OptAtReads
<1>7. Len(one) = 1 /\ one[Len(one)] = line[2].val
  <2>1. one = <<line[2].val>>
    OBVIOUS
  <2> HIDE DEF one
  <2>q. QED BY <2>1, LastOne
<1>8. Parsed(line).kind = "cat" /\ Parsed(line).path = line[2].val
  BY <1>1, OperationIs
<1> HIDE DEF one
<1>q. QED BY <1>1, <1>6, <1>7, <1>8 DEF SameRead, Reads

\* sed -n of a range of lines.
LEMMA SameSed ==
    ASSUME NEW line \in Seq(Spelled), line # <<>>, Name(line) = "sed", Parsed(line) # NoOperation
    PROVE  SameRead(Parsed(line), line) /\ Inspected(line[4]) /\ Parsed(line).path = line[4].val
<1>1. /\ Len(line) = 4 /\ line[2] = F("-n") /\ ~IsFlag(line[3]) /\ line[3].val \in Selections
      /\ Inspected(line[4]) /\ Parsed(line) = Operation("sed", line[4])
  BY DEF parseWarmFileOperation, Parsed
<1>2. ValueFlags(Name(line)) = {} /\ ~IsFlag(line[4])
  BY <1>1 DEF ValueFlags, Inspected
<1>3. Getopt(line) = Option({}, Option({}, Option({}, OptBegin, F("-n")), line[3]), line[4])
  BY <1>1, <1>2, Unrolled
<1> DEFINE o == {<<"-n", "">>}
           p == <<line[3].val, line[4].val>>
<1>4. Getopt(line) = OptAt(o, p)
  BY <1>1, <1>2, <1>3, SedOptions
<1>5. Reads(Getopt(line), o, p)
  <2> HIDE DEF o, p
  <2>q. QED BY <1>4, OptAtReads
<1>6. p[1] = line[3].val /\ p[Len(p)] = line[4].val
  <2>1. p = <<line[3].val, line[4].val>>
    OBVIOUS
  <2> HIDE DEF p
  <2>q. QED BY <2>1, LastTwo
<1>7. Parsed(line).kind = "sed" /\ Parsed(line).path = line[4].val
  BY <1>1, OperationIs
<1> HIDE DEF p
<1>q. QED BY <1>1, <1>5, <1>6, <1>7 DEF SameRead, Reads

LEMMA SwitchOperand ==
    ASSUME NEW valued, NEW w, NEW v, Named(valued), IsFlag(w), ~TakesNext(valued, w), ~IsFlag(v)
    PROVE  Option(valued, Option(valued, OptBegin, w), v) = OptAt({<<w.flag, w.val>>}, <<v.val>>)
<1> DEFINE o == {<<w.flag, w.val>>}
           p == <<>>
<1>1. Option(valued, OptAt({}, p), w) = OptAt(o, p)
  <2> HIDE DEF p
  <2>q. QED BY FirstSwitch
<1>2. Option(valued, OptAt(o, <<>>), v) = OptAt(o, <<v.val>>)
  <2> HIDE DEF o
  <2>q. QED BY OneOperand
<1>q. QED BY <1>1, <1>2, OptBeginIs, Zenon

\* nl -ba of one file.
LEMMA SameNl ==
    ASSUME NEW line \in Seq(Spelled), line # <<>>, Name(line) = "nl", Parsed(line) # NoOperation
    PROVE  SameRead(Parsed(line), line) /\ Inspected(line[3]) /\ Parsed(line).path = line[3].val
<1>1. /\ Len(line) = 3 /\ line[2] = A("-b", "a")
      /\ Inspected(line[3]) /\ Parsed(line) = Operation("nl", line[3])
  BY DEF parseWarmFileOperation, Parsed
<1>2. ValueFlags(Name(line)) = {} /\ ~IsFlag(line[3])
  BY <1>1 DEF ValueFlags, Inspected
<1>3. Getopt(line) = Option({}, Option({}, OptBegin, line[2]), line[3])
  BY <1>1, <1>2, Unrolled
<1>4. line[2].flag = "-b" /\ line[2].val = "a"
  BY <1>1 DEF A
<1> DEFINE none == {}
           o == {<<line[2].flag, line[2].val>>}
           p == <<line[3].val>>
<1>5. Option(none, Option(none, OptBegin, line[2]), line[3]) = OptAt(o, p)
  <2>1. Named(none) /\ IsFlag(line[2]) /\ ~TakesNext(none, line[2])
    BY <1>4, NoneNamed DEF IsFlag, TakesNext
  <2> HIDE DEF none
  <2>q. QED BY <1>2, <2>1, SwitchOperand
<1>6. Getopt(line) = OptAt(o, p)
  BY <1>3, <1>5
<1>7. Reads(Getopt(line), o, p)
  <2> HIDE DEF o, p
  <2>q. QED BY <1>6, OptAtReads
<1>8. Len(p) = 1 /\ p[Len(p)] = line[3].val
  <2>1. p = <<line[3].val>>
    OBVIOUS
  <2> HIDE DEF p
  <2>q. QED BY <2>1, LastOne
<1>9. o = {<<"-b", "a">>}
  BY <1>4
<1>10. Parsed(line).kind = "nl" /\ Parsed(line).path = line[3].val
  BY <1>1, OperationIs
<1> HIDE DEF o, p
<1>q. QED BY <1>1, <1>7, <1>8, <1>9, <1>10 DEF SameRead, Reads

LEMMA NoNumber == ASSUME PolicyAssumption PROVE ~(Number("") \in 1..1000)
<1>1. Number("") = -1
  BY Zenon DEF PolicyAssumption, Number
<1> DEFINE x == Number("")
<1>2. x = -1
  BY <1>1
<1> HIDE DEF x
<1>3. ~(x \in 1..1000)
  BY <1>2
<1>q. QED BY <1>3 DEF x

Counted(kind, w, n) == [Operation(kind, w) EXCEPT !.count = n]

\* head and tail: how the policy parses them,
LEMMA HeadParsed ==
    ASSUME NEW line, Name(line) \in {"head", "tail"}, Parsed(line) # NoOperation
    PROVE  LET head == parseHeadTailArgs(line)
           IN  /\ Len(line) \in 2..4 /\ head.count \in 1..1000 /\ Inspected(head.path)
               /\ Parsed(line) = Counted(Name(line), head.path, head.count)
BY DEF Counted, parseWarmFileOperation, Parsed

\* the spellings of a count,
LEMMA HeadArgs ==
    ASSUME NEW line, parseHeadTailArgs(line).count \in 1..1000, Len(line) \in 2..4
    PROVE  LET head == parseHeadTailArgs(line)
           IN  \/ Len(line) = 2 /\ head.count = 10 /\ head.path = line[2]
               \/ /\ Len(line) = 3 /\ line[2].flag \in {"-n", "-"}
                  /\ head.count = Number(line[2].val) /\ head.path = line[3]
               \/ /\ Len(line) = 4 /\ line[2] = F("-n")
                  /\ head.count = Number(Text(line[3])) /\ head.path = line[4]
<1>1. 0 \notin 1..1000
  OBVIOUS
<1>2. CASE Len(line) = 2
  BY <1>2 DEF parseHeadTailArgs
<1> DEFINE head == parseHeadTailArgs(line)
           w == W("")
           other == [count |-> 0, path |-> w]
<1>5. head # other
  <2> HIDE DEF head, w
  <2>1. other.count = 0
    OBVIOUS
  <2>2. ~(other.count \in 1..1000)
    BY <1>1, <2>1
  <2>q. QED BY <2>2, Zenon DEF head
<1>3. CASE Len(line) = 3
  <2>0. Len(line) # 2 /\ Len(line) # 4
    BY <1>3
  <2>1. line[2].flag \in {"-n", "-"}
    BY <1>5, <2>0, Zenon DEF parseHeadTailArgs
  <2>2. head = [count |-> Number(line[2].val), path |-> line[3]]
    BY <1>3, <2>1 DEF parseHeadTailArgs
  <2>q. QED BY <1>3, <2>1, <2>2
<1>4. CASE Len(line) = 4
  <2>0. Len(line) # 2 /\ Len(line) # 3
    BY <1>4
  <2>1. line[2] = F("-n")
    BY <1>5, <2>0, Zenon DEF parseHeadTailArgs
  <2>2. head = [count |-> Number(Text(line[3])), path |-> line[4]]
    BY <1>4, <2>1 DEF parseHeadTailArgs
  <2>q. QED BY <1>4, <2>1, <2>2
<1>q. QED BY <1>2, <1>3, <1>4

CountsOf(o) == {Number(x[2]) : x \in {p \in o : p[1] \in {"-n", "-"}}}

LEMMA OneCount ==
    ASSUME NEW f \in {"-n", "-"}, NEW v PROVE CountsOf({<<f, v>>}) = {Number(v)}
<1> DEFINE K == {"-n", "-"}
<1>1. f \in K
  OBVIOUS
<1>2. CountsOf({<<f, v>>}) = {Number(x[2]) : x \in {p \in {<<f, v>>} : p[1] \in K}}
  BY DEF CountsOf
<1> HIDE DEF K
<1>3. {p \in {<<f, v>>} : p[1] \in K} = {<<f, v>>}
  BY <1>1
<1>4. {Number(x[2]) : x \in {<<f, v>>}} = {Number(v)}
  OBVIOUS
<1>q. QED BY <1>2, <1>3, <1>4

LEMMA WordAt ==
    ASSUME NEW line \in Seq(Spelled), NEW i \in 2..4, i = Len(line) PROVE line[i] \in Spelled
<1> HIDE DEF Spelled
<1>q. QED OBVIOUS

LEMMA NoCount == CountsOf({}) = {}
BY DEF CountsOf

LEMMA HeadValues == ASSUME NEW x \in {"head", "tail"} PROVE ValueFlags(x) = {"-n"}
BY DEF ValueFlags

LEMMA CountNamed == Named({"-n"})
BY DEF Named

\* Where the options and the one operand are those of head or tail.
LEMMA HeadReads ==
    ASSUME NEW line, NEW op, NEW o, Reads(Getopt(line), o, <<op.path>>), op.kind \in {"head", "tail"},
           {op.count} = IF CountsOf(o) = {} THEN {10} ELSE CountsOf(o)
    PROVE  SameRead(op, line)
<1> DEFINE p == <<op.path>>
<1>1. Len(p) = 1 /\ p[Len(p)] = op.path
  <2>1. p = <<op.path>>
    OBVIOUS
  <2> HIDE DEF p
  <2>q. QED BY <2>1, LastOne
<1>2. Reads(Getopt(line), o, p)
  OBVIOUS
<1> HIDE DEF p
<1>q. QED BY <1>1, <1>2 DEF SameRead, Reads, CountsOf

LEMMA CountedOperation ==
    ASSUME NEW kind, NEW w, NEW n, NEW op, op = Counted(kind, w, n)
    PROVE  op.kind = kind /\ op.path = w.val /\ op.count = n
BY DEF Counted, Operation

\* and that each is the count the program reads.
LEMMA SameHead ==
    ASSUME PolicyAssumption, NEW line \in Seq(Spelled), line # <<>>, Name(line) \in {"head", "tail"},
           Parsed(line) # NoOperation
    PROVE  /\ SameRead(Parsed(line), line)
           /\ \E w \in Spelled : Inspected(w) /\ Parsed(line).path = w.val
<1> DEFINE head == parseHeadTailArgs(line)
           op == Parsed(line)
           n == {"-n"}
           none == {}
<1>1. Len(line) \in 2..4 /\ head.count \in 1..1000 /\ Inspected(head.path)
  BY HeadParsed
<1>2. op = Counted(Name(line), head.path, head.count)
  BY HeadParsed
<1>3. op.kind \in {"head", "tail"} /\ op.path = head.path.val /\ op.count = head.count
  <2>1. op.kind = Name(line) /\ op.path = head.path.val /\ op.count = head.count
    <3> HIDE DEF op, head
    <3>q. QED BY <1>2, CountedOperation
  <2>q. QED BY <2>1
<1>4. ValueFlags(Name(line)) = n /\ Named(n)
  BY HeadValues, CountNamed
<1>5. ~IsFlag(head.path)
  BY <1>1 DEF Inspected
<1>6. ASSUME NEW o, Getopt(line) = OptAt(o, <<op.path>>),
             {op.count} = IF CountsOf(o) = {} THEN {10} ELSE CountsOf(o)
      PROVE  SameRead(op, line)
  <2> HIDE DEF op
  <2>1. Reads(Getopt(line), o, <<op.path>>)
    BY <1>6, OptAtReads
  <2>q. QED BY <1>3, <1>6, <2>1, HeadReads
<1>7. CASE Len(line) = 2 /\ head.count = 10 /\ head.path = line[2]
  <2>1. Getopt(line) = Option(n, OptBegin, line[2])
    BY <1>4, <1>7, Unrolled
  <2>2. Option(n, OptAt(none, <<>>), line[2]) = OptAt(none, <<line[2].val>>)
    <3> HIDE DEF n, none
    <3>q. QED BY <1>4, <1>5, <1>7, OneOperand
  <2>3. Getopt(line) = OptAt(none, <<op.path>>)
    BY <1>3, <1>7, <2>1, <2>2, OptBeginIs, Zenon
  <2>4. {op.count} = IF CountsOf(none) = {} THEN {10} ELSE CountsOf(none)
    BY <1>3, <1>7, NoCount, Zenon
  <2>5. head.path \in Spelled
    BY <1>7, WordAt
  <2>6. SameRead(op, line)
    BY <1>6, <2>3, <2>4, Zenon
  <2>q. QED BY <1>1, <1>3, <2>5, <2>6, Zenon
<1>8. CASE /\ Len(line) = 3 /\ line[2].flag \in {"-n", "-"}
           /\ head.count = Number(line[2].val) /\ head.path = line[3]
  <2> DEFINE f == line[2].flag
             v == line[2].val
             o == {<<f, v>>}
  <2>1. Getopt(line) = Option(n, Option(n, OptBegin, line[2]), line[3])
    BY <1>4, <1>8, Unrolled
  <2>2. v # ""
    <3>1. Number(v) \in 1..1000
      BY <1>1, <1>8, Zenon
    <3>q. QED BY <3>1, NoNumber, Zenon
  <2>3. IsFlag(line[2]) /\ ~TakesNext(n, line[2])
    BY <1>8, <2>2 DEF IsFlag, TakesNext
  <2>4. Option(n, Option(n, OptBegin, line[2]), line[3]) = OptAt(o, <<line[3].val>>)
    <3> HIDE DEF n
    <3>q. QED BY <1>4, <1>5, <1>8, <2>3, SwitchOperand
  <2>5. Getopt(line) = OptAt(o, <<op.path>>)
    BY <1>3, <1>8, <2>1, <2>4, Zenon
  <2>6. {op.count} = IF CountsOf(o) = {} THEN {10} ELSE CountsOf(o)
    <3>1. CountsOf(o) = {Number(v)}
      BY <1>8, OneCount
    <3>q. QED BY <1>3, <1>8, <3>1
  <2>7. head.path \in Spelled
    BY <1>8, WordAt
  <2>8. SameRead(op, line)
    BY <1>6, <2>5, <2>6, Zenon
  <2>q. QED BY <1>1, <1>3, <2>7, <2>8, Zenon
<1>9. CASE /\ Len(line) = 4 /\ line[2] = F("-n")
           /\ head.count = Number(Text(line[3])) /\ head.path = line[4]
  <2> DEFINE v == Text(line[3])
             f == line[2].flag
             o == {<<f, v>>}
             p == <<>>
  <2>1. Getopt(line) = Option(n, Option(n, Option(n, OptBegin, line[2]), line[3]), line[4])
    BY <1>4, <1>9, Unrolled
  <2>2. f = "-n" /\ line[2].val = ""
    BY <1>9, WordShape
  <2>3. IsFlag(line[2]) /\ TakesNext(n, line[2])
    BY <2>2 DEF IsFlag, TakesNext
  <2>4. Option(n, Option(n, OptAt(none, p), line[2]), line[3]) = OptAt(o, p)
    <3>1. none \cup o = o
      OBVIOUS
    <3> HIDE DEF n, none, p
    <3>2. Option(n, Option(n, OptAt(none, p), line[2]), line[3]) = OptAt(none \cup {<<f, v>>}, p)
      BY <2>3, ValueRead
    <3>q. QED BY <3>1, <3>2
  <2>5. Option(n, OptAt(o, <<>>), line[4]) = OptAt(o, <<line[4].val>>)
    <3> HIDE DEF n, o
    <3>q. QED BY <1>4, <1>5, <1>9, OneOperand
  <2>6. Getopt(line) = OptAt(o, <<op.path>>)
    BY <1>3, <1>9, <2>1, <2>4, <2>5, OptBeginIs, Zenon
  <2>7. {op.count} = IF CountsOf(o) = {} THEN {10} ELSE CountsOf(o)
    <3>1. CountsOf(o) = {Number(v)}
      BY <2>2, OneCount
    <3>q. QED BY <1>3, <1>9, <3>1
  <2>8. head.path \in Spelled
    BY <1>9, WordAt
  <2>9. SameRead(op, line)
    BY <1>6, <2>6, <2>7, Zenon
  <2>q. QED BY <1>1, <1>3, <2>8, <2>9, Zenon
<1>q. QED BY <1>1, <1>7, <1>8, <1>9, HeadArgs

Switches == {"-F", "-q", "-n"}
Paired(o) == <<o, "">>

LEMMA Pairs == ASSUME NEW a, NEW b PROVE Paired(a) = Paired(b) <=> a = b
BY DEF Paired

\* Where the options and the two operands are those of a search of one file.
LEMMA SearchReads ==
    ASSUME NEW line, NEW op, NEW o, NEW p, p = <<op.pattern, op.path>>, Reads(Getopt(line), o, p),
           op.kind \in {"grep", "rg"}, Paired("-F") \in o,
           op.quiet = (Paired("-q") \in o), op.number = (Paired("-n") \in o),
           \A x \in o : \E y \in Switches : x = Paired(y)
    PROVE  SameRead(op, line)
<1>1. p[Len(p)] = op.path
  BY LastTwo
<1>2. o \subseteq {<<y, "">> : y \in {"-F", "-q", "-n"}}
  BY Zenon DEF Switches, Paired
<1> DEFINE g == Getopt(line)
<1>3. g.want = "" /\ g.options = o /\ g.operands = p
  BY DEF Reads
<1>4. Switch(g, "-F") = (Paired("-F") \in o) /\ Switch(g, "-q") = (Paired("-q") \in o)
      /\ Switch(g, "-n") = (Paired("-n") \in o)
  BY <1>3, Zenon DEF Switch, Paired
<1>5. Switch(g, "-F") /\ op.quiet = Switch(g, "-q") /\ op.number = Switch(g, "-n")
  BY <1>4, Zenon
<1>6. g.operands = <<op.pattern, op.path>> /\ g.operands[Len(g.operands)] = op.path
  BY <1>1, <1>3
<1> HIDE DEF g
<1>7. CASE op.kind = "grep"
  BY <1>2, <1>3, <1>5, <1>6, <1>7 DEF SameRead, g
<1>8. CASE op.kind = "rg"
  BY <1>2, <1>3, <1>5, <1>6, <1>8 DEF SameRead, g
<1>q. QED BY <1>7, <1>8

LEMMA SwitchTwo ==
    ASSUME NEW valued, NEW w, NEW x, NEW y, Named(valued), IsFlag(w), ~TakesNext(valued, w),
           ~IsFlag(x), ~IsFlag(y)
    PROVE  Option(valued, Option(valued, Option(valued, OptBegin, w), x), y)
           = OptAt({<<w.flag, w.val>>}, <<x.val, y.val>>)
<1> DEFINE o == {<<w.flag, w.val>>}
           p == <<>>
<1>1. Option(valued, OptAt({}, p), w) = OptAt(o, p)
  <2> HIDE DEF p
  <2>q. QED BY FirstSwitch
<1>2. Option(valued, Option(valued, OptAt(o, <<>>), x), y) = OptAt(o, <<x.val, y.val>>)
  <2> HIDE DEF o
  <2>q. QED BY TwoOperands
<1>q. QED BY <1>1, <1>2, OptBeginIs, Zenon

LEMMA SwitchesTwo ==
    ASSUME NEW valued, NEW w, NEW v, NEW x, NEW y, Named(valued), IsFlag(w), ~TakesNext(valued, w),
           IsFlag(v), ~TakesNext(valued, v), ~IsFlag(x), ~IsFlag(y)
    PROVE  Option(valued, Option(valued, Option(valued, Option(valued, OptBegin, w), v), x), y)
           = OptAt({<<w.flag, w.val>>} \cup {<<v.flag, v.val>>}, <<x.val, y.val>>)
<1> DEFINE first == {<<w.flag, w.val>>}
           o == first \cup {<<v.flag, v.val>>}
           p == <<>>
<1>1. Option(valued, OptAt({}, p), w) = OptAt(first, p)
  <2> HIDE DEF p
  <2>q. QED BY FirstSwitch
<1>2. Option(valued, OptAt(first, p), v) = OptAt(o, p)
  <2> HIDE DEF p, first
  <2>q. QED BY SwitchRead
<1>3. Option(valued, Option(valued, OptAt(o, <<>>), x), y) = OptAt(o, <<x.val, y.val>>)
  <2> HIDE DEF o
  <2>q. QED BY TwoOperands
<1>q. QED BY <1>1, <1>2, <1>3, OptBeginIs, Zenon

LEMMA Middle ==
    ASSUME NEW S, NEW line \in Seq(S), Len(line) = 5
    PROVE  SubSeq(line, 2, 3) = <<line[2], line[3]>>
<1>1. SubSeq(line, 2, 3) = [i \in 1..2 |-> line[i + 1]]
  BY DEF SubSeq
<1>2. SubSeq(line, 2, 3)[1] = line[2] /\ SubSeq(line, 2, 3)[2] = line[3]
  BY <1>1
<1>3. SubSeq(line, 2, 3) \in Seq(S) /\ Len(SubSeq(line, 2, 3)) = 2
  OBVIOUS
<1>4. ASSUME NEW s \in Seq(S), Len(s) = 2 PROVE s = <<s[1], s[2]>>
  BY <1>4
<1>q. QED BY <1>2, <1>3, <1>4

Fixed == F("-F")
Quiet == F("-q")

LEMMA GrepParsed ==
    ASSUME NEW line, Name(line) = "grep", Parsed(line) # NoOperation
    PROVE  LET n == Len(line)
           IN  /\ n \in 4..5 /\ ~IsFlag(line[n - 1]) /\ Inspected(line[n])
               /\ SubSeq(line, 2, n - 2) \in {<<Fixed>>, <<Fixed, Quiet>>, <<Quiet, Fixed>>}
               /\ Parsed(line) = [Operation("grep", line[n]) EXCEPT !.pattern = line[n - 1].val, !.quiet = n = 5]
<1>1. Len(line) \in 4..5 /\ Parsed(line) = parseFixedGrepArgs(line)
  BY DEF parseWarmFileOperation, Parsed
<1>q. QED BY <1>1, Zenon DEF parseFixedGrepArgs, Fixed, Quiet

LEMMA GrepFlags ==
    ASSUME NEW S, NEW line \in Seq(S), NEW f, NEW q,
           Len(line) \in 4..5, SubSeq(line, 2, Len(line) - 2) \in {<<f>>, <<f, q>>, <<q, f>>}
    PROVE  \/ Len(line) = 4 /\ line[2] = f
           \/ Len(line) = 5 /\ line[2] = f /\ line[3] = q
           \/ Len(line) = 5 /\ line[2] = q /\ line[3] = f
<1>1. CASE Len(line) = 4
  <2>1. SubSeq(line, 2, 2) = <<line[2]>>
    <3>1. Len(line) > 1
      BY <1>1
    <3>q. QED BY <3>1, Ends
  <2>2. <<line[2]>> \in {<<f>>, <<f, q>>, <<q, f>>}
    BY <1>1, <2>1
  <2>q. QED BY <1>1, <2>2
<1>2. CASE Len(line) = 5
  <2>1. SubSeq(line, 2, 3) = <<line[2], line[3]>>
    BY <1>2, Middle
  <2>2. <<line[2], line[3]>> \in {<<f>>, <<f, q>>, <<q, f>>}
    BY <1>2, <2>1
  <2>q. QED BY <1>2, <2>2
<1>q. QED BY <1>1, <1>2

LEMMA GrepSwitches ==
    /\ IsFlag(Fixed) /\ <<Fixed.flag, Fixed.val>> = Paired("-F")
    /\ IsFlag(Quiet) /\ <<Quiet.flag, Quiet.val>> = Paired("-q")
<1>1. Fixed.flag = "-F" /\ Fixed.val = "" /\ Quiet.flag = "-q" /\ Quiet.val = ""
  BY WordShape DEF Fixed, Quiet
<1>q. QED BY <1>1 DEF IsFlag, Paired

\* grep -F, quiet or not.
LEMMA SameGrep ==
    ASSUME NEW line \in Seq(Spelled), line # <<>>, Name(line) = "grep", Parsed(line) # NoOperation
    PROVE  /\ SameRead(Parsed(line), line)
           /\ \E w \in Spelled : Inspected(w) /\ Parsed(line).path = w.val
<1> DEFINE n == Len(line)
           op == Parsed(line)
           none == {}
           p == <<line[n - 1].val, line[n].val>>
<1>1. /\ n \in 4..5 /\ ~IsFlag(line[n - 1]) /\ Inspected(line[n])
      /\ op = [Operation("grep", line[n]) EXCEPT !.pattern = line[n - 1].val, !.quiet = n = 5]
  BY GrepParsed
<1>2. \/ n = 4 /\ line[2] = Fixed
      \/ n = 5 /\ line[2] = Fixed /\ line[3] = Quiet
      \/ n = 5 /\ line[2] = Quiet /\ line[3] = Fixed
  <2> HIDE DEF Spelled
  <2>q. QED BY GrepParsed, GrepFlags
<1>3. /\ op.kind = "grep" /\ op.path = line[n].val /\ op.pattern = line[n - 1].val
      /\ op.quiet = (n = 5) /\ op.number = FALSE
  BY <1>1 DEF Operation
<1>a. op.kind \in {"grep", "rg"}
  BY <1>3
<1>b. ASSUME n = 4 PROVE (n = 5) = FALSE
  BY <1>b
<1>c. ASSUME n = 5 PROVE (n = 5) = TRUE
  BY <1>c
<1>4. ~IsFlag(line[n])
  BY <1>1 DEF Inspected
<1>5. ValueFlags(Name(line)) = none /\ Named(none)
  BY NoneNamed DEF ValueFlags
<1>6. ~TakesNext(none, Fixed) /\ ~TakesNext(none, Quiet)
  BY DEF TakesNext
<1>7. Paired("-F") # Paired("-q") /\ Paired("-n") # Paired("-F") /\ Paired("-n") # Paired("-q")
  BY Pairs
<1>8. p = <<op.pattern, op.path>>
  BY <1>3
<1>9. ASSUME n = 4, line[2] = Fixed PROVE SameRead(op, line)
  <2> DEFINE o == {Paired("-F")}
  <2>1. Getopt(line) = Option(none, Option(none, Option(none, OptBegin, line[2]), line[3]), line[4])
    BY <1>5, <1>9, Unrolled
  <2>2. n - 1 = 3
    BY <1>9
  <2>3. Getopt(line) = OptAt(o, p)
    <3>1. IsFlag(line[2]) /\ ~TakesNext(none, line[2]) /\ ~IsFlag(line[3]) /\ ~IsFlag(line[4])
      BY <1>1, <1>4, <1>6, <1>9, <2>2, GrepSwitches
    <3>2. {<<line[2].flag, line[2].val>>} = o /\ p = <<line[3].val, line[4].val>>
      BY <1>9, <2>2, GrepSwitches
    <3> HIDE DEF none, o, p
    <3>3. Getopt(line) = OptAt({<<line[2].flag, line[2].val>>}, <<line[3].val, line[4].val>>)
      BY <1>5, <2>1, <3>1, SwitchTwo
    <3>q. QED BY <3>2, <3>3, Zenon
  <2>4. Reads(Getopt(line), o, p)
    <3> HIDE DEF o, p
    <3>q. QED BY <2>3, OptAtReads
  <2>5. op.quiet = (Paired("-q") \in o) /\ op.number = (Paired("-n") \in o)
    <3>1. (Paired("-q") \in o) = FALSE /\ (Paired("-n") \in o) = FALSE
      BY <1>7
    <3>q. QED BY <1>3, <1>9, <1>b, <3>1, Zenon
  <2>6. \A x \in o : \E y \in Switches : x = Paired(y)
    BY DEF Switches
  <2>7. Paired("-F") \in o
    OBVIOUS
  <2> HIDE DEF o, p, op
  <2>q. QED BY <1>a, <1>8, <2>4, <2>5, <2>6, <2>7, SearchReads
<1>10. ASSUME n = 5, \/ line[2] = Fixed /\ line[3] = Quiet
                     \/ line[2] = Quiet /\ line[3] = Fixed
       PROVE  SameRead(op, line)
  <2> DEFINE a == {<<line[2].flag, line[2].val>>}
             b == {<<line[3].flag, line[3].val>>}
             o == a \cup b
  <2>0. o = {Paired("-F"), Paired("-q")}
    BY <1>10, GrepSwitches
  <2>1. Getopt(line)
        = Option(none, Option(none, Option(none, Option(none, OptBegin, line[2]), line[3]), line[4]), line[5])
    BY <1>5, <1>10, Unrolled
  <2>2. n - 1 = 4
    BY <1>10
  <2>3. Getopt(line) = OptAt(o, p)
    <3>1. IsFlag(line[2]) /\ IsFlag(line[3]) /\ ~IsFlag(line[4]) /\ ~IsFlag(line[5])
      BY <1>1, <1>4, <1>10, <2>2, GrepSwitches
    <3>2. ~TakesNext(none, line[2]) /\ ~TakesNext(none, line[3])
      BY <1>6, <1>10
    <3>3. p = <<line[4].val, line[5].val>>
      BY <1>10, <2>2
    <3> HIDE DEF none, p
    <3>4. Getopt(line) = OptAt(o, <<line[4].val, line[5].val>>)
      BY <1>5, <2>1, <3>1, <3>2, SwitchesTwo
    <3>q. QED BY <3>3, <3>4, Zenon
  <2> HIDE DEF o
  <2>4. Reads(Getopt(line), o, p)
    <3> HIDE DEF p
    <3>q. QED BY <2>3, OptAtReads
  <2>5. op.quiet = (Paired("-q") \in o) /\ op.number = (Paired("-n") \in o)
    <3>1. (Paired("-q") \in o) = TRUE /\ (Paired("-n") \in o) = FALSE
      BY <1>7, <2>0
    <3>q. QED BY <1>3, <1>10, <1>c, <3>1, Zenon
  <2>6. \A x \in o : \E y \in Switches : x = Paired(y)
    BY <2>0 DEF Switches
  <2>7. Paired("-F") \in o
    BY <2>0
  <2> HIDE DEF p, op
  <2>q. QED BY <1>a, <1>8, <2>4, <2>5, <2>6, <2>7, SearchReads
<1>11. line[n] \in Spelled
  <2> HIDE DEF Spelled
  <2>q. QED BY <1>1
<1>12. SameRead(op, line)
  BY <1>2, <1>9, <1>10
<1>q. QED BY <1>1, <1>3, <1>11, <1>12, Zenon

LEMMA FlagPairs ==
    ASSUME NEW K, NEW fl \in SUBSET {F(y) : y \in K}, NEW x
    PROVE  /\ Paired(x) \in {<<f.flag, f.val>> : f \in fl} <=> F(x) \in fl
           /\ \A z \in {<<f.flag, f.val>> : f \in fl} : \E y \in K : z = Paired(y)
<1>1. \A y : F(y).flag = y /\ F(y).val = ""
  BY WordShape
<1>2. ASSUME NEW f \in fl PROVE \E y \in K : f = F(y) /\ <<f.flag, f.val>> = Paired(y)
  BY <1>1 DEF Paired
<1>3. <<F(x).flag, F(x).val>> = Paired(x)
  BY <1>1 DEF Paired
<1>4. ASSUME NEW f \in fl, <<f.flag, f.val>> = Paired(x) PROVE F(x) \in fl
  BY <1>2, <1>4, Pairs
<1>q. QED BY <1>2, <1>3, <1>4

\* rg -F of one file, its switches in any order and place.
LEMMA SameFixedRg ==
    ASSUME NEW line \in Seq(Spelled), line # <<>>, Name(line) = "rg", Parsed(line) # NoOperation
    PROVE  /\ SameRead(Parsed(line), line)
           /\ \E w \in Spelled : Inspected(w) /\ Parsed(line).path = w.val
<1> DEFINE a == Min(PlainOf(line))
           b == Max(PlainOf(line))
           op == Parsed(line)
           o == {<<f.flag, f.val>> : f \in FlagsOf(line)}
           p == <<line[a].val, line[b].val>>
<1>1. op = parseFixedRgArgs(line) /\ op # NoOperation
  BY DEF parseWarmFileOperation, Parsed
<1>2. op = [Operation("rg", line[b]) EXCEPT !.pattern = line[a].val,
              !.quiet = F("-q") \in FlagsOf(line), !.number = F("-n") \in FlagsOf(line)]
  BY <1>1, FixedRgParsed
<1>3. /\ op.kind = "rg" /\ op.path = line[b].val /\ op.pattern = line[a].val
      /\ op.quiet = (F("-q") \in FlagsOf(line)) /\ op.number = (F("-n") \in FlagsOf(line))
  BY <1>2 DEF Operation
<1>4. Getopt(line) = OptAt(o, p)
  BY <1>1, FixedRgRead
<1>5. FlagsOf(line) \in SUBSET {F(y) : y \in Switches} /\ F("-F") \in FlagsOf(line)
  BY <1>1, FixedRgParsed DEF Switches
<1>6. /\ Paired("-F") \in o <=> F("-F") \in FlagsOf(line)
      /\ Paired("-q") \in o <=> F("-q") \in FlagsOf(line)
      /\ Paired("-n") \in o <=> F("-n") \in FlagsOf(line)
      /\ \A x \in o : \E y \in Switches : x = Paired(y)
  BY <1>5, FlagPairs
<1>7. p = <<op.pattern, op.path>>
  BY <1>3
<1>8. Reads(Getopt(line), o, p)
  <2> HIDE DEF o, p
  <2>q. QED BY <1>4, OptAtReads
<1>9. op.quiet = (Paired("-q") \in o) /\ op.number = (Paired("-n") \in o)
  BY <1>3, <1>6
<1>10. SameRead(op, line)
  <2> HIDE DEF o, p, op
  <2>q. QED BY <1>3, <1>5, <1>6, <1>7, <1>8, <1>9, SearchReads
<1>11. Inspected(line[b]) /\ b \in 1..Len(line)
  <2>1. Cardinality(PlainOf(line)) = 2 /\ Inspected(line[b])
    BY <1>1, FixedRgParsed
  <2>2. Len(line) \in Nat /\ PlainOf(line) \in SUBSET (2..Len(line))
    BY DEF PlainOf
  <2>3. PICK x \in 2..Len(line), y \in 2..Len(line) : x < y /\ PlainOf(line) = {x, y}
    BY <2>1, <2>2, TwoNumbers
  <2>4. b = y
    <3>1. x \in Nat /\ y \in Nat /\ x < y
      BY <2>2, <2>3
    <3>q. QED BY <2>3, <3>1, Outermost
  <2>q. QED BY <2>1, <2>3, <2>4
<1>12. line[b] \in Spelled
  <2> HIDE DEF Spelled, b
  <2>q. QED BY <1>11
<1>q. QED BY <1>3, <1>10, <1>11, <1>12, Zenon

\* A read of a file is the one that was asked for, of a file in the tree.
LEMMA ReadUnderstood ==
    ASSUME PolicyAssumption, NEW line \in Seq(Spelled), line # <<>>, Parsed(line) # NoOperation
    PROVE  SameRead(Parsed(line), line) /\ InRoot(Parsed(line).path) /\ NoHidden(Parsed(line).path)
<1>1. ASSUME NEW w \in Spelled, Inspected(w), Parsed(line).path = w.val
      PROVE  InRoot(Parsed(line).path) /\ NoHidden(Parsed(line).path)
  BY <1>1, InspectedSafe
<1>2. CASE Name(line) = "cat"
  <2>1. line[2] \in Spelled
    <3>1. Len(line) = 2
      BY <1>2 DEF parseWarmFileOperation, Parsed
    <3>q. QED BY <3>1, WordAt
  <2>q. QED BY <1>1, <1>2, <2>1, SameCat
<1>3. CASE Name(line) = "sed"
  <2>1. line[4] \in Spelled
    <3>1. Len(line) = 4
      BY <1>3 DEF parseWarmFileOperation, Parsed
    <3>q. QED BY <3>1, WordAt
  <2>q. QED BY <1>1, <1>3, <2>1, SameSed
<1>4. CASE Name(line) = "nl"
  <2>1. line[3] \in Spelled
    <3>1. Len(line) = 3
      BY <1>4 DEF parseWarmFileOperation, Parsed
    <3>q. QED BY <3>1, WordAt
  <2>q. QED BY <1>1, <1>4, <2>1, SameNl
<1>5. CASE Name(line) \in {"head", "tail"}
  BY <1>1, <1>5, SameHead
<1>6. CASE Name(line) = "grep"
  BY <1>1, <1>6, SameGrep
<1>7. CASE Name(line) = "rg"
  BY <1>1, <1>7, SameFixedRg
<1>8. Name(line) \in FileReaders
  BY ReaderNames DEF Parsed
<1>q. QED BY <1>2, <1>3, <1>4, <1>5, <1>6, <1>7, <1>8 DEF FileReaders

(***************************************************************************)
(* git's options: what is dropped has been read as git reads it.           *)
(***************************************************************************)
\* What follows git's options is no option.
Subcommand(words) == words # <<>> => ~IsFlag(words[1])

\* What the policy's scan of git's options and git's have in common.
GitAgree(s, t) ==
    /\ t.ok /\ t.want = s.want /\ s.want \in {"", "-C", "-c"}
    /\ t.cwd = s.cwd /\ Normal(s.cwd) /\ t.words = s.rest /\ t.config \subseteq HookSettings
    /\ Subcommand(s.rest)

Detached(w) == ~(w.flag \in {"-C", "-c"} /\ w.val # "")

\* The policy's scan and git's agree after each word: an argument of the subcommand,
LEMMA GitStepArgument ==
    ASSUME NEW s \in GitState, NEW t \in ReadState, NEW w \in Spelled, GitAgree(s, t), s.ok,
           s.rest # <<>>
    PROVE  GitAgree(GitOption(s, w), GitRead(t, w))
<1>1. GitOption(s, w) = [s EXCEPT !.rest = Append(s.rest, w)]
  BY DEF GitOption
<1>2. GitRead(t, w) = [t EXCEPT !.words = Append(t.words, w)]
  BY DEF GitRead, GitAgree
<1>3. t.words = s.rest
  BY DEF GitAgree
<1> DEFINE u == [s EXCEPT !.rest = Append(s.rest, w)]
           v == [t EXCEPT !.words = Append(t.words, w)]
<1>4. /\ u.want = s.want /\ u.cwd = s.cwd /\ u.rest = Append(s.rest, w)
      /\ v.ok = t.ok /\ v.want = t.want /\ v.cwd = t.cwd /\ v.config = t.config
      /\ v.words = Append(s.rest, w)
  BY <1>3 DEF GitState, ReadState
<1>6. Subcommand(Append(s.rest, w))
  <2>1. s.rest \in Seq(Spelled) /\ Subcommand(s.rest)
    BY DEF GitState, GitAgree
  <2> HIDE DEF Spelled
  <2>2. Append(s.rest, w)[1] = s.rest[1]
    BY <2>1, FirstStays
  <2>q. QED BY <2>1, <2>2 DEF Subcommand
<1> HIDE DEF u, v
<1>5. GitAgree(u, v)
  BY <1>4, <1>6 DEF GitAgree
<1>q. QED BY <1>1, <1>2, <1>5 DEF u, v

\* the value of -C,
LEMMA GitStepDirectory ==
    ASSUME PolicyAssumption, NEW s \in GitState, NEW t \in ReadState, NEW w \in Spelled,
           GitAgree(s, t), s.ok, s.rest = <<>>, s.want = "-C"
    PROVE  GitAgree(GitOption(s, w), GitRead(t, w))
<1> DEFINE u == [s EXCEPT !.want = "", !.cwd = resolveGitCWD(s.cwd, Text(w))]
           v == [t EXCEPT !.want = "", !.cwd = Walk(t.cwd, PathOf(Text(w)))]
<1>1. GitOption(s, w) = u
  <2>1. GitOption(s, w) = Valued([s EXCEPT !.want = ""], "-C", Text(w))
    BY DEF GitOption
  <2>q. QED BY <2>1 DEF Valued, GitState
<1>2. GitRead(t, w) = v
  BY DEF GitRead, GitAgree
<1>3. t.cwd = s.cwd /\ Normal(s.cwd) /\ Text(w) \in Texts
  BY WordTypes DEF GitAgree
<1>4. resolveGitCWD(s.cwd, Text(w)) = Walk(t.cwd, PathOf(Text(w))) /\ Normal(resolveGitCWD(s.cwd, Text(w)))
  BY <1>3, ResolveWalks
<1>5. /\ u.want = "" /\ u.cwd = resolveGitCWD(s.cwd, Text(w)) /\ u.rest = s.rest
      /\ v.ok = t.ok /\ v.want = "" /\ v.cwd = Walk(t.cwd, PathOf(Text(w))) /\ v.config = t.config
      /\ v.words = t.words
  BY DEF GitState, ReadState
<1> HIDE DEF u, v
<1>6. GitAgree(u, v)
  BY <1>4, <1>5 DEF GitAgree
<1>q. QED BY <1>1, <1>2, <1>6

\* the value of -c,
LEMMA GitStepSetting ==
    ASSUME NEW s \in GitState, NEW t \in ReadState, NEW w \in Spelled,
           GitAgree(s, t), s.ok, s.rest = <<>>, s.want = "-c", GitOption(s, w).ok
    PROVE  GitAgree(GitOption(s, w), GitRead(t, w))
<1> DEFINE u == [s EXCEPT !.want = "", !.ok = safeGitConfigOverride(Text(w))]
           v == [t EXCEPT !.want = "", !.config = t.config \cup {Text(w)}]
<1>1. GitOption(s, w) = u
  <2>1. GitOption(s, w) = Valued([s EXCEPT !.want = ""], "-c", Text(w))
    BY DEF GitOption
  <2>q. QED BY <2>1 DEF Valued, GitState
<1>2. GitRead(t, w) = v
  BY DEF GitRead, GitAgree
<1>3. Text(w) \in HookSettings
  BY <1>1 DEF GitState, safeGitConfigOverride
<1>5. /\ u.want = "" /\ u.cwd = s.cwd /\ u.rest = s.rest
      /\ v.ok = t.ok /\ v.want = "" /\ v.cwd = t.cwd /\ v.config = t.config \cup {Text(w)}
      /\ v.words = t.words
  BY DEF GitState, ReadState
<1> HIDE DEF u, v
<1>6. GitAgree(u, v)
  BY <1>3, <1>5 DEF GitAgree
<1>q. QED BY <1>1, <1>2, <1>6

\* the subcommand,
LEMMA GitStepSubcommand ==
    ASSUME NEW s \in GitState, NEW t \in ReadState, NEW w \in Spelled,
           GitAgree(s, t), s.ok, s.rest = <<>>, s.want = "", ~IsFlag(w)
    PROVE  GitAgree(GitOption(s, w), GitRead(t, w))
<1> DEFINE u == [s EXCEPT !.rest = <<w>>]
           v == [t EXCEPT !.words = <<w>>]
<1>1. GitOption(s, w) = u
  BY DEF GitOption
<1>2. GitRead(t, w) = v
  BY DEF GitRead, GitAgree
<1>5. /\ u.want = s.want /\ u.cwd = s.cwd /\ u.rest = <<w>>
      /\ v.ok = t.ok /\ v.want = t.want /\ v.cwd = t.cwd /\ v.config = t.config
      /\ v.words = <<w>>
  BY DEF GitState, ReadState
<1>7. Subcommand(<<w>>)
  BY DEF Subcommand
<1> HIDE DEF u, v
<1>6. GitAgree(u, v)
  BY <1>5, <1>7 DEF GitAgree
<1>q. QED BY <1>1, <1>2, <1>6

\* an option,
LEMMA GitStepOption ==
    ASSUME NEW s \in GitState, NEW t \in ReadState, NEW w \in Spelled,
           GitAgree(s, t), s.ok, s.rest = <<>>, s.want = "", IsFlag(w), Detached(w), GitOption(s, w).ok
    PROVE  GitAgree(GitOption(s, w), GitRead(t, w))
<1> DEFINE u == [s EXCEPT !.want = w.flag]
           v == [t EXCEPT !.want = w.flag]
<1>1. w.val = "" /\ w.flag \in {"-C", "-c"}
  <2>1. ASSUME ~(w.val = "" /\ w.flag \in {"-C", "-c"}) PROVE FALSE
    <3>1. w.flag \notin {"-C", "-c"}
      BY <2>1 DEF Detached
    <3>2. GitOption(s, w) = Valued(s, w.flag, w.val)
      BY <2>1 DEF GitOption
    <3>3. GitOption(s, w).ok = FALSE
      BY <3>1, <3>2 DEF Valued, GitState
    <3>q. QED BY <3>3
  <2>q. QED BY <2>1
<1>2. GitOption(s, w) = u
  BY <1>1 DEF GitOption
<1>3. w \in {F("-C"), F("-c")}
  BY <1>1, Flagged
<1>4. GitRead(t, w) = v
  BY <1>3 DEF GitRead, GitAgree
<1>5. /\ u.want = w.flag /\ u.cwd = s.cwd /\ u.rest = s.rest
      /\ v.ok = t.ok /\ v.want = w.flag /\ v.cwd = t.cwd /\ v.config = t.config
      /\ v.words = t.words
  BY DEF GitState, ReadState
<1> HIDE DEF u, v
<1>6. GitAgree(u, v)
  BY <1>1, <1>5 DEF GitAgree
<1>q. QED BY <1>2, <1>4, <1>6

\* and so after any word that carries no -C or -c with its value attached.
LEMMA GitStep ==
    ASSUME PolicyAssumption, NEW s \in GitState, NEW t \in ReadState, NEW w \in Spelled,
           GitAgree(s, t), s.ok, Detached(w), GitOption(s, w).ok
    PROVE  GitAgree(GitOption(s, w), GitRead(t, w))
<1>1. s.want \in {"", "-C", "-c"}
  BY DEF GitAgree
<1>q. QED BY <1>1, GitStepArgument, GitStepDirectory, GitStepSetting, GitStepSubcommand, GitStepOption

LEMMA GitOkBefore ==
    ASSUME NEW s \in GitState, NEW w, GitOption(s, w).ok PROVE s.ok
BY DEF GitOption

LEMMA GitBegins == GitAgree(GitBegin, ReadBegin)
<1>1. Normal(Root)
  BY RootNormal
<1>q. QED BY <1>1 DEF GitAgree, GitBegin, ReadBegin, Subcommand

\* Where the policy's scan of a line succeeds, git's ends in the same directory, with
\* the same words and no setting but those two.
LEMMA GitRun ==
    ASSUME PolicyAssumption, NEW line \in Seq(Spelled), line # <<>>,
           \A i \in 1..Len(line) : Detached(line[i])
    PROVE  \E s \in GitState, t \in ReadState :
              /\ s.ok => GitAgree(s, t)
              /\ GitOptions(line) = GitNormalized(line, s) /\ GitReads(line) = GitUnderstood(t)
<1> DEFINE n == Len(line) - 1
<1>0. n \in Nat /\ Len(line) = n + 1
  OBVIOUS
<1>1. PICK s \in [0..n -> GitState] :
         /\ s[0] = GitBegin
         /\ \A i \in 1..n : s[i] = GitOption(s[i - 1], line[i + 1])
         /\ GitOptions(line) = GitNormalized(line, s[n])
  BY GitRuns
<1>2. PICK t \in [0..n -> ReadState] :
         /\ t[0] = ReadBegin
         /\ \A i \in 1..n : t[i] = GitRead(t[i - 1], line[i + 1])
         /\ GitReads(line) = GitUnderstood(t[n])
  BY ReadRuns
<1>4. \A i \in 1..n : line[i + 1] \in Spelled /\ Detached(line[i + 1])
  <2> HIDE DEF Spelled
  <2>q. QED BY <1>0
<1> HIDE DEF n
<1> DEFINE Good(k) == s[k].ok => GitAgree(s[k], t[k])
           S == {k \in 0..n : Good(k)}
<1>5. Good(0)
  BY <1>1, <1>2, GitBegins
<1>6. ASSUME NEW k \in 0..n, Good(k), k + 1 <= n PROVE Good(k + 1)
  <2> DEFINE j == k + 1
  <2>1. j \in 1..n /\ j - 1 = k
    BY <1>0, <1>6
  <2> HIDE DEF j
  <2>2. s[j] = GitOption(s[k], line[j + 1]) /\ t[j] = GitRead(t[k], line[j + 1])
    BY <1>1, <1>2, <2>1
  <2>3. line[j + 1] \in Spelled /\ Detached(line[j + 1])
    BY <1>4, <2>1
  <2>4. s[k] \in GitState /\ t[k] \in ReadState
    BY <1>6
  <2>5. ASSUME s[j].ok PROVE GitAgree(s[j], t[j])
    <3>1. s[k].ok
      BY <2>2, <2>4, <2>5, GitOkBefore
    <3>q. QED BY <1>6, <2>2, <2>3, <2>4, <2>5, <3>1, GitStep
  <2>q. QED BY <2>5 DEF j
<1>7. n \in S
  <2> HIDE DEF Good
  <2>1. 0 \in S
    BY <1>0, <1>5
  <2>2. ASSUME NEW k \in 0..n, k \in S, k + 1 <= n PROVE k + 1 \in S
    BY <1>0, <1>6, <2>2
  <2> HIDE DEF S
  <2>q. QED BY <1>0, <2>1, <2>2, UpToBound
<1>8. s[n] \in GitState /\ t[n] \in ReadState
  BY <1>0
<1>q. QED BY <1>1, <1>2, <1>7, <1>8

LEMMA AfterGit ==
    ASSUME NEW S, NEW w \in S, NEW rest \in Seq(S)
    PROVE  /\ <<w>> \o rest \in Seq(S) /\ <<w>> \o rest # <<>> /\ (<<w>> \o rest)[1] = w
           /\ Tail(<<w>> \o rest) = rest
<1> DEFINE one == <<w>>
           all == one \o rest
<1>1. one \in Seq(S) /\ Len(one) = 1 /\ one[1] = w
  OBVIOUS
<1> HIDE DEF one
<1>2. /\ all \in Seq(S) /\ Len(all) = 1 + Len(rest) /\ all[1] = w
      /\ \A i \in 1..Len(rest) : all[1 + i] = rest[i]
  BY <1>1, Joining
<1> HIDE DEF all
<1>3. Len(rest) \in Nat
  OBVIOUS
<1>4. Len(all) # 0
  BY <1>2, <1>3
<1>5. all # <<>>
  <2>1. Len(<<>>) = 0
    OBVIOUS
  <2>q. QED BY <1>4, <2>1, Zenon
<1>6. Tail(all) = rest
  <2>1. Tail(all) \in Seq(S) /\ Len(Tail(all)) = Len(rest)
        /\ \A i \in 1..Len(rest) : Tail(all)[i] = rest[i]
    BY <1>2, <1>3, <1>5
  <2>q. QED BY <2>1
<1>q. QED BY <1>2, <1>5, <1>6 DEF all, one

(***************************************************************************)
(* What a command line is normalized to.                                   *)
(***************************************************************************)
LEMMA GitWord == W("git") \in Spelled /\ ~IsFlag(W("git")) /\ W("git").val = "git"
<1>1. W("git") \in Spelled
  BY SomeTexts DEF W, Spelled
<1>q. QED BY <1>1, WordShape

NormalizedLine(line, invoked) ==
    /\ invoked.argv \in Seq(Spelled) /\ invoked.argv # <<>> /\ ~IsFlag(invoked.argv[1])
    /\ Name(line) = "git" => Name(invoked.argv) = "git"
    /\ Name(line) # "git" => invoked.argv = line

InvocationIs(line, cwd, ok) ==
    /\ Invocation(line, cwd, ok).argv = line /\ Invocation(line, cwd, ok).cwd = cwd
    /\ Invocation(line, cwd, ok).ok = ok

LEMMA Invocations == ASSUME NEW line, NEW cwd, NEW ok PROVE InvocationIs(line, cwd, ok)
BY DEF Invocation, InvocationIs

\* What a line is normalized to is a line, begins with a program, and is the line
\* itself for any program but git.
LEMMA Normalized ==
    ASSUME PolicyAssumption, NEW line \in Seq(Spelled), line # <<>>, ~IsFlag(line[1])
    PROVE  NormalizedLine(line, normalizeGitInvocation(line))
<1>1. CASE Name(line) # "git"
  <2>1. normalizeGitInvocation(line) = Invocation(line, Root, TRUE)
    BY <1>1 DEF normalizeGitInvocation
  <2>2. normalizeGitInvocation(line).argv = line
    BY <2>1 DEF Invocation
  <2>q. QED BY <1>1, <2>2 DEF NormalizedLine
<1>2. CASE Name(line) = "git"
  <2>1. PICK s \in [0..Len(line) - 1 -> GitState] :
           GitOptions(line) = GitNormalized(line, s[Len(line) - 1])
    BY GitRuns
  <2> DEFINE end == s[Len(line) - 1]
             all == <<W("git")>> \o end.rest
  <2>2. end \in GitState
    <3>1. Len(line) - 1 \in 0..Len(line) - 1
      OBVIOUS
    <3>q. QED BY <3>1
  <2>3. end.rest \in Seq(Spelled)
    BY <2>2 DEF GitState
  <2> HIDE DEF end
  <2>4. all \in Seq(Spelled) /\ all # <<>> /\ all[1] = W("git")
    <3> DEFINE g == W("git")
    <3>1. g \in Spelled
      BY GitWord
    <3> HIDE DEF g, Spelled
    <3>2. <<g>> \o end.rest \in Seq(Spelled) /\ <<g>> \o end.rest # <<>> /\ (<<g>> \o end.rest)[1] = g
      BY <2>3, <3>1, AfterGit
    <3>q. QED BY <3>2 DEF g
  <2>5. normalizeGitInvocation(line) = GitNormalized(line, end)
    BY <1>2, <2>1 DEF normalizeGitInvocation, end
  <2> HIDE DEF all
  <2>6. CASE end.ok /\ end.want = ""
    <3>1. normalizeGitInvocation(line).argv = all
      <4>1. GitNormalized(line, end) = Invocation(all, end.cwd, TRUE)
        BY <2>6, Zenon DEF GitNormalized, all
      <4>q. QED BY <2>5, <4>1, Invocations DEF InvocationIs
    <3>q. QED BY <1>2, <2>4, <3>1, GitWord DEF NormalizedLine, Name
  <2>7. CASE ~(end.ok /\ end.want = "")
    <3>1. normalizeGitInvocation(line).argv = line
      <4>1. GitNormalized(line, end) = Invocation(line, Root, FALSE)
        BY <2>7, Zenon DEF GitNormalized
      <4>q. QED BY <2>5, <4>1, Invocations DEF InvocationIs
    <3>q. QED BY <1>2, <3>1 DEF NormalizedLine
  <2>q. QED BY <2>6, <2>7
<1>q. QED BY <1>1, <1>2

\* Whatever the options, the directory is spelled from the top.
LEMMA GitStepNormal ==
    ASSUME PolicyAssumption, NEW s \in GitState, Normal(s.cwd), NEW w \in Spelled
    PROVE  Normal(GitOption(s, w).cwd)
<1>0. w.flag \in Texts /\ w.val \in Texts /\ Text(w) \in Texts
  BY WordTypes
<1>1. ASSUME NEW r \in GitState, r.cwd = s.cwd, NEW flag, NEW val \in Texts
      PROVE  Normal(Valued(r, flag, val).cwd)
  <2>1. Normal(resolveGitCWD(r.cwd, val))
    BY <1>1, ResolveWalks
  <2>2. CASE flag = "-C"
    <3>1. Valued(r, flag, val).cwd = resolveGitCWD(r.cwd, val)
      BY <2>2 DEF Valued, GitState
    <3>q. QED BY <2>1, <3>1
  <2>3. CASE flag # "-C"
    <3>1. Valued(r, flag, val).cwd = r.cwd
      BY <2>3 DEF Valued, GitState
    <3>q. QED BY <1>1, <3>1
  <2>q. QED BY <2>2, <2>3
<1>2. CASE ~s.ok
  BY <1>2 DEF GitOption
<1>3. CASE s.ok /\ s.rest # <<>>
  BY <1>3 DEF GitOption, GitState
<1>4. CASE s.ok /\ s.rest = <<>> /\ s.want # ""
  <2> DEFINE r == [s EXCEPT !.want = ""]
  <2>1. GitOption(s, w) = Valued(r, s.want, Text(w))
    BY <1>4 DEF GitOption
  <2>2. r \in GitState /\ r.cwd = s.cwd
    BY SomeTexts DEF GitState
  <2> HIDE DEF r
  <2>q. QED BY <1>0, <1>1, <2>1, <2>2
<1>5. CASE s.ok /\ s.rest = <<>> /\ s.want = "" /\ ~IsFlag(w)
  BY <1>5 DEF GitOption, GitState
<1>6. CASE s.ok /\ s.rest = <<>> /\ s.want = "" /\ IsFlag(w) /\ w.val = "" /\ w.flag \in {"-C", "-c"}
  BY <1>6 DEF GitOption, GitState
<1>7. CASE s.ok /\ s.rest = <<>> /\ s.want = "" /\ IsFlag(w) /\ ~(w.val = "" /\ w.flag \in {"-C", "-c"})
  <2>1. GitOption(s, w) = Valued(s, w.flag, w.val)
    BY <1>7 DEF GitOption
  <2>q. QED BY <1>0, <1>1, <2>1
<1>q. QED BY <1>2, <1>3, <1>4, <1>5, <1>6, <1>7

\* The directory a line is normalized to is spelled from the top.
LEMMA NormalizedDirectory ==
    ASSUME PolicyAssumption, NEW line \in Seq(Spelled), line # <<>>
    PROVE  Normal(normalizeGitInvocation(line).cwd)
<1> DEFINE n == Len(line) - 1
<1>0. n \in Nat /\ Len(line) = n + 1
  OBVIOUS
<1>1. PICK s \in [0..n -> GitState] :
         /\ s[0] = GitBegin
         /\ \A i \in 1..n : s[i] = GitOption(s[i - 1], line[i + 1])
         /\ GitOptions(line) = GitNormalized(line, s[n])
  BY GitRuns
<1>2. \A i \in 1..n : line[i + 1] \in Spelled
  <2> HIDE DEF Spelled
  <2>q. QED BY <1>0
<1> HIDE DEF n
<1> DEFINE Good(k) == Normal(s[k].cwd)
           S == {k \in 0..n : Good(k)}
<1>3. Good(0)
  <2>1. GitBegin.cwd = Root
    BY DEF GitBegin
  <2>q. QED BY <1>1, <2>1, RootNormal
<1>4. ASSUME NEW k \in 0..n, Good(k), k + 1 <= n PROVE Good(k + 1)
  <2> DEFINE j == k + 1
  <2>1. j \in 1..n /\ j - 1 = k
    BY <1>0, <1>4
  <2> HIDE DEF j
  <2>2. s[j] = GitOption(s[k], line[j + 1]) /\ line[j + 1] \in Spelled
    BY <1>1, <1>2, <2>1
  <2>3. s[k] \in GitState
    BY <1>4
  <2>q. QED BY <1>4, <2>2, <2>3, GitStepNormal DEF j
<1>5. n \in S
  <2> HIDE DEF Good
  <2>1. 0 \in S
    BY <1>0, <1>3
  <2>2. ASSUME NEW k \in 0..n, k \in S, k + 1 <= n PROVE k + 1 \in S
    BY <1>0, <1>4, <2>2
  <2> HIDE DEF S
  <2>q. QED BY <1>0, <2>1, <2>2, UpToBound
<1>6. Normal(s[n].cwd)
  BY <1>5
<1>8. normalizeGitInvocation(line).cwd \in {Root, s[n].cwd}
  <2> DEFINE end == s[n]
  <2>1. normalizeGitInvocation(line) \in {Invocation(line, Root, TRUE), GitNormalized(line, end)}
    BY <1>1, Zenon DEF normalizeGitInvocation
  <2> HIDE DEF end
  <2>2. Invocation(line, Root, TRUE).cwd = Root
    BY DEF Invocation
  <2>3. GitNormalized(line, end).cwd \in {Root, end.cwd}
    BY DEF GitNormalized, Invocation
  <2>q. QED BY <2>1, <2>2, <2>3 DEF end
<1>q. QED BY <1>6, <1>8, RootNormal

(***************************************************************************)
(* The meaning of an allowed line.                                         *)
(***************************************************************************)
GitMeant(line, invoked) ==
    LET g == GitReads(line)
    IN  /\ g.ok /\ g.words = Tail(invoked.argv) /\ g.cwd = invoked.cwd
        /\ g.config \subseteq HookSettings /\ Subcommand(g.words)

LEMMA GitUnderstoods ==
    ASSUME NEW t \in ReadState
    PROVE  /\ GitUnderstood(t).ok = (t.ok /\ t.want = "") /\ GitUnderstood(t).words = t.words
           /\ GitUnderstood(t).cwd = t.cwd /\ GitUnderstood(t).config = t.config
BY DEF GitUnderstood, ReadState

\* An allowed line of git is what git reads: scanned, or left as it stands.
LEMMA GitMeans ==
    ASSUME PolicyAssumption, NEW line \in Seq(Spelled), line # <<>>, ~IsFlag(line[1]), Name(line) = "git",
           \A i \in 1..Len(line) : Detached(line[i]), line # <<W("git"), F("--version")>>,
           IsReplayAllowed(normalizeGitInvocation(line).argv)
    PROVE  GitMeant(line, normalizeGitInvocation(line))
<1> DEFINE invoked == normalizeGitInvocation(line)
<1>1. PICK s \in GitState, t \in ReadState :
         /\ s.ok => GitAgree(s, t)
         /\ GitOptions(line) = GitNormalized(line, s) /\ GitReads(line) = GitUnderstood(t)
  BY GitRun
<1>2. invoked = GitNormalized(line, s)
  BY <1>1 DEF normalizeGitInvocation
<1>3. CASE s.ok /\ s.want = ""
  <2> DEFINE all == <<W("git")>> \o s.rest
  <2>1. invoked = Invocation(all, s.cwd, TRUE)
    BY <1>2, <1>3, Zenon DEF GitNormalized
  <2>2. Tail(all) = s.rest
    <3> DEFINE g == W("git")
    <3>1. g \in Spelled /\ s.rest \in Seq(Spelled)
      BY GitWord DEF GitState
    <3> HIDE DEF g, Spelled
    <3>2. Tail(<<g>> \o s.rest) = s.rest
      BY <3>1, AfterGit
    <3>q. QED BY <3>2 DEF g
  <2> HIDE DEF all, invoked
  <2>3. invoked.argv = all /\ invoked.cwd = s.cwd
    BY <2>1 DEF Invocation
  <2>4. GitAgree(s, t)
    BY <1>1, <1>3
  <2>5. /\ t.ok /\ t.want = "" /\ t.cwd = s.cwd /\ t.words = s.rest
        /\ t.config \subseteq HookSettings /\ Subcommand(t.words)
    BY <1>3, <2>4 DEF GitAgree
  <2> DEFINE g == GitReads(line)
  <2>6. /\ g.ok /\ g.words = s.rest /\ g.cwd = s.cwd /\ g.config \subseteq HookSettings
        /\ Subcommand(g.words)
    BY <1>1, <2>5, GitUnderstoods
  <2> HIDE DEF g
  <2>7. /\ g.ok /\ g.words = Tail(invoked.argv) /\ g.cwd = invoked.cwd
        /\ g.config \subseteq HookSettings /\ Subcommand(g.words)
    BY <2>2, <2>3, <2>6, Zenon
  <2>q. QED BY <2>7 DEF GitMeant, g, invoked
<1>4. CASE ~(s.ok /\ s.want = "")
  <2>1. invoked = Invocation(line, Root, FALSE)
    BY <1>2, <1>4, Zenon DEF GitNormalized
  <2>2. invoked.argv = line /\ invoked.cwd = Root
    BY <2>1 DEF Invocation
  <2>3. Matched(line)
    BY <2>2, GitAllowed
  <2>4. Len(line) > 1 /\ ~IsFlag(line[2])
    <3>1. ASSUME NEW sub, GitHead(line, sub) PROVE Len(line) > 1 /\ ~IsFlag(line[2])
      BY <3>1, WordShape DEF GitHead
    <3>2. ASSUME line = <<W("git"), W("branch"), F("--show-current")>>
          PROVE  Len(line) > 1 /\ ~IsFlag(line[2])
      <4>1. Len(line) > 1 /\ line[2] = W("branch")
        BY <3>2
      <4>q. QED BY <4>1, WordShape
    <3>q. QED BY <2>3, <3>1, <3>2, GitAsks
  <2>5. GitReads(line).ok /\ GitReads(line).words = Tail(line)
        /\ GitReads(line).cwd = Root /\ GitReads(line).config = {}
    BY <2>4, GitAsItStands
  <2>6. Subcommand(Tail(line))
    <3> HIDE DEF Spelled
    <3>q. QED BY <2>4, Ends DEF Subcommand
  <2> HIDE DEF invoked
  <2>q. QED BY <2>2, <2>5, <2>6, Zenon DEF GitMeant, invoked
<1>q. QED BY <1>3, <1>4

\* A line whose program is called by its base name is a line.
LEMMA CalledLine ==
    ASSUME PolicyAssumption, NEW line \in Seq(Spelled), line # <<>>
    PROVE  Called(line) \in Seq(Spelled) /\ Called(line) # <<>> /\ ~IsFlag(Called(line)[1])
<1> DEFINE w == W(Base(line[1].val))
<1>1. line[1] \in Spelled /\ Tail(line) \in Seq(Spelled)
  <2> HIDE DEF Spelled
  <2>q. QED OBVIOUS
<1>2. Base(line[1].val) \in Texts
  <2> DEFINE p == PathOf(line[1].val)
  <2>1. p \in Parts
    BY <1>1, WordTypes, PathTypes
  <2> HIDE DEF p
  <2>2. CASE p = <<>>
    BY <2>2 DEF Base, Texts, p
  <2>3. CASE p # <<>>
    <3>1. Len(p) \in 1..Len(p)
      BY <2>1, <2>3 DEF Parts
    <3>2. p[Len(p)] \in Texts
      BY <2>1, <3>1, PartsAre
    <3>q. QED BY <2>3, <3>2 DEF Base, p
  <2>q. QED BY <2>2, <2>3
<1>3. w \in Spelled /\ ~IsFlag(w)
  <2>1. w \in Spelled
    BY <1>2, SomeTexts DEF W, Spelled
  <2>q. QED BY <2>1, WordShape
<1> HIDE DEF w, Spelled
<1>4. /\ <<w>> \o Tail(line) \in Seq(Spelled) /\ <<w>> \o Tail(line) # <<>>
      /\ (<<w>> \o Tail(line))[1] = w
  BY <1>1, <1>3, AfterGit
<1>q. QED BY <1>3, <1>4 DEF Called, w

\* Any allowed line means what its program reads.
LEMMA Means ==
    ASSUME PolicyAssumption, argv \in Seq(Spelled), argv # <<>>
    PROVE  ReadAsTool
<1> DEFINE called == Called(argv)
           invoked == normalizeGitInvocation(called)
           line == invoked.argv
           op == parseWarmFileOperation(line)
           rg == parseBoundedRgRepoArgs(line)
           g  == GitReads(called)
<1>0. Invoked = invoked
  BY DEF Invoked, NormalizeInvocation
<1>1. SUFFICES ASSUME IsReplayAllowed(line)
      PROVE  /\ Name(called) = "git" /\ ~Attached(called) /\ called # <<W("git"), F("--version")>> =>
                /\ g.ok /\ g.words = Tail(line) /\ g.cwd = invoked.cwd
                /\ g.config \subseteq HookSettings
             /\ op # NoOperation => /\ SameRead(op, line)
                                    /\ IsPrefix(Root, Walk(Root, PathOf(op.path)))
                                    /\ ToSet(Walk(Root, PathOf(op.path))) \cap Hidden = {}
             /\ rg.ok => /\ Getopt(called).operands = rg.pattern \o rg.paths
                         /\ \A i \in DOMAIN rg.paths : IsPrefix(Root, Walk(Root, PathOf(rg.paths[i])))
  BY <1>0, Zenon DEF ReadAsTool, AsTool
<1>c. called \in Seq(Spelled) /\ called # <<>> /\ ~IsFlag(called[1])
  BY CalledLine
<1> HIDE DEF called
<1>2. NormalizedLine(called, invoked)
  BY <1>c, Normalized
<1>3. line \in Seq(Spelled) /\ line # <<>> /\ ~IsFlag(line[1])
  BY <1>2 DEF NormalizedLine
<1>4. ASSUME Name(called) = "git", ~Attached(called), called # <<W("git"), F("--version")>>
      PROVE  /\ g.ok /\ g.words = Tail(line) /\ g.cwd = invoked.cwd
             /\ g.config \subseteq HookSettings
  <2>1. \A i \in 1..Len(called) : Detached(called[i])
    <3>1. DOMAIN called = 1..Len(called)
      <4> HIDE DEF Spelled
      <4>q. QED BY <1>c
    <3>q. QED BY <1>4, <3>1, Zenon DEF Attached, Detached
  <2>2. GitMeant(called, invoked)
    BY <1>1, <1>4, <1>c, <2>1, GitMeans
  <2> HIDE DEF invoked
  <2>q. QED BY <2>2, Zenon DEF GitMeant
<1>5. ASSUME op # NoOperation
      PROVE  /\ SameRead(op, line)
             /\ IsPrefix(Root, Walk(Root, PathOf(op.path)))
             /\ ToSet(Walk(Root, PathOf(op.path))) \cap Hidden = {}
  <2> HIDE DEF line
  <2>1. Parsed(line) = op
    BY DEF Parsed
  <2>2. SameRead(Parsed(line), line) /\ InRoot(Parsed(line).path) /\ NoHidden(Parsed(line).path)
    BY <1>3, <1>5, <2>1, ReadUnderstood
  <2> HIDE DEF op
  <2>q. QED BY <2>1, <2>2, Zenon DEF InRoot, NoHidden
<1>6. ASSUME rg.ok
      PROVE  /\ Getopt(called).operands = rg.pattern \o rg.paths
             /\ \A i \in DOMAIN rg.paths : IsPrefix(Root, Walk(Root, PathOf(rg.paths[i])))
  <2>1. isBoundedRgRepoSearch(line)
    BY <1>6 DEF isBoundedRgRepoSearch
  <2>2. Name(line) = "rg"
    BY <1>3, <2>1, RgName
  <2>3. line = called
    <3>1. Name(line) # "git"
      BY <2>2
    <3>q. QED BY <1>2, <3>1, Zenon DEF NormalizedLine
  <2> HIDE DEF line
  <2>4. /\ Getopt(line).operands = rg.pattern \o rg.paths
        /\ \A i \in DOMAIN rg.paths : InRoot(rg.paths[i])
    BY <1>3, <2>1, BoundedSafe
  <2> HIDE DEF rg
  <2>q. QED BY <2>3, <2>4, Zenon DEF InRoot
<1> HIDE DEF invoked, line, op, rg, g
<1>q. QED BY <1>4, <1>5, <1>6, Zenon

\* A line of git whose normal form may be answered only looks, options and all.
LEMMA GitGiven ==
    ASSUME PolicyAssumption, NEW line \in Seq(Spelled), line # <<>>, ~IsFlag(line[1]),
           Name(line) = "git", ~Attached(line),
           IsReplayAllowed(normalizeGitInvocation(line).argv)
    PROVE  OnlyLooks(line)
<1> DEFINE words == normalizeGitInvocation(line).argv
           g == GitReads(line)
<1>1. CASE line = <<W("git"), F("--version")>>
  BY <1>1 DEF OnlyLooks
<1>2. CASE line # <<W("git"), F("--version")>>
  <2>1. \A i \in 1..Len(line) : Detached(line[i])
    <3>1. DOMAIN line = 1..Len(line)
      <4> HIDE DEF Spelled
      <4>q. QED OBVIOUS
    <3>q. QED BY <3>1, Zenon DEF Attached, Detached
  <2>2. g.ok /\ g.words = Tail(words) /\ Subcommand(g.words)
    <3>1. GitMeant(line, normalizeGitInvocation(line))
      BY <1>2, <2>1, GitMeans
    <3>q. QED BY <3>1, Zenon DEF GitMeant
  <2>3. words \in Seq(Spelled) /\ words # <<>> /\ ~IsFlag(words[1]) /\ Name(words) = "git"
    BY Normalized DEF NormalizedLine
  <2> HIDE DEF words, g
  <2>4. Matched(words)
    BY <2>3, GitAllowed DEF words
  <2>5. ASSUME NEW sub \in {"status", "diff", "log", "rev-parse", "ls-files", "version"},
               GitHead(words, sub)
        PROVE  g.words # <<>> /\ g.words[1] \in Questions
    <3>1. Len(words) > 1 /\ words[2] = W(sub) /\ W(sub) \in Questions
      BY <2>5 DEF GitHead, Questions
    <3>2. Tail(words) # <<>> /\ Tail(words)[1] = words[2]
      <4> HIDE DEF Spelled
      <4>q. QED BY <2>3, <3>1, Ends
    <3>q. QED BY <2>2, <3>1, <3>2
  <2>6. ASSUME words = <<W("git"), W("branch"), F("--show-current")>>
        PROVE  g.words = <<W("branch"), F("--show-current")>>
    <3>1. Tail(words) = <<W("branch"), F("--show-current")>>
      BY <2>6
    <3>q. QED BY <2>2, <3>1
  <2>7. words # <<W("git"), F("--version")>>
    <3>1. ASSUME words = <<W("git"), F("--version")>> PROVE FALSE
      <4>1. Tail(words) = <<F("--version")>>
        BY <3>1
      <4>2. g.words # <<>> /\ g.words[1] = F("--version")
        <5>1. g.words = <<F("--version")>>
          BY <2>2, <4>1
        <5>2. \A w, x : w = <<x>> => w # <<>> /\ w[1] = x
          OBVIOUS
        <5>q. QED BY <5>1, <5>2
      <4>3. IsFlag(F("--version"))
        BY DEF IsFlag, F
      <4>q. QED BY <2>2, <4>2, <4>3 DEF Subcommand
    <3>q. QED BY <3>1
  <2>8. \/ g.words # <<>> /\ g.words[1] \in Questions
        \/ g.words = <<W("branch"), F("--show-current")>>
    BY <2>3, <2>4, <2>5, <2>6, <2>7, GitAsks
  <2>q. QED BY <2>2, <2>8 DEF OnlyLooks, g
<1>q. QED BY <1>1, <1>2

\* Any line that may be answered only looks.
LEMMA Looks ==
    ASSUME PolicyAssumption, argv \in Seq(Spelled), argv # <<>>
    PROVE  OnlyReads
<1> DEFINE called == Called(argv)
           line == normalizeGitInvocation(called).argv
<1>0. called \in Seq(Spelled) /\ called # <<>> /\ ~IsFlag(called[1])
  BY CalledLine
<1> HIDE DEF called
<1>1. NormalizedLine(called, normalizeGitInvocation(called))
  BY <1>0, Normalized
<1>2. line \in Seq(Spelled) /\ line # <<>> /\ ~IsFlag(line[1])
  BY <1>1 DEF NormalizedLine
<1>3. Invoked.argv = line
  BY DEF Invoked, NormalizeInvocation, called
<1>4. ASSUME MayReplay(line) PROVE Harmless(line)
  <2> HIDE DEF line
  <2>1. IsReplayAllowed(line)
    BY <1>4, MayReplayAllowed
  <2>q. QED BY <1>2, <2>1, AllowedLooks, AllowedKnown DEF Harmless
<1>5. ASSUME MayReplay(line), ~OnTrust(argv) PROVE AsGiven(argv)
  <2>1. ~ByPath(argv) /\ ~RunsAnother(called) /\ ~Attached(called)
    BY <1>5 DEF OnTrust, called
  <2>2. IsReplayAllowed(line)
    <3> HIDE DEF line
    <3>q. QED BY <1>5, MayReplayAllowed
  <2>3. CASE Name(called) = "git"
    BY <1>0, <2>1, <2>2, <2>3, GitGiven DEF AsGiven, called
  <2>4. CASE Name(called) # "git"
    <3>1. line = called
      BY <1>1, <2>4, Zenon DEF NormalizedLine
    <3>2. OnlyLooks(called)
      BY <1>0, <2>2, <3>1, AllowedLooks
    <3>q. QED BY <2>1, <3>2 DEF AsGiven, called
  <2>q. QED BY <2>3, <2>4
<1> HIDE DEF line
<1>q. QED BY <1>3, <1>4, <1>5, Zenon DEF OnlyReads

(***************************************************************************)
(* The invariant: a line begins with one of Starts.                        *)
(***************************************************************************)
Begun ==
    /\ start \in Starts /\ argv \in Seq(Word)
    /\ Len(start) <= Len(argv) /\ Len(argv) <= Len(start) + MaxArguments
    /\ SubSeq(argv, 1, Len(start)) = start

LEMMA Beginning ==
    ASSUME NEW S, NEW s \in Seq(S), s # <<>>
    PROVE  Len(s) \in Nat /\ Len(s) >= 1 /\ SubSeq(s, 1, Len(s)) = s /\ s[1] \in S
<1>1. Len(s) \in Nat /\ SubSeq(s, 1, Len(s)) = s
  OBVIOUS
<1>2. Len(s) # 0
  OBVIOUS
<1>3. Len(s) >= 1
  <2> DEFINE n == Len(s)
  <2>1. n \in Nat /\ n # 0
    BY <1>1, <1>2
  <2> HIDE DEF n
  <2>2. n >= 1
    BY <2>1
  <2>q. QED BY <2>2 DEF n
<1>q. QED BY <1>1, <1>3

LEMMA BeginsAs ==
    ASSUME NEW S, NEW s \in Seq(S), NEW t \in Seq(S), NEW n \in Nat, n >= 1, n <= Len(s), SubSeq(s, 1, n) = t
    PROVE  s # <<>> /\ s[1] = t[1]
<1>1. Len(s) # 0 /\ SubSeq(s, 1, n)[1] = s[1]
  OBVIOUS
<1>2. s # <<>>
  <2>1. Len(<<>>) = 0
    OBVIOUS
  <2>q. QED BY <1>1, <2>1, Zenon
<1>q. QED BY <1>1, <1>2

LEMMA KeepsStart ==
    ASSUME NEW S, NEW s \in Seq(S), NEW w \in S, NEW n \in Nat, n <= Len(s)
    PROVE  /\ Append(s, w) \in Seq(S) /\ Len(Append(s, w)) = Len(s) + 1
           /\ SubSeq(Append(s, w), 1, n) = SubSeq(s, 1, n)
<1>1. Append(s, w) \in Seq(S) /\ Len(Append(s, w)) = Len(s) + 1
      /\ \A i \in 1..Len(s) : Append(s, w)[i] = s[i]
  BY Added
<1>2. SubSeq(Append(s, w), 1, n) = SubSeq(s, 1, n)
  OBVIOUS
<1>q. QED BY <1>1, <1>2

LEMMA BegunInit == ASSUME PolicyAssumption, Init PROVE Begun
<1>1. start \in Seq(Word) /\ start # <<>> /\ argv = start /\ start \in Starts /\ MaxArguments \in Nat
  BY DEF Init, PolicyAssumption
<1>2. Len(start) \in Nat /\ SubSeq(start, 1, Len(start)) = start
  <2> HIDE DEF Word
  <2>q. QED BY <1>1, Beginning
<1>q. QED BY <1>1, <1>2 DEF Begun

LEMMA BegunNext == ASSUME PolicyAssumption, Begun, [Next]_<<argv, start>> PROVE Begun'
<1>1. CASE UNCHANGED <<argv, start>>
  BY <1>1 DEF Begun
<1>2. ASSUME NEW w \in Words[start], Add(w) PROVE Begun'
  <2>1. start \in Seq(Word) /\ start # <<>> /\ Words[start] \subseteq Word
    BY DEF PolicyAssumption, Begun
  <2>2. w \in Word /\ argv \in Seq(Word) /\ argv' = Append(argv, w) /\ start' = start
        /\ Len(argv) < Len(start) + MaxArguments /\ Len(start) <= Len(argv)
    BY <1>2, <2>1 DEF Add, Begun
  <2>3. Len(start) \in Nat /\ Len(argv) \in Nat /\ MaxArguments \in Nat
    <3> HIDE DEF Word
    <3>1. MaxArguments \in Nat
      BY Zenon DEF PolicyAssumption
    <3>2. Len(start) \in Nat /\ Len(argv) \in Nat
      BY <2>1, <2>2
    <3>q. QED BY <3>1, <3>2
  <2>4. /\ argv' \in Seq(Word) /\ Len(argv') = Len(argv) + 1
        /\ SubSeq(argv', 1, Len(start)) = SubSeq(argv, 1, Len(start))
    <3> HIDE DEF Word
    <3>q. QED BY <2>2, <2>3, KeepsStart
  <2>5. Len(start) <= Len(argv') /\ Len(argv') <= Len(start) + MaxArguments
    BY <2>2, <2>3, <2>4
  <2>q. QED BY <2>2, <2>4, <2>5 DEF Begun
<1>q. QED BY <1>1, <1>2 DEF Next

LEMMA BegunLine ==
    ASSUME PolicyAssumption, Begun
    PROVE  argv \in Seq(Spelled) /\ argv # <<>> /\ ~IsFlag(argv[1])
<1>1. start \in Seq(Word) /\ start # <<>> /\ ~IsFlag(start[1])
  BY DEF PolicyAssumption, Begun
<1>2. argv \in Seq(Word)
  BY DEF Begun
<1>3. argv # <<>> /\ argv[1] = start[1]
  <2> HIDE DEF Word
  <2>1. Len(start) \in Nat /\ Len(start) >= 1
    BY <1>1, Beginning
  <2>q. QED BY <1>1, <1>2, <2>1, BeginsAs DEF Begun
<1>q. QED BY <1>1, <1>2, <1>3, WordsAreSpelled

LEMMA BegunTyped == ASSUME PolicyAssumption, Begun PROVE TypeOK
<1>1. argv \in Seq(Spelled) /\ argv # <<>> /\ ~IsFlag(argv[1])
  BY BegunLine
<1>4. Called(argv) \in Seq(Spelled) /\ Called(argv) # <<>> /\ ~IsFlag(Called(argv)[1])
  BY <1>1, CalledLine
<1>2. Invoked.argv # <<>>
  BY <1>4, Normalized DEF NormalizedLine, Invoked, NormalizeInvocation
<1>3. Invoked.cwd[1] = "/"
  BY <1>4, NormalizedDirectory DEF Normal, Invoked, NormalizeInvocation
<1>q. QED BY <1>2, <1>3 DEF TypeOK, Begun

LEMMA AlwaysBegun == ASSUME PolicyAssumption PROVE Spec => []Begun
<1>1. Init => Begun
  BY BegunInit
<1>2. Begun /\ [Next]_<<argv, start>> => Begun'
  BY BegunNext
<1>q. QED BY <1>1, <1>2, PTL DEF Spec

\* A command line keeps its types: it begins with one of Starts and has at most
\* MaxArguments words more; it is normalized to words and an absolute directory.
THEOREM LinesTyped == ASSUME PolicyAssumption PROVE Spec => []TypeOK
<1>1. Begun => TypeOK
  BY BegunTyped
<1>q. QED BY <1>1, AlwaysBegun, PTL

\* No line that may be answered does more than look: with all the options it is given,
\* a mutation, a build, a test or an unknown operation is native -- but for what the
\* code takes on trust: a program named by a path, a monitor or a hooks path that
\* runs something, and -C with its directory attached.
THEOREM LinesOnlyLook == ASSUME PolicyAssumption PROVE Spec => []OnlyReads
<1>1. Begun => OnlyReads
  BY BegunLine, Looks
<1>q. QED BY <1>1, AlwaysBegun, PTL

\* A line that may be answered is understood as the tool of that name reads it: subcommand,
\* directory and settings of git, file, pattern, count and switches of a read, paths
\* in the tree of a search.
THEOREM LinesUnderstood == ASSUME PolicyAssumption PROVE Spec => []ReadAsTool
<1>1. Begun => ReadAsTool
  BY BegunLine, Means
<1>q. QED BY <1>1, AlwaysBegun, PTL
=============================================================================
