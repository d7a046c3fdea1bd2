-------------------------- MODULE ComponentsProofs --------------------------
(***************************************************************************)
(* What the runs check of the components on small instances holds in every *)
(* behaviour of Components, whatever the constants are.  The snapshot, the *)
(* policy and the reads are argued about in modules of their own; the      *)
(* clock, the identities, the guard, the walks and the lock here.          *)
(***************************************************************************)
EXTENDS Components, Integers, FiniteSetTheorems, SequenceTheorems, WellFoundedInduction, TLAPS

(***************************************************************************)
(* A step of Components is one of the component the behaviour belongs to.  *)
(***************************************************************************)
LEMMA PartStarts ==
    ASSUME PartsInit
    PROVE  /\ part = "timer" => Timer!Init
           /\ part = "identity" => Identity!Init
           /\ part = "inputs" => Inputs!Init
           /\ part = "watch" => Watch!Init
           /\ part = "lock" => Lock!Init
           /\ part = "snapshot" => Snapshot!Init
           /\ part = "policy" => Policy!Init
           /\ part = "reads" => Reads!Init
BY DEF PartsInit

LEMMA PartSteps ==
    ASSUME [PartsNext]_<<part, partVars>>
    PROVE  /\ part' = part
           /\ part = "timer" => [Timer!Next]_Timer!vars
           /\ part = "identity" => [Identity!Next]_Identity!vars
           /\ part = "inputs" => [Inputs!Next]_Inputs!vars
           /\ part = "watch" => [Watch!Next]_Watch!vars
           /\ part = "lock" => [Lock!Next]_Lock!vars
           /\ part = "snapshot" => [Snapshot!Next]_Snapshot!vars
           /\ part = "policy" => [Policy!Next]_<<argv, start>>
           /\ part = "reads" => [Reads!Next]_<<content, operation>>
<1>1. CASE UNCHANGED <<part, partVars>>
  BY <1>1 DEF partVars, timerVars, identityVars, inputVars, walkVars, watchVars, lockVars,
     snapshotVars, policyVars, readVars, Timer!vars, Identity!vars, Identity!file,
     Identity!stats, Identity!hashing, Inputs!vars, Watch!vars, Watch!tree, Watch!history,
     Lock!vars, Lock!lock, Lock!local, Snapshot!vars
<1>2. CASE PartsNext
  BY <1>2 DEF PartsNext
<1>q. QED BY <1>1, <1>2

(***************************************************************************)
(* Numbers.                                                                *)
(***************************************************************************)

LEMMA Least == ASSUME NEW T \in SUBSET Nat, T # {} PROVE \E n \in T : \A m \in T : n <= m
<1> DEFINE R == {p \in Nat \X Nat : p[1] < p[2]}
<1>1. IsWellFoundedOn(R, Nat)
  BY NatLessThanWellFounded DEF OpToRel
<1>2. ASSUME NEW m \in Nat, NEW n \in Nat, m < n PROVE <<m, n>> \in R
  BY <1>2
<1> HIDE DEF R
<1>3. PICK n \in T : \A m \in T : <<m, n>> \notin R
  BY <1>1, WFMin
<1>4. ASSUME NEW m \in T PROVE n <= m
  <2>1. m \in Nat /\ n \in Nat
    OBVIOUS
  <2>2. ~(m < n)
    BY <1>2, <1>3, <2>1
  <2>q. QED BY <2>1, <2>2
<1>q. QED BY <1>4

\* Induction, over a set of numbers.
LEMMA Induction ==
    ASSUME NEW S \in SUBSET Nat, 0 \in S, \A n \in S : n + 1 \in S PROVE S = Nat
<1> DEFINE T == Nat \ S
<1>1. ASSUME T # {} PROVE FALSE
  <2>1. PICK n \in T : \A m \in T : n <= m
    <3> HIDE DEF T
    <3>1. T \in SUBSET Nat
      BY DEF T
    <3>q. QED BY <1>1, <3>1, Least
  <2>2. n \in Nat /\ n # 0
    OBVIOUS
  <2>3. n - 1 \in Nat /\ n - 1 \notin T
    BY <2>1, <2>2
  <2>4. n - 1 + 1 = n
    BY <2>2
  <2>q. QED BY <2>3, <2>4
<1>q. QED BY <1>1

(***************************************************************************)
(* The clock of the scheduler.                                             *)
(***************************************************************************)
\* parseTimingsBoundedDuration: no config may ask for more than some longest time.
TimingsBounded ==
    \E b \in Nat : \A t \in Timings : t.poll <= b /\ t.quiescence <= b

(***************************************************************************)
(* The slowest of the timings.                                             *)
(***************************************************************************)
LEMMA Largest ==
    ASSUME NEW T \in SUBSET Nat, T # {}, NEW b \in Nat, \A m \in T : m <= b
    PROVE  \E n \in T : \A m \in T : m <= n
<1> DEFINE D == {d \in Nat : \E m \in T : d = b - m}
<1>1. ASSUME NEW m \in T PROVE b - m \in D
  BY <1>1
<1>2. PICK d \in D : \A e \in D : d <= e
  <2>1. D \in SUBSET Nat /\ D # {}
    BY <1>1
  <2> HIDE DEF D
  <2>q. QED BY <2>1, Least
<1>3. PICK n \in T : d = b - n
  OBVIOUS
<1>4. ASSUME NEW m \in T PROVE m <= n
  <2>1. d <= b - m
    BY <1>1, <1>2
  <2>q. QED BY <1>3, <2>1
<1>q. QED BY <1>4

LEMMA SlowestIs ==
    ASSUME Timer!TimerAssumption, TimingsBounded, Timings # {},
           NEW field \in {"poll", "quiescence"}
    PROVE  Timer!Slowest(field) \in Nat /\ \A t \in Timings : t[field] <= Timer!Slowest(field)
<1> DEFINE T == {t[field] : t \in Timings}
<1>1. T \in SUBSET Nat /\ T # {}
  BY DEF Timer!TimerAssumption
<1>2. PICK b \in Nat : \A m \in T : m <= b
  BY DEF TimingsBounded
<1>3. \E n \in T : \A t \in Timings : t[field] <= n
  <2>1. \E n \in T : \A m \in T : m <= n
    <3> HIDE DEF T
    <3>q. QED BY <1>1, <1>2, Largest
  <2>q. QED BY <2>1
<1>4. Timer!Slowest(field) \in T /\ \A t \in Timings : t[field] <= Timer!Slowest(field)
  BY <1>3 DEF Timer!Slowest
<1>q. QED BY <1>1, <1>4

\* A moment later, at most one unit more and at least one less.
LEMMA Sums ==
    ASSUME NEW w \in Int, NEW w1 \in Int, w1 <= w + 1, NEW r \in Int, NEW r1 \in Int, r1 <= r - 1
    PROVE  w1 + r1 <= w + r
OBVIOUS

LEMMA Sum ==
    ASSUME NEW a \in Int, NEW b \in Int, NEW c \in Int, NEW d \in Int, a <= c, b <= d
    PROVE  a + b <= c + d
OBVIOUS

(***************************************************************************)
(* Types, and what the timers of the timing in force can hold.             *)
(***************************************************************************)
Timers ==
    /\ Timer!TypeOK
    /\ tick <= timing.poll
    /\ debounce <= timing.quiescence /\ debounce # 0
    /\ busy > 0 => debounce = Timer!Off /\ "debounce" \notin fired

\* A timing has two positive lengths.
LEMMA TimingType ==
    ASSUME Timer!TimerAssumption
    PROVE  \A t \in Timings : /\ t.poll \in Nat /\ t.poll > 0
                              /\ t.quiescence \in Nat /\ t.quiescence > 0
BY DEF Timer!TimerAssumption

LEMMA TimersInit == ASSUME Timer!TimerAssumption, Timer!Init PROVE Timers
<1>1. disk \in Timings /\ timing \in Timings /\ 0 \in 0..MaxBatch /\ 0 \in 0..Horizon
  BY DEF Timer!Init, Timer!TimerAssumption
<1>2. /\ timing.poll \in Nat /\ timing.poll > 0
      /\ timing.quiescence \in Nat /\ timing.quiescence > 0
  BY <1>1, TimingType
<1>3. Timer!TypeOK
  <2>1. wait \in 0..Horizon \cup {Timer!Off} /\ edits \in Nat /\ busy \in 0..MaxBatch
    BY <1>1 DEF Timer!Init
  <2>2. notified \in BOOLEAN /\ fired = {}
    BY DEF Timer!Init
  <2>3. debounce \in Nat \cup {Timer!Off} /\ tick \in Nat \ {0}
    BY <1>2 DEF Timer!Init
  <2>q. QED BY <1>1, <2>1, <2>2, <2>3 DEF Timer!TypeOK
<1>q. QED BY <1>2, <1>3 DEF Timer!Init, Timers

LEMMA TimersNext == ASSUME Timer!TimerAssumption, Timers, [Timer!Next]_Timer!vars PROVE Timers'
<1>1. /\ timing \in Timings /\ disk \in Timings
      /\ MaxBatch \in Nat /\ Horizon \in Nat /\ 0 \in 0..Horizon
  BY DEF Timers, Timer!TypeOK, Timer!TimerAssumption
<1>2. \A t \in {timing, disk} : /\ t.poll \in Nat /\ t.poll > 0
                                /\ t.quiescence \in Nat /\ t.quiescence > 0
  BY <1>1, TimingType
<1> USE DEF Timers, Timer!TypeOK, Timer!Off
<1>3. ASSUME NEW t \in Timings, Timer!Edit(t) PROVE Timers'
  <2>1. notified' \in BOOLEAN
    BY <1>3 DEF Timer!Edit
  <2>2. edits' \in Nat /\ wait' \in 0..Horizon \cup {Timer!Off}
    BY <1>1, <1>3 DEF Timer!Edit
  <2>q. QED BY <1>3, <2>1, <2>2 DEF Timer!Edit
<1>4. CASE Timer!OnChange \/ Timer!OnReconcile
  <2>1. /\ UNCHANGED <<disk, timing, tick, busy, wait, edits>> /\ busy = 0
        /\ debounce' = timing.quiescence /\ "debounce" \notin fired' /\ fired' \subseteq fired
        /\ notified' \in BOOLEAN
    BY <1>4 DEF Timer!OnChange, Timer!OnReconcile, Timer!resetSchedulerTimer
  <2>q. QED BY <1>2, <2>1
<1>5. CASE Timer!OnDebounce
  <2>1. /\ tick' \in Nat \ {0} /\ tick' <= timing'.poll
        /\ debounce' = Timer!Off /\ "debounce" \notin fired'
        /\ fired' \subseteq {"debounce", "tick"}
        /\ disk' = disk /\ timing' = disk /\ busy' \in 0..MaxBatch /\ wait' = Timer!Off
        /\ UNCHANGED <<notified, edits>>
    BY <1>1, <1>2, <1>5 DEF Timer!OnDebounce
  <2>q. QED BY <1>1, <1>2, <2>1
<1>6. CASE Timer!Advance
  <2>1. UNCHANGED <<disk, timing, notified, edits>>
    BY <1>6 DEF Timer!Advance
  <2>2. busy' \in 0..MaxBatch /\ (busy' > 0 => busy > 0)
    BY <1>1, <1>6 DEF Timer!Advance
  <2>3. tick' \in Nat \ {0} /\ tick' <= timing.poll
    BY <1>2, <1>6 DEF Timer!Advance
  <2>4. /\ debounce' \in Nat \cup {Timer!Off} /\ debounce' # 0 /\ debounce' <= timing.quiescence
        /\ busy > 0 => debounce' = Timer!Off
    BY <1>2, <1>6 DEF Timer!Advance
  <2>5. /\ fired' \subseteq {"debounce", "tick"}
        /\ "debounce" \in fired' => "debounce" \in fired \/ debounce = 1
    BY <1>6 DEF Timer!Advance
  <2>6. "debounce" \in fired' => debounce' = Timer!Off
    BY <1>6, <2>5 DEF Timer!Advance
  <2>7. wait' \in 0..Horizon \cup {Timer!Off}
    BY <1>1, <1>6 DEF Timer!Advance
  <2>q. QED BY <2>1, <2>2, <2>3, <2>4, <2>5, <2>6, <2>7
<1>7. CASE UNCHANGED Timer!vars
  BY <1>7 DEF Timer!vars
<1>q. QED BY <1>3, <1>4, <1>5, <1>6, <1>7 DEF Timer!Next

(***************************************************************************)
(* How long a pending change can still have to wait.                       *)
(***************************************************************************)
\* A debounce with d left, by a ticker with t left, fires unless the ticker
\* comes first or at the same time; then it is armed anew.
Rearmed(d, t) == IF d < t THEN d ELSE t + timing.quiescence

Remaining ==
    IF "tick" \in fired \/ notified THEN Rearmed(timing.quiescence, tick)
    ELSE IF "debounce" \in fired THEN 0
    ELSE IF debounce = Timer!Off THEN tick + timing.quiescence
    ELSE Rearmed(debounce, tick)

InTime(n) ==
    \/ n <= Timer!Slowest("poll") + Timer!Slowest("quiescence")
    \/ n <= MaxBatch + 2 * Timer!Slowest("quiescence")

\* An idle loop gets to the change in time.  A batch that has been running since
\* before the change leaves it, when it ends, to a tick that has fired meanwhile
\* or is due within the poll interval it was started in.
Promise ==
    wait # Timer!Off =>
        /\ busy = 0 => InTime(wait + Remaining)
        /\ busy > 0 => /\ wait + busy <= MaxBatch
                       /\ "tick" \in fired \/ wait + tick <= timing.poll

\* The numbers the timing in force stands for.
LEMMA InForce ==
    ASSUME Timer!TimerAssumption, TimingsBounded, Timer!SlowTicker, Timers
    PROVE  /\ Timer!Slowest("poll") \in Nat /\ Timer!Slowest("quiescence") \in Nat
           /\ \A t \in Timings : /\ t.poll \in Nat /\ t.quiescence \in Nat
                                 /\ t.quiescence > 0 /\ t.quiescence < t.poll
                                 /\ t.poll <= Timer!Slowest("poll")
                                 /\ t.quiescence <= Timer!Slowest("quiescence")
           /\ timing \in Timings /\ disk \in Timings
           /\ MaxBatch \in Nat
<1>1. timing \in Timings /\ disk \in Timings
  BY DEF Timers, Timer!TypeOK
<1>2. /\ Timer!Slowest("poll") \in Nat /\ Timer!Slowest("quiescence") \in Nat
      /\ \A t \in Timings : /\ t.poll <= Timer!Slowest("poll")
                            /\ t.quiescence <= Timer!Slowest("quiescence")
  BY <1>1, SlowestIs
<1>q. QED BY <1>1, <1>2, TimingType DEF Timer!SlowTicker, Timer!TimerAssumption

\* A change made while the loop is idle waits no longer than a poll interval and
\* a quiescence period.
LEMMA IdleChange ==
    ASSUME Timer!TimerAssumption, TimingsBounded, Timer!SlowTicker, Timers,
           NEW n \in {Remaining, Rearmed(timing.quiescence, tick)}
    PROVE  n \in Nat /\ InTime(n)
<1> DEFINE p == timing.poll
           q == timing.quiescence
           P == Timer!Slowest("poll")
           Q == Timer!Slowest("quiescence")
<1>1. p \in Nat /\ q \in Nat /\ P \in Nat /\ Q \in Nat /\ q < p /\ p <= P /\ q <= Q
  BY InForce
<1>2. tick \in Nat /\ tick <= p /\ (debounce = Timer!Off \/ (debounce \in Nat /\ debounce <= q))
  BY DEF Timers, Timer!TypeOK
<1>3. n \in {q, 0, tick + q} \/ (n = debounce /\ debounce # Timer!Off)
  BY DEF Remaining, Rearmed
<1> HIDE DEF p, q, P, Q
<1>4. n \in Nat /\ n <= p + q
  BY <1>1, <1>2, <1>3
<1>5. n <= P + Q
  BY <1>1, <1>4
<1>q. QED BY <1>4, <1>5 DEF InTime, P, Q

LEMMA PromiseEdit ==
    ASSUME Timer!TimerAssumption, TimingsBounded, Timer!SlowTicker, Timers, Promise,
           NEW t \in Timings, Timer!Edit(t)
    PROVE  Promise'
<1>1. wait' = 0 /\ UNCHANGED <<timing, tick, debounce, busy, fired>>
  BY DEF Timer!Edit
<1>2. busy' = 0 => InTime(wait' + Remaining')
  <2>1. Remaining' \in {Remaining, Rearmed(timing.quiescence, tick)}
    <3>1. CASE notified'
      BY <1>1, <3>1 DEF Remaining, Rearmed
    <3>2. CASE ~notified'
      <4>1. notified' = notified
        BY <3>2 DEF Timer!Edit, Timers, Timer!TypeOK
      <4>q. QED BY <1>1, <4>1 DEF Remaining, Rearmed
    <3>q. QED BY <3>1, <3>2
  <2>2. Remaining' \in Nat /\ InTime(Remaining')
    BY <2>1, IdleChange
  <2>3. \A n \in Nat : 0 + n = n
    OBVIOUS
  <2>q. QED BY <1>1, <2>2, <2>3
<1>3. busy' > 0 => wait' + busy' <= MaxBatch /\ wait' + tick' <= timing'.poll
  BY <1>1, TimingType DEF Timers, Timer!TypeOK, Timer!TimerAssumption
<1>q. QED BY <1>2, <1>3 DEF Promise, InTime

\* Handling a tick or a notification arms the debounce, as expected of it.
LEMMA PromiseRearm ==
    ASSUME Timer!TimerAssumption, Timers, Promise, Timer!OnChange \/ Timer!OnReconcile PROVE Promise'
<1>1. /\ UNCHANGED <<timing, tick, busy, wait>> /\ busy = 0
      /\ "tick" \in fired \/ notified
      /\ debounce' = timing.quiescence /\ "debounce" \notin fired'
  BY DEF Timer!OnChange, Timer!OnReconcile, Timer!resetSchedulerTimer
<1>2. timing.quiescence # Timer!Off
  BY TimingType DEF Timers, Timer!TypeOK, Timer!Off
<1>3. Remaining = Rearmed(timing.quiescence, tick)
  BY <1>1 DEF Remaining
<1>4. Remaining' = Rearmed(timing.quiescence, tick)
  BY <1>1, <1>2 DEF Remaining, Rearmed
<1>q. QED BY <1>1, <1>3, <1>4 DEF Promise, InTime

\* Time passes for an idle loop that has nothing to take.
LEMMA PromiseIdle ==
    ASSUME Timer!TimerAssumption, TimingsBounded, Timer!SlowTicker, Timers, Promise,
           Timer!Advance, busy = 0, wait # Timer!Off
    PROVE  busy' = 0 /\ InTime(wait' + Remaining')
<1> DEFINE q == timing.quiescence
<1>1. /\ q \in Nat /\ q > 0 /\ q < timing.poll /\ timing.poll \in Nat
      /\ Timer!Slowest("poll") \in Nat /\ Timer!Slowest("quiescence") \in Nat /\ MaxBatch \in Nat
  BY InForce
<1>2. tick \in Nat /\ tick > 0 /\ tick <= timing.poll
  BY DEF Timers, Timer!TypeOK
<1>3. debounce = Timer!Off \/ (debounce \in Nat /\ debounce > 0 /\ debounce <= q)
  BY DEF Timers, Timer!TypeOK
<1>4. fired = {} /\ ~notified /\ busy' = 0 /\ timing' = timing /\ ~notified'
  BY DEF Timer!Advance
<1>5. wait \in Nat /\ wait' \in Nat /\ wait' <= wait + 1
  BY DEF Timer!Advance, Timers, Timer!TypeOK, Timer!Off, Timer!TimerAssumption
<1>6. Remaining = IF debounce = Timer!Off THEN tick + q ELSE Rearmed(debounce, tick)
  BY <1>4 DEF Remaining
<1>7. Remaining \in Nat /\ Remaining' \in Nat /\ Remaining' <= Remaining - 1
  <2>1. CASE tick = 1
    <3>1. tick' = timing.poll /\ "tick" \in fired'
      BY <2>1 DEF Timer!Advance
    <3>2. Remaining' = q
      BY <1>1, <1>4, <3>1 DEF Remaining, Rearmed
    <3>3. Remaining = 1 + q
      BY <1>1, <1>2, <1>3, <1>6, <2>1 DEF Rearmed
    <3>q. QED BY <1>1, <3>2, <3>3
  <2>2. CASE tick # 1 /\ debounce = 1
    <3>1. Remaining' = 0
      BY <1>4, <2>2 DEF Timer!Advance, Remaining
    <3>2. Remaining = 1
      BY <1>2, <1>6, <2>2 DEF Rearmed, Timer!Off
    <3>q. QED BY <3>1, <3>2
  <2>3. CASE tick # 1 /\ debounce # 1
    <3>1. /\ tick' = tick - 1 /\ fired' = {}
          /\ debounce' = IF debounce = Timer!Off THEN Timer!Off ELSE debounce - 1
      BY <1>4, <2>3 DEF Timer!Advance
    <3>2. Remaining' = IF debounce' = Timer!Off THEN tick' + q ELSE Rearmed(debounce', tick')
      BY <1>4, <3>1 DEF Remaining, Rearmed
    <3>3. CASE debounce = Timer!Off
      BY <1>1, <1>2, <1>6, <2>3, <3>1, <3>2, <3>3
    <3>4. CASE debounce # Timer!Off
      BY <1>1, <1>2, <1>3, <1>6, <2>3, <3>1, <3>2, <3>4 DEF Rearmed, Timer!Off
    <3>q. QED BY <3>3, <3>4
  <2>q. QED BY <2>1, <2>2, <2>3
<1>8. InTime(wait + Remaining)
  BY DEF Promise
<1> HIDE DEF q
<1>9. wait' + Remaining' <= wait + Remaining
  <2>1. PICK w \in Nat, w1 \in Nat : w = wait /\ w1 = wait'
    BY <1>5
  <2>2. PICK r \in Nat, r1 \in Nat : r = Remaining /\ r1 = Remaining'
    BY <1>7
  <2>3. w1 <= w + 1 /\ r1 <= r - 1
    BY <1>5, <1>7, <2>1, <2>2
  <2>4. w1 + r1 <= w + r
    BY <2>3, Sums
  <2>q. QED BY ONLY <2>1, <2>2, <2>4
<1>q. QED BY <1>1, <1>4, <1>5, <1>7, <1>8, <1>9 DEF InTime

\* Time passes for a batch, which may end with it.
LEMMA PromiseBatch ==
    ASSUME Timer!TimerAssumption, TimingsBounded, Timer!SlowTicker, Timers, Promise,
           Timer!Advance, busy > 0, wait # Timer!Off
    PROVE  /\ busy' = 0 => InTime(wait' + Remaining')
           /\ busy' > 0 => /\ wait' + busy' <= MaxBatch
                           /\ "tick" \in fired' \/ wait' + tick' <= timing'.poll
<1> DEFINE q == timing.quiescence
           Q == Timer!Slowest("quiescence")
<1>1. /\ q \in Nat /\ q > 0 /\ q <= Q /\ timing.poll \in Nat /\ timing.poll <= Timer!Slowest("poll")
      /\ Timer!Slowest("poll") \in Nat /\ Q \in Nat /\ MaxBatch \in Nat
  BY InForce
<1>2. tick \in Nat /\ tick > 0 /\ debounce = Timer!Off /\ "debounce" \notin fired
  BY DEF Timers, Timer!TypeOK
<1>3. busy \in Nat /\ busy' = busy - 1 /\ timing' = timing /\ notified' = notified
  BY DEF Timer!Advance, Timers, Timer!TypeOK, Timer!TimerAssumption
<1>4. wait \in Nat /\ wait' \in Nat /\ wait' <= wait + 1
  BY DEF Timer!Advance, Timers, Timer!TypeOK, Timer!Off, Timer!TimerAssumption
<1>5. wait + busy <= MaxBatch /\ ("tick" \in fired \/ wait + tick <= timing.poll)
  BY DEF Promise
<1>6. wait' + busy' <= MaxBatch
  <2>1. MaxBatch \in Nat /\ wait + busy <= MaxBatch
    BY <1>1, <1>5
  <2>2. PICK w \in Nat, w1 \in Nat : w = wait /\ w1 = wait'
    BY <1>4
  <2>3. PICK b \in Nat, b1 \in Int : b = busy /\ b1 = busy'
    BY <1>3
  <2>4. w1 <= w + 1 /\ b1 <= b - 1
    BY <1>3, <1>4, <2>2, <2>3
  <2>5. w1 + b1 <= w + b
    BY <2>4, Sums
  <2>6. w + b <= MaxBatch
    BY ONLY <2>1, <2>2, <2>3
  <2>7. w1 + b1 <= MaxBatch
    BY <2>1, <2>5, <2>6
  <2>q. QED BY ONLY <2>2, <2>3, <2>7
<1>7. "tick" \in fired' \/ (tick' \in Nat /\ wait' + tick' <= timing.poll)
  <2>1. CASE "tick" \in fired \/ tick = 1
    BY <2>1 DEF Timer!Advance
  <2>2. CASE "tick" \notin fired /\ tick # 1
    <3>1. tick' = tick - 1
      BY <2>2 DEF Timer!Advance
    <3>q. QED BY <1>1, <1>2, <1>4, <1>5, <2>2, <3>1
  <2>q. QED BY <2>1, <2>2
<1>8. ASSUME busy' = 0 PROVE InTime(wait' + Remaining')
  <2>1. wait' <= MaxBatch
    BY <1>4, <1>6, <1>8
  <2>2. debounce' = Timer!Off /\ "debounce" \notin fired'
    BY <1>2 DEF Timer!Advance, Timer!Off
  <2>3. tick' \in Nat
    BY <1>1, <1>2 DEF Timer!Advance
  <2>4. CASE "tick" \in fired' \/ notified'
    <3>1. Remaining' = IF q < tick' THEN q ELSE tick' + q
      BY <1>3, <2>4 DEF Remaining, Rearmed
    <3> HIDE DEF q, Q
    <3>2. ASSUME NEW t \in Nat
          PROVE  (IF q < t THEN q ELSE t + q) \in Nat /\ (IF q < t THEN q ELSE t + q) <= 2 * Q
      BY <1>1
    <3>3. Remaining' \in Nat /\ Remaining' <= 2 * Q
      BY <2>3, <3>1, <3>2
    <3>4. wait' + Remaining' <= MaxBatch + 2 * Q
      <4>1. PICK w1 \in Nat, r1 \in Nat : w1 = wait' /\ r1 = Remaining'
        BY <1>4, <3>3
      <4>2. w1 <= MaxBatch /\ r1 <= 2 * Q
        BY ONLY <2>1, <3>3, <4>1
      <4>3. MaxBatch \in Int /\ 2 * Q \in Int
        BY <1>1
      <4>4. w1 + r1 <= MaxBatch + 2 * Q
        BY <4>2, <4>3, Sum
      <4>q. QED BY ONLY <4>1, <4>4
    <3>q. QED BY <3>4 DEF InTime, Q
  <2>5. CASE "tick" \notin fired' /\ ~notified'
    <3>1. Remaining' = tick' + q
      BY <1>3, <2>2, <2>5 DEF Remaining
    <3> HIDE DEF q
    <3>2. wait' + Remaining' <= Timer!Slowest("poll") + Q
      BY <1>1, <1>4, <1>7, <2>3, <2>5, <3>1
    <3>q. QED BY <3>2 DEF InTime
  <2>q. QED BY <2>4, <2>5
<1>q. QED BY <1>3, <1>6, <1>7, <1>8

LEMMA PromiseNext ==
    ASSUME Timer!TimerAssumption, TimingsBounded, Timer!SlowTicker, Timers, Promise,
           [Timer!Next]_Timer!vars
    PROVE  Promise'
<1>1. CASE Timer!OnDebounce
  BY <1>1 DEF Timer!OnDebounce, Promise
<1>2. CASE Timer!Advance
  <2>1. wait = Timer!Off => wait' = Timer!Off
    BY <1>2 DEF Timer!Advance
  <2>2. busy = 0 \/ busy > 0
    BY DEF Timers, Timer!TypeOK, Timer!TimerAssumption
  <2>3. busy' = 0 => ~(busy' > 0)
    OBVIOUS
  <2>q. QED BY <1>2, <2>1, <2>2, <2>3, PromiseIdle, PromiseBatch DEF Promise, InTime
<1>3. CASE UNCHANGED Timer!vars
  BY <1>3 DEF Timer!vars, Promise, InTime, Remaining, Rearmed
<1>q. QED BY <1>1, <1>2, <1>3, PromiseEdit, PromiseRearm DEF Timer!Next

LEMMA PromiseInit ==
    ASSUME Timer!TimerAssumption, TimingsBounded, Timer!SlowTicker, Timer!Init PROVE Promise
<1>1. Timers
  BY TimersInit
<1>2. wait = 0 /\ busy = 0
  BY DEF Timer!Init
<1>3. Remaining \in Nat /\ InTime(Remaining)
  BY <1>1, IdleChange
<1>4. 0 + Remaining = Remaining
  BY <1>3
<1>q. QED BY <1>2, <1>3, <1>4 DEF Promise

LEMMA PromiseKept ==
    ASSUME Timer!TimerAssumption, TimingsBounded, Timer!SlowTicker, Timers, Promise
    PROVE  Timer!PickedUpInTime
<1>1. /\ Timer!Slowest("poll") \in Nat /\ Timer!Slowest("quiescence") \in Nat /\ MaxBatch \in Nat
      /\ timing.poll <= Timer!Slowest("poll")
  BY InForce
<1>2. CASE wait = Timer!Off
  BY <1>1, <1>2 DEF Timer!PickedUpInTime, Timer!Off
<1>3. CASE wait # Timer!Off /\ busy = 0
  <2>1. Remaining \in Nat /\ wait \in Nat
    BY <1>3, IdleChange DEF Timers, Timer!TypeOK, Timer!Off, Timer!TimerAssumption
  <2>2. InTime(wait + Remaining)
    BY <1>3 DEF Promise
  <2>q. QED BY <1>1, <2>1, <2>2 DEF InTime, Timer!PickedUpInTime
<1>4. CASE wait # Timer!Off /\ busy > 0
  <2>1. wait \in Nat /\ busy \in Nat /\ wait + busy <= MaxBatch
    BY <1>4 DEF Promise, Timers, Timer!TypeOK, Timer!Off, Timer!TimerAssumption
  <2>q. QED BY <1>1, <1>4, <2>1 DEF Timer!PickedUpInTime
<1>5. busy = 0 \/ busy > 0
  BY DEF Timers, Timer!TypeOK, Timer!TimerAssumption
<1>q. QED BY <1>2, <1>3, <1>4, <1>5

\* Every variable keeps its type.
THEOREM TimerTyped == ASSUME Timer!TimerAssumption PROVE Timer!Spec => []Timer!TypeOK
<1>1. Timers => Timer!TypeOK
  BY DEF Timers
<1>q. QED BY <1>1, TimersInit, TimersNext, PTL DEF Timer!Spec

\* While the ticker is slower than the debounce, every change is looked at within
\* a poll interval and a quiescence period, or within the batch in progress and
\* two of them, whatever notifications are lost and however the config changes
\* its timing.
THEOREM ChangesPickedUpInTime ==
    ASSUME Timer!TimerAssumption, TimingsBounded, Timer!SlowTicker
    PROVE  Timer!Spec => []Timer!PickedUpInTime
<1>q. QED BY TimersInit, TimersNext, PromiseInit, PromiseNext, PromiseKept, PTL DEF Timer!Spec

\* A timer belongs to the behaviour, or there is nothing to say.
TimerInv == part = "timer" => Timers /\ Promise

\* In every behaviour a change is looked at within the bound GreenTimer states,
\* under any timings parseBoundedDuration lets through whose ticker is slower
\* than their debounce.
THEOREM PartsPickUpInTime ==
    ASSUME TimingsBounded, Timer!SlowTicker PROVE PartsSpec => []PickedUpInTime
<1>1. Timer!TimerAssumption
  BY ComponentsAssumption
<1>2. PartsInit => TimerInv
  BY <1>1, PartStarts, TimersInit, PromiseInit DEF TimerInv
<1>3. TimerInv /\ [PartsNext]_<<part, partVars>> => TimerInv'
  BY <1>1, PartSteps, TimersNext, PromiseNext DEF TimerInv
<1>4. TimerInv => PickedUpInTime
  BY <1>1, PromiseKept DEF TimerInv, PickedUpInTime
<1>q. QED BY <1>2, <1>3, <1>4, PTL DEF PartsSpec

(***************************************************************************)
(* The identity of one file, for any number of goroutines, chunks and      *)
(* changes of it, where the file system has change times.  What carries    *)
(* the proof is that an inode's change time only grows: a stat whose       *)
(* change time is still the inode's was taken of the content it still has. *)
(***************************************************************************)
Inode == [content : Identity!Content, mtime : Nat, ctime : 1..now]

IdentityTypes ==
    /\ Identity!TypeOK
    /\ DOMAIN inodes \subseteq 1..now
    /\ inodes \in [DOMAIN inodes -> Inode]
    /\ hash \in [Readers -> Seq(Values)]
    /\ digest = [r \in Readers |-> digest[r]]
    /\ seen = [r \in Readers |-> seen[r]]


LEMMA IdentityTypesInit ==
    ASSUME Identity!IdentityAssumption
    PROVE  Identity!Init => IdentityTypes
<1> SUFFICES ASSUME Identity!Init PROVE IdentityTypes
  OBVIOUS
<1> USE DEF Identity!Init, Inode, Identity!StatType, Identity!NoStat, Identity!NoFile,
            Identity!NoHash
<1>1. PICK c \in Identity!Content : inodes = <<[content |-> c, mtime |-> 1, ctime |-> 1]>>
  OBVIOUS
<1>2. DOMAIN inodes = {1} /\ inodes[1] = [content |-> c, mtime |-> 1, ctime |-> 1]
  BY <1>1
<1>3. inodes \in [DOMAIN inodes -> Inode] /\ DOMAIN inodes \subseteq 1..now
  BY <1>1, <1>2
<1>4. /\ hash \in [Readers -> Seq(Values)]
      /\ digest = [r \in Readers |-> digest[r]] /\ seen = [r \in Readers |-> seen[r]]
  OBVIOUS
<1>5. Identity!TypeOK
  BY <1>2 DEF Identity!TypeOK, Identity!IdentityAssumption
<1>q. QED BY <1>3, <1>4, <1>5 DEF IdentityTypes

\* What a change of the file may do to it.
FileTyped ==
    /\ now \in Nat /\ path \in DOMAIN inodes \cup {Identity!NoFile}
    /\ DOMAIN inodes \subseteq 1..now
    /\ inodes \in [DOMAIN inodes -> Inode]

LEMMA IdentityTypesWriter ==
    ASSUME Identity!IdentityAssumption, IdentityTypes, FileTyped',
           DOMAIN inodes \subseteq DOMAIN inodes',
           UNCHANGED <<cache, pc, Identity!stats, Identity!hashing, digest>>, Identity!Witness
    PROVE  IdentityTypes'
<1>1. /\ UNCHANGED <<cache, pc, outer, inner, opened, hash, pos, digest>>
      /\ seen' = [r \in Readers |-> seen'[r]]
  BY DEF Identity!stats, Identity!hashing, Identity!Witness
<1>2. \A i \in DOMAIN inodes' :
          i \in Nat \ {0} /\ inodes'[i] \in [content : Identity!Content, mtime : Nat, ctime : Nat]
  BY DEF FileTyped, Inode
<1>3. \A r \in Readers : /\ Len(hash[r]) = pos[r]
                         /\ pc[r] = "read" => opened[r].ino \in DOMAIN inodes'
  BY DEF IdentityTypes, Identity!TypeOK
<1>4. Identity!TypeOK'
  BY <1>1, <1>2, <1>3 DEF IdentityTypes, Identity!TypeOK, FileTyped, Identity!StatType
<1>q. QED BY <1>1, <1>4 DEF IdentityTypes, FileTyped, Inode

\* Every change of the file leaves the inodes as they are, or stamps them anew.
Grown ==
    /\ FileTyped' /\ now <= now' /\ DOMAIN inodes \subseteq DOMAIN inodes'
    /\ \A i \in DOMAIN inodes' :
           (i \in DOMAIN inodes /\ inodes'[i] = inodes[i]) \/ inodes'[i].ctime > now
    /\ path' \in {path, Identity!NoFile} \/ path' > now
    /\ UNCHANGED <<cache, pc, Identity!stats, Identity!hashing, digest>> /\ Identity!Witness

LEMMA GrownByWriter ==
    ASSUME Identity!IdentityAssumption, IdentityTypes, Identity!Writer
    PROVE  Grown
<1> USE DEF IdentityTypes, Identity!TypeOK, FileTyped, Identity!Tick, Inode,
            Identity!NoFile, Identity!IdentityAssumption
<1>1. ASSUME NEW n \in 1..Chunks, NEW v \in Values, Identity!Rewrite(n, v) PROVE Grown
  <2> DEFINE new == [content |-> [inodes[path].content EXCEPT ![n] = v],
                     mtime |-> now + 1, ctime |-> now + 1]
  <2>0. /\ now' = now + 1 /\ path' = path /\ path \in DOMAIN inodes
        /\ inodes' = [inodes EXCEPT ![path] = new]
    BY <1>1 DEF Identity!Rewrite
  <2>1. new.content \in Identity!Content
    BY <2>0 DEF Identity!Content
  <2>2. new \in Inode' /\ new.ctime = now + 1
    BY <2>0, <2>1
  <2> HIDE DEF new
  <2>3. FileTyped'
    BY <2>0, <2>2
  <2>q. QED BY <1>1, <2>0, <2>2, <2>3 DEF Identity!Rewrite, Grown
<1>2. ASSUME NEW t \in 1..MaxNow, Identity!RestoreMtime(t) PROVE Grown
  <2> DEFINE new == [content |-> inodes[path].content, mtime |-> t, ctime |-> now + 1]
  <2>0. /\ now' = now + 1 /\ path' = path /\ path \in DOMAIN inodes
        /\ inodes' = [inodes EXCEPT ![path] = new]
    BY <1>2 DEF Identity!RestoreMtime
  <2>1. new \in Inode' /\ new.ctime = now + 1
    BY <2>0
  <2> HIDE DEF new
  <2>2. FileTyped'
    BY <2>0, <2>1
  <2>q. QED BY <1>2, <2>0, <2>1, <2>2 DEF Identity!RestoreMtime, Grown
<1>3. ASSUME NEW c \in Identity!Content, NEW t \in 1..MaxNow, Identity!Replace(c, t)
      PROVE  Grown
  <2>1. FileTyped'
    BY <1>3 DEF Identity!Replace
  <2>q. QED BY <1>3, <2>1 DEF Identity!Replace, Grown
<1>4. CASE Identity!Remove
  BY <1>4 DEF Identity!Remove, Grown
<1>q. QED BY <1>1, <1>2, <1>3, <1>4 DEF Identity!Writer

LEMMA IdentityTypesReturn ==
    ASSUME Identity!IdentityAssumption, IdentityTypes, NEW r \in Readers,
           Identity!Return(r), UNCHANGED Identity!file
    PROVE  IdentityTypes'
<1> USE DEF IdentityTypes, Identity!TypeOK, Inode, Identity!StatType, Identity!Return,
            Identity!file, Identity!NoStat, Identity!NoFile, Identity!NoHash
<1>1. /\ UNCHANGED <<now, inodes, path>> /\ DOMAIN inodes \subseteq 1..now
      /\ inodes \in [DOMAIN inodes -> Inode]
  OBVIOUS
<1>2. /\ outer' \in [Readers -> Identity!StatType]
      /\ inner' \in [Readers -> Identity!StatType]
      /\ opened' \in [Readers -> Identity!StatType]
  OBVIOUS
<1>3. hash' \in [Readers -> Seq(Values)] /\ pos' \in [Readers -> 0..Chunks]
  <2> DEFINE S == Seq(Values)
  <2>0. Identity!NoHash \in S
    OBVIOUS
  <2> HIDE DEF Identity!NoHash
  <2>1. hash \in [Readers -> S] /\ hash' = [hash EXCEPT ![r] = Identity!NoHash]
    OBVIOUS
  <2>2. pos \in [Readers -> 0..Chunks] /\ pos' = [pos EXCEPT ![r] = 0]
    OBVIOUS
  <2> HIDE DEF IdentityTypes, Identity!TypeOK, Identity!Return, S
  <2>3. hash' \in [Readers -> S]
    BY <2>0, <2>1
  <2>4. pos' \in [Readers -> 0..Chunks]
    BY <2>2 DEF Identity!IdentityAssumption
  <2>q. QED BY <2>3, <2>4 DEF S
<1>4. /\ digest' = [q \in Readers |-> digest'[q]] /\ seen' = [q \in Readers |-> seen'[q]]
      /\ pc' \in [Readers -> {"idle", "inner", "lookup", "open", "read", "after", "done"}]
  OBVIOUS
<1>5. ASSUME NEW q \in Readers
      PROVE  Len(hash'[q]) = pos'[q] /\ (pc'[q] = "read" => opened'[q].ino \in DOMAIN inodes')
  OBVIOUS
<1>q. QED BY <1>1, <1>2, <1>3, <1>4, <1>5

LEMMA IdentityTypesReader ==
    ASSUME Identity!IdentityAssumption, ChangeTime, IdentityTypes, NEW r \in Readers,
           Identity!Reader(r)
    PROVE  IdentityTypes'
<1> USE DEF IdentityTypes, Identity!TypeOK, Inode, Identity!StatType, Identity!file,
            Identity!stats, Identity!hashing, Identity!Stat, Identity!NoFile
<1>1. CASE Identity!Call(r)
  BY <1>1 DEF Identity!Call
<1>2. CASE Identity!StatInner(r)
  BY <1>2 DEF Identity!StatInner
<1>3. CASE Identity!Lookup(r)
  BY <1>3 DEF Identity!Lookup
<1>4. CASE Identity!Open(r)
  BY <1>4 DEF Identity!Open
<1>5. CASE Identity!Read(r)
  <2> DEFINE chunk == inodes[opened[r].ino].content[pos[r] + 1]
             longer == Append(hash[r], chunk)
  <2>0. pos[r] + 1 \in 1..Chunks /\ opened[r].ino \in DOMAIN inodes
    <3>1. pc[r] = "read" /\ pos[r] < Chunks
      BY <1>5 DEF Identity!Read
    <3>2. pos[r] \in 0..Chunks /\ opened[r].ino \in DOMAIN inodes
      BY <3>1
    <3> HIDE DEF IdentityTypes, Identity!TypeOK
    <3>q. QED BY <3>1, <3>2 DEF Identity!IdentityAssumption
  <2>1. chunk \in Values
    BY <2>0 DEF Identity!Content
  <2>2. hash[r] \in Seq(Values) /\ Len(hash[r]) = pos[r]
    OBVIOUS
  <2> HIDE DEF chunk, IdentityTypes, Identity!TypeOK
  <2>3. longer \in Seq(Values) /\ Len(longer) = pos[r] + 1
    BY <2>1, <2>2, AppendProperties
  <2>4. hash' = [hash EXCEPT ![r] = longer] /\ pos' = [pos EXCEPT ![r] = pos[r] + 1]
    BY <1>5 DEF Identity!Read, chunk
  <2> HIDE DEF longer
  <2> USE DEF IdentityTypes, Identity!TypeOK
  <2>5. /\ hash' \in [Readers -> Seq(Values)] /\ pos' \in [Readers -> 0..Chunks]
        /\ \A q \in Readers : Len(hash'[q]) = pos'[q]
    <3>1. hash \in [Readers -> Seq(Values)] /\ hash' \in [Readers -> Seq(Values)]
      BY <2>3, <2>4
    <3>2. pos \in [Readers -> 0..Chunks]
      OBVIOUS
    <3> HIDE DEF IdentityTypes, Identity!TypeOK
    <3>3. pos' \in [Readers -> 0..Chunks]
      BY <3>2, <2>0, <2>4 DEF Identity!IdentityAssumption
    <3>4. \A q \in Readers : Len(hash'[q]) = pos'[q]
      BY <3>1, <3>2, <2>3, <2>4 DEF IdentityTypes, Identity!TypeOK
    <3>q. QED BY <3>1, <3>3, <3>4
  <2>6. UNCHANGED <<now, inodes, path, cache, pc, outer, inner, opened, digest, seen>>
    BY <1>5 DEF Identity!Read
  <2>q. QED BY <2>5, <2>6
<1>6. CASE Identity!Hashed(r)
  BY <1>6 DEF Identity!Hashed
<1>7. CASE Identity!Confirm(r)
  BY <1>7 DEF Identity!Confirm
<1>8. CASE Identity!Deny(r) \/ Identity!Finished(r)
  BY <1>8, IdentityTypesReturn DEF Identity!Deny, Identity!Finished, Identity!Fail
<1>q. QED BY <1>1, <1>2, <1>3, <1>4, <1>5, <1>6, <1>7, <1>8 DEF Identity!Reader

LEMMA IdentityTypesNext ==
    ASSUME Identity!IdentityAssumption, ChangeTime, IdentityTypes,
           [Identity!Next]_Identity!vars
    PROVE  IdentityTypes'
<1>1. CASE Identity!Writer
  BY <1>1, GrownByWriter, IdentityTypesWriter DEF Grown
<1>2. CASE \E r \in Readers : Identity!Reader(r)
  BY <1>2, IdentityTypesReader
<1>3. CASE UNCHANGED Identity!vars
  BY <1>3
     DEF IdentityTypes, Identity!TypeOK, Inode, Identity!vars, Identity!file,
         Identity!stats, Identity!hashing
<1>q. QED BY <1>1, <1>2, <1>3 DEF Identity!Next

\* Every variable keeps its type.
THEOREM IdentityTyped ==
    ASSUME Identity!IdentityAssumption, ChangeTime PROVE Identity!Spec => []Identity!TypeOK
<1>1. IdentityTypes => Identity!TypeOK
  BY DEF IdentityTypes
<1>q. QED BY <1>1, IdentityTypesInit, IdentityTypesNext, PTL DEF Identity!Spec

\* A stat of an inode that is not older, and is the inode's own stat if it is as old.
Past(s) ==
    /\ s.ino \in DOMAIN inodes
    /\ s.ctime <= inodes[s.ino].ctime
    /\ s.ctime = inodes[s.ino].ctime => s.mtime = inodes[s.ino].mtime

Current(s) == s.ctime = inodes[s.ino].ctime

\* Inodes are numbered as they get the name: one that lost it never has it again.
NotAfterPath(s) == path # Identity!NoFile => s.ino <= path

Taken(r) == Past(outer[r]) /\ NotAfterPath(outer[r]) /\ Identity!Versions \subseteq seen[r]

Ordered(r) ==
    /\ Past(inner[r]) /\ NotAfterPath(inner[r])
    /\ outer[r].ino <= inner[r].ino
    /\ outer[r].ino = inner[r].ino => outer[r].ctime <= inner[r].ctime

\* What has been read so far is the file's if the file has not changed since it was opened.
Reading(r) ==
    /\ Past(opened[r]) /\ opened[r].ino = inner[r].ino
    /\ inner[r].ctime <= opened[r].ctime
    /\ Current(opened[r]) =>
           \A i \in 1..pos[r] : hash[r][i] = inodes[opened[r].ino].content[i]

Digested(r) == Current(inner[r]) => digest[r] = inodes[inner[r].ino].content

Witnessed(r) ==
    [content |-> digest[r], token |-> Identity!fileChangeToken(outer[r])] \in seen[r]

Consistent(r) ==
    /\ pc[r] # "idle" => Taken(r)
    /\ pc[r] \in {"lookup", "open", "read", "after"} => Ordered(r)
    /\ pc[r] \in {"idle", "inner", "lookup", "open"} => pos[r] = 0
    /\ pc[r] = "read" => Reading(r)
    /\ pc[r] = "after" => Digested(r)
    /\ pc[r] = "done" => Witnessed(r)

\* The cache's signal is that of a stat that was taken.
CachePast ==
    \/ cache = Identity!NoEntry
    \/ \E s \in Identity!StatType :
           s.ctime <= now /\ cache.signal = Identity!regularFileCacheSignal(s)

IdentityInv == (\A r \in Readers : Consistent(r)) /\ Identity!CacheHonest /\ CachePast

LEMMA IdentityInit == ASSUME Identity!IdentityAssumption PROVE Identity!Init => IdentityInv
BY DEF Identity!Init, IdentityInv, Consistent, Identity!CacheHonest, CachePast

\* A change of the file leaves a stat that is still current as true as it was.
LEMMA GrownStats ==
    ASSUME IdentityTypes, Grown
    PROVE  /\ \A s \in Identity!StatType : Past(s) => Past(s)'
           /\ \A s \in Identity!StatType : Past(s) /\ Current(s)' =>
                  Current(s) /\ inodes'[s.ino] = inodes[s.ino]
           /\ \A s \in Identity!StatType : Past(s) /\ NotAfterPath(s) => NotAfterPath(s)'
<1> USE DEF IdentityTypes, Identity!TypeOK, Grown, FileTyped, Inode, Identity!StatType, Past
<1>1. ASSUME NEW s \in Identity!StatType, Past(s)
      PROVE  /\ s.ino \in DOMAIN inodes /\ s.ino \in DOMAIN inodes' /\ s.ino \in 1..now
             /\ s.ctime \in Nat /\ s.ctime <= now /\ inodes[s.ino].ctime \in 1..now
             /\ inodes'[s.ino].ctime \in Nat
             /\ inodes'[s.ino] = inodes[s.ino] \/ inodes'[s.ino].ctime > now
  BY <1>1
<1>2. ASSUME NEW s \in Identity!StatType, Past(s) PROVE Past(s)'
  <2>1. CASE inodes'[s.ino] = inodes[s.ino]
    BY <1>1, <1>2, <2>1
  <2>2. CASE inodes'[s.ino].ctime > now
    <3>1. s.ctime < inodes'[s.ino].ctime
      BY <1>1, <1>2, <2>2
    <3>q. QED BY <1>1, <1>2, <3>1
  <2>q. QED BY <1>1, <1>2, <2>1, <2>2
<1>3. ASSUME NEW s \in Identity!StatType, Past(s), Current(s)'
      PROVE  Current(s) /\ inodes'[s.ino] = inodes[s.ino]
  BY <1>1, <1>3 DEF Current
<1>4. ASSUME NEW s \in Identity!StatType, Past(s), NotAfterPath(s) PROVE NotAfterPath(s)'
  BY <1>1, <1>4 DEF NotAfterPath, Identity!NoFile
<1>q. QED BY <1>2, <1>3, <1>4

LEMMA IdentityWriter ==
    ASSUME Identity!IdentityAssumption, ChangeTime, IdentityTypes, IdentityInv, Grown
    PROVE  IdentityInv'
<1> USE DEF IdentityInv
<1>0. /\ UNCHANGED <<cache, pc, outer, inner, opened, hash, pos, digest>>
      /\ Identity!Witness /\ FileTyped' /\ now <= now'
  BY DEF Grown, Identity!stats, Identity!hashing
<1>1. ASSUME NEW r \in Readers PROVE Consistent(r)'
  <2> USE DEF Consistent
  <2>0. /\ outer[r] \in Identity!StatType /\ inner[r] \in Identity!StatType
        /\ opened[r] \in Identity!StatType
    BY DEF IdentityTypes, Identity!TypeOK
  <2>1. pc[r] # "idle" => Taken(r)'
    BY <1>0, <2>0, GrownStats DEF Taken, Identity!Witness
  <2>2. Ordered(r) => Ordered(r)'
    BY <1>0, <2>0, GrownStats DEF Ordered
  <2>3. Reading(r) => Reading(r)'
    BY <1>0, <2>0, GrownStats DEF Reading
  <2>4. Ordered(r) /\ Digested(r) => Digested(r)'
    BY <1>0, <2>0, GrownStats DEF Ordered, Digested
  <2>5. pc[r] # "idle" /\ Witnessed(r) => Witnessed(r)'
    BY <1>0 DEF Witnessed, Identity!Witness, Identity!fileChangeToken
  <2>q. QED BY <1>0, <2>1, <2>2, <2>3, <2>4, <2>5
<1>2. CachePast'
  <2>1. CASE cache = Identity!NoEntry
    BY <1>0, <2>1 DEF CachePast, Identity!NoEntry
  <2>2. ASSUME NEW s \in Identity!StatType, s.ctime <= now,
               cache.signal = Identity!regularFileCacheSignal(s)
        PROVE  CachePast'
    <3>1. s.ctime <= now'
      BY <1>0, <2>2 DEF FileTyped, Identity!StatType, IdentityTypes, Identity!TypeOK
    <3>q. QED
      BY <1>0, <2>2, <3>1
         DEF CachePast, Identity!regularFileCacheSignal, Identity!fileChangeToken
  <2>q. QED BY <2>1, <2>2 DEF CachePast
<1>3. ASSUME cache' # Identity!NoEntry, NEW i \in DOMAIN inodes',
             cache'.signal = Identity!regularFileCacheSignal(Identity!Stat(i))'
      PROVE  cache'.digest = inodes'[i].content
  <2>1. PICK s \in Identity!StatType :
            s.ctime <= now /\ cache.signal = Identity!regularFileCacheSignal(s)
    BY <1>0, <1>3 DEF CachePast
  <2>2. s.ctime = inodes'[i].ctime
    BY <1>0, <1>3, <2>1
       DEF Identity!regularFileCacheSignal, Identity!fileChangeToken, Identity!Stat
  <2>3. i \in DOMAIN inodes /\ inodes'[i] = inodes[i]
    BY <2>1, <2>2
       DEF Grown, FileTyped, Inode, Identity!StatType, IdentityTypes, Identity!TypeOK
  <2>q. QED
    BY <1>0, <1>3, <2>3
       DEF Identity!CacheHonest, Identity!regularFileCacheSignal, Identity!fileChangeToken,
           Identity!Stat
<1>q. QED BY <1>1, <1>2, <1>3 DEF Identity!CacheHonest

\* The sum of what was read is the file's content.
LEMMA WholeHash ==
    ASSUME Identity!IdentityAssumption, IdentityTypes, NEW r \in Readers, pos[r] = Chunks,
           pc[r] = "read", Reading(r),
           Current(opened[r])
    PROVE  hash[r] = inodes[opened[r].ino].content
<1>1. hash[r] \in Seq(Values) /\ Len(hash[r]) = Chunks
  BY DEF IdentityTypes, Identity!TypeOK
<1>2. inodes[opened[r].ino].content \in [1..Chunks -> Values]
  BY DEF IdentityTypes, Identity!TypeOK, Identity!Content
<1>3. \A i \in 1..Chunks : hash[r][i] = inodes[opened[r].ino].content[i]
  BY DEF Reading
<1>4. hash[r] \in [1..Chunks -> Values]
  BY <1>1, LenProperties
<1>5. /\ hash[r] = [i \in 1..Chunks |-> hash[r][i]]
      /\ inodes[opened[r].ino].content = [i \in 1..Chunks |-> inodes[opened[r].ino].content[i]]
  BY <1>2, <1>4
<1>q. QED BY <1>3, <1>5

\* What nobody did to a reader and its file leaves it consistent.
LEMMA OthersStay ==
    ASSUME UNCHANGED Identity!file, NEW q \in Readers, Consistent(q),
           pc'[q] = pc[q], outer'[q] = outer[q], inner'[q] = inner[q], opened'[q] = opened[q],
           hash'[q] = hash[q], pos'[q] = pos[q], digest'[q] = digest[q], seen'[q] = seen[q]
    PROVE  Consistent(q)'
<1>1. Taken(q) => Taken(q)'
  BY DEF Taken, Past, NotAfterPath, Identity!Versions, Identity!Version, Identity!Stat,
     Identity!fileChangeToken, Identity!file
<1>2. Ordered(q) => Ordered(q)'
  BY DEF Ordered, Past, NotAfterPath, Identity!file
<1>3. Reading(q) => Reading(q)'
  BY DEF Reading, Past, Current, Identity!file
<1>4. Digested(q) => Digested(q)'
  BY DEF Digested, Current, Identity!file
<1>5. Witnessed(q) => Witnessed(q)'
  BY DEF Witnessed, Identity!fileChangeToken
<1>q. QED BY <1>1, <1>2, <1>3, <1>4, <1>5 DEF Consistent

\* A step of a reader that leaves the cache alone has only that reader to answer for.
LEMMA OneReader ==
    ASSUME IdentityTypes, IdentityInv, UNCHANGED <<Identity!file, cache>>,
           NEW r \in Readers, Consistent(r)',
           \A q \in Readers \ {r} :
               /\ pc'[q] = pc[q] /\ outer'[q] = outer[q] /\ inner'[q] = inner[q]
               /\ opened'[q] = opened[q] /\ hash'[q] = hash[q] /\ pos'[q] = pos[q]
               /\ digest'[q] = digest[q] /\ seen'[q] = seen[q]
    PROVE  IdentityInv'
<1>1. \A q \in Readers : Consistent(q)'
  BY OthersStay DEF IdentityInv
<1>2. Identity!CacheHonest' /\ CachePast'
  BY DEF IdentityInv, Identity!CacheHonest, CachePast, Identity!regularFileCacheSignal,
     Identity!fileChangeToken, Identity!Stat, Identity!file, Identity!NoEntry
<1>q. QED BY <1>1, <1>2 DEF IdentityInv

\* The stat of the path is past, current and not after it.
LEMMA PathStat ==
    ASSUME IdentityTypes, path # Identity!NoFile
    PROVE  /\ Past(Identity!Stat(path)) /\ Current(Identity!Stat(path))
           /\ NotAfterPath(Identity!Stat(path))
           /\ Identity!Stat(path) \in Identity!StatType
           /\ \A s \in Identity!StatType :
                  Past(s) /\ s.ino = path => s.ctime <= Identity!Stat(path).ctime
BY DEF IdentityTypes, Identity!TypeOK, Past, Current, NotAfterPath, Identity!Stat,
   Identity!StatType, Inode

LEMMA IdentityReturn ==
    ASSUME IdentityTypes, IdentityInv, NEW r \in Readers, Identity!Return(r),
           UNCHANGED <<Identity!file, cache>>
    PROVE  IdentityInv'
<1>1. pc'[r] = "idle" /\ pos'[r] = 0
  BY DEF Identity!Return, IdentityTypes, Identity!TypeOK
<1>2. Consistent(r)'
  BY <1>1 DEF Consistent
<1>q. QED BY <1>2, OneReader DEF Identity!Return, IdentityTypes, Identity!TypeOK

LEMMA IdentityStats ==
    ASSUME Identity!IdentityAssumption, ChangeTime, IdentityTypes, IdentityInv,
           NEW r \in Readers,
           Identity!Call(r) \/ Identity!StatInner(r) \/ Identity!Open(r)
    PROVE  IdentityInv'
<1> USE DEF IdentityTypes, Identity!TypeOK, Identity!stats, Identity!hashing
<1>0. Consistent(r)
  BY DEF IdentityInv
<1>1. CASE Identity!Call(r)
  <2>1. /\ pc[r] = "idle" /\ pc'[r] = "inner" /\ outer'[r] = Identity!Stat(path)
        /\ seen'[r] = Identity!Versions
        /\ pos'[r] = pos[r] /\ path # Identity!NoFile /\ UNCHANGED <<Identity!file, cache>>
    BY <1>1 DEF Identity!Call
  <2>2. Past(outer[r])' /\ NotAfterPath(outer[r])'
    BY <2>1, PathStat DEF Past, NotAfterPath, Identity!file
  <2>3. (Identity!Versions \subseteq seen[r])'
    BY <2>1
       DEF Identity!Versions, Identity!Version, Identity!Stat, Identity!fileChangeToken,
           Identity!file
  <2>4. Consistent(r)'
    BY <1>0, <2>1, <2>2, <2>3 DEF Consistent, Taken
  <2>q. QED BY <1>1, <2>1, <2>4, OneReader DEF Identity!Call
<1>2. CASE Identity!StatInner(r)
  <2>1. /\ pc[r] = "inner" /\ pc'[r] = "lookup" /\ inner'[r] = Identity!Stat(path)
        /\ path # Identity!NoFile
        /\ UNCHANGED <<Identity!file, cache, outer, pos, seen>>
    BY <1>2 DEF Identity!StatInner
  <2>2. Past(inner[r])' /\ NotAfterPath(inner[r])'
    BY <2>1, PathStat DEF Past, NotAfterPath, Identity!file
  <2>3. Taken(r) /\ outer[r] \in Identity!StatType
    BY <1>0, <2>1 DEF Consistent
  <2>4. /\ outer'[r].ino <= inner'[r].ino
        /\ outer'[r].ino = inner'[r].ino => outer'[r].ctime <= inner'[r].ctime
    BY <2>1, <2>3, PathStat DEF Taken, NotAfterPath, Identity!Stat
  <2>5. Taken(r)'
    BY <2>1, <2>3
       DEF Taken, Past, NotAfterPath, Identity!Versions, Identity!Version, Identity!Stat,
           Identity!fileChangeToken, Identity!file
  <2>6. Consistent(r)'
    BY <1>0, <2>1, <2>2, <2>4, <2>5 DEF Consistent, Ordered
  <2>q. QED BY <1>2, <2>1, <2>6, OneReader DEF Identity!StatInner
<1>3. CASE Identity!Open(r)
  <2>1. /\ pc[r] = "open" /\ pc'[r] = "read" /\ opened'[r] = Identity!Stat(path)
        /\ path # Identity!NoFile /\ path = inner[r].ino
        /\ UNCHANGED <<Identity!file, cache, outer, inner, pos, hash, seen>>
    BY <1>3 DEF Identity!Open
  <2>2. Taken(r) /\ Ordered(r) /\ pos[r] = 0 /\ inner[r] \in Identity!StatType
    BY <1>0, <2>1 DEF Consistent
  <2>3. /\ Past(opened[r])' /\ opened'[r].ino = inner'[r].ino
        /\ inner'[r].ctime <= opened'[r].ctime
    BY <2>1, <2>2, PathStat DEF Ordered, Past, Identity!Stat, Identity!file
  <2>4. Reading(r)'
    BY <2>1, <2>2, <2>3 DEF Reading
  <2>5. Taken(r)' /\ Ordered(r)'
    BY <2>1, <2>2
       DEF Taken, Ordered, Past, NotAfterPath, Identity!Versions, Identity!Version,
           Identity!Stat, Identity!fileChangeToken, Identity!file
  <2>6. Consistent(r)'
    BY <2>1, <2>4, <2>5 DEF Consistent
  <2>q. QED BY <1>3, <2>1, <2>6, OneReader DEF Identity!Open
<1>q. QED BY <1>1, <1>2, <1>3

LEMMA IdentityRead ==
    ASSUME Identity!IdentityAssumption, IdentityTypes, IdentityInv, NEW r \in Readers,
           Identity!Read(r)
    PROVE  IdentityInv'
<1> DEFINE chunk == inodes[opened[r].ino].content[pos[r] + 1]
<1>1. /\ pc[r] = "read" /\ pos[r] \in 0..Chunks /\ pos[r] < Chunks
      /\ hash[r] \in Seq(Values) /\ Len(hash[r]) = pos[r] /\ opened[r].ino \in DOMAIN inodes
  BY DEF Identity!Read, IdentityTypes, Identity!TypeOK
<1>2. /\ pos'[r] = pos[r] + 1 /\ hash'[r] = Append(hash[r], chunk)
      /\ UNCHANGED <<now, inodes, path, cache, pc, outer, inner, opened, digest, seen>>
  BY DEF Identity!Read, IdentityTypes, Identity!TypeOK, Identity!file, Identity!stats
<1>3. Taken(r) /\ Ordered(r) /\ Reading(r)
  BY <1>1 DEF IdentityInv, Consistent
<1>4. chunk \in Values
  <2>1. inodes[opened[r].ino].content \in [1..Chunks -> Values]
    BY <1>1 DEF IdentityTypes, Identity!TypeOK, Identity!Content
  <2>2. pos[r] + 1 \in 1..Chunks
    BY <1>1 DEF Identity!IdentityAssumption
  <2>q. QED BY <2>1, <2>2
<1>5. \A i \in 1..pos'[r] : hash'[r][i] = IF i <= pos[r] THEN hash[r][i] ELSE chunk
  <2> HIDE DEF chunk
  <2>q. QED BY <1>1, <1>2, <1>4, AppendProperties
<1>6. Reading(r)'
  <2>1. /\ Past(opened[r])' /\ opened'[r].ino = inner'[r].ino
        /\ inner'[r].ctime <= opened'[r].ctime
    BY <1>2, <1>3 DEF Reading, Past
  <2>2. ASSUME Current(opened[r])', NEW i \in 1..pos'[r]
        PROVE  hash'[r][i] = inodes'[opened'[r].ino].content[i]
    <3>1. CASE i <= pos[r]
      <4>1. i \in 1..pos[r] /\ hash'[r][i] = hash[r][i]
        BY <1>1, <1>5, <3>1
      <4>2. Current(opened[r])
        BY <1>2, <2>2 DEF Current
      <4>q. QED BY <1>2, <1>3, <4>1, <4>2 DEF Reading
    <3>2. CASE ~(i <= pos[r])
      <4>1. i = pos[r] + 1
        BY <1>1, <1>2, <3>2
      <4>2. hash'[r][i] = chunk
        BY <1>5, <3>2
      <4>q. QED BY <1>2, <4>1, <4>2
    <3>q. QED BY <3>1, <3>2
  <2>q. QED BY <2>1, <2>2 DEF Reading
<1>7. Taken(r)' /\ Ordered(r)'
  BY <1>2, <1>3
     DEF Taken, Ordered, Past, NotAfterPath, Identity!Versions, Identity!Version,
         Identity!Stat, Identity!fileChangeToken
<1>8. Consistent(r)'
  BY <1>1, <1>2, <1>6, <1>7 DEF Consistent
<1>q. QED
  BY <1>2, <1>8, OneReader
     DEF Identity!Read, IdentityTypes, Identity!TypeOK, Identity!file

LEMMA IdentityLookup ==
    ASSUME Identity!IdentityAssumption, ChangeTime, IdentityTypes, IdentityInv,
           NEW r \in Readers, Identity!Lookup(r)
    PROVE  IdentityInv'
<1>1. /\ pc[r] = "lookup"
      /\ UNCHANGED <<Identity!file, cache, outer, inner, opened, hash, pos, seen>>
      /\ \/ pc'[r] = "after" /\ Identity!Hit(r) /\ digest'[r] = cache.digest
         \/ pc'[r] = "open"
  BY DEF Identity!Lookup, IdentityTypes, Identity!TypeOK, Identity!stats, Identity!hashing
<1>2. Taken(r) /\ Ordered(r) /\ pos[r] = 0
  BY <1>1 DEF IdentityInv, Consistent
<1>3. Taken(r)' /\ Ordered(r)'
  BY <1>1, <1>2
     DEF Taken, Ordered, Past, NotAfterPath, Identity!Versions, Identity!Version,
         Identity!Stat, Identity!fileChangeToken, Identity!file
<1>4. ASSUME Identity!Hit(r), Current(inner[r])
      PROVE  cache.digest = inodes[inner[r].ino].content
  <2>1. inner[r].ino \in DOMAIN inodes /\ inner[r] \in Identity!StatType
    BY <1>2 DEF Ordered, Past, IdentityTypes, Identity!TypeOK
  <2>2. cache.signal = Identity!regularFileCacheSignal(Identity!Stat(inner[r].ino))
    BY <1>2, <1>4, <2>1
       DEF Identity!Hit, Ordered, Past, Current, Identity!regularFileCacheSignal,
           Identity!fileChangeToken, Identity!Stat
  <2>3. cache # Identity!NoEntry
    BY <2>2 DEF Identity!NoEntry, Identity!regularFileCacheSignal
  <2>q. QED BY <2>1, <2>2, <2>3 DEF IdentityInv, Identity!CacheHonest
<1>5. pc'[r] = "after" => Digested(r)'
  BY <1>1, <1>4 DEF Digested, Current, Identity!file
<1>6. Consistent(r)'
  BY <1>1, <1>2, <1>3, <1>5 DEF Consistent
<1>q. QED BY <1>1, <1>6, OneReader DEF Identity!Lookup, IdentityTypes, Identity!TypeOK

LEMMA IdentityHashed ==
    ASSUME Identity!IdentityAssumption, ChangeTime, IdentityTypes, IdentityInv,
           NEW r \in Readers, Identity!Hashed(r)
    PROVE  IdentityInv'
<1>1. /\ pc[r] = "read" /\ pos[r] = Chunks /\ pc'[r] = "after" /\ digest'[r] = hash[r]
      /\ cache' = [signal |-> Identity!regularFileCacheSignal(inner[r]), digest |-> hash[r]]
      /\ UNCHANGED <<Identity!file, outer, inner, opened, hash, pos, seen>>
  BY DEF Identity!Hashed, IdentityTypes, Identity!TypeOK, Identity!stats, Identity!hashing
<1>2. /\ Taken(r) /\ Ordered(r) /\ Reading(r) /\ inner[r] \in Identity!StatType
      /\ opened[r] \in Identity!StatType
  BY <1>1 DEF IdentityInv, Consistent, IdentityTypes, Identity!TypeOK
<1>3. Current(opened[r])
  BY <1>2
     DEF Identity!Hashed, Identity!sameFileSnapshot, Identity!fileChangeToken,
         Identity!Stat, Current
<1>4. hash[r] = inodes[inner[r].ino].content
  BY <1>1, <1>2, <1>3, WholeHash DEF Reading
<1>5. Taken(r)' /\ Ordered(r)' /\ Digested(r)'
  BY <1>1, <1>2, <1>4
     DEF Taken, Ordered, Digested, Past, NotAfterPath, Identity!Versions, Identity!Version,
         Identity!Stat, Identity!fileChangeToken, Identity!file
<1>6. Consistent(r)'
  BY <1>1, <1>5 DEF Consistent
<1>7. ASSUME NEW q \in Readers PROVE Consistent(q)'
  <2>1. CASE q = r
    BY <1>6, <2>1
  <2>2. CASE q # r
    BY <2>2, OthersStay
       DEF IdentityInv, Identity!Hashed, IdentityTypes, Identity!TypeOK, Identity!stats,
           Identity!hashing
  <2>q. QED BY <2>1, <2>2
<1>8. Identity!CacheHonest'
  BY <1>1, <1>4
     DEF Identity!CacheHonest, Identity!regularFileCacheSignal, Identity!fileChangeToken,
         Identity!Stat, Identity!file
<1>9. CachePast'
  <2>1. inner[r].ctime <= now
    BY <1>2 DEF Ordered, Past, IdentityTypes, Identity!TypeOK, Inode, Identity!StatType
  <2>q. QED
    BY <1>1, <1>2, <2>1
       DEF CachePast, Identity!regularFileCacheSignal, Identity!fileChangeToken,
           Identity!file
<1>q. QED BY <1>7, <1>8, <1>9 DEF IdentityInv

LEMMA IdentityConfirm ==
    ASSUME Identity!IdentityAssumption, ChangeTime, IdentityTypes, IdentityInv,
           NEW r \in Readers, Identity!Confirm(r)
    PROVE  IdentityInv'
<1>1. /\ pc[r] = "after" /\ pc'[r] = "done" /\ Identity!Unchanged(r)
      /\ UNCHANGED <<Identity!file, cache, outer, inner, opened, hash, pos, digest, seen>>
  BY DEF Identity!Confirm, IdentityTypes, Identity!TypeOK, Identity!stats, Identity!hashing
<1>2. /\ Taken(r) /\ Ordered(r) /\ Digested(r) /\ inner[r] \in Identity!StatType
      /\ outer[r] \in Identity!StatType
  BY <1>1 DEF IdentityInv, Consistent, IdentityTypes, Identity!TypeOK
<1>3. /\ path # Identity!NoFile /\ path = outer[r].ino
      /\ Identity!Stat(path).ctime = outer[r].ctime
  BY <1>1
     DEF Identity!Unchanged, Identity!sameFileSnapshot, Identity!fileChangeToken,
         Identity!Stat
<1>4. inner[r].ino = path
  BY <1>2, <1>3 DEF Ordered, NotAfterPath, Identity!StatType, IdentityTypes, Identity!TypeOK
<1>5. inner[r].ctime = inodes[path].ctime
  <2>1. inner[r].ctime <= Identity!Stat(path).ctime
    BY <1>2, <1>3, <1>4, PathStat DEF Ordered
  <2>2. Identity!Stat(path).ctime <= inner[r].ctime
    BY <1>2, <1>3, <1>4 DEF Ordered
  <2>3. /\ Identity!Stat(path).ctime = inodes[path].ctime
        /\ Identity!Stat(path) \in Identity!StatType
    BY <1>3, PathStat DEF Identity!Stat
  <2>q. QED BY <1>2, <2>1, <2>2, <2>3 DEF Identity!StatType
<1>6. digest[r] = inodes[path].content
  BY <1>2, <1>4, <1>5 DEF Digested, Current
<1>7. Identity!Version(path) = [content |-> digest[r], token |-> Identity!fileChangeToken(outer[r])]
  BY <1>3, <1>6 DEF Identity!Version, Identity!fileChangeToken, Identity!Stat
<1>8. Witnessed(r)
  BY <1>2, <1>3, <1>7 DEF Witnessed, Taken, Identity!Versions
<1>9. Taken(r)' /\ Witnessed(r)'
  BY <1>1, <1>2, <1>8
     DEF Taken, Past, NotAfterPath, Identity!Versions, Identity!Version, Identity!Stat,
         Identity!fileChangeToken, Identity!file, Witnessed
<1>10. Consistent(r)'
  BY <1>1, <1>9 DEF Consistent
<1>q. QED BY <1>1, <1>10, OneReader DEF Identity!Confirm, IdentityTypes, Identity!TypeOK

LEMMA IdentityNext ==
    ASSUME Identity!IdentityAssumption, ChangeTime, IdentityTypes, IdentityInv,
           [Identity!Next]_Identity!vars
    PROVE  IdentityInv'
<1>1. CASE Identity!Writer
  BY <1>1, GrownByWriter, IdentityWriter
<1>2. ASSUME NEW r \in Readers, Identity!Reader(r) PROVE IdentityInv'
  <2>1. CASE Identity!Deny(r) \/ Identity!Finished(r)
    BY <2>1, IdentityReturn DEF Identity!Deny, Identity!Finished, Identity!Fail
  <2>q. QED
    BY <1>2, <2>1, IdentityStats, IdentityRead, IdentityLookup, IdentityHashed,
       IdentityConfirm
       DEF Identity!Reader
<1>3. CASE UNCHANGED Identity!vars
  <2>1. /\ UNCHANGED <<Identity!file, cache, pc, outer, inner, opened, hash, pos, digest, seen>>
    BY <1>3 DEF Identity!vars, Identity!stats, Identity!hashing
  <2>2. \A q \in Readers : Consistent(q)'
    BY <2>1, OthersStay DEF IdentityInv
  <2>3. Identity!CacheHonest' /\ CachePast'
    BY <2>1
       DEF IdentityInv, Identity!CacheHonest, CachePast, Identity!regularFileCacheSignal,
           Identity!fileChangeToken, Identity!Stat, Identity!file, Identity!NoEntry
  <2>q. QED BY <2>2, <2>3 DEF IdentityInv
<1>q. QED BY <1>1, <1>2, <1>3 DEF Identity!Next

\* Where the file system has change times, a cached digest is that of the file
\* its signal belongs to: whoever stored it, and whatever was written meanwhile.
THEOREM CacheIsHonest ==
    ASSUME Identity!IdentityAssumption, ChangeTime
    PROVE  Identity!Spec => []Identity!CacheHonest
<1>1. IdentityInv => Identity!CacheHonest
  BY DEF IdentityInv
<1>q. QED
  BY <1>1, IdentityTypesInit, IdentityTypesNext, IdentityInit, IdentityNext, PTL
     DEF Identity!Spec

\* There, too, an identity that is returned is one the path had during the call.
THEOREM IdentitiesWitnessed ==
    ASSUME Identity!IdentityAssumption, ChangeTime
    PROVE  Identity!Spec => []Identity!IdentityWitnessed
<1>1. IdentityInv => Identity!IdentityWitnessed
  BY DEF IdentityInv, Consistent, Witnessed, Identity!IdentityWitnessed
<1>q. QED
  BY <1>1, IdentityTypesInit, IdentityTypesNext, IdentityInit, IdentityNext, PTL
     DEF Identity!Spec

IdentityPart == part = "identity" => IdentityTypes /\ IdentityInv

LEMMA IdentityPartHolds == ASSUME ChangeTime PROVE PartsSpec => []IdentityPart
<1>1. Identity!IdentityAssumption
  BY ComponentsAssumption
<1>2. PartsInit => IdentityPart
  BY <1>1, PartStarts, IdentityTypesInit, IdentityInit DEF IdentityPart
<1>3. IdentityPart /\ [PartsNext]_<<part, partVars>> => IdentityPart'
  BY <1>1, PartSteps, IdentityTypesNext, IdentityNext DEF IdentityPart
<1>q. QED BY <1>2, <1>3, PTL DEF PartsSpec

\* In every behaviour, where there are change times, the digest cache tells the
\* truth about every version of the file.
THEOREM PartsCacheHonest == ASSUME ChangeTime PROVE PartsSpec => []CacheHonest
<1>1. IdentityPart => CacheHonest
  BY DEF IdentityPart, CacheHonest, IdentityInv
<1>q. QED BY <1>1, IdentityPartHolds, PTL

\* And an identity that is returned was the file's during the call.
THEOREM PartsIdentityWitnessed == ASSUME ChangeTime PROVE PartsSpec => []IdentityWitnessed
<1>1. IdentityPart => IdentityWitnessed
  BY DEF IdentityPart, IdentityWitnessed, IdentityInv, Consistent, Witnessed,
         Identity!IdentityWitnessed
<1>q. QED BY <1>1, IdentityPartHolds, PTL

(***************************************************************************)
(* Matching: the recursive function of Match exists, and is as it says.    *)
(***************************************************************************)
\* What the first i segments of a pattern can have matched, given what the ones
\* before can.
Further(pattern, way, reached, i) ==
    IF i = 0 THEN {0}
    ELSE IF pattern[i].kind = "deep"
    THEN {j \in 0..Len(way) : \E k \in reached[i - 1] : k <= j}
    ELSE {j \in 1..Len(way) : way[j] \in pattern[i].names /\ j - 1 \in reached[i - 1]}

Reaches(pattern, way, reached) ==
    reached = [i \in 0..Len(pattern) |-> Further(pattern, way, reached, i)]

LEMMA MatchIs ==
    ASSUME NEW pattern, NEW way
    PROVE  Watch!Match(pattern, way) <=>
             Len(way) \in (CHOOSE reached : Reaches(pattern, way, reached))[Len(pattern)]
BY DEF Watch!Match, Reaches, Further

LEMMA SomeReaches ==
    ASSUME NEW pattern, NEW way, Len(pattern) \in Nat
    PROVE  \E reached : Reaches(pattern, way, reached)
<1> DEFINE Step(f) == [i \in 0..Len(pattern) |-> Further(pattern, way, f, i)]
           Upto(f, k) == \A i \in 0..Len(pattern) : i < k => f[i] = Step(f)[i]
           S == {k \in Nat : \E f : Upto(Step(f), k)}
<1>1. 0 \in S
  <2>1. \A f : Upto(f, 0)
    OBVIOUS
  <2>q. QED BY <2>1
<1>2. ASSUME NEW k \in S PROVE k + 1 \in S
  <2>1. PICK f : Upto(Step(f), k)
    BY <1>2
  <2> DEFINE g == Step(f)
             h == Step(g)
  <2>2. ASSUME NEW i \in 0..Len(pattern), i < k + 1 PROVE h[i] = Step(h)[i]
    <3>1. CASE i = 0
      BY <3>1 DEF Further
    <3>2. CASE i # 0
      <4>1. i - 1 \in 0..Len(pattern) /\ i - 1 < k
        BY <2>2, <3>2
      <4>2. h[i - 1] = g[i - 1]
        BY <2>1, <4>1
      <4>3. Further(pattern, way, h, i) = Further(pattern, way, g, i)
        <5> HIDE DEF g, h
        <5>q. QED BY <3>2, <4>2 DEF Further
      <4>q. QED BY <2>2, <4>3
    <3>q. QED BY <3>1, <3>2
  <2>3. Upto(Step(g), k + 1)
    BY <2>2
  <2>4. k + 1 \in Nat
    OBVIOUS
  <2>5. \E e : Upto(Step(e), k + 1)
    <3> HIDE DEF Upto
    <3>q. QED BY <2>3
  <2>q. QED BY <2>4, <2>5
<1>3. S = Nat
  <2>1. S \in SUBSET Nat
    OBVIOUS
  <2> HIDE DEF S
  <2>q. QED BY <1>1, <1>2, <2>1, Induction
<1>4. Len(pattern) + 1 \in S
  <2> HIDE DEF S
  <2>q. QED BY <1>3
<1>5. PICK f : Upto(Step(f), Len(pattern) + 1)
  BY <1>4
<1> DEFINE g == Step(f)
<1>6. \A i \in 0..Len(pattern) : g[i] = Step(g)[i]
  BY <1>5
<1>7. g = Step(g)
  BY <1>6
<1>q. QED BY <1>7 DEF Reaches

Reached(pattern, way) == CHOOSE reached : Reaches(pattern, way, reached)

LEMMA ReachedIs ==
    ASSUME NEW pattern, NEW way, Len(pattern) \in Nat
    PROVE  /\ \A i \in 0..Len(pattern) :
                Reached(pattern, way)[i] = Further(pattern, way, Reached(pattern, way), i)
           /\ Watch!Match(pattern, way) <=> Len(way) \in Reached(pattern, way)[Len(pattern)]
<1>1. Reaches(pattern, way, Reached(pattern, way))
  BY SomeReaches DEF Reached
<1>2. \A i \in 0..Len(pattern) :
         Reached(pattern, way)[i] = Further(pattern, way, Reached(pattern, way), i)
  BY <1>1 DEF Reaches
<1>q. QED BY <1>2, MatchIs DEF Reached

(***************************************************************************)
(* Paths and their prefixes.                                               *)
(***************************************************************************)
Path == Seq(STRING)

LEMMA PrefixIs ==
    ASSUME NEW s \in Path, NEW t \in Path
    PROVE  Watch!IsPrefix(s, t) <=> Len(s) <= Len(t) /\ \A i \in 1..Len(s) : s[i] = t[i]
<1>1. Len(s) \in Nat /\ Len(t) \in Nat
  BY DEF Path
<1>2. SubSeq(s, 1, Len(s)) = s
  BY DEF Path
<1>3. ASSUME Len(s) <= Len(t)
      PROVE  /\ SubSeq(t, 1, Len(s)) \in Path /\ Len(SubSeq(t, 1, Len(s))) = Len(s)
             /\ \A i \in 1..Len(s) : SubSeq(t, 1, Len(s))[i] = t[i]
  BY <1>3 DEF Path
<1>4. ASSUME Len(s) <= Len(t), \A i \in 1..Len(s) : s[i] = t[i]
      PROVE  s = SubSeq(t, 1, Len(s))
  BY <1>3, <1>4 DEF Path
<1>q. QED BY <1>1, <1>2, <1>3, <1>4 DEF Watch!IsPrefix

LEMMA PrefixTrans ==
    ASSUME NEW r \in Path, NEW s \in Path, NEW t \in Path, Watch!IsPrefix(r, s), Watch!IsPrefix(s, t)
    PROVE  Watch!IsPrefix(r, t)
BY PrefixIs DEF Path

LEMMA PrefixesCompare ==
    ASSUME NEW r \in Path, NEW s \in Path, NEW t \in Path, Watch!IsPrefix(r, t), Watch!IsPrefix(s, t)
    PROVE  Watch!IsPrefix(r, s) \/ Watch!IsPrefix(s, r)
<1>1. Len(r) \in Nat /\ Len(s) \in Nat /\ Len(t) \in Nat
  BY DEF Path
<1>2. CASE Len(r) <= Len(s)
  BY <1>1, <1>2, PrefixIs
<1>3. CASE Len(s) <= Len(r)
  BY <1>1, <1>3, PrefixIs
<1>q. QED BY <1>1, <1>2, <1>3

LEMMA FirstNames ==
    ASSUME NEW p \in Path, NEW n \in Nat, n <= Len(p)
    PROVE  /\ SubSeq(p, 1, n) \in Path /\ Len(SubSeq(p, 1, n)) = n
           /\ \A i \in 1..n : SubSeq(p, 1, n)[i] = p[i]
BY DEF Path

\* The parent of a path is the path without its last name; the root is its own.
LEMMA ParentIs ==
    ASSUME NEW p \in Path
    PROVE  /\ Watch!Parent(p) \in Path /\ Watch!IsPrefix(Watch!Parent(p), p)
           /\ p = Watch!Root => Watch!Parent(p) = Watch!Root
           /\ p # Watch!Root => Len(Watch!Parent(p)) = Len(p) - 1
<1>1. Len(p) \in Nat /\ (p = Watch!Root <=> Len(p) = 0)
  BY DEF Path, Watch!Root
<1>2. CASE p # Watch!Root
  <2>1. Len(p) - 1 \in Nat /\ Len(p) - 1 <= Len(p)
    BY <1>1, <1>2
  <2>2. /\ Watch!Parent(p) \in Path /\ Len(Watch!Parent(p)) = Len(p) - 1
        /\ \A i \in 1..(Len(p) - 1) : Watch!Parent(p)[i] = p[i]
    BY <2>1, FirstNames DEF Watch!Parent, Watch!Front
  <2>q. QED BY <1>2, <2>1, <2>2, PrefixIs
<1>3. CASE p = Watch!Root
  <2>1. Watch!Parent(p) = Watch!Root /\ Watch!Parent(p) \in Path
    BY <1>1, <1>3 DEF Watch!Parent, Watch!Front, Watch!Root, Path
  <2>q. QED BY <1>1, <1>3, <2>1, PrefixIs
<1>q. QED BY <1>2, <1>3

\* A proper prefix of a path is one of its parent.
LEMMA PrefixOfParent ==
    ASSUME NEW e \in Path, NEW p \in Path, Watch!IsPrefix(e, p), e # p
    PROVE  p # Watch!Root /\ Watch!IsPrefix(e, Watch!Parent(p))
<1>1. Len(e) \in Nat /\ Len(p) \in Nat /\ Len(e) <= Len(p) /\ \A i \in 1..Len(e) : e[i] = p[i]
  BY PrefixIs DEF Path
<1>2. Len(e) # Len(p)
  <2>1. SUFFICES ASSUME Len(e) = Len(p) PROVE e = p
    OBVIOUS
  <2>q. QED BY <1>1, <2>1 DEF Path
<1>3. p # Watch!Root
  BY <1>1, <1>2 DEF Watch!Root
<1>4. /\ Watch!Parent(p) \in Path /\ Len(Watch!Parent(p)) = Len(p) - 1
      /\ \A i \in 1..Len(Watch!Parent(p)) : Watch!Parent(p)[i] = p[i]
  <2>1. Watch!Parent(p) \in Path /\ Len(Watch!Parent(p)) = Len(p) - 1 /\ Watch!IsPrefix(Watch!Parent(p), p)
    BY <1>3, ParentIs
  <2>q. QED BY <2>1, PrefixIs
<1>5. \A i \in 1..Len(e) : e[i] = Watch!Parent(p)[i]
  BY <1>1, <1>2, <1>4
<1>q. QED BY <1>1, <1>2, <1>3, <1>4, <1>5, PrefixIs

\* Prefixes has the prefixes.
LEMMA PrefixesAre ==
    ASSUME NEW p \in Path
    PROVE  \A e : e \in Watch!Prefixes(p) <=> e \in Path /\ Watch!IsPrefix(e, p)
<1>1. Len(p) \in Nat
  BY DEF Path
<1>2. ASSUME NEW e \in Watch!Prefixes(p) PROVE e \in Path /\ Watch!IsPrefix(e, p)
  <2>1. PICK n \in 0..Len(p) : e = SubSeq(p, 1, n)
    BY DEF Watch!Prefixes
  <2>2. e \in Path /\ Len(e) = n /\ \A i \in 1..n : e[i] = p[i]
    BY <1>1, <2>1, FirstNames
  <2>q. QED BY <1>1, <2>2, PrefixIs
<1>3. ASSUME NEW e \in Path, Watch!IsPrefix(e, p) PROVE e \in Watch!Prefixes(p)
  <2>1. Len(e) \in Nat /\ Len(e) <= Len(p) /\ SubSeq(e, 1, Len(e)) = e
    BY <1>3, PrefixIs DEF Path
  <2>2. e = SubSeq(p, 1, Len(e)) /\ Len(e) \in 0..Len(p)
    BY <1>1, <1>3, <2>1 DEF Watch!IsPrefix
  <2>q. QED BY <2>2 DEF Watch!Prefixes
<1>q. QED BY <1>2, <1>3

\* Two paths that are prefixes of each other are one.
LEMMA PrefixAntisymmetric ==
    ASSUME NEW s \in Path, NEW t \in Path, Watch!IsPrefix(s, t), Watch!IsPrefix(t, s) PROVE s = t
BY PrefixIs DEF Path

\* From a directory to a path below it leads a child of the directory.
LEMMA ChildToward ==
    ASSUME NEW d \in Path, NEW p \in Path, Watch!IsPrefix(d, p), d # p
    PROVE  \E c \in Path : Watch!IsPrefix(c, p) /\ c # Watch!Root /\ Watch!Parent(c) = d
<1>1. Len(d) \in Nat /\ Len(p) \in Nat /\ Len(d) <= Len(p) /\ \A i \in 1..Len(d) : d[i] = p[i]
  BY PrefixIs DEF Path
<1>2. Len(d) # Len(p)
  <2>1. SUFFICES ASSUME Len(d) = Len(p) PROVE d = p
    OBVIOUS
  <2>q. QED BY <1>1, <2>1 DEF Path
<1> DEFINE n == Len(d) + 1
           c == SubSeq(p, 1, n)
<1>3. n \in Nat /\ n <= Len(p) /\ n - 1 = Len(d) /\ n # 0
  BY <1>1, <1>2
<1>4. c \in Path /\ Len(c) = n /\ \A i \in 1..n : c[i] = p[i]
  <2> HIDE DEF n
  <2>q. QED BY <1>3, FirstNames
<1> HIDE DEF n, c
<1>5. Watch!IsPrefix(c, p) /\ c # Watch!Root
  <2>1. c # Watch!Root
    BY <1>3, <1>4 DEF Watch!Root
  <2>q. QED BY <1>3, <1>4, <2>1, PrefixIs
<1>6. Watch!Parent(c) = d
  <2>1. Watch!Parent(c) \in Path /\ Len(Watch!Parent(c)) = Len(d) /\ Watch!IsPrefix(Watch!Parent(c), c)
    BY <1>3, <1>4, <1>5, ParentIs
  <2>2. \A i \in 1..Len(d) : Watch!Parent(c)[i] = c[i]
    BY <1>4, <2>1, PrefixIs
  <2>3. \A i \in 1..Len(d) : c[i] = p[i]
    BY <1>1, <1>3, <1>4
  <2>4. \A i \in 1..Len(d) : Watch!Parent(c)[i] = d[i]
    BY <1>1, <2>2, <2>3
  <2>q. QED BY <2>1, <2>4 DEF Path
<1>q. QED BY <1>4, <1>5, <1>6

\* A set of paths that has every path's parent has all their prefixes.
LEMMA PrefixClosed ==
    ASSUME NEW T \in SUBSET Path, \A p \in T : Watch!Parent(p) \in T,
           NEW p \in T, NEW e \in Path, Watch!IsPrefix(e, p)
    PROVE  e \in T
<1> DEFINE S == {k \in Nat : \A x \in T : Watch!IsPrefix(e, x) /\ Len(x) <= Len(e) + k => e \in T}
<1>1. \A x \in T : Len(x) \in Nat /\ x \in Path
  BY DEF Path
<1>2. Len(e) \in Nat
  BY DEF Path
<1>3. 0 \in S
  <2>1. ASSUME NEW x \in T, Watch!IsPrefix(e, x), Len(x) <= Len(e) + 0 PROVE e \in T
    <3>1. e = x
      <4>1. ASSUME e # x PROVE FALSE
        <5>1. x # Watch!Root /\ Watch!IsPrefix(e, Watch!Parent(x))
          BY <1>1, <2>1, <4>1, PrefixOfParent
        <5>2. Watch!Parent(x) \in Path /\ Len(Watch!Parent(x)) = Len(x) - 1 /\ Len(Watch!Parent(x)) \in Nat
          BY <1>1, <5>1, ParentIs DEF Path
        <5>3. Len(e) <= Len(Watch!Parent(x))
          BY <5>1, <5>2, PrefixIs
        <5>q. QED BY <1>1, <1>2, <2>1, <5>2, <5>3
      <4>q. QED BY <4>1
    <3>q. QED BY <3>1
  <2>q. QED BY <2>1
<1>4. ASSUME NEW k \in S PROVE k + 1 \in S
  <2>1. ASSUME NEW x \in T, Watch!IsPrefix(e, x), Len(x) <= Len(e) + (k + 1) PROVE e \in T
    <3>1. CASE e = x
      BY <3>1
    <3>2. CASE e # x
      <4>1. x # Watch!Root /\ Watch!IsPrefix(e, Watch!Parent(x))
        BY <1>1, <2>1, <3>2, PrefixOfParent
      <4>2. Len(Watch!Parent(x)) = Len(x) - 1 /\ Watch!Parent(x) \in T
        BY <1>1, <4>1, ParentIs
      <4>3. k \in Nat /\ Len(x) \in Nat
        BY <1>1
      <4>4. Len(Watch!Parent(x)) <= Len(e) + k
        BY <1>2, <2>1, <4>2, <4>3
      <4>q. QED BY <1>4, <4>1, <4>2, <4>4
    <3>q. QED BY <3>1, <3>2
  <2>2. k + 1 \in Nat
    OBVIOUS
  <2>q. QED BY <2>1, <2>2
<1>5. S = Nat
  <2>1. S \in SUBSET Nat
    OBVIOUS
  <2> HIDE DEF S
  <2>q. QED BY <1>3, <1>4, <2>1, Induction
<1>6. Len(p) \in S
  <2>1. Len(p) \in Nat
    BY <1>1
  <2> HIDE DEF S
  <2>q. QED BY <1>5, <2>1
<1>7. Len(p) <= Len(e) + Len(p)
  BY <1>1, <1>2
<1>q. QED BY <1>6, <1>7

(***************************************************************************)
(* What a pattern matches lies below its literal prefix.                   *)
(***************************************************************************)
LEMMA LiteralPrefixIs ==
    ASSUME NEW pattern, Watch!IsPattern(pattern)
    PROVE  \E s \in 0..Len(pattern) :
             /\ \A i \in 1..s : pattern[i].kind = "literal"
             /\ Watch!literalPatternPrefix(pattern) = [i \in 1..s |-> CHOOSE n \in pattern[i].names : TRUE]
<1> DEFINE meta == {i \in DOMAIN pattern : pattern[i].kind # "literal"}
           stop == IF meta = {} THEN Len(pattern) + 1
                   ELSE CHOOSE i \in meta : \A j \in meta : i <= j
<1>1. Len(pattern) \in Nat /\ DOMAIN pattern = 1..Len(pattern)
  BY DEF Watch!IsPattern
<1>2. stop \in 1..(Len(pattern) + 1) /\ \A i \in 1..(stop - 1) : i \notin meta
  <2>1. CASE meta = {}
    BY <1>1, <2>1
  <2>2. CASE meta # {}
    <3>1. \E i \in meta : \A j \in meta : i <= j
      <4>1. meta \in SUBSET Nat
        BY <1>1
      <4> HIDE DEF meta
      <4>q. QED BY <2>2, <4>1, Least
    <3>2. stop \in meta /\ \A j \in meta : stop <= j
      <4> HIDE DEF meta
      <4>q. QED BY <2>2, <3>1
    <3>3. stop \in 1..Len(pattern)
      BY <1>1, <3>2
    <3> HIDE DEF meta, stop
    <3>q. QED BY <1>1, <3>2, <3>3
  <2>q. QED BY <2>1, <2>2
<1>3. stop - 1 \in 0..Len(pattern)
  <2> HIDE DEF stop
  <2>q. QED BY <1>1, <1>2
<1>4. \A i \in 1..(stop - 1) : pattern[i].kind = "literal"
  <2>1. \A i \in 1..(stop - 1) : i \in DOMAIN pattern
    <3> HIDE DEF stop
    <3>q. QED BY <1>1, <1>3
  <2> HIDE DEF stop
  <2>q. QED BY <1>2, <2>1
<1>5. Watch!literalPatternPrefix(pattern) = [i \in 1..(stop - 1) |-> CHOOSE n \in pattern[i].names : TRUE]
  BY DEF Watch!literalPatternPrefix
<1> HIDE DEF stop
<1>q. QED BY <1>3, <1>4, <1>5

LEMMA PatternIs ==
    ASSUME NEW pattern, Watch!IsPattern(pattern)
    PROVE  /\ Len(pattern) \in Nat /\ DOMAIN pattern = 1..Len(pattern)
           /\ \A i \in DOMAIN pattern : pattern[i].names \subseteq STRING
<1> DEFINE Segment == [kind : {"deep", "literal", "glob"}, names : SUBSET STRING]
<1>1. pattern \in Seq(Segment)
  BY DEF Watch!IsPattern
<1>2. \A segment \in Segment : segment.names \subseteq STRING
  OBVIOUS
<1> HIDE DEF Segment
<1>q. QED BY <1>1, <1>2

LEMMA LiteralPrefixPath ==
    ASSUME NEW pattern, Watch!IsPattern(pattern) PROVE Watch!literalPatternPrefix(pattern) \in Path
<1>1. PICK s \in 0..Len(pattern) :
         /\ \A i \in 1..s : pattern[i].kind = "literal"
         /\ Watch!literalPatternPrefix(pattern) = [i \in 1..s |-> CHOOSE n \in pattern[i].names : TRUE]
  BY LiteralPrefixIs
<1>2. Len(pattern) \in Nat /\ DOMAIN pattern = 1..Len(pattern) /\ s \in Nat
  BY DEF Watch!IsPattern
<1>3. ASSUME NEW i \in 1..s PROVE (CHOOSE n \in pattern[i].names : TRUE) \in STRING
  <2>1. i \in DOMAIN pattern
    BY <1>2
  <2>2. pattern[i].names \subseteq STRING /\ \E n \in pattern[i].names : TRUE
    BY <1>1, <2>1, PatternIs DEF Watch!IsPattern
  <2>q. QED BY <2>2
<1>q. QED BY <1>1, <1>2, <1>3 DEF Path

\* If nothing can be reached by some segments, nothing can by more of them.
LEMMA ReachedAll ==
    ASSUME NEW pattern, Watch!IsPattern(pattern), NEW way \in Path, Watch!Match(pattern, way)
    PROVE  \A i \in 0..Len(pattern) : Reached(pattern, way)[i] # {}
<1> DEFINE m == Len(pattern)
           R == Reached(pattern, way)
           S == {k \in Nat : k <= m => R[m - k] # {}}
<1>1. m \in Nat /\ Len(way) \in Nat
  BY DEF Watch!IsPattern, Path
<1>2. (\A i \in 0..m : R[i] = Further(pattern, way, R, i)) /\ Len(way) \in R[m]
  BY <1>1, ReachedIs
<1> HIDE DEF m, R
<1>3. 0 \in S
  <2>1. m - 0 = m
    BY <1>1
  <2>q. QED BY <1>2, <2>1
<1>4. ASSUME NEW k \in S PROVE k + 1 \in S
  <2>1. k \in Nat /\ k + 1 \in Nat
    OBVIOUS
  <2>2. ASSUME k + 1 <= m PROVE R[m - (k + 1)] # {}
    <3> DEFINE i == m - k
    <3>1. i \in 1..m /\ m - (k + 1) = i - 1 /\ k <= m
      BY <1>1, <2>1, <2>2
    <3>2. R[i] # {}
      BY <1>4, <3>1
    <3> HIDE DEF i
    <3>3. R[i] = Further(pattern, way, R, i) /\ i # 0
      BY <1>1, <1>2, <3>1
    <3>4. R[i - 1] # {}
      BY <3>2, <3>3 DEF Further
    <3>q. QED BY <3>1, <3>4
  <2>q. QED BY <2>1, <2>2
<1>5. S = Nat
  <2>1. S \in SUBSET Nat
    OBVIOUS
  <2> HIDE DEF S
  <2>q. QED BY <1>3, <1>4, <2>1, Induction
<1>6. ASSUME NEW i \in 0..m PROVE R[i] # {}
  <2>1. m - i \in Nat /\ m - i <= m /\ m - (m - i) = i
    BY <1>1
  <2>2. m - i \in S
    <3> HIDE DEF S
    <3>q. QED BY <1>5, <2>1
  <2>q. QED BY <2>1, <2>2
<1>q. QED BY <1>6 DEF m, R

LEMMA BelowLiteralPrefix ==
    ASSUME NEW pattern, Watch!IsPattern(pattern), NEW way \in Path, Watch!Match(pattern, way)
    PROVE  /\ Watch!literalPatternPrefix(pattern) \in Path
           /\ Watch!IsPrefix(Watch!literalPatternPrefix(pattern), way)
<1> DEFINE prefix == Watch!literalPatternPrefix(pattern)
           R == Reached(pattern, way)
<1>1. PICK s \in 0..Len(pattern) :
         /\ \A i \in 1..s : pattern[i].kind = "literal"
         /\ prefix = [i \in 1..s |-> CHOOSE n \in pattern[i].names : TRUE]
  BY LiteralPrefixIs
<1>2. /\ Len(pattern) \in Nat /\ DOMAIN pattern = 1..Len(pattern) /\ Len(way) \in Nat
      /\ s \in Nat
      /\ \A i \in DOMAIN pattern : pattern[i].names \subseteq STRING
  BY PatternIs DEF Path
<1>3. \A i \in 0..Len(pattern) : R[i] = Further(pattern, way, R, i) /\ R[i] # {}
  BY <1>2, ReachedIs, ReachedAll
<1>4. ASSUME NEW i \in 1..s
      PROVE  /\ prefix[i] \in STRING /\ pattern[i].names = {prefix[i]}
             /\ R[i] = {j \in 1..Len(way) : way[j] = prefix[i] /\ j - 1 \in R[i - 1]}
  <2>1. i \in DOMAIN pattern /\ i \in 0..Len(pattern) /\ i # 0 /\ pattern[i].kind = "literal"
    BY <1>1, <1>2
  <2>2. PICK n \in pattern[i].names : pattern[i].names = {n}
    BY <2>1 DEF Watch!IsPattern
  <2>3. prefix[i] = CHOOSE n1 \in pattern[i].names : TRUE
    BY <1>1
  <2>4. prefix[i] \in pattern[i].names
    BY <2>2, <2>3
  <2>5. pattern[i].names = {prefix[i]} /\ prefix[i] \in STRING
    BY <1>2, <2>1, <2>2, <2>4
  <2>6. R[i] = {j \in 1..Len(way) : way[j] \in pattern[i].names /\ j - 1 \in R[i - 1]}
    <3>1. R[i] = Further(pattern, way, R, i)
      BY <1>3, <2>1
    <3> HIDE DEF R
    <3>q. QED BY <2>1, <3>1 DEF Further
  <2>q. QED BY <2>5, <2>6
<1>5. DOMAIN prefix = 1..s /\ prefix \in Path /\ Len(prefix) = s
  <2>1. prefix = [i \in 1..s |-> prefix[i]]
    BY <1>1
  <2> HIDE DEF prefix
  <2>2. prefix \in [1..s -> STRING]
    BY <1>4, <2>1
  <2>q. QED BY <1>2, <2>2 DEF Path
<1> HIDE DEF prefix, R
<1> DEFINE Along(i) == R[i] = {i} /\ i <= Len(way) /\ \A j \in 1..i : way[j] = prefix[j]
           S == {i \in Nat : i <= s => Along(i)}
<1>6. 0 \in S
  <2>1. R[0] = {0}
    <3>1. 0 \in 0..Len(pattern)
      BY <1>2
    <3>2. R[0] = Further(pattern, way, R, 0)
      BY <1>3, <3>1
    <3>q. QED BY <3>2 DEF Further
  <2>q. QED BY <1>2, <2>1
<1>7. ASSUME NEW k \in S PROVE k + 1 \in S
  <2>1. k \in Nat /\ k + 1 \in Nat
    OBVIOUS
  <2>2. ASSUME k + 1 <= s PROVE Along(k + 1)
    <3> DEFINE i == k + 1
    <3>1. i \in 1..s /\ i \in 0..Len(pattern) /\ i - 1 = k /\ k <= s
      BY <1>2, <2>1, <2>2
    <3>2. Along(k)
      BY <1>7, <3>1
    <3>3. R[i] = {j \in 1..Len(way) : way[j] = prefix[i] /\ j - 1 \in R[k]}
      BY <1>4, <3>1
    <3>4. \A j \in R[i] : j = i /\ j \in 1..Len(way) /\ way[j] = prefix[i]
      BY <2>1, <3>2, <3>3
    <3>5. R[i] # {}
      BY <1>3, <3>1
    <3>6. R[i] = {i} /\ i \in 1..Len(way) /\ way[i] = prefix[i]
      BY <3>4, <3>5
    <3> HIDE DEF i
    <3>7. \A j \in 1..i : way[j] = prefix[j]
      BY <2>1, <3>1, <3>2, <3>6
    <3>q. QED BY <1>2, <3>6, <3>7 DEF i
  <2> HIDE DEF Along
  <2>q. QED BY <2>1, <2>2
<1>8. S = Nat
  <2>1. S \in SUBSET Nat
    OBVIOUS
  <2> HIDE DEF S
  <2>q. QED BY <1>6, <1>7, <2>1, Induction
<1>9. Along(s)
  <2>1. s \in S
    <3> HIDE DEF S
    <3>q. QED BY <1>2, <1>8
  <2> HIDE DEF Along
  <2>q. QED BY <1>2, <2>1
<1>10. Watch!IsPrefix(prefix, way)
  BY <1>5, <1>9, PrefixIs
<1>q. QED BY <1>5, <1>10 DEF prefix

\* A pattern that ends in "**" matches a path as soon as it matches one that is no
\* longer and that differs only in names the pattern does not tell apart.
LEMMA MatchesBelow ==
    ASSUME NEW pattern, Watch!IsPattern(pattern), pattern # <<>>, pattern[Len(pattern)].kind = "deep",
           NEW a \in Path, NEW g \in Path, Len(a) <= Len(g), Watch!Match(pattern, a),
           \A i \in DOMAIN pattern : \A j \in 1..Len(a) :
               a[j] \in pattern[i].names => g[j] \in pattern[i].names
    PROVE  Watch!Match(pattern, g)
<1> DEFINE n == Len(pattern)
           A == Reached(pattern, a)
           G == Reached(pattern, g)
           S == {i \in Nat : i <= n => A[i] \subseteq G[i]}
<1>1. n \in Nat /\ n # 0 /\ DOMAIN pattern = 1..n /\ Len(a) \in Nat /\ Len(g) \in Nat
  BY DEF Watch!IsPattern, Path
<1>2. /\ \A i \in 0..n : /\ A[i] = Further(pattern, a, A, i)
                         /\ G[i] = Further(pattern, g, G, i)
      /\ Len(a) \in A[n]
      /\ Watch!Match(pattern, g) <=> Len(g) \in G[n]
  BY <1>1, ReachedIs
<1> HIDE DEF A, G
<1>3. ASSUME NEW i \in 0..n PROVE A[i] \subseteq Nat
  <2>1. A[i] = Further(pattern, a, A, i)
    BY <1>2
  <2>2. CASE i = 0
    BY <2>1, <2>2 DEF Further
  <2>3. CASE i # 0 /\ pattern[i].kind = "deep"
    <3>1. A[i] = {j \in 0..Len(a) : \E k \in A[i - 1] : k <= j}
      BY <2>1, <2>3 DEF Further
    <3>q. QED BY <1>1, <3>1
  <2>4. CASE i # 0 /\ pattern[i].kind # "deep"
    <3>1. A[i] = {j \in 1..Len(a) : a[j] \in pattern[i].names /\ j - 1 \in A[i - 1]}
      BY <2>1, <2>4 DEF Further
    <3>q. QED BY <1>1, <3>1
  <2>q. QED BY <2>2, <2>3, <2>4
<1>4. 0 \in S
  <2>1. 0 \in 0..n
    BY <1>1
  <2>2. A[0] = {0} /\ G[0] = {0}
    BY <1>2, <2>1 DEF Further
  <2>q. QED BY <2>2
<1>5. ASSUME NEW k \in S PROVE k + 1 \in S
  <2>1. k \in Nat /\ k + 1 \in Nat
    OBVIOUS
  <2>2. ASSUME k + 1 <= n PROVE A[k + 1] \subseteq G[k + 1]
    <3> DEFINE i == k + 1
    <3>1. i \in 1..n /\ i \in 0..n /\ i # 0 /\ i - 1 = k /\ k <= n
      BY <1>1, <2>1, <2>2
    <3>2. A[k] \subseteq G[k]
      BY <1>5, <3>1
    <3> HIDE DEF i
    <3>3. CASE pattern[i].kind = "deep"
      <4>1. /\ A[i] = {j \in 0..Len(a) : \E m \in A[k] : m <= j}
            /\ G[i] = {j \in 0..Len(g) : \E m \in G[k] : m <= j}
        BY <1>2, <3>1, <3>3 DEF Further
      <4>q. QED BY <1>1, <3>2, <4>1 DEF i
    <3>4. CASE pattern[i].kind # "deep"
      <4>1. /\ A[i] = {j \in 1..Len(a) : a[j] \in pattern[i].names /\ j - 1 \in A[k]}
            /\ G[i] = {j \in 1..Len(g) : g[j] \in pattern[i].names /\ j - 1 \in G[k]}
        BY <1>2, <3>1, <3>4 DEF Further
      <4>2. \A j \in 1..Len(a) : a[j] \in pattern[i].names => g[j] \in pattern[i].names
        BY <1>1, <3>1
      <4>q. QED BY <1>1, <3>2, <4>1, <4>2 DEF i
    <3>q. QED BY <3>3, <3>4 DEF i
  <2>q. QED BY <2>1, <2>2
<1>6. S = Nat
  <2>1. S \in SUBSET Nat
    OBVIOUS
  <2> HIDE DEF S
  <2>q. QED BY <1>4, <1>5, <2>1, Induction
<1>7. A[n - 1] \subseteq G[n - 1]
  <2>1. n - 1 \in Nat /\ n - 1 <= n
    BY <1>1
  <2>2. n - 1 \in S
    <3> HIDE DEF S
    <3>q. QED BY <1>6, <2>1
  <2>q. QED BY <2>1, <2>2
<1>8. PICK m \in A[n - 1] : m <= Len(a)
  <2>1. n \in 0..n
    BY <1>1
  <2>2. A[n] = {j \in 0..Len(a) : \E m \in A[n - 1] : m <= j}
    BY <1>1, <1>2, <2>1 DEF Further
  <2>q. QED BY <1>2, <2>2
<1>9. m \in G[n - 1] /\ m <= Len(g)
  <2>1. m \in Nat
    <3>1. n - 1 \in 0..n
      BY <1>1
    <3>q. QED BY <1>3, <1>8, <3>1
  <2>q. QED BY <1>1, <1>7, <1>8, <2>1
<1>10. G[n] = {j \in 0..Len(g) : \E x \in G[n - 1] : x <= j}
  <2>1. n \in 0..n
    BY <1>1
  <2>q. QED BY <1>1, <1>2, <2>1 DEF Further
<1>q. QED BY <1>1, <1>2, <1>9, <1>10

\* A directory above a directory that could contain a match could, too.
LEMMA ContainsAbove ==
    ASSUME NEW include, \A p \in include : Watch!IsPattern(p),
           NEW d \in Path, NEW e \in Path, Watch!couldContain(include, d), Watch!IsPrefix(e, d)
    PROVE  Watch!couldContain(include, e)
<1>1. PICK p \in include : \/ Watch!IsPrefix(d, Watch!literalPatternPrefix(p))
                           \/ Watch!IsPrefix(Watch!literalPatternPrefix(p), d)
  BY DEF Watch!couldContain
<1>2. Watch!literalPatternPrefix(p) \in Path
  BY LiteralPrefixPath
<1>3. CASE Watch!IsPrefix(d, Watch!literalPatternPrefix(p))
  BY <1>2, <1>3, PrefixTrans DEF Watch!couldContain
<1>4. CASE Watch!IsPrefix(Watch!literalPatternPrefix(p), d)
  BY <1>2, <1>4, PrefixesCompare DEF Watch!couldContain
<1>q. QED BY <1>1, <1>3, <1>4

\* Every directory above a matching file could contain one.
LEMMA ContainsMatch ==
    ASSUME NEW include, \A p \in include : Watch!IsPattern(p), NEW exclude,
           NEW f \in Path, NEW d \in Path, Watch!matches(include, exclude, f), Watch!IsPrefix(d, f)
    PROVE  Watch!couldContain(include, d)
<1>1. PICK p \in include : Watch!Match(p, f)
  BY DEF Watch!matches
<1>2. Watch!literalPatternPrefix(p) \in Path /\ Watch!IsPrefix(Watch!literalPatternPrefix(p), f)
  BY <1>1, BelowLiteralPrefix
<1>q. QED BY <1>2, PrefixesCompare DEF Watch!couldContain

(***************************************************************************)
(* The tree, and the events about it.                                      *)
(***************************************************************************)
Event == [op : {"create", "remove", "rename"}, path : (Dirs \cup Files) \ {Watch!Root}]

Has(q, event) == \E i \in DOMAIN q : q[i] = event

Created(d) == Has(queue, [op |-> "create", path |-> d])

Typed == Watch!TypeOK /\ queue \in Seq(Event) /\ \A f \in flicker : Watch!Input(f)

\* What exists has its parent; what was moved away is one directory and its files.
Rooted ==
    /\ Watch!Root \in fs /\ \A p \in fs : Watch!Parent(p) \in fs
    /\ Watch!Root \notin away
    /\ \A d \in away \cap Dirs, x \in away : x = d \/ (x \in Files /\ Watch!Parent(x) = d)

(***************************************************************************)
(* Why the guard has what GuardSound asks for.                             *)
(***************************************************************************)
\* The walk, or an event, has still to come to the directory.
Pending(e) ==
    \/ <<"enter", e>> \in todo
    \/ e # Watch!Root /\ <<"list", Watch!Parent(e)>> \in todo
    \/ Created(e)

\* Until a change is noticed, a relevant directory is watched, or lies below one
\* that the guard has still to come to.
Covered ==
    ~changed => \A d \in fs \cap Dirs :
        Watch!Watches(d) /\ d \notin watched => \E e \in fs \cap Dirs : Watch!IsPrefix(e, d) /\ Pending(e)

\* Why an input that came or went will not be missed: the second proof misses
\* it, its directory was gone too early, or an event about it or a directory
\* above it is queued.
Told(f) ==
    \/ f \in base \ fs
    \/ \E d \in missed : Watch!IsPrefix(d, f)
    \/ \E op \in {"create", "remove", "rename"} : Has(queue, [op |-> op, path |-> f])
    \/ \E d \in fs \cap Dirs : Watch!IsPrefix(d, f) /\ Created(d)

Noticed ==
    /\ phase = "starting" => flicker = {}
    /\ phase = "running" =>
         /\ Watch!Inputs \subseteq base \cup flicker
         /\ ~changed => todo = {} /\ \A f \in flicker : Told(f)

WatchInv == Typed /\ Rooted /\ Covered /\ Noticed

LEMMA PathsAre ==
    ASSUME Watch!WatchAssumption
    PROVE  /\ \A p \in Dirs \cup Files : p \in Path /\ Watch!Parent(p) \in Dirs
           /\ Watch!Root \in Dirs /\ Watch!Root \in Path /\ Dirs \cap Files = {} /\ Watch!Root \notin Files
           /\ \A p \in Include : Watch!IsPattern(p)
BY DEF Watch!WatchAssumption, Path, Watch!Root

\* What exists has every path above it.
LEMMA AboveExists ==
    ASSUME Watch!WatchAssumption, Typed, Rooted, NEW p \in fs, NEW e \in Path, Watch!IsPrefix(e, p)
    PROVE  e \in fs
<1>1. fs \in SUBSET Path
  BY PathsAre DEF Typed, Watch!TypeOK
<1>q. QED BY <1>1, PrefixClosed DEF Rooted

LEMMA AboveIsDirectory ==
    ASSUME Watch!WatchAssumption, NEW p \in Dirs, NEW e \in Path, Watch!IsPrefix(e, p)
    PROVE  e \in Dirs
<1>1. Dirs \in SUBSET Path /\ \A d \in Dirs : Watch!Parent(d) \in Dirs
  BY PathsAre
<1>q. QED BY <1>1, PrefixClosed

LEMMA WatchesAbove ==
    ASSUME Watch!WatchAssumption, NEW d \in Dirs, NEW e \in Dirs, Watch!Watches(d), Watch!IsPrefix(e, d)
    PROVE  Watch!Watches(e)
<1>1. d \in Path /\ e \in Path /\ \A p \in Include : Watch!IsPattern(p)
  BY PathsAre
<1>2. CASE d = Watch!Root
  <2>1. e = Watch!Root
    BY <1>1, <1>2, PrefixOfParent
  <2>q. QED BY <2>1 DEF Watch!Watches
<1>3. CASE d # Watch!Root
  BY <1>1, <1>3, ContainsAbove DEF Watch!Watches
<1>q. QED BY <1>2, <1>3

\* The directories above an input are watched.
LEMMA WatchesInput ==
    ASSUME Watch!WatchAssumption, NEW f \in Files, Watch!Input(f), NEW d \in Dirs, Watch!IsPrefix(d, f)
    PROVE  Watch!couldContain(Include, d) /\ Watch!Watches(d)
<1>1. d \in Path /\ f \in Path /\ \A p \in Include : Watch!IsPattern(p)
  BY PathsAre
<1>q. QED BY <1>1, ContainsMatch DEF Watch!Input, Watch!Watches

LEMMA SameSize == \A S : Watch!Cardinality(S) = Cardinality(S)
BY DEF Watch!Cardinality, Watch!IsFiniteSet, Cardinality, IsFiniteSet

\* What Report does to the queue.
LEMMA Reported ==
    ASSUME Watch!WatchAssumption, Typed, NEW op \in {"create", "remove", "rename"},
           NEW p \in (Dirs \cup Files) \ {Watch!Root}, Watch!Report(op, Watch!Heard(p))
    PROVE  /\ queue' \in Seq(Event)
           /\ \A event : Has(queue, event) => Has(queue', event)
           /\ Watch!Parent(p) \in watched => Has(queue', [op |-> op, path |-> p])
<1> DEFINE event == [op |-> op, path |-> p]
<1>1. event \in Event /\ queue \in Seq(Event)
  BY DEF Event, Typed
<1>2. CASE Watch!Heard(p) = {}
  <2>1. Watch!Cardinality({}) = 0
    BY FS_EmptySet, SameSize
  <2>2. queue' = queue \o [i \in 1..0 |-> [op |-> op, path |-> Watch!SetToSeq({})[i]]]
    BY <1>2, <2>1 DEF Watch!Report
  <2>3. [i \in 1..0 |-> [op |-> op, path |-> Watch!SetToSeq({})[i]]] = <<>>
    OBVIOUS
  <2>4. queue' = queue
    BY <1>1, <2>2, <2>3
  <2>5. Watch!Parent(p) \notin watched
    BY <1>2 DEF Watch!Heard
  <2>q. QED BY <1>1, <2>4, <2>5
<1>3. CASE Watch!Heard(p) = {p} /\ Watch!Parent(p) \in watched
  <2>1. Watch!Cardinality({p}) = 1
    BY FS_Singleton, SameSize
  <2>2. Watch!SetToSeq({p})[1] = p
    <3>1. Watch!IsInjective([i \in 1..1 |-> p])
      BY DEF Watch!IsInjective
    <3>2. \E f \in [1..1 -> {p}] : Watch!IsInjective(f)
      BY <3>1
    <3>3. Watch!SetToSeq({p}) \in [1..1 -> {p}]
      BY <2>1, <3>2 DEF Watch!SetToSeq
    <3>q. QED BY <3>3
  <2>3. queue' = queue \o [i \in 1..1 |-> event]
    <3> DEFINE news == [i \in 1..1 |-> [op |-> op, path |-> Watch!SetToSeq({p})[i]]]
    <3>1. queue' = queue \o news
      BY <1>3, <2>1 DEF Watch!Report
    <3>2. \A i \in 1..1 : i = 1
      OBVIOUS
    <3>3. news = [i \in 1..1 |-> event]
      BY <2>2, <3>2
    <3> HIDE DEF news
    <3>q. QED BY <3>1, <3>3
  <2> HIDE DEF event
  <2>4. /\ queue' \in Seq(Event) /\ Len(queue') = Len(queue) + 1
        /\ \A i \in 1..Len(queue) : queue'[i] = queue[i]
        /\ queue'[Len(queue) + 1] = event
    BY <1>1, <2>3
  <2>5. DOMAIN queue' = 1..Len(queue') /\ DOMAIN queue = 1..Len(queue) /\ Len(queue) \in Nat
    BY <1>1, <2>4
  <2>6. \A e : Has(queue, e) => Has(queue', e)
    BY <2>4, <2>5 DEF Has
  <2>7. Has(queue', event)
    <3>1. Len(queue) + 1 \in DOMAIN queue'
      BY <2>4, <2>5
    <3>q. QED BY <2>4, <3>1 DEF Has
  <2>q. QED BY <2>4, <2>6, <2>7 DEF event
<1>q. QED BY <1>2, <1>3 DEF Watch!Heard

(***************************************************************************)
(* What the changes of the tree have in common.                            *)
(***************************************************************************)
\* A path that has come lies at or below one whose creation is reported if the
\* directory it is in is watched.
Arrived(x) ==
    \E p \in fs' \ fs :
      /\ Watch!IsPrefix(p, x) /\ (p = x \/ p \in Dirs)
      /\ Watch!Parent(p) \in fs
      /\ Watch!Parent(p) \in watched => Has(queue', [op |-> "create", path |-> p])

TreeMoves ==
    /\ UNCHANGED <<phase, todo, changed, base>>
    /\ \A event : Has(queue, event) => Has(queue', event)
    /\ watched \cap fs' \subseteq watched'
    /\ \A x \in fs' \ fs : Arrived(x)

LEMMA ChangeTyped ==
    ASSUME Watch!WatchAssumption, Typed, NEW here \in SUBSET (Dirs \cup Files), Watch!Change(here),
           queue' \in Seq(Event), away' \subseteq Dirs \cup Files, watched' \subseteq Dirs \cap here
    PROVE  Typed'
<1>1. \A i \in DOMAIN queue' : queue'[i].path \in (Dirs \cup Files) \ {Watch!Root}
  <2>1. \A event \in Event : event.path \in (Dirs \cup Files) \ {Watch!Root}
    BY DEF Event
  <2>2. \A i \in DOMAIN queue' : queue'[i] \in Event
    <3> HIDE DEF Event
    <3>q. QED OBVIOUS
  <2>q. QED BY <2>1, <2>2
<1>2. /\ fs' = here /\ UNCHANGED <<phase, todo, changed, base>>
      /\ ops' = ops + 1 /\ ops < MaxOps /\ ops \in 0..MaxOps /\ MaxOps \in Nat
  BY DEF Watch!Change, Typed, Watch!TypeOK, Watch!WatchAssumption
<1>3. ops' \in 0..MaxOps
  BY <1>2
<1>4. \A f \in flicker' : Watch!Input(f)
  BY DEF Watch!Change, Typed
<1>5. flicker' \subseteq Files
  BY <1>4 DEF Watch!Input
<1>6. missed' \subseteq Dirs
  BY DEF Watch!Change, Typed, Watch!TypeOK
<1>7. /\ phase \in {"starting", "running"} /\ todo \subseteq {"enter", "list"} \X Dirs
      /\ changed \in BOOLEAN /\ base \subseteq Files
  BY DEF Typed, Watch!TypeOK
<1>q. QED BY <1>1, <1>2, <1>3, <1>4, <1>5, <1>6, <1>7 DEF Typed, Watch!TypeOK, Watch!Input

LEMMA TreeCreate ==
    ASSUME Watch!WatchAssumption, Typed, Rooted, NEW p \in (Dirs \cup Files) \ {Watch!Root}, Watch!Create(p)
    PROVE  Typed' /\ Rooted' /\ TreeMoves
<1>1. /\ p \notin fs /\ Watch!Parent(p) \in fs /\ Watch!Change(fs \cup {p}) /\ fs' = fs \cup {p}
      /\ Watch!Report("create", Watch!Heard(p)) /\ UNCHANGED <<away, watched>>
  BY DEF Watch!Create, Watch!Change
<1>2. /\ queue' \in Seq(Event)
      /\ \A event : Has(queue, event) => Has(queue', event)
      /\ Watch!Parent(p) \in watched => Has(queue', [op |-> "create", path |-> p])
  BY <1>1, Reported
<1>3. Typed'
  BY <1>1, <1>2, ChangeTyped DEF Typed, Watch!TypeOK
<1>4. Rooted'
  BY <1>1 DEF Rooted
<1>5. Watch!IsPrefix(p, p)
  <2>1. p \in Path
    BY PathsAre
  <2>q. QED BY <2>1, PrefixIs DEF Path
<1>6. \A x \in fs' \ fs : Arrived(x)
  BY <1>1, <1>2, <1>5 DEF Arrived
<1>q. QED BY <1>1, <1>2, <1>3, <1>4, <1>6 DEF TreeMoves, Watch!Change

LEMMA TreeRemoveFile ==
    ASSUME Watch!WatchAssumption, Typed, Rooted, NEW f \in Files, Watch!RemoveFile(f)
    PROVE  Typed' /\ Rooted' /\ TreeMoves
<1>1. /\ f \in fs /\ Watch!Change(fs \ {f}) /\ fs' = fs \ {f}
      /\ Watch!Report("remove", Watch!Heard(f)) /\ UNCHANGED <<away, watched>>
  BY DEF Watch!RemoveFile, Watch!Change
<1>2. f # Watch!Root /\ f \notin Dirs /\ Watch!Root \in Dirs /\ \A p \in Dirs \cup Files : Watch!Parent(p) \in Dirs
  BY PathsAre
<1>3. queue' \in Seq(Event) /\ \A event : Has(queue, event) => Has(queue', event)
  BY <1>1, <1>2, Reported
<1>4. Typed'
  BY <1>1, <1>2, <1>3, ChangeTyped DEF Typed, Watch!TypeOK
<1>5. Rooted'
  BY <1>1, <1>2 DEF Rooted, Typed, Watch!TypeOK
<1>q. QED BY <1>1, <1>3, <1>4, <1>5 DEF TreeMoves, Watch!Change

LEMMA TreeRemoveDirectory ==
    ASSUME Watch!WatchAssumption, Typed, Rooted, NEW d \in Dirs, Watch!RemoveDirectory(d)
    PROVE  Typed' /\ Rooted' /\ TreeMoves
<1>1. /\ d \in fs \ {Watch!Root} /\ Watch!Inside(d) = {} /\ Watch!Change(fs \ {d}) /\ fs' = fs \ {d}
      /\ Watch!Report("remove", Watch!Heard(d)) /\ watched' = watched \ {d} /\ UNCHANGED away
  BY DEF Watch!RemoveDirectory, Watch!Gone, Watch!Change
<1>2. queue' \in Seq(Event) /\ \A event : Has(queue, event) => Has(queue', event)
  BY <1>1, Reported
<1>3. Typed'
  BY <1>1, <1>2, ChangeTyped DEF Typed, Watch!TypeOK
<1>4. ASSUME NEW p \in fs' PROVE Watch!Parent(p) \in fs'
  <2>1. p \in Path /\ p \in fs /\ Watch!Parent(p) \in fs /\ p # d
    BY <1>1, PathsAre DEF Rooted, Typed, Watch!TypeOK
  <2>2. ASSUME Watch!Parent(p) = d PROVE FALSE
    BY <1>1, <2>1, <2>2, ParentIs DEF Watch!Inside
  <2>q. QED BY <1>1, <2>1, <2>2
<1>5. Rooted'
  BY <1>1, <1>4 DEF Rooted
<1>q. QED BY <1>1, <1>2, <1>3, <1>5 DEF TreeMoves, Watch!Change

LEMMA TreeMoveAway ==
    ASSUME Watch!WatchAssumption, Typed, Rooted, NEW d \in Dirs, Watch!MoveAway(d)
    PROVE  Typed' /\ Rooted' /\ TreeMoves
<1>1. /\ d \in fs \ {Watch!Root} /\ Watch!Inside(d) \subseteq Files /\ away' = {d} \cup Watch!Inside(d)
      /\ Watch!Change(fs \ away') /\ fs' = fs \ away'
      /\ Watch!Report("rename", Watch!Heard(d)) /\ watched' = watched \ {d}
  BY DEF Watch!MoveAway, Watch!Gone, Watch!Change
<1>2. queue' \in Seq(Event) /\ \A event : Has(queue, event) => Has(queue', event)
  BY <1>1, Reported
<1>3. /\ \A p \in fs : p \in Path /\ p \in Dirs \cup Files /\ Watch!Parent(p) \in Dirs
      /\ d \in Path /\ Watch!Root \in Dirs /\ Dirs \cap Files = {}
  BY PathsAre DEF Typed, Watch!TypeOK
<1>4. Typed'
  BY <1>1, <1>2, <1>3, ChangeTyped DEF Typed, Watch!TypeOK
<1>5. ASSUME NEW p \in fs' PROVE Watch!Parent(p) \in fs'
  <2>1. p \in fs /\ Watch!Parent(p) \in fs /\ p # d /\ p \notin Watch!Inside(d)
    BY <1>1 DEF Rooted
  <2>2. Watch!Parent(p) \notin Watch!Inside(d)
    BY <1>1, <1>3, <2>1
  <2>3. ASSUME Watch!Parent(p) = d PROVE FALSE
    BY <1>3, <2>1, <2>3, ParentIs DEF Watch!Inside
  <2>q. QED BY <1>1, <2>1, <2>2, <2>3
<1>6. ASSUME NEW x \in away', x # d PROVE x \in Files /\ Watch!Parent(x) = d
  <2>1. x \in Files /\ x \in fs /\ Watch!IsPrefix(d, x)
    BY <1>1, <1>6 DEF Watch!Inside
  <2>2. Watch!Parent(x) \in fs /\ Watch!Parent(x) \in Dirs /\ Watch!IsPrefix(d, Watch!Parent(x))
    BY <1>3, <1>6, <2>1, PrefixOfParent DEF Rooted
  <2>q. QED BY <1>1, <1>3, <2>1, <2>2 DEF Watch!Inside
<1>7. Rooted'
  <2>1. \A e \in away' \cap Dirs : e = d
    BY <1>3, <1>6
  <2>2. Watch!Root \in fs' /\ Watch!Root \notin away'
    BY <1>1, <1>3 DEF Rooted
  <2>q. QED BY <1>5, <1>6, <2>1, <2>2 DEF Rooted
<1>8. watched \cap fs' \subseteq watched'
  BY <1>1
<1>q. QED BY <1>1, <1>2, <1>4, <1>7, <1>8 DEF TreeMoves, Watch!Change

LEMMA TreeMoveBack ==
    ASSUME Watch!WatchAssumption, Typed, Rooted, NEW d \in Dirs, Watch!MoveBack(d)
    PROVE  Typed' /\ Rooted' /\ TreeMoves
<1>1. /\ d \in away /\ d \notin fs /\ Watch!Parent(d) \in fs /\ away' = {}
      /\ Watch!Change(fs \cup away) /\ fs' = fs \cup away
      /\ Watch!Report("create", Watch!Heard(d)) /\ watched' = watched
  BY DEF Watch!MoveBack, Watch!Change
<1>2. d # Watch!Root /\ d \in Path /\ \A x \in away : x = d \/ (x \in Files /\ Watch!Parent(x) = d)
  BY <1>1, PathsAre DEF Rooted
<1>3. /\ queue' \in Seq(Event)
      /\ \A event : Has(queue, event) => Has(queue', event)
      /\ Watch!Parent(d) \in watched => Has(queue', [op |-> "create", path |-> d])
  BY <1>1, <1>2, Reported
<1>4. Typed'
  BY <1>1, <1>3, ChangeTyped DEF Typed, Watch!TypeOK
<1>5. Rooted'
  BY <1>1, <1>2 DEF Rooted
<1>6. ASSUME NEW x \in fs' \ fs PROVE Arrived(x)
  <2>1. x = d \/ (x \in Files /\ Watch!Parent(x) = d)
    BY <1>1, <1>2
  <2>2. Watch!IsPrefix(d, x)
    BY <1>2, <2>1, PathsAre, ParentIs, PrefixIs
  <2>q. QED BY <1>1, <1>3, <2>2 DEF Arrived
<1>q. QED BY <1>1, <1>3, <1>4, <1>5, <1>6 DEF TreeMoves, Watch!Change

(***************************************************************************)
(* A change of the tree keeps the invariant.                               *)
(***************************************************************************)
LEMMA CoveredByTree ==
    ASSUME Watch!WatchAssumption, Typed, Rooted, Typed', Rooted', Covered, TreeMoves
    PROVE  Covered'
<1>1. SUFFICES ASSUME ~changed', NEW d \in fs' \cap Dirs, Watch!Watches(d), d \notin watched'
               PROVE  \E e \in fs' \cap Dirs : Watch!IsPrefix(e, d) /\ Pending(e)'
  BY DEF Covered, Watch!Watches
<1>2. ~changed /\ todo' = todo /\ \A e : Pending(e) => Pending(e)'
  BY <1>1 DEF TreeMoves, Pending, Created
<1>3. d \in Path
  BY PathsAre
<1>4. ASSUME NEW a \in fs \cap Dirs, Watch!IsPrefix(a, d), a \notin watched
      PROVE  \E e \in fs' \cap Dirs : Watch!IsPrefix(e, d) /\ Pending(e)'
  <2>1. Watch!Watches(a)
    BY <1>1, <1>4, WatchesAbove
  <2>2. PICK e \in fs \cap Dirs : Watch!IsPrefix(e, a) /\ Pending(e)
    BY <1>2, <1>4, <2>1 DEF Covered
  <2>3. e \in Path /\ a \in Path
    BY PathsAre
  <2>4. Watch!IsPrefix(e, d)
    BY <1>3, <1>4, <2>2, <2>3, PrefixTrans
  <2>5. e \in fs'
    <3>1. fs' \in SUBSET Path /\ \A p \in fs' : Watch!Parent(p) \in fs'
      BY PathsAre DEF Typed, Watch!TypeOK, Rooted
    <3>q. QED BY <1>1, <2>3, <2>4, <3>1, PrefixClosed
  <2>q. QED BY <1>2, <2>2, <2>4, <2>5
<1>5. CASE d \in fs
  <2>1. d \notin watched
    BY <1>1 DEF TreeMoves
  <2>2. Watch!IsPrefix(d, d)
    BY <1>3, PrefixIs DEF Path
  <2>q. QED BY <1>4, <1>5, <2>1, <2>2
<1>6. CASE d \notin fs
  <2>1. PICK p \in fs' \ fs :
          /\ Watch!IsPrefix(p, d) /\ (p = d \/ p \in Dirs)
          /\ Watch!Parent(p) \in fs
          /\ Watch!Parent(p) \in watched => Has(queue', [op |-> "create", path |-> p])
    BY <1>1, <1>6 DEF TreeMoves, Arrived
  <2>2. p \in Dirs /\ p \in Path /\ Watch!Parent(p) \in Dirs /\ Watch!Parent(p) \in Path
    BY <1>1, <2>1, PathsAre
  <2>3. Watch!IsPrefix(Watch!Parent(p), d)
    BY <1>3, <2>1, <2>2, ParentIs, PrefixTrans
  <2>4. CASE Watch!Parent(p) \in watched
    <3>1. Pending(p)'
      BY <2>1, <2>4 DEF Pending, Created
    <3>q. QED BY <2>1, <2>2, <3>1
  <2>5. CASE Watch!Parent(p) \notin watched
    BY <1>4, <2>1, <2>2, <2>3, <2>5
  <2>q. QED BY <2>4, <2>5
<1>q. QED BY <1>5, <1>6

\* An input that comes back is reported, or lies below a directory that is.
LEMMA ToldArrival ==
    ASSUME Watch!WatchAssumption, Typed, Rooted, Typed', Rooted', Covered, TreeMoves,
           ~changed, todo = {}, NEW f \in fs' \ fs, Watch!Input(f)
    PROVE  Told(f)'
<1>1. PICK p \in fs' \ fs :
        /\ Watch!IsPrefix(p, f) /\ (p = f \/ p \in Dirs)
        /\ Watch!Parent(p) \in fs
        /\ Watch!Parent(p) \in watched => Has(queue', [op |-> "create", path |-> p])
  BY DEF TreeMoves, Arrived
<1>2. /\ f \in Files /\ f \in Path /\ p \in Dirs \cup Files /\ p \in Path
      /\ Watch!Parent(p) \in Dirs /\ Watch!Parent(p) \in Path
  BY <1>1, PathsAre DEF Watch!Input
<1>3. Watch!IsPrefix(Watch!Parent(p), f)
  BY <1>1, <1>2, ParentIs, PrefixTrans
<1>4. CASE Watch!Parent(p) \in watched
  BY <1>1, <1>2, <1>4 DEF Told, Created
<1>5. CASE Watch!Parent(p) \notin watched
  <2>1. Watch!Watches(Watch!Parent(p))
    BY <1>2, <1>3, WatchesInput
  <2>2. PICK e \in fs \cap Dirs : Watch!IsPrefix(e, Watch!Parent(p)) /\ Pending(e)
    BY <1>1, <1>2, <1>5, <2>1 DEF Covered
  <2>3. Created(e)
    BY <2>2 DEF Pending
  <2>4. e \in Path
    BY PathsAre
  <2>5. Watch!IsPrefix(e, f)
    BY <1>2, <1>3, <2>2, <2>4, PrefixTrans
  <2>6. e \in fs'
    <3>1. fs' \in SUBSET Path /\ \A x \in fs' : Watch!Parent(x) \in fs'
      BY PathsAre DEF Typed, Watch!TypeOK, Rooted
    <3>q. QED BY <2>4, <2>5, <3>1, PrefixClosed
  <2>7. Created(e)'
    BY <2>3 DEF Created, TreeMoves
  <2>q. QED BY <2>2, <2>5, <2>6, <2>7 DEF Told
<1>q. QED BY <1>4, <1>5

LEMMA NoticedByTree ==
    ASSUME Watch!WatchAssumption, Typed, Rooted, Typed', Rooted', Covered, Noticed, TreeMoves, Watch!Change(fs')
    PROVE  Noticed'
<1>1. UNCHANGED <<phase, todo, changed, base>>
  BY DEF TreeMoves
<1>2. ASSUME phase' = "starting" PROVE flicker' = {}
  BY <1>1, <1>2 DEF Watch!Change
<1>3. ASSUME phase' = "running" PROVE Watch!Inputs' \subseteq base' \cup flicker'
  <2>1. flicker' = flicker \cup {f \in (fs \ fs') \cup (fs' \ fs) : Watch!Input(f)}
    BY <1>1, <1>3 DEF Watch!Change
  <2>2. Watch!Inputs \subseteq base \cup flicker
    BY <1>1, <1>3 DEF Noticed
  <2>q. QED BY <1>1, <2>1, <2>2 DEF Watch!Inputs, Watch!Input
<1>4. ASSUME phase' = "running", ~changed', NEW f \in flicker' PROVE Told(f)'
  <2>1. /\ flicker' = flicker \cup {x \in (fs \ fs') \cup (fs' \ fs) : Watch!Input(x)}
        /\ missed' = missed \cup {d \in Dirs \ fs' : d \in fs /\ Watch!Unhandled(d)}
    BY <1>1, <1>4 DEF Watch!Change
  <2>2. todo = {} /\ ~changed /\ (\A x \in flicker : Told(x)) /\ Watch!Inputs \subseteq base \cup flicker
    BY <1>1, <1>4 DEF Noticed
  <2>3. Watch!Input(f) /\ f \in Files
    BY <2>1 DEF Typed, Watch!Input
  <2>4. CASE f \in fs' \ fs
    BY <2>2, <2>3, <2>4, ToldArrival
  <2>5. CASE f \in base /\ f \notin fs'
    BY <1>1, <2>5 DEF Told
  <2>6. CASE f \in flicker /\ ~(f \in base \ fs)
    <3>1. Told(f)
      BY <2>2, <2>6
    <3>2. CASE \E d \in missed : Watch!IsPrefix(d, f)
      BY <2>1, <3>2 DEF Told
    <3>3. CASE \E op \in {"create", "remove", "rename"} : Has(queue, [op |-> op, path |-> f])
      BY <3>3 DEF Told, TreeMoves
    <3>4. CASE \E d \in fs \cap Dirs : Watch!IsPrefix(d, f) /\ Created(d)
      <4>1. PICK d \in fs \cap Dirs : Watch!IsPrefix(d, f) /\ Created(d)
        BY <3>4
      <4>2. Created(d)'
        BY <4>1 DEF Created, TreeMoves
      <4>3. CASE d \in fs'
        BY <4>1, <4>2, <4>3 DEF Told
      <4>4. CASE d \notin fs'
        <5>1. d \in missed'
          BY <2>1, <4>1, <4>4 DEF Watch!Unhandled, Created, Has
        <5>q. QED BY <4>1, <5>1 DEF Told
      <4>q. QED BY <4>3, <4>4
    <3>q. QED BY <2>6, <3>1, <3>2, <3>3, <3>4 DEF Told
  <2>7. f \in flicker \/ f \in fs' \ fs \/ (f \in fs /\ f \notin fs' /\ f \in Watch!Inputs)
    BY <2>1, <2>3 DEF Watch!Inputs
  <2>q. QED BY <2>2, <2>4, <2>5, <2>6, <2>7
<1>5. phase' = "running" /\ ~changed' => todo' = {}
  BY <1>1 DEF Noticed
<1>q. QED BY <1>2, <1>3, <1>4, <1>5 DEF Noticed

LEMMA TreeKeeps ==
    ASSUME Watch!WatchAssumption, WatchInv, Typed', Rooted', TreeMoves, Watch!Change(fs')
    PROVE  WatchInv'
BY CoveredByTree, NoticedByTree DEF WatchInv

(***************************************************************************)
(* A step of the guard keeps it, too.                                      *)
(***************************************************************************)
\* While nothing is noticed, the walk goes on only before the guard is ready.
LEMMA WalkStarts ==
    ASSUME Noticed, ~changed, todo # {}, Typed
    PROVE  phase = "starting" /\ flicker = {}
BY DEF Noticed, Typed, Watch!TypeOK

LEMMA WalkKeeps ==
    ASSUME WatchInv, todo # {}, UNCHANGED <<Watch!tree, queue, phase, Watch!history, ops>>,
           changed' \in {changed, TRUE}, watched' \subseteq Dirs \cap fs,
           todo' \subseteq {"enter", "list"} \X Dirs, Covered'
    PROVE  WatchInv'
<1>1. UNCHANGED <<fs, away, queue, phase, base, flicker, missed, ops>>
  BY DEF Watch!tree, Watch!history
<1>2. Typed'
  BY <1>1 DEF WatchInv, Typed, Watch!TypeOK, Watch!Input
<1>3. Rooted'
  BY <1>1 DEF WatchInv, Rooted
<1>4. Noticed'
  <2>1. CASE changed'
    BY <1>1, <2>1 DEF WatchInv, Noticed, Watch!Inputs, Watch!Input
  <2>2. CASE ~changed'
    <3>1. ~changed /\ Noticed /\ Typed
      <4>1. changed' = changed \/ changed' = TRUE
        OBVIOUS
      <4>q. QED BY <2>2, <4>1 DEF WatchInv
    <3>2. phase = "starting" /\ flicker = {}
      BY <3>1, WalkStarts
    <3>q. QED BY <1>1, <3>2 DEF Noticed
  <2>q. QED BY <2>1, <2>2
<1>q. QED BY <1>2, <1>3, <1>4 DEF WatchInv

LEMMA WalkFailsKeeps ==
    ASSUME WatchInv, todo # {}, UNCHANGED <<Watch!tree, queue, phase, Watch!history, ops>>, Watch!WalkFails
    PROVE  WatchInv'
<1>1. todo' = {} /\ changed' = TRUE /\ watched' = watched
  BY DEF Watch!WalkFails
<1>2. Covered'
  BY <1>1 DEF Covered
<1>q. QED BY <1>1, <1>2, WalkKeeps DEF WatchInv, Typed, Watch!TypeOK

LEMMA EnterKeeps ==
    ASSUME Watch!WatchAssumption, WatchInv, NEW d \in Dirs, Watch!Enter(d) PROVE WatchInv'
<1>1. /\ <<"enter", d>> \in todo /\ UNCHANGED <<Watch!tree, queue, phase, Watch!history, ops>>
      /\ fs' = fs /\ queue' = queue
  BY DEF Watch!Enter, Watch!tree
<1>2. Typed /\ Rooted /\ Covered /\ \A p \in Dirs : p \in Path
  BY PathsAre DEF WatchInv
<1>3. CASE ~Watch!Watches(d)
  <2>1. todo' = todo \ {<<"enter", d>>} /\ UNCHANGED <<watched, changed>>
    BY <1>3 DEF Watch!Enter
  <2>2. ASSUME ~changed', NEW x \in fs' \cap Dirs, Watch!Watches(x), x \notin watched'
        PROVE  \E e \in fs' \cap Dirs : Watch!IsPrefix(e, x) /\ Pending(e)'
    <3>1. PICK e \in fs \cap Dirs : Watch!IsPrefix(e, x) /\ Pending(e)
      BY <1>1, <1>2, <2>1, <2>2 DEF Covered
    <3>2. e # d
      BY <1>3, <2>2, <3>1, WatchesAbove
    <3>3. Pending(e)'
      BY <1>1, <2>1, <3>1, <3>2 DEF Pending, Created
    <3>q. QED BY <1>1, <3>1, <3>3
  <2>3. Covered'
    BY <2>2 DEF Covered, Watch!Watches
  <2>q. QED BY <1>1, <1>2, <2>1, <2>3, WalkKeeps DEF Typed, Watch!TypeOK
<1>4. CASE Watch!Watches(d) /\ d \notin fs
  BY <1>1, <1>4, WalkFailsKeeps DEF Watch!Enter
<1>5. CASE Watch!Watches(d) /\ d \in fs
  <2>1. /\ watched' = watched \cup {d} /\ changed' = changed
        /\ todo' = (todo \ {<<"enter", d>>}) \cup {<<"list", d>>}
    BY <1>5 DEF Watch!Enter
  <2>2. ASSUME ~changed', NEW x \in fs' \cap Dirs, Watch!Watches(x), x \notin watched'
        PROVE  \E e \in fs' \cap Dirs : Watch!IsPrefix(e, x) /\ Pending(e)'
    <3>1. PICK e \in fs \cap Dirs : Watch!IsPrefix(e, x) /\ Pending(e)
      BY <1>1, <1>2, <2>1, <2>2 DEF Covered
    <3>2. CASE e # d
      <4>1. Pending(e)'
        BY <1>1, <2>1, <3>1, <3>2 DEF Pending, Created
      <4>q. QED BY <1>1, <3>1, <4>1
    <3>3. CASE e = d
      <4>1. PICK c \in Path : Watch!IsPrefix(c, x) /\ c # Watch!Root /\ Watch!Parent(c) = d
        BY <1>2, <2>1, <2>2, <3>1, <3>3, ChildToward
      <4>2. c \in fs /\ c \in Dirs
        BY <1>1, <1>2, <4>1, AboveExists, AboveIsDirectory
      <4>3. Pending(c)'
        BY <2>1, <4>1 DEF Pending
      <4>q. QED BY <1>1, <4>1, <4>2, <4>3
    <3>q. QED BY <3>2, <3>3
  <2>3. Covered'
    BY <2>2 DEF Covered, Watch!Watches
  <2>4. watched' \subseteq Dirs \cap fs /\ todo' \subseteq {"enter", "list"} \X Dirs
    BY <1>2, <1>5, <2>1 DEF Typed, Watch!TypeOK
  <2>q. QED BY <1>1, <1>2, <2>1, <2>3, <2>4, WalkKeeps
<1>q. QED BY <1>3, <1>4, <1>5

LEMMA ListKeeps ==
    ASSUME Watch!WatchAssumption, WatchInv, NEW d \in Dirs, Watch!List(d) PROVE WatchInv'
<1>1. /\ <<"list", d>> \in todo /\ UNCHANGED <<Watch!tree, queue, phase, Watch!history, ops>>
      /\ fs' = fs /\ queue' = queue
  BY DEF Watch!List, Watch!tree
<1>2. Typed /\ Covered
  BY DEF WatchInv
<1>3. CASE d \notin fs
  BY <1>1, <1>3, WalkFailsKeeps DEF Watch!List
<1>4. CASE d \in fs
  <2>1. /\ UNCHANGED <<watched, changed>>
        /\ todo' = (todo \ {<<"list", d>>}) \cup
                   {<<"enter", c>> : c \in {c \in Dirs \cap fs : c # Watch!Root /\ Watch!Parent(c) = d}}
    BY <1>4 DEF Watch!List
  <2>2. ASSUME NEW e \in fs \cap Dirs, Pending(e) PROVE Pending(e)'
    <3>1. CASE e # Watch!Root /\ Watch!Parent(e) = d
      BY <2>1, <3>1 DEF Pending
    <3>2. CASE ~(e # Watch!Root /\ Watch!Parent(e) = d)
      BY <1>1, <2>1, <2>2, <3>2 DEF Pending, Created
    <3>q. QED BY <3>1, <3>2
  <2>3. Covered'
    BY <1>1, <1>2, <2>1, <2>2 DEF Covered, Watch!Watches
  <2>4. todo' \subseteq {"enter", "list"} \X Dirs
    BY <1>2, <2>1 DEF Typed, Watch!TypeOK
  <2>q. QED BY <1>1, <1>2, <2>1, <2>3, <2>4, WalkKeeps DEF Typed, Watch!TypeOK
<1>q. QED BY <1>3, <1>4

\* The guard is ready: what there is now is what the proof will see.
LEMMA ReadyKeeps ==
    ASSUME WatchInv, Watch!Ready PROVE WatchInv'
<1>1. /\ phase = "starting" /\ todo = {} /\ phase' = "running" /\ base' = Watch!Inputs
      /\ UNCHANGED <<fs, away, watched, queue, todo, changed, flicker, missed, ops>>
  BY DEF Watch!Ready, Watch!tree
<1>2. Typed'
  BY <1>1 DEF WatchInv, Typed, Watch!TypeOK, Watch!Inputs, Watch!Input
<1>3. Rooted' /\ Covered'
  BY <1>1 DEF WatchInv, Rooted, Covered, Pending, Created, Watch!Watches
<1>4. Noticed'
  <2>1. flicker = {}
    BY <1>1 DEF WatchInv, Noticed
  <2>q. QED BY <1>1, <2>1 DEF Noticed, Watch!Inputs, Watch!Input
<1>q. QED BY <1>2, <1>3, <1>4 DEF WatchInv

\* An event that notices nothing was about nothing that counts.
LEMMA HandleKeeps ==
    ASSUME Watch!WatchAssumption, WatchInv, Watch!HandleEvent PROVE WatchInv'
<1> DEFINE event == Head(queue)
<1>1. /\ phase = "running" /\ todo = {} /\ queue # <<>> /\ queue' = Tail(queue)
      /\ todo' = IF Watch!NewDirectory(event) THEN {<<"enter", event.path>>} ELSE {}
      /\ changed' = (changed \/ Watch!matches(Include, {}, event.path) \/ Watch!NewDirectory(event))
      /\ UNCHANGED <<fs, away, watched, phase, base, flicker, missed, ops>>
  BY DEF Watch!HandleEvent, Watch!tree, Watch!history
<1>2. Typed /\ Rooted /\ Covered /\ Noticed /\ queue \in Seq(Event)
  BY DEF WatchInv, Typed
<1>3. /\ event \in Event /\ queue' \in Seq(Event)
      /\ \A x : Has(queue, x) => x = event \/ Has(queue', x)
  <2>1. Len(queue) \in Nat /\ Len(queue) # 0 /\ DOMAIN queue = 1..Len(queue)
    BY <1>1, <1>2
  <2>2. event = queue[1] /\ event \in Event
    <3> HIDE DEF Event
    <3>q. QED BY <1>1, <1>2, <2>1
  <2>3. /\ queue' \in Seq(Event) /\ Len(queue') = Len(queue) - 1
        /\ \A i \in 1..(Len(queue) - 1) : queue'[i] = queue[i + 1]
    BY <1>1, <1>2
  <2>4. ASSUME NEW i \in 1..Len(queue), i # 1 PROVE Has(queue', queue[i])
    <3>1. i - 1 \in 1..(Len(queue) - 1) /\ i - 1 + 1 = i
      BY <2>1, <2>4
    <3>2. queue'[i - 1] = queue[i] /\ i - 1 \in DOMAIN queue'
      BY <2>3, <3>1
    <3>q. QED BY <3>2 DEF Has
  <2>q. QED BY <2>1, <2>2, <2>3, <2>4 DEF Has
<1> HIDE DEF event
<1>4. Typed'
  <2>1. todo' \subseteq {"enter", "list"} \X Dirs
    BY <1>1 DEF Watch!NewDirectory
  <2>2. \A i \in DOMAIN queue' : queue'[i].path \in (Dirs \cup Files) \ {Watch!Root}
    <3>1. \A x \in Event : x.path \in (Dirs \cup Files) \ {Watch!Root}
      BY DEF Event
    <3>2. \A i \in DOMAIN queue' : queue'[i] \in Event
      <4> HIDE DEF Event
      <4>q. QED BY <1>3
    <3>q. QED BY <3>1, <3>2
  <2>3. changed' \in BOOLEAN
    BY <1>1, <1>2 DEF Typed, Watch!TypeOK, Watch!matches, Watch!NewDirectory
  <2>q. QED BY <1>1, <1>2, <1>3, <2>1, <2>2, <2>3 DEF Typed, Watch!TypeOK, Watch!Input
<1>5. Rooted'
  BY <1>1, <1>2 DEF Rooted
<1>6. ASSUME ~changed', NEW d \in fs \cap Dirs, Watch!couldContain(Include, d), Created(d)
      PROVE  Created(d)'
  <2>1. ASSUME event = [op |-> "create", path |-> d] PROVE FALSE
    <3>1. event.op = "create" /\ event.path = d
      BY <2>1
    <3>2. Watch!NewDirectory(event)
      BY <1>6, <3>1 DEF Watch!NewDirectory
    <3>q. QED BY <1>1, <1>6, <3>2
  <2>q. QED BY <1>3, <1>6, <2>1 DEF Created
<1>7. Covered'
  <2>1. SUFFICES ASSUME ~changed', NEW d \in fs' \cap Dirs, Watch!Watches(d), d \notin watched'
                 PROVE  \E e \in fs' \cap Dirs : Watch!IsPrefix(e, d) /\ Pending(e)'
    BY DEF Covered, Watch!Watches
  <2>2. PICK e \in fs \cap Dirs : Watch!IsPrefix(e, d) /\ Pending(e)
    BY <1>1, <1>2, <2>1 DEF Covered
  <2>3. Created(e) /\ e # Watch!Root
    <3>1. Created(e)
      BY <1>1, <2>2 DEF Pending
    <3>2. ~Created(Watch!Root)
      <4>1. \A x \in Event : x.path # Watch!Root
        BY DEF Event
      <4>2. \A i \in DOMAIN queue : queue[i] \in Event
        <5> HIDE DEF Event
        <5>q. QED BY <1>2
      <4>q. QED BY <4>1, <4>2 DEF Created, Has
    <3>q. QED BY <3>1, <3>2
  <2>4. Watch!couldContain(Include, e)
    BY <2>1, <2>2, <2>3, WatchesAbove DEF Watch!Watches
  <2>5. Created(e)'
    BY <1>6, <2>1, <2>2, <2>3, <2>4
  <2>q. QED BY <1>1, <2>2, <2>5 DEF Pending
<1>8. Noticed'
  <2>1. phase' = "running" /\ Watch!Inputs' \subseteq base' \cup flicker'
    BY <1>1, <1>2 DEF Noticed, Watch!Inputs, Watch!Input
  <2>2. ASSUME ~changed' PROVE todo' = {}
    BY <1>1, <2>2
  <2>3. ASSUME ~changed', NEW f \in flicker' PROVE Told(f)'
    <3>1. Told(f) /\ Watch!Input(f) /\ f \in Files
      BY <1>1, <1>2, <2>3 DEF Noticed, Typed, Watch!Input
    <3>2. ASSUME NEW op \in {"create", "remove", "rename"}, Has(queue, [op |-> op, path |-> f])
          PROVE  Has(queue', [op |-> op, path |-> f])
      <4>1. ASSUME event = [op |-> op, path |-> f] PROVE FALSE
        <5>1. event.path = f
          BY <4>1
        <5>2. Watch!matches(Include, {}, event.path)
          BY <3>1, <5>1 DEF Watch!Input
        <5>q. QED BY <1>1, <2>3, <5>2
      <4>q. QED BY <1>3, <3>2, <4>1
    <3>3. ASSUME NEW d \in fs \cap Dirs, Watch!IsPrefix(d, f), Created(d) PROVE Created(d)'
      BY <1>6, <2>3, <3>1, <3>3, WatchesInput
    <3>q. QED BY <1>1, <3>1, <3>2, <3>3 DEF Told
  <2>q. QED BY <2>1, <2>2, <2>3 DEF Noticed
<1>q. QED BY <1>4, <1>5, <1>7, <1>8 DEF WatchInv

(***************************************************************************)
(* The theorems.                                                           *)
(***************************************************************************)
\* The directories above a set of files.
Above(F) == UNION {Watch!Prefixes(Watch!Parent(f)) : f \in F}

LEMMA WatchInit == ASSUME Watch!WatchAssumption PROVE Watch!Init => WatchInv
<1> SUFFICES ASSUME Watch!Init PROVE WatchInv
  OBVIOUS
<1>1. PICK F \in SUBSET Files : fs = F \cup {Watch!Root} \cup Above(F)
  BY DEF Watch!Init, Above
<1>2. /\ away = {} /\ watched = {} /\ queue = <<>> /\ phase = "starting"
      /\ todo = {<<"enter", Watch!Root>>} /\ changed = FALSE
      /\ base = {} /\ flicker = {} /\ missed = {} /\ ops = 0 /\ MaxOps \in Nat
  BY DEF Watch!Init, Watch!WatchAssumption
<1>3. Watch!Root \in Dirs /\ \A p \in Dirs \cup Files : p \in Path /\ Watch!Parent(p) \in Dirs
  BY PathsAre
<1>4. ASSUME NEW p \in Path, NEW e \in Watch!Prefixes(p)
      PROVE  /\ e \in Path /\ Watch!IsPrefix(e, p)
             /\ Watch!Parent(e) \in Watch!Prefixes(p)
  <2>1. e \in Path /\ Watch!IsPrefix(e, p)
    BY PrefixesAre
  <2>2. Watch!Parent(e) \in Path /\ Watch!IsPrefix(Watch!Parent(e), e)
    BY <2>1, ParentIs
  <2>q. QED BY <2>1, <2>2, PrefixTrans, PrefixesAre
<1>5. \A f \in F : Watch!Parent(f) \in Path /\ Watch!Parent(f) \in Dirs
  BY <1>3
<1>6. ASSUME NEW f \in F, NEW e \in Watch!Prefixes(Watch!Parent(f)) PROVE e \in Dirs /\ Watch!Parent(e) \in fs
  <2>1. e \in Dirs
    BY <1>4, <1>5, AboveIsDirectory
  <2>2. Watch!Parent(e) \in Watch!Prefixes(Watch!Parent(f))
    BY <1>4, <1>5
  <2>q. QED BY <1>1, <2>1, <2>2 DEF Above
<1>7. ASSUME NEW f \in F PROVE Watch!Parent(f) \in fs
  <2>1. Watch!Parent(f) \in Watch!Prefixes(Watch!Parent(f))
    <3>1. Len(Watch!Parent(f)) \in Nat /\ SubSeq(Watch!Parent(f), 1, Len(Watch!Parent(f))) = Watch!Parent(f)
      BY <1>5 DEF Path
    <3>2. Len(Watch!Parent(f)) \in 0..Len(Watch!Parent(f))
      BY <3>1
    <3>q. QED BY <3>1, <3>2 DEF Watch!Prefixes
  <2>q. QED BY <1>1, <2>1 DEF Above
<1>8. Watch!Parent(Watch!Root) = Watch!Root
  BY <1>3, ParentIs
<1>9. fs \subseteq Dirs \cup Files /\ Watch!Root \in fs /\ \A p \in fs : Watch!Parent(p) \in fs
  <2>1. Watch!Root \in fs
    BY <1>1
  <2>2. ASSUME NEW p \in fs PROVE p \in Dirs \cup Files /\ Watch!Parent(p) \in fs
    <3>1. CASE p \in F
      BY <1>7, <3>1
    <3>2. CASE p = Watch!Root
      BY <1>3, <1>8, <2>1, <3>2
    <3>3. CASE \E f \in F : p \in Watch!Prefixes(Watch!Parent(f))
      BY <1>6, <3>3
    <3>q. QED BY <1>1, <3>1, <3>2, <3>3 DEF Above
  <2>q. QED BY <2>1, <2>2
<1>10. Typed
  <2>1. DOMAIN queue = {} /\ queue \in Seq(Event)
    <3> HIDE DEF Event
    <3>q. QED BY <1>2
  <2>2. todo \subseteq {"enter", "list"} \X Dirs
    BY <1>2, <1>3
  <2>3. ops \in 0..MaxOps
    BY <1>2
  <2>q. QED BY <1>2, <1>9, <2>1, <2>2, <2>3 DEF Typed, Watch!TypeOK
<1>11. Rooted
  BY <1>2, <1>9 DEF Rooted
<1>12. Covered
  <2>1. SUFFICES ASSUME NEW d \in fs \cap Dirs
                 PROVE  \E e \in fs \cap Dirs : Watch!IsPrefix(e, d) /\ Pending(e)
    BY DEF Covered
  <2>2. Pending(Watch!Root)
    BY <1>2 DEF Pending
  <2>3. Watch!IsPrefix(Watch!Root, d)
    BY <1>3, PrefixIs DEF Watch!Root, Path
  <2>q. QED BY <1>3, <1>11, <2>2, <2>3 DEF Rooted
<1>13. Noticed
  BY <1>2 DEF Noticed
<1>q. QED BY <1>10, <1>11, <1>12, <1>13 DEF WatchInv

LEMMA WatchNext == ASSUME Watch!WatchAssumption PROVE WatchInv /\ [Watch!Next]_Watch!vars => WatchInv'
<1> SUFFICES ASSUME WatchInv, [Watch!Next]_Watch!vars PROVE WatchInv'
  OBVIOUS
<1>1. Typed /\ Rooted
  BY DEF WatchInv
<1>2. ASSUME NEW p \in Dirs \cup Files, p # Watch!Root, Watch!Create(p) PROVE WatchInv'
  <2>1. Watch!Change(fs')
    BY <1>2 DEF Watch!Create, Watch!Change
  <2>q. QED BY <1>1, <1>2, <2>1, TreeCreate, TreeKeeps
<1>3. ASSUME NEW f \in Files, Watch!RemoveFile(f) PROVE WatchInv'
  <2>1. Watch!Change(fs')
    BY <1>3 DEF Watch!RemoveFile, Watch!Change
  <2>q. QED BY <1>1, <1>3, <2>1, TreeRemoveFile, TreeKeeps
<1>4. ASSUME NEW d \in Dirs, Watch!RemoveDirectory(d) \/ Watch!MoveAway(d) \/ Watch!MoveBack(d) PROVE WatchInv'
  <2>1. Watch!Change(fs')
    BY <1>4 DEF Watch!RemoveDirectory, Watch!MoveAway, Watch!MoveBack, Watch!Change
  <2>q. QED BY <1>1, <1>4, <2>1, TreeRemoveDirectory, TreeMoveAway, TreeMoveBack, TreeKeeps
<1>5. CASE Watch!Guard
  BY <1>5, EnterKeeps, ListKeeps, ReadyKeeps, HandleKeeps DEF Watch!Guard
<1>6. CASE UNCHANGED Watch!vars
  BY <1>6 DEF Watch!vars, Watch!tree, Watch!history, WatchInv, Typed, Watch!TypeOK, Watch!Input, Rooted, Covered, Pending,
              Created, Watch!Watches, Noticed, Watch!Inputs, Told
<1>q. QED BY <1>2, <1>3, <1>4, <1>5, <1>6 DEF Watch!Next

LEMMA WatchSound == WatchInv => Watch!TypeOK /\ Watch!GuardSound
<1> SUFFICES ASSUME WatchInv PROVE Watch!TypeOK /\ Watch!GuardSound
  OBVIOUS
<1>1. Watch!TypeOK
  BY DEF WatchInv, Typed
<1>2. ASSUME phase = "running", queue = <<>>, todo = {}, ~changed, NEW f \in flicker
      PROVE  f \in base \ fs \/ \E d \in missed : Watch!IsPrefix(d, f)
  <2>1. Told(f)
    BY <1>2 DEF WatchInv, Noticed
  <2>2. \A event : ~Has(queue, event)
    BY <1>2 DEF Has
  <2>q. QED BY <2>1, <2>2 DEF Told, Created
<1>q. QED BY <1>1, <1>2 DEF Watch!GuardSound

\* Every variable of the guard and its tree keeps its type.
THEOREM WatchTyped == ASSUME Watch!WatchAssumption PROVE Watch!Spec => []Watch!TypeOK
<1>q. QED BY WatchInit, WatchNext, WatchSound, PTL DEF Watch!Spec

\* Once the guard has handled all it was told and says nothing changed, every
\* input that came or went since the first proof is one the second proof misses, or
\* lay in a directory that was gone again before the guard looked at it.
THEOREM GuardIsSound == ASSUME Watch!WatchAssumption PROVE Watch!Spec => []Watch!GuardSound
<1>q. QED BY WatchInit, WatchNext, WatchSound, PTL DEF Watch!Spec

WatchPart == part = "watch" => WatchInv

LEMMA WatchPartHolds == PartsSpec => []WatchPart
<1>1. Watch!WatchAssumption
  BY ComponentsAssumption
<1>2. PartsInit => WatchPart
  BY <1>1, PartStarts, WatchInit DEF WatchPart
<1>3. WatchPart /\ [PartsNext]_<<part, partVars>> => WatchPart'
  BY <1>1, PartSteps, WatchNext DEF WatchPart
<1>q. QED BY <1>2, <1>3, PTL DEF PartsSpec

\* In every behaviour, what the guard does not report did not happen, as
\* GreenWatch says it.
THEOREM PartsGuardSound == PartsSpec => []GuardSound
<1>1. WatchPart => GuardSound
  BY WatchSound DEF WatchPart, GuardSound
<1>q. QED BY <1>1, WatchPartHolds, PTL

(***************************************************************************)
(* The walks.  They look at every path they are open to; the proof walk is *)
(* open to every input, the guard's to what the proof walk enters, and the *)
(* monitor's to what the guard's does.                                     *)
(***************************************************************************)
LEMMA SamePaths ==
    /\ \A s, t : Inputs!IsPrefix(s, t) <=> Watch!IsPrefix(s, t)
    /\ \A p : Inputs!Parent(p) = Watch!Parent(p) /\ Inputs!Prefixes(p) = Watch!Prefixes(p)
    /\ \A pattern, p : Inputs!Match(pattern, p) <=> Watch!Match(pattern, p)
    /\ \A pattern : Inputs!IsPattern(pattern) <=> Watch!IsPattern(pattern)
    /\ \A include, exclude, p :
           Inputs!matches(include, exclude, p) <=> Watch!matches(include, exclude, p)
    /\ \A include, d : Inputs!couldContain(include, d) <=> Watch!couldContain(include, d)
    /\ Path = Seq(STRING) /\ Watch!Root = <<>>
<1>1. \A s, t : Inputs!IsPrefix(s, t) <=> Watch!IsPrefix(s, t)
  BY DEF Inputs!IsPrefix, Watch!IsPrefix
<1>2. \A p : Inputs!Parent(p) = Watch!Parent(p) /\ Inputs!Prefixes(p) = Watch!Prefixes(p)
  BY DEF Inputs!Parent, Watch!Parent, Inputs!Front, Watch!Front, Inputs!Prefixes,
     Watch!Prefixes
<1>3. \A pattern, p : Inputs!Match(pattern, p) <=> Watch!Match(pattern, p)
  BY DEF Inputs!Match, Watch!Match
<1>4. \A pattern : Inputs!IsPattern(pattern) <=> Watch!IsPattern(pattern)
  BY DEF Inputs!IsPattern, Watch!IsPattern
<1>5. \A include, exclude, p :
          Inputs!matches(include, exclude, p) <=> Watch!matches(include, exclude, p)
  BY <1>3 DEF Inputs!matches, Watch!matches
<1>6. \A pattern : Inputs!literalPatternPrefix(pattern) = Watch!literalPatternPrefix(pattern)
  BY DEF Inputs!literalPatternPrefix, Watch!literalPatternPrefix
<1>7. \A include, d : Inputs!couldContain(include, d) <=> Watch!couldContain(include, d)
  BY <1>1, <1>6 DEF Inputs!couldContain, Watch!couldContain
<1>q. QED BY <1>1, <1>2, <1>3, <1>4, <1>5, <1>7 DEF Path, Watch!Root

LEMMA RootIsPrefix == ASSUME NEW p \in Path PROVE <<>> \in Path /\ Inputs!IsPrefix(<<>>, p)
<1>1. <<>> \in Seq(STRING) /\ Len(<<>>) = 0
  OBVIOUS
<1>2. Len(p) \in Nat
  BY DEF Path
<1>3. 0 <= Len(p) /\ \A i \in 1..0 : <<>>[i] = p[i]
  BY <1>2
<1>q. QED BY <1>1, <1>3, SamePaths, PrefixIs DEF Path

\* What a walk may come to: the files and the directories they lie in.
Entry == files \cup Inputs!Directories

LEMMA EntriesAre ==
    ASSUME Inputs!InputsAssumption, files \in Trees
    PROVE  /\ Entry \subseteq Path /\ <<>> \in Inputs!Directories
           /\ \A x \in Entry, e \in Path :
                Inputs!IsPrefix(e, x) => e \in Entry /\ (e # x => e \in Inputs!Directories)
<1>1. /\ files \subseteq Path /\ <<>> \notin files /\ files # {}
      /\ \A f, g \in files : Inputs!IsPrefix(f, g) => f = g
  BY DEF Inputs!InputsAssumption, Path
<1>2. \A p \in Path : \A e : e \in Inputs!Prefixes(p) <=> e \in Path /\ Inputs!IsPrefix(e, p)
  BY SamePaths, PrefixesAre DEF Path
<1>3. ASSUME NEW x \in Entry PROVE x \in Path /\ \E f \in files : Inputs!IsPrefix(x, f)
  <2>1. CASE x \in files
    <3>1. Inputs!IsPrefix(x, x)
      BY <1>1, <2>1, SamePaths, PrefixIs DEF Path
    <3>q. QED BY <1>1, <2>1, <3>1
  <2>2. CASE x \in Inputs!Directories
    BY <1>1, <1>2, <2>2 DEF Inputs!Directories
  <2>q. QED BY <2>1, <2>2 DEF Entry
<1>4. ASSUME NEW x \in Entry, NEW e \in Path, Inputs!IsPrefix(e, x)
      PROVE  e \in Entry /\ (e # x => e \in Inputs!Directories)
  <2>1. PICK f \in files : Inputs!IsPrefix(x, f)
    BY <1>3
  <2>2. f \in Path /\ x \in Path
    BY <1>1, <1>3
  <2>3. Inputs!IsPrefix(e, f)
    BY <1>4, <2>1, <2>2, SamePaths, PrefixTrans DEF Path
  <2>4. e \in Inputs!Prefixes(f)
    BY <1>2, <2>2, <2>3
  <2>5. ASSUME e \in files PROVE e = x
    <3>1. e = f
      BY <1>1, <2>3, <2>5
    <3>q. QED BY <1>4, <2>1, <2>2, <3>1, SamePaths, PrefixAntisymmetric DEF Path
  <2>q. QED BY <2>4, <2>5 DEF Entry, Inputs!Directories
<1>5. <<>> \in Inputs!Directories
  <2>1. PICK f \in files : TRUE
    BY <1>1
  <2>2. <<>> \in Path /\ Inputs!IsPrefix(<<>>, f)
    BY <1>1, RootIsPrefix
  <2>3. <<>> \in Inputs!Prefixes(f)
    BY <1>1, <1>2, <2>2
  <2>q. QED BY <1>1, <2>3 DEF Inputs!Directories
<1>q. QED BY <1>3, <1>4, <1>5

Listed(f) == Inputs!matches(Inputs!Mine.include, Inputs!Mine.exclude, f)

Enters(w, d) ==
    /\ w = "proof" => Inputs!ProofEnters(d)
    /\ w = "guard" => Inputs!GuardRelevant(d)
    /\ w = "monitor" => Inputs!MonitorRelevant(d)

\* The walk enters every directory above x.
Open(w, x) == \A d \in Inputs!Directories : Inputs!IsPrefix(d, x) /\ d # x => Enters(w, d)

\* The walk has done with x what it does.
Looked(w, x) ==
    /\ w = "proof" /\ x \in files /\ Listed(x) => x \in entries
    /\ w # "proof" /\ x \in Inputs!Directories /\ Enters(w, x) => x \in watched[w]

WalkTyped ==
    /\ Inputs!TypeOK
    /\ todo \in [Inputs!Walks -> SUBSET Entry]
    /\ watched \in [{"guard", "monitor"} -> SUBSET Inputs!Directories]

WalkInv ==
    /\ WalkTyped
    /\ \A w \in Inputs!Walks : \A e \in todo[w] : Open(w, e)
    /\ \A w \in Inputs!Walks : \A x \in Entry :
           Open(w, x) => Looked(w, x) \/ \E e \in todo[w] : Inputs!IsPrefix(e, x)
    /\ \A f \in entries : Open("proof", f) /\ Listed(f)
    /\ \A d \in watched["guard"] : Open("guard", d) /\ Enters("guard", d)

LEMMA WalkInit == ASSUME Inputs!InputsAssumption, Inputs!Init PROVE WalkInv
<1>1. /\ files \in Trees /\ checks \in Patterns \X Patterns /\ entries = {}
      /\ todo = [w \in Inputs!Walks |-> {<<>>}]
      /\ watched = [w \in {"guard", "monitor"} |-> {}]
  BY DEF Inputs!Init
<1>2. /\ Entry \subseteq Path /\ <<>> \in Entry /\ <<>> \in Path
      /\ \A x \in Path : Inputs!IsPrefix(<<>>, x)
      /\ \A x \in Path : Inputs!IsPrefix(x, <<>>) => x = <<>>
  <2>1. <<>> \in Path
    BY DEF Path
  <2>2. ASSUME NEW x \in Path
        PROVE  Inputs!IsPrefix(<<>>, x) /\ (Inputs!IsPrefix(x, <<>>) => x = <<>>)
    <3>1. Inputs!IsPrefix(<<>>, x)
      BY RootIsPrefix
    <3>q. QED BY <2>1, <3>1, SamePaths, PrefixAntisymmetric DEF Path
  <2>q. QED BY <1>1, <2>1, <2>2, EntriesAre DEF Entry
<1>3. WalkTyped
  BY <1>1, <1>2 DEF WalkTyped, Inputs!TypeOK, Entry, Inputs!Walks
<1>4. \A w \in Inputs!Walks : Open(w, <<>>)
  BY <1>2 DEF Open, Entry
<1>q. QED BY <1>1, <1>2, <1>3, <1>4 DEF WalkInv

\* The walks leave the repository and the checks as they are.
LEMMA SameTree ==
    ASSUME UNCHANGED <<files, checks>>
    PROVE  /\ Entry' = Entry /\ Inputs!Directories' = Inputs!Directories
           /\ \A v, x : (Open(v, x)' <=> Open(v, x)) /\ (Enters(v, x)' <=> Enters(v, x))
           /\ \A x : Listed(x)' <=> Listed(x)
<1>1. Inputs!Directories' = Inputs!Directories /\ Inputs!Mine' = Inputs!Mine
  BY DEF Inputs!Directories, Inputs!Mine
<1>2. \A v, x : Enters(v, x)' <=> Enters(v, x)
  BY <1>1 DEF Enters, Inputs!ProofEnters, Inputs!GuardRelevant, Inputs!MonitorRelevant
<1>3. \A v, x : Open(v, x)' <=> Open(v, x)
  BY <1>1, <1>2 DEF Open
<1>4. \A x : Listed(x)' <=> Listed(x)
  BY <1>1 DEF Listed
<1>q. QED BY <1>1, <1>2, <1>3, <1>4 DEF Entry

\* A walk takes an entry off its list, and puts the directory's children on it if
\* it enters the directory.
LEMMA WalkStep ==
    ASSUME Inputs!InputsAssumption, WalkInv, UNCHANGED <<files, checks>>, WalkTyped',
           NEW w \in Inputs!Walks, NEW e \in todo[w], NEW more,
           Inputs!Visit(w, e, more), more \subseteq Inputs!Children(e),
           more # {} => Enters(w, e),
           e \in Inputs!Directories /\ Enters(w, e) => more = Inputs!Children(e),
           Looked(w, e)', entries \subseteq entries',
           \A v \in {"guard", "monitor"} : watched[v] \subseteq watched'[v]
    PROVE  /\ \A v \in Inputs!Walks : \A d \in todo'[v] : Open(v, d)'
           /\ \A v \in Inputs!Walks : \A x \in Entry' :
                  Open(v, x)' => Looked(v, x)' \/ \E d \in todo'[v] : Inputs!IsPrefix(d, x)
<1>1. /\ Entry' = Entry /\ Inputs!Directories' = Inputs!Directories
      /\ \A v, x : Open(v, x)' <=> Open(v, x)
      /\ \A v \in Inputs!Walks : \A x : Looked(v, x) => Looked(v, x)'
  <2>1. ASSUME NEW v \in Inputs!Walks, NEW x, Looked(v, x) PROVE Looked(v, x)'
    BY <2>1, SameTree DEF Looked, Inputs!Walks
  <2>q. QED BY <2>1, SameTree
<1>2. /\ Entry \subseteq Path /\ todo \in [Inputs!Walks -> SUBSET Entry] /\ e \in Entry /\ e \in Path
      /\ files \in Trees /\ Open(w, e)
  BY EntriesAre DEF WalkInv, WalkTyped, Inputs!TypeOK
<1>3. /\ todo'[w] = (todo[w] \ {e}) \cup more
      /\ \A v \in Inputs!Walks : v # w => todo'[v] = todo[v]
  BY <1>2 DEF Inputs!Visit
<1>4. ASSUME NEW c \in more PROVE Open(w, c)
  <2>1. c \in Entry /\ c # <<>> /\ Inputs!Parent(c) = e /\ Enters(w, e)
    BY <1>4 DEF Inputs!Children, Entry
  <2>2. ASSUME NEW d \in Inputs!Directories, Inputs!IsPrefix(d, c), d # c PROVE Enters(w, d)
    <3>1. d \in Path /\ c \in Path
      BY <1>2, <2>1 DEF Entry
    <3>2. Inputs!IsPrefix(d, e)
      BY <2>1, <2>2, <3>1, SamePaths, PrefixOfParent DEF Path
    <3>q. QED BY <1>2, <2>1, <2>2, <3>2 DEF Open
  <2>q. QED BY <2>2 DEF Open
<1>5. ASSUME NEW v \in Inputs!Walks, NEW d \in todo'[v] PROVE Open(v, d)'
  <2>1. d \in todo[v] \/ (v = w /\ d \in more)
    BY <1>3, <1>5
  <2>q. QED BY <1>1, <1>4, <2>1 DEF WalkInv
<1>6. ASSUME NEW v \in Inputs!Walks, NEW x \in Entry', Open(v, x)'
      PROVE  Looked(v, x)' \/ \E d \in todo'[v] : Inputs!IsPrefix(d, x)
  <2>1. x \in Entry /\ Open(v, x)
    BY <1>1, <1>6
  <2>2. CASE Looked(v, x)
    BY <1>1, <2>2
  <2>3. ASSUME NEW d \in todo[v], Inputs!IsPrefix(d, x), v # w \/ d # e
        PROVE  \E d1 \in todo'[v] : Inputs!IsPrefix(d1, x)
    BY <1>3, <2>3
  <2>4. ASSUME v = w, Inputs!IsPrefix(e, x), e # x
        PROVE  \E d \in todo'[v] : Inputs!IsPrefix(d, x)
    <3>1. e \in Inputs!Directories /\ Enters(w, e)
      BY <1>2, <2>1, <2>4, EntriesAre DEF Open
    <3>2. PICK c \in Path : Inputs!IsPrefix(c, x) /\ c # <<>> /\ Inputs!Parent(c) = e
      BY <1>2, <2>1, <2>4, SamePaths, ChildToward DEF Path
    <3>3. c \in more
      BY <1>2, <2>1, <3>1, <3>2, EntriesAre DEF Inputs!Children, Entry
    <3>q. QED BY <1>3, <2>4, <3>2, <3>3
  <2>5. CASE v = w /\ e = x
    BY <2>5
  <2>q. QED BY <2>1, <2>2, <2>3, <2>4, <2>5 DEF WalkInv
<1>q. QED BY <1>5, <1>6

\* A step of the guard's walk, or of the monitor's.
LEMMA WalkWatches ==
    ASSUME Inputs!InputsAssumption, WalkInv, NEW w \in {"guard", "monitor"}, NEW e \in todo[w],
           NEW relevant, relevant <=> Enters(w, e), Inputs!WatchEntry(w, relevant, e)
    PROVE  WalkInv'
<1>1. /\ UNCHANGED <<files, checks>> /\ entries' = entries /\ w \in Inputs!Walks
      /\ todo \in [Inputs!Walks -> SUBSET Entry] /\ e \in Entry /\ Open(w, e)
      /\ watched \in [{"guard", "monitor"} -> SUBSET Inputs!Directories]
      /\ Inputs!TypeOK
  BY DEF WalkInv, WalkTyped, Inputs!WatchEntry, Inputs!Walks
<1> DEFINE enters == e \in Inputs!Directories /\ Enters(w, e)
           more == IF enters THEN Inputs!Children(e) ELSE {}
<1>2. /\ Inputs!Visit(w, e, more)
      /\ watched' = IF enters THEN [watched EXCEPT ![w] = @ \cup {e}] ELSE watched
  BY <1>1 DEF Inputs!WatchEntry, Entry, Inputs!Directories
<1>3. more \subseteq Inputs!Children(e) /\ more \subseteq Entry
  BY DEF Inputs!Children, Entry
<1>4. /\ more # {} => Enters(w, e)
      /\ e \in Inputs!Directories /\ Enters(w, e) => more = Inputs!Children(e)
  OBVIOUS
<1>5. \A v \in {"guard", "monitor"} : watched[v] \subseteq watched'[v]
  BY <1>1, <1>2
<1>6. watched' \in [{"guard", "monitor"} -> SUBSET Inputs!Directories]
  BY <1>1, <1>2
<1>7. todo' \in [Inputs!Walks -> SUBSET Entry]
  <2> HIDE DEF more
  <2>q. QED BY <1>1, <1>2, <1>3 DEF Inputs!Visit
<1>8. WalkTyped'
  <2>1. Inputs!TypeOK'
    BY <1>1, <1>6, <1>7, SameTree DEF Inputs!TypeOK, Entry
  <2>q. QED BY <1>1, <1>6, <1>7, <2>1, SameTree DEF WalkTyped, Inputs!Walks
<1>9. Looked(w, e)'
  <2>1. w # "proof"
    OBVIOUS
  <2>2. enters => e \in watched'[w]
    BY <1>1, <1>2
  <2>q. QED BY <1>1, <2>1, <2>2, SameTree DEF Looked
<1>10. /\ \A v \in Inputs!Walks : \A d \in todo'[v] : Open(v, d)'
       /\ \A v \in Inputs!Walks : \A x \in Entry' :
              Open(v, x)' => Looked(v, x)' \/ \E d \in todo'[v] : Inputs!IsPrefix(d, x)
  <2> HIDE DEF more
  <2>q. QED BY <1>1, <1>2, <1>3, <1>4, <1>5, <1>8, <1>9, WalkStep
<1>11. \A f \in entries' : Open("proof", f)' /\ Listed(f)'
  BY <1>1, SameTree DEF WalkInv
<1>12. \A d \in watched'["guard"] : Open("guard", d)' /\ Enters("guard", d)'
  <2>1. ASSUME NEW d \in watched'["guard"] PROVE Open("guard", d) /\ Enters("guard", d)
    <3>1. CASE d \in watched["guard"]
      BY <3>1 DEF WalkInv
    <3>2. CASE d \notin watched["guard"]
      <4>1. w = "guard" /\ d = e /\ enters
        BY <1>1, <1>2, <2>1, <3>2
      <4>q. QED BY <1>1, <4>1
    <3>q. QED BY <3>1, <3>2
  <2>q. QED BY <1>1, <2>1, SameTree
<1>q. QED BY <1>8, <1>10, <1>11, <1>12 DEF WalkInv

\* A step of the proof walk.
LEMMA WalkProves ==
    ASSUME Inputs!InputsAssumption, WalkInv, NEW e \in todo["proof"],
           Inputs!ProofFile(e) \/ Inputs!ProofDirectory(e)
    PROVE  WalkInv'
<1>1. /\ UNCHANGED <<files, checks>> /\ watched' = watched /\ "proof" \in Inputs!Walks
      /\ todo \in [Inputs!Walks -> SUBSET Entry] /\ e \in Entry /\ Open("proof", e)
      /\ watched \in [{"guard", "monitor"} -> SUBSET Inputs!Directories]
      /\ Inputs!TypeOK
  BY DEF WalkInv, WalkTyped, Inputs!ProofFile, Inputs!ProofDirectory, Inputs!Walks
<1>2. Enters("proof", e) <=> Inputs!ProofEnters(e)
  BY DEF Enters
<1> DEFINE enters == e \in Inputs!Directories /\ Enters("proof", e)
           more == IF enters THEN Inputs!Children(e) ELSE {}
<1>3. /\ Inputs!Visit("proof", e, more)
      /\ entries' = IF e \in files /\ Listed(e) THEN entries \cup {e} ELSE entries
  <2>1. CASE Inputs!ProofFile(e)
    BY <2>1 DEF Inputs!ProofFile, Inputs!Directories, Listed
  <2>2. CASE Inputs!ProofDirectory(e)
    BY <1>1, <1>2, <2>2 DEF Inputs!ProofDirectory, Inputs!Directories, Entry
  <2>q. QED BY <2>1, <2>2
<1>4. more \subseteq Inputs!Children(e) /\ more \subseteq Entry
  BY DEF Inputs!Children, Entry
<1>5. /\ more # {} => Enters("proof", e)
      /\ e \in Inputs!Directories /\ Enters("proof", e) => more = Inputs!Children(e)
  OBVIOUS
<1>6. todo' \in [Inputs!Walks -> SUBSET Entry]
  <2> HIDE DEF more
  <2>q. QED BY <1>1, <1>3, <1>4 DEF Inputs!Visit
<1>7. WalkTyped'
  <2>1. entries' \subseteq files
    BY <1>1, <1>3 DEF Inputs!TypeOK
  <2>2. Inputs!TypeOK'
    BY <1>1, <1>6, <2>1, SameTree DEF Inputs!TypeOK, Entry
  <2>q. QED BY <1>1, <1>6, <2>2, SameTree DEF WalkTyped, Inputs!Walks
<1>8. Looked("proof", e)'
  BY <1>1, <1>3, SameTree DEF Looked
<1>9. entries \subseteq entries' /\ \A v \in {"guard", "monitor"} : watched[v] \subseteq watched'[v]
  BY <1>1, <1>3
<1>10. /\ \A v \in Inputs!Walks : \A d \in todo'[v] : Open(v, d)'
       /\ \A v \in Inputs!Walks : \A x \in Entry' :
              Open(v, x)' => Looked(v, x)' \/ \E d \in todo'[v] : Inputs!IsPrefix(d, x)
  <2> HIDE DEF more
  <2>q. QED BY <1>1, <1>3, <1>4, <1>5, <1>7, <1>8, <1>9, WalkStep
<1>11. \A f \in entries' : Open("proof", f)' /\ Listed(f)'
  <2>1. \A f \in entries : Open("proof", f) /\ Listed(f)
    BY DEF WalkInv
  <2>q. QED BY <1>1, <1>3, <2>1, SameTree
<1>12. \A d \in watched'["guard"] : Open("guard", d)' /\ Enters("guard", d)'
  BY <1>1, SameTree DEF WalkInv
<1>q. QED BY <1>7, <1>10, <1>11, <1>12 DEF WalkInv

LEMMA WalkNext ==
    ASSUME Inputs!InputsAssumption, WalkInv, [Inputs!Next]_Inputs!vars PROVE WalkInv'
<1>1. CASE \E e \in todo["monitor"] : Inputs!WatchEntry("monitor", Inputs!MonitorRelevant(e), e)
  <2>1. PICK e \in todo["monitor"] : Inputs!WatchEntry("monitor", Inputs!MonitorRelevant(e), e)
    BY <1>1
  <2>2. Inputs!MonitorRelevant(e) <=> Enters("monitor", e)
    BY DEF Enters
  <2>q. QED BY <2>1, <2>2, WalkWatches
<1>2. CASE \E e \in todo["guard"] : Inputs!WatchEntry("guard", Inputs!GuardRelevant(e), e)
  <2>1. PICK e \in todo["guard"] : Inputs!WatchEntry("guard", Inputs!GuardRelevant(e), e)
    BY <1>2
  <2>2. Inputs!GuardRelevant(e) <=> Enters("guard", e)
    BY DEF Enters
  <2>q. QED BY <2>1, <2>2, WalkWatches
<1>3. CASE \E e \in todo["proof"] : Inputs!ProofFile(e) \/ Inputs!ProofDirectory(e)
  BY <1>3, WalkProves
<1>4. CASE UNCHANGED Inputs!vars
  <2>1. /\ UNCHANGED <<files, checks>> /\ todo' = todo /\ entries' = entries /\ watched' = watched
    BY <1>4 DEF Inputs!vars
  <2>2. \A v, x : Looked(v, x)' <=> Looked(v, x)
    BY <2>1, SameTree DEF Looked
  <2>3. WalkTyped'
    BY <2>1, SameTree DEF WalkInv, WalkTyped, Inputs!TypeOK, Inputs!Walks
  <2>q. QED BY <2>1, <2>2, <2>3, SameTree DEF WalkInv, Inputs!Walks
<1>q. QED BY <1>1, <1>2, <1>3, <1>4 DEF Inputs!Next

\* Where the proof walk goes the guard goes, and where the guard goes the monitor.
LEMMA EntersLess ==
    ASSUME NEW d
    PROVE  /\ Enters("proof", d) => Enters("guard", d)
           /\ Enters("guard", d) => Enters("monitor", d)
BY DEF Enters, Inputs!ProofEnters, Inputs!GuardRelevant, Inputs!MonitorRelevant, Inputs!Relevant,
   Inputs!Mine

LEMMA WalkWatched == ASSUME Inputs!InputsAssumption, WalkInv PROVE Inputs!ProofWatched
<1> SUFFICES ASSUME Inputs!Done
             PROVE  /\ \A f \in entries : Inputs!Parent(f) \in watched["guard"]
                    /\ watched["guard"] \subseteq watched["monitor"]
  BY DEF Inputs!ProofWatched
<1>1. /\ files \in Trees /\ files \subseteq Path /\ <<>> \notin files /\ entries \subseteq files
      /\ watched["guard"] \subseteq Inputs!Directories
      /\ Inputs!Directories \subseteq Entry /\ Entry \subseteq Path
  BY EntriesAre DEF WalkInv, WalkTyped, Inputs!TypeOK, Inputs!InputsAssumption, Path, Entry
<1>2. \A w \in {"guard", "monitor"} : \A d \in Inputs!Directories :
         Open(w, d) /\ Enters(w, d) => d \in watched[w]
  BY <1>1 DEF WalkInv, Looked, Inputs!Done, Inputs!Walks
<1>3. ASSUME NEW f \in entries PROVE Inputs!Parent(f) \in watched["guard"]
  <2> DEFINE d == Inputs!Parent(f)
  <2>1. f \in Path /\ f # <<>> /\ f \in Entry /\ f \in files /\ Open("proof", f)
    BY <1>1 DEF WalkInv, Entry
  <2>2. d \in Path /\ Inputs!IsPrefix(d, f) /\ d # f
    <3>1. Len(f) \in Nat /\ Len(d) = Len(f) - 1
      BY <2>1, SamePaths, ParentIs DEF Path
    <3>2. d # f
      BY <3>1
    <3>q. QED BY <2>1, <3>2, SamePaths, ParentIs DEF Path
  <2> HIDE DEF d
  <2>3. d \in Inputs!Directories
    BY <1>1, <2>1, <2>2, EntriesAre
  <2>4. Enters("guard", d)
    <3>1. Enters("proof", d)
      BY <2>1, <2>2, <2>3 DEF Open
    <3>q. QED BY <3>1, EntersLess
  <2>5. ASSUME NEW e \in Inputs!Directories, Inputs!IsPrefix(e, d), e # d PROVE Enters("guard", e)
    <3>1. e \in Path /\ Inputs!IsPrefix(e, f)
      BY <1>1, <2>1, <2>2, <2>5, SamePaths, PrefixTrans DEF Path
    <3>2. e # f
      BY <2>1 DEF Inputs!Directories
    <3>3. Enters("proof", e)
      BY <2>1, <2>5, <3>1, <3>2 DEF Open
    <3>q. QED BY <3>3, EntersLess
  <2>6. Open("guard", d)
    BY <2>5 DEF Open
  <2>q. QED BY <1>2, <2>3, <2>4, <2>6 DEF d
<1>4. ASSUME NEW d \in watched["guard"] PROVE d \in watched["monitor"]
  <2>1. d \in Inputs!Directories /\ Open("guard", d) /\ Enters("guard", d)
    BY <1>1 DEF WalkInv
  <2>2. Open("monitor", d) /\ Enters("monitor", d)
    BY <2>1, EntersLess DEF Open
  <2>q. QED BY <1>2, <2>1, <2>2
<1>q. QED BY <1>3, <1>4

\* What is pruned has nothing a check lists, where excludes mean whole subtrees.
LEMMA NothingPruned ==
    ASSUME Inputs!InputsAssumption, Inputs!WholeSubtrees, files \in Trees,
           checks \in Patterns \X Patterns, NEW f \in files, Listed(f),
           NEW d \in Path, Inputs!IsPrefix(d, f), d # f, d # <<>>
    PROVE  ~Inputs!excludesSubtree(Inputs!Mine.exclude, d)
<1>1. /\ f \in Path /\ Inputs!Mine \in Patterns
      /\ \A p \in Inputs!Mine.exclude : Inputs!IsPattern(p) /\ ~Inputs!Match(p, f)
  BY DEF Inputs!InputsAssumption, Path, Inputs!Mine, Listed, Inputs!matches
<1>2. /\ Len(d) \in Nat /\ Len(f) \in Nat /\ Len(d) <= Len(f)
      /\ \A j \in 1..Len(d) : d[j] = f[j]
  BY <1>1, SamePaths, PrefixIs DEF Path
<1>3. Len(d) < Len(f)
  <2>1. SUFFICES ASSUME Len(d) = Len(f) PROVE d = f
    BY <1>2
  <2>q. QED BY <1>1, <1>2, <2>1 DEF Path
<1>4. ASSUME NEW p \in Inputs!Mine.exclude,
             Inputs!Match(p, d) \/ Inputs!Match(p, Append(d, Inputs!Probe))
      PROVE  FALSE
  <2>1. CASE Inputs!PrunesNothing(p)
    <3>1. d \in Inputs!Prefixes(f) \ {<<>>, f}
      BY <1>1, SamePaths, PrefixesAre DEF Path
    <3>2. ~Inputs!excludesSubtree({p}, d)
      BY <2>1, <3>1 DEF Inputs!PrunesNothing
    <3>q. QED BY <1>4, <3>2 DEF Inputs!excludesSubtree
  <2>2. CASE Inputs!PrunesWhole(p)
    <3>1. p # <<>> /\ p[Len(p)].kind = "deep" /\ Inputs!IsPattern(p)
      BY <1>1, <2>2 DEF Inputs!PrunesWhole
    <3>2. PICK a \in {d, Append(d, Inputs!Probe)} : Inputs!Match(p, a)
      BY <1>4
    <3>3. /\ a \in Path /\ Len(a) \in Nat /\ Len(a) <= Len(f)
          /\ \A j \in 1..Len(a) : a[j] = f[j] \/ a[j] = Inputs!Probe
      <4>1. d \in Seq(STRING) /\ Inputs!Probe \in STRING
        BY DEF Path, Inputs!InputsAssumption
      <4>2. /\ Append(d, Inputs!Probe) \in Seq(STRING)
            /\ Len(Append(d, Inputs!Probe)) = Len(d) + 1
            /\ \A j \in 1..Len(d) : Append(d, Inputs!Probe)[j] = d[j]
            /\ Append(d, Inputs!Probe)[Len(d) + 1] = Inputs!Probe
        BY <4>1
      <4>3. CASE a = d
        BY <1>2, <1>3, <4>1, <4>3 DEF Path
      <4>4. CASE a = Append(d, Inputs!Probe)
        <5>1. a \in Path /\ Len(a) = Len(d) + 1
          BY <4>2, <4>4 DEF Path
        <5>2. \A j \in 1..Len(a) : j \in 1..Len(d) \/ j = Len(d) + 1
          BY <1>2, <5>1
        <5>q. QED BY <1>2, <1>3, <4>2, <4>4, <5>1, <5>2
      <4>q. QED BY <3>2, <4>3, <4>4
    <3>4. ASSUME NEW i \in DOMAIN p, NEW j \in 1..Len(a), a[j] \in p[i].names
          PROVE  f[j] \in p[i].names
      <4>1. CASE a[j] = f[j]
        BY <3>4, <4>1
      <4>2. CASE a[j] = Inputs!Probe
        <5>1. j \in DOMAIN f
          BY <1>1, <1>2, <3>3 DEF Path
        <5>q. QED BY <2>2, <3>4, <4>2, <5>1 DEF Inputs!PrunesWhole
      <4>q. QED BY <3>3, <4>1, <4>2
    <3>5. Inputs!Match(p, f)
      BY <1>1, <3>1, <3>2, <3>3, <3>4, SamePaths, MatchesBelow DEF Path
    <3>q. QED BY <1>1, <3>5
  <2>q. QED BY <1>1, <2>1, <2>2 DEF Inputs!WholeSubtrees
<1>q. QED BY <1>4 DEF Inputs!excludesSubtree

LEMMA WalkExact ==
    ASSUME Inputs!InputsAssumption, Inputs!WholeSubtrees, WalkInv PROVE Inputs!InputSetExact
<1> SUFFICES ASSUME Inputs!Done
             PROVE  entries = {f \in files : /\ Inputs!IsPrefix(Inputs!Git, f) => f = Inputs!Git
                                             /\ Listed(f)}
  BY DEF Inputs!InputSetExact, Listed
<1>1. /\ files \in Trees /\ files \subseteq Path /\ entries \subseteq files
      /\ checks \in Patterns \X Patterns /\ Inputs!Mine \in Patterns
      /\ Inputs!Git \in Path /\ Inputs!Git # <<>>
      /\ \A p \in Inputs!Mine.include : Inputs!IsPattern(p)
  <2>1. Inputs!Git \in Seq(STRING) /\ Inputs!Git # <<>>
    <3>1. Inputs!Git # <<>>
      BY DEF Inputs!Git
    <3>q. QED BY <3>1 DEF Inputs!InputsAssumption
  <2>2. /\ files \in Trees /\ entries \subseteq files
        /\ checks \in Patterns \X Patterns /\ Inputs!Mine \in Patterns
    BY DEF WalkInv, WalkTyped, Inputs!TypeOK, Inputs!Mine
  <2>q. QED BY <2>1, <2>2 DEF Inputs!InputsAssumption, Path
<1>2. ASSUME NEW f \in entries PROVE Listed(f) /\ (Inputs!IsPrefix(Inputs!Git, f) => f = Inputs!Git)
  <2>1. Listed(f) /\ Open("proof", f)
    BY DEF WalkInv
  <2>2. ASSUME Inputs!IsPrefix(Inputs!Git, f), f # Inputs!Git PROVE FALSE
    <3>1. Inputs!Git \in Inputs!Directories
      BY <1>1, <2>2, EntriesAre DEF Entry
    <3>2. Inputs!ProofEnters(Inputs!Git)
      BY <2>1, <2>2, <3>1 DEF Open, Enters
    <3>q. QED BY <1>1, <3>2 DEF Inputs!ProofEnters
  <2>q. QED BY <2>1, <2>2
<1>3. ASSUME NEW f \in files, Inputs!IsPrefix(Inputs!Git, f) => f = Inputs!Git, Listed(f)
      PROVE  f \in entries
  <2>1. ASSUME NEW d \in Inputs!Directories, Inputs!IsPrefix(d, f), d # f PROVE Enters("proof", d)
    <3>1. d \in Path /\ f \in Path /\ d # Inputs!Git
      BY <1>1, <1>3, <2>1, EntriesAre DEF Entry
    <3>2. CASE d = <<>>
      BY <3>2 DEF Enters, Inputs!ProofEnters
    <3>3. CASE d # <<>>
      <4>1. ~Inputs!excludesSubtree(Inputs!Mine.exclude, d)
        BY <1>1, <1>3, <2>1, <3>1, <3>3, NothingPruned
      <4>2. Inputs!couldContain(Inputs!Mine.include, d)
        BY <1>1, <1>3, <2>1, <3>1, SamePaths, ContainsMatch DEF Path, Listed
      <4>q. QED BY <3>1, <4>1, <4>2 DEF Enters, Inputs!ProofEnters, Inputs!Relevant
    <3>q. QED BY <3>2, <3>3
  <2>2. Open("proof", f)
    BY <2>1 DEF Open
  <2>3. Looked("proof", f)
    BY <2>2 DEF WalkInv, Inputs!Done, Inputs!Walks, Entry
  <2>q. QED BY <1>3, <2>3 DEF Looked
<1>q. QED BY <1>1, <1>2, <1>3

InputsPart == part = "inputs" => WalkInv

LEMMA InputsPartHolds == PartsSpec => []InputsPart
<1>1. PartsInit => InputsPart
  BY ComponentsAssumption, PartStarts, WalkInit DEF InputsPart
<1>2. InputsPart /\ [PartsNext]_<<part, partVars>> => InputsPart'
  BY ComponentsAssumption, PartSteps, WalkNext DEF InputsPart
<1>q. QED BY <1>1, <1>2, PTL DEF PartsSpec

\* In every behaviour, every input a proof lists lies in a directory the guard of
\* its check watches, and all that a guard watches the monitor watches too.
THEOREM PartsProofWatched == PartsSpec => []ProofWatched
<1>1. InputsPart => ProofWatched
  BY ComponentsAssumption, WalkWatched DEF InputsPart, ProofWatched
<1>q. QED BY <1>1, InputsPartHolds, PTL

\* And where an exclude that prunes a directory matches all that lies in it, the
\* proof lists every file the declared patterns match.
THEOREM PartsInputSetExact == ASSUME Inputs!WholeSubtrees PROVE PartsSpec => []InputSetExact
<1>1. InputsPart => InputSetExact
  BY ComponentsAssumption, WalkExact DEF InputsPart, InputSetExact
<1>q. QED BY <1>1, InputsPartHolds, PTL

(***************************************************************************)
(* The lock of the ledger.  While nothing is broken it excludes: a process *)
(* in its section owns the directory, a directory that is old is nobody's, *)
(* and while one that was found old is about to be removed nobody is in    *)
(* the section.                                                            *)
(***************************************************************************)
Holding(p) == at[p] \in Lock!Section

\* The lock excludes, and what is about to be written has all that is there.
Excluded ==
    /\ \A p \in Procs : Holding(p) => owner = p
    /\ old => \A p \in Procs : ~Holding(p)
    /\ \A q \in Procs : at[q] = "remove" => \A p \in Procs : ~Holding(p)
    /\ \A p \in Procs : at[p] = "rename" => merged[p] = ledger \cup copy[p]
    /\ saved \subseteq ledger

LockInv == ~broken => Excluded

LEMMA LockTypedInit == ASSUME Lock!LockAssumption, Lock!Init PROVE Lock!TypeOK
<1> USE DEF Lock!LockAssumption, Lock!TypeOK, Lock!Section, Lock!Saves
<1>1. old \in BOOLEAN /\ broken \in BOOLEAN /\ owner = None
  BY DEF Lock!Init
<1>0. saves \in 0..MaxSaves
  BY DEF Lock!Init
<1>2. ledger \subseteq Lock!Saves /\ saved \subseteq Lock!Saves
  BY DEF Lock!Init
<1>3. /\ at \in [Procs -> {"idle", "mkdir", "stat", "remove"} \cup Lock!Section]
      /\ copy \in [Procs -> SUBSET Lock!Saves] /\ merged \in [Procs -> SUBSET Lock!Saves]
  BY DEF Lock!Init
<1>q. QED BY <1>0, <1>1, <1>2, <1>3

LEMMA LockTypedNext ==
    ASSUME Lock!LockAssumption, Lock!TypeOK, [Lock!Next]_Lock!vars PROVE Lock!TypeOK'
<1> USE DEF Lock!LockAssumption, Lock!TypeOK, Lock!Section, Lock!Saves
<1> USE DEF Lock!lock, Lock!local, Lock!Goto
<1>1. ASSUME NEW p \in Procs, Lock!Load(p) \/ Lock!Save(p) \/ Lock!Crash(p) PROVE Lock!TypeOK'
  <2>1. CASE Lock!Load(p)
    BY <2>1 DEF Lock!Load
  <2>2. CASE Lock!Save(p)
    BY <2>2 DEF Lock!Save
  <2>3. CASE Lock!Crash(p)
    BY <2>3 DEF Lock!Crash
  <2>q. QED BY <1>1, <2>1, <2>2, <2>3
<1>2. ASSUME NEW p \in Procs, Lock!SaveStep(p) PROVE Lock!TypeOK'
  <2>1. CASE Lock!Mkdir(p)
    BY <2>1 DEF Lock!Mkdir
  <2>2. CASE Lock!Stat(p)
    BY <2>2 DEF Lock!Stat
  <2>3. CASE Lock!Remove(p)
    BY <2>3 DEF Lock!Remove
  <2>4. CASE Lock!mergeWithCurrentLedger(p)
    BY <2>4 DEF Lock!mergeWithCurrentLedger
  <2>5. CASE Lock!Rename(p)
    BY <2>5 DEF Lock!Rename
  <2>6. CASE Lock!Unlock(p)
    BY <2>6 DEF Lock!Unlock
  <2>q. QED BY <1>2, <2>1, <2>2, <2>3, <2>4, <2>5, <2>6 DEF Lock!SaveStep
<1>3. CASE Lock!Ages
  BY <1>3 DEF Lock!Ages
<1>4. CASE UNCHANGED Lock!vars
  BY <1>4 DEF Lock!vars
<1>q. QED BY <1>1, <1>2, <1>3, <1>4 DEF Lock!Next

LEMMA LockInit == ASSUME Lock!LockAssumption PROVE Lock!Init => LockInv
BY DEF Lock!Init, LockInv, Excluded, Holding, Lock!Section

\* Outside the lock: loading, beginning, ending early, growing old.
LEMMA LockOutside ==
    ASSUME Lock!LockAssumption, Lock!TypeOK, LockInv,
           (\E p \in Procs : Lock!Load(p) \/ Lock!Save(p) \/ Lock!Crash(p)) \/ Lock!Ages
    PROVE  LockInv'
<1> SUFFICES ASSUME ~broken' PROVE Excluded'
  BY DEF LockInv
<1> USE DEF Excluded, Holding, Lock!Section, Lock!TypeOK, Lock!lock, Lock!local, Lock!Goto
<1>1. CASE \E p \in Procs : Lock!Load(p)
  BY <1>1 DEF Lock!Load, LockInv
<1>2. CASE \E p \in Procs : Lock!Save(p)
  BY <1>2 DEF Lock!Save, LockInv
<1>3. CASE \E p \in Procs : Lock!Crash(p)
  BY <1>3 DEF Lock!Crash, LockInv
<1>4. CASE Lock!Ages
  BY <1>4 DEF Lock!Ages, LockInv
<1>q. QED BY <1>1, <1>2, <1>3, <1>4

\* Taking the lock, waiting for it, and removing an old one.
LEMMA LockTaken ==
    ASSUME Lock!LockAssumption, Lock!TypeOK, LockInv, NEW p \in Procs,
           Lock!Mkdir(p) \/ Lock!Stat(p) \/ Lock!Remove(p)
    PROVE  LockInv'
<1> SUFFICES ASSUME ~broken' PROVE Excluded'
  BY DEF LockInv
<1> USE DEF Excluded, Holding, Lock!Section, Lock!TypeOK, Lock!lock, Lock!local, Lock!Goto
<1>1. CASE Lock!Mkdir(p)
  <2>1. Excluded
    BY <1>1 DEF Lock!Mkdir, LockInv
  <2>2. CASE owner = None
    <3>1. \A q \in Procs : ~Holding(q) /\ at[q] # "remove"
      BY <1>1, <2>1, <2>2 DEF Lock!Mkdir, Lock!LockAssumption
    <3>q. QED BY <1>1, <2>1, <2>2, <3>1 DEF Lock!Mkdir
  <2>3. CASE owner # None
    BY <1>1, <2>1, <2>3 DEF Lock!Mkdir
  <2>q. QED BY <2>2, <2>3
<1>2. CASE Lock!Stat(p)
  BY <1>2 DEF Lock!Stat, LockInv
<1>3. CASE Lock!Remove(p)
  BY <1>3 DEF Lock!Remove, LockInv
<1>q. QED BY <1>1, <1>2, <1>3

\* In the section: nobody else is.
LEMMA LockHeld ==
    ASSUME Lock!LockAssumption, Lock!TypeOK, LockInv, NEW p \in Procs,
           Lock!mergeWithCurrentLedger(p) \/ Lock!Rename(p) \/ Lock!Unlock(p)
    PROVE  LockInv'
<1> SUFFICES ASSUME ~broken' PROVE Excluded'
  BY DEF LockInv
<1> USE DEF Excluded, Holding, Lock!Section, Lock!TypeOK, Lock!lock, Lock!local, Lock!Goto
<1>1. Excluded /\ Holding(p)
  BY DEF Lock!mergeWithCurrentLedger, Lock!Rename, Lock!Unlock, LockInv
<1>2. \A q \in Procs : q # p => ~Holding(q)
  BY <1>1
<1>3. CASE Lock!mergeWithCurrentLedger(p)
  BY <1>1, <1>2, <1>3 DEF Lock!mergeWithCurrentLedger
<1>4. CASE Lock!Rename(p)
  BY <1>1, <1>2, <1>4 DEF Lock!Rename
<1>5. CASE Lock!Unlock(p)
  BY <1>1, <1>2, <1>5 DEF Lock!Unlock
<1>q. QED BY <1>3, <1>4, <1>5

LEMMA LockNext ==
    ASSUME Lock!LockAssumption, Lock!TypeOK, LockInv, [Lock!Next]_Lock!vars PROVE LockInv'
<1>1. CASE Lock!Next
  <2>1. CASE (\E p \in Procs : Lock!Load(p) \/ Lock!Save(p) \/ Lock!Crash(p)) \/ Lock!Ages
    BY <2>1, LockOutside
  <2>2. CASE \E p \in Procs : Lock!SaveStep(p)
    BY <2>2, LockTaken, LockHeld DEF Lock!SaveStep
  <2>q. QED BY <1>1, <2>1, <2>2 DEF Lock!Next
<1>2. CASE UNCHANGED Lock!vars
  BY <1>2 DEF LockInv, Excluded, Holding, Lock!vars, Lock!lock, Lock!local, Snapshot!vars
<1>q. QED BY <1>1, <1>2

LockPart == part = "lock" => Lock!TypeOK /\ LockInv

LEMMA LockPartHolds == PartsSpec => []LockPart
<1>1. PartsInit => LockPart
  BY ComponentsAssumption, PartStarts, LockTypedInit, LockInit DEF LockPart
<1>2. LockPart /\ [PartsNext]_<<part, partVars>> => LockPart'
  BY ComponentsAssumption, PartSteps, LockTypedNext, LockNext DEF LockPart
<1>q. QED BY <1>1, <1>2, PTL DEF PartsSpec

\* In every behaviour, what a process has saved stays in ledger.json, through
\* crashes of holders and the removal of their locks, unless a lock is removed that
\* was made since it was found old, or the ledger could not be read (withLock,
\* mergeWithCurrentLedger).
THEOREM PartsNothingLost == PartsSpec => []NothingLost
<1>1. LockPart => NothingLost
  BY DEF LockPart, LockInv, Excluded, NothingLost, Lock!NothingLost
<1>q. QED BY <1>1, LockPartHolds, PTL

(***************************************************************************)
(* The snapshot file.                                                      *)
(***************************************************************************)
SnapshotFacts == INSTANCE HotSnapshotProofs WITH MaxOutput <- MaxStored

\* The numbers, sets and orders that the two instances have in common.
LEMMA SameSizes ==
    /\ \A S : Snapshot!Cardinality(S) = SnapshotFacts!Cardinality(S)
    /\ \A S : Snapshot!Min(S) = SnapshotFacts!Min(S)
    /\ \A S : Snapshot!SetToSeqs(S) = SnapshotFacts!SetToSeqs(S)
<1>1. \A S : Snapshot!Cardinality(S) = SnapshotFacts!Cardinality(S)
  BY DEF Snapshot!Cardinality, SnapshotFacts!Cardinality, Snapshot!IsFiniteSet,
     SnapshotFacts!IsFiniteSet
<1>2. \A S : Snapshot!Min(S) = SnapshotFacts!Min(S)
  BY DEF Snapshot!Min, SnapshotFacts!Min
<1>3. \A S : Snapshot!SetToSeqs(S) = SnapshotFacts!SetToSeqs(S)
  BY <1>1 DEF Snapshot!SetToSeqs, SnapshotFacts!SetToSeqs
<1>q. QED BY <1>1, <1>2, <1>3

LEMMA SameRank ==
    /\ \A i : Snapshot!Usable(i) <=> SnapshotFacts!Usable(i)
    /\ \A a, b : Snapshot!SameProof(a, b) <=> SnapshotFacts!SameProof(a, b)
    /\ \A a, b : Snapshot!InOrder(a, b) <=> SnapshotFacts!InOrder(a, b)
    /\ \A a, b : Snapshot!Precedes(a, b) <=> SnapshotFacts!Precedes(a, b)
    /\ \A a, b : Snapshot!betterHotSnapshotCandidate(a, b)
                    <=> SnapshotFacts!betterHotSnapshotCandidate(a, b)
BY DEF Snapshot!Usable, SnapshotFacts!Usable, Snapshot!Size, SnapshotFacts!Size,
     Snapshot!SameProof, SnapshotFacts!SameProof, Snapshot!InOrder, SnapshotFacts!InOrder,
     Snapshot!Outranks, SnapshotFacts!Outranks, Snapshot!Precedes, SnapshotFacts!Precedes,
     Snapshot!hotSnapshotCandidatePriority, SnapshotFacts!hotSnapshotCandidatePriority,
     Snapshot!betterHotSnapshotCandidate, SnapshotFacts!betterHotSnapshotCandidate

LEMMA SameChoice ==
    /\ \A items : Snapshot!hotSnapshotCandidates(items)
                    = SnapshotFacts!hotSnapshotCandidates(items)
    /\ \A items : Snapshot!encodeHotSnapshot(items) = SnapshotFacts!encodeHotSnapshot(items)
<1>1. \A items : Snapshot!dedupeHotSnapshotCandidates(items)
                   = SnapshotFacts!dedupeHotSnapshotCandidates(items)
  BY SameRank DEF Snapshot!dedupeHotSnapshotCandidates, SnapshotFacts!dedupeHotSnapshotCandidates
<1>2. ASSUME NEW items
      PROVE  Snapshot!hotSnapshotCandidates(items) = SnapshotFacts!hotSnapshotCandidates(items)
  <2>1. {i \in items : Snapshot!Usable(i)} = {i \in items : SnapshotFacts!Usable(i)}
    BY SameRank
  <2> DEFINE usable == Snapshot!dedupeHotSnapshotCandidates({i \in items : Snapshot!Usable(i)})
  <2>2. usable = SnapshotFacts!dedupeHotSnapshotCandidates({i \in items : SnapshotFacts!Usable(i)})
    BY <1>1, <2>1
  <2> HIDE DEF usable
  <2>3. \A a : {b \in usable : Snapshot!Precedes(b, a)}
                 = {b \in usable : SnapshotFacts!Precedes(b, a)}
    BY SameRank
  <2> DEFINE kept ==
               {a \in usable :
                  Snapshot!Cardinality({b \in usable : Snapshot!Precedes(b, a)}) < MaxEntries}
  <2>4. kept =
          {a \in usable :
             SnapshotFacts!Cardinality({b \in usable : SnapshotFacts!Precedes(b, a)}) < MaxEntries}
    BY <2>3, SameSizes
  <2> HIDE DEF kept
  <2>5. Snapshot!hotSnapshotCandidates(items)
          = {s \in Snapshot!SetToSeqs(kept) :
               \A i, j \in DOMAIN s : i < j => ~Snapshot!InOrder(s[j], s[i])}
    BY DEF Snapshot!hotSnapshotCandidates, kept, usable
  <2>6. SnapshotFacts!hotSnapshotCandidates(items)
          = {s \in SnapshotFacts!SetToSeqs(kept) :
               \A i, j \in DOMAIN s : i < j => ~SnapshotFacts!InOrder(s[j], s[i])}
    BY <2>2, <2>4 DEF SnapshotFacts!hotSnapshotCandidates
  <2>q. QED BY <2>5, <2>6, SameSizes, SameRank
<1>3. \A items : Snapshot!encodeHotSnapshot(items) = SnapshotFacts!encodeHotSnapshot(items)
  BY DEF Snapshot!encodeHotSnapshot, SnapshotFacts!encodeHotSnapshot, Snapshot!Fits,
     SnapshotFacts!Fits, Snapshot!Size, SnapshotFacts!Size, Snapshot!Limit,
     SnapshotFacts!Limit, Snapshot!Bytes, SnapshotFacts!Bytes, Snapshot!Entry,
     SnapshotFacts!Entry, Snapshot!Zero, SnapshotFacts!Zero, Snapshot!NoFile,
     SnapshotFacts!NoFile
<1>q. QED BY <1>2, <1>3

LEMMA SameLookup ==
    \A key, epoch, kind :
        Snapshot!Lookup(key, epoch, kind) = SnapshotFacts!Lookup(key, epoch, kind)
<1>1. \A data, i : Snapshot!KeyAt(data, i) = SnapshotFacts!KeyAt(data, i)
  BY DEF Snapshot!KeyAt, SnapshotFacts!KeyAt
<1>2. \A data, count, key : Snapshot!hotSnapshotCommandRange(data, count, key)
                              = SnapshotFacts!hotSnapshotCommandRange(data, count, key)
  BY DEF Snapshot!hotSnapshotCommandRange, SnapshotFacts!hotSnapshotCommandRange,
     Snapshot!Narrowed, SnapshotFacts!Narrowed, Snapshot!KeyAt, SnapshotFacts!KeyAt
<1>3. \A data, entry, kind, max :
        Snapshot!Read(data, entry, kind, max) = SnapshotFacts!Read(data, entry, kind, max)
  BY DEF Snapshot!Read, SnapshotFacts!Read, Snapshot!Contents, SnapshotFacts!Contents,
     Snapshot!NoAnswer, SnapshotFacts!NoAnswer
<1>4. \A data : Snapshot!HeaderValid(data) <=> SnapshotFacts!HeaderValid(data)
  BY DEF Snapshot!HeaderValid, SnapshotFacts!HeaderValid
<1>5. ASSUME NEW data, NEW key, NEW epoch, NEW kind, NEW max
      PROVE  Snapshot!decodeHotSnapshotPayload(data, key, epoch, kind, max)
               = SnapshotFacts!decodeHotSnapshotPayload(data, key, epoch, kind, max)
  <2> DEFINE count == data[1].count
             first == Snapshot!hotSnapshotCommandRange(data, count, key)
             own == {i \in (first + 1)..count :
                       \A j \in (first + 1)..i : Snapshot!KeyAt(data, j) = key}
             match == {i \in own : data[1 + i].epoch = epoch}
  <2>1. first = SnapshotFacts!hotSnapshotCommandRange(data, count, key)
    BY <1>2
  <2> HIDE DEF first
  <2>2. own = {i \in (first + 1)..count :
                 \A j \in (first + 1)..i : SnapshotFacts!KeyAt(data, j) = key}
    BY <1>1
  <2> HIDE DEF own
  <2>3. Snapshot!decodeHotSnapshotPayload(data, key, epoch, kind, max)
          = IF ~Snapshot!HeaderValid(data) \/ key = 0 \/ epoch = 0 \/ match = {}
            THEN Snapshot!NoAnswer
            ELSE Snapshot!Read(data, data[1 + Snapshot!Min(match)], kind, max)
    BY DEF Snapshot!decodeHotSnapshotPayload, own, first
  <2>4. SnapshotFacts!decodeHotSnapshotPayload(data, key, epoch, kind, max)
          = IF ~SnapshotFacts!HeaderValid(data) \/ key = 0 \/ epoch = 0 \/ match = {}
            THEN SnapshotFacts!NoAnswer
            ELSE SnapshotFacts!Read(data, data[1 + SnapshotFacts!Min(match)], kind, max)
    BY <2>1, <2>2 DEF SnapshotFacts!decodeHotSnapshotPayload
  <2> HIDE DEF match
  <2>q. QED BY <1>3, <1>4, <2>3, <2>4, SameSizes DEF Snapshot!NoAnswer, SnapshotFacts!NoAnswer
<1>q. QED
  BY <1>5 DEF Snapshot!Lookup, SnapshotFacts!Lookup, Snapshot!NoFile, SnapshotFacts!NoFile,
     Snapshot!NoAnswer, SnapshotFacts!NoAnswer, Snapshot!Limit, SnapshotFacts!Limit

LEMMA SameSnapshot ==
    /\ Snapshot!PoolAssumption <=> SnapshotFacts!PoolAssumption
    /\ Snapshot!Init <=> SnapshotFacts!Init
    /\ [Snapshot!Next]_Snapshot!vars <=> [SnapshotFacts!Next]_SnapshotFacts!vars
    /\ Snapshot!TypeOK <=> SnapshotFacts!TypeOK
    /\ Snapshot!FoundExact <=> SnapshotFacts!FoundExact
    /\ Snapshot!NeverAnother <=> SnapshotFacts!NeverAnother
<1>1. Snapshot!PoolAssumption <=> SnapshotFacts!PoolAssumption
  BY SameRank DEF Snapshot!PoolAssumption, SnapshotFacts!PoolAssumption, Snapshot!Kinds,
     SnapshotFacts!Kinds, Snapshot!Limit, SnapshotFacts!Limit
<1>2. Snapshot!Init <=> SnapshotFacts!Init
  BY DEF Snapshot!Init, SnapshotFacts!Init, Snapshot!NoFile, SnapshotFacts!NoFile
<1>3. Snapshot!Whole <=> SnapshotFacts!Whole
  BY SameChoice DEF Snapshot!Whole, SnapshotFacts!Whole, Snapshot!NoFile, SnapshotFacts!NoFile
<1>4. Snapshot!publishHotSnapshot <=> SnapshotFacts!publishHotSnapshot
  BY SameChoice DEF Snapshot!publishHotSnapshot, SnapshotFacts!publishHotSnapshot
<1>5. [Snapshot!Next]_Snapshot!vars <=> [SnapshotFacts!Next]_SnapshotFacts!vars
  BY <1>3, <1>4, SameSizes DEF Snapshot!Next, SnapshotFacts!Next, Snapshot!vars, SnapshotFacts!vars,
     Snapshot!Prepare, SnapshotFacts!Prepare, Snapshot!Damage, SnapshotFacts!Damage,
     Snapshot!Truncated, SnapshotFacts!Truncated, Snapshot!Unwritten,
     SnapshotFacts!Unwritten, Snapshot!Zero, SnapshotFacts!Zero
<1>6. Snapshot!TypeOK <=> SnapshotFacts!TypeOK
  BY DEF Snapshot!TypeOK, SnapshotFacts!TypeOK
<1>7. Snapshot!FoundExact <=> SnapshotFacts!FoundExact
  BY <1>3, SameLookup, SameRank, SameSizes
      DEF Snapshot!FoundExact, SnapshotFacts!FoundExact, Snapshot!Places,
     SnapshotFacts!Places, Snapshot!Answer, SnapshotFacts!Answer
<1>8. Snapshot!NeverAnother <=> SnapshotFacts!NeverAnother
  BY SameLookup DEF Snapshot!NeverAnother, SnapshotFacts!NeverAnother, Snapshot!Places,
     SnapshotFacts!Places, Snapshot!Answer, SnapshotFacts!Answer
<1>q. QED BY <1>1, <1>2, <1>5, <1>6, <1>7, <1>8

SnapshotPart == part = "snapshot" => SnapshotFacts!SnapshotInv

LEMMA SnapshotPartHolds == PartsSpec => []SnapshotPart
<1>1. SnapshotFacts!PoolAssumption
  BY ComponentsAssumption, SameSnapshot
<1>2. PartsInit => SnapshotPart
  BY <1>1, PartStarts, SameSnapshot, SnapshotFacts!SnapshotInit DEF SnapshotPart
<1>3. SnapshotPart /\ [PartsNext]_<<part, partVars>> => SnapshotPart'
  BY <1>1, PartSteps, SameSnapshot, SnapshotFacts!SnapshotNext DEF SnapshotPart
<1>q. QED BY <1>2, <1>3, PTL DEF PartsSpec

\* In every behaviour the best usable answer for a proof is found in a whole
\* file, as it was prepared, unless MaxEntries others precede it.
THEOREM PartsFoundExact == PartsSpec => []FoundExact
<1>1. SnapshotPart => FoundExact
  BY ComponentsAssumption, SameSnapshot, SnapshotFacts!FoundExactHolds
     DEF SnapshotPart, FoundExact
<1>q. QED BY <1>1, SnapshotPartHolds, PTL

\* And in whatever is left of a file nothing is found that was not published
\* for the proof that was asked about.
THEOREM PartsNeverAnother == PartsSpec => []NeverAnother
<1>1. SnapshotPart => NeverAnother
  BY ComponentsAssumption, SameSnapshot, SnapshotFacts!NeverAnotherHolds
     DEF SnapshotPart, NeverAnother
<1>q. QED BY <1>1, SnapshotPartHolds, PTL

(***************************************************************************)
(* The command policy.                                                     *)
(***************************************************************************)
PolicyFacts == INSTANCE CommandPolicyProofs

\* Words, and the paths they name.
LEMMA SameWords ==
    /\ \A v : Policy!W(v) = PolicyFacts!W(v)
    /\ \A f : Policy!F(f) = PolicyFacts!F(f)
    /\ \A f, v : Policy!A(f, v) = PolicyFacts!A(f, v)
    /\ \A w : Policy!IsFlag(w) = PolicyFacts!IsFlag(w)
    /\ \A w : Policy!Text(w) = PolicyFacts!Text(w)
    /\ \A l : Policy!Name(l) = PolicyFacts!Name(l)
    /\ \A v : Policy!Number(v) = PolicyFacts!Number(v)
    /\ \A v : Policy!PathOf(v) = PolicyFacts!PathOf(v)
    /\ Policy!Root = PolicyFacts!Root
    /\ \A v : Policy!Base(v) = PolicyFacts!Base(v)
    /\ \A l : Policy!Called(l) = PolicyFacts!Called(l)
    /\ Policy!HookSettings = PolicyFacts!HookSettings
BY DEF Policy!W, PolicyFacts!W, Policy!F, PolicyFacts!F, Policy!A, PolicyFacts!A,
   Policy!IsFlag, PolicyFacts!IsFlag, Policy!Text, PolicyFacts!Text, Policy!Name,
   PolicyFacts!Name, Policy!Number, PolicyFacts!Number, Policy!PathOf, PolicyFacts!PathOf,
   Policy!Root, PolicyFacts!Root, Policy!Base, PolicyFacts!Base, Policy!Called,
   PolicyFacts!Called, Policy!HookSettings, PolicyFacts!HookSettings

LEMMA SameClean ==
    /\ \A p : Policy!Clean(p) = PolicyFacts!Clean(p)
    /\ \A d, p : Policy!Walk(d, p) = PolicyFacts!Walk(d, p)
BY DEF Policy!Clean, PolicyFacts!Clean, Policy!Cleaned, PolicyFacts!Cleaned, Policy!Walk,
   PolicyFacts!Walk, Policy!Entered, PolicyFacts!Entered

LEMMA SameFiles ==
    /\ \A w : Policy!Inspected(w) = PolicyFacts!Inspected(w)
    /\ \A w : Policy!InTree(w) = PolicyFacts!InTree(w)
    /\ \A w : Policy!Searched(w) = PolicyFacts!Searched(w)
<1>1. \A p : Policy!safeRelativeInspectionPath(p) = PolicyFacts!safeRelativeInspectionPath(p)
  BY DEF Policy!safeRelativeInspectionPath, PolicyFacts!safeRelativeInspectionPath,
     Policy!IsAbs, PolicyFacts!IsAbs, Policy!Hidden, PolicyFacts!Hidden
<1>q. QED
  BY <1>1, SameWords, SameClean, Zenon
     DEF Policy!Inspected, PolicyFacts!Inspected, Policy!InTree, PolicyFacts!InTree,
         Policy!Searched, PolicyFacts!Searched, Policy!isReplayableInspectionName,
         PolicyFacts!isReplayableInspectionName

\* The scans of a line.
LEMMA SameGitOptions ==
    \A l : Policy!NormalizeInvocation(l) = PolicyFacts!NormalizeInvocation(l)
<1>1. \A s, w : Policy!GitOption(s, w) = PolicyFacts!GitOption(s, w)
  BY DEF Policy!GitOption, PolicyFacts!GitOption, Policy!Valued, PolicyFacts!Valued,
     Policy!resolveGitCWD, PolicyFacts!resolveGitCWD, Policy!safeGitConfigOverride,
     PolicyFacts!safeGitConfigOverride, Policy!HookSettings, PolicyFacts!HookSettings,
     Policy!Clean, PolicyFacts!Clean, Policy!Cleaned,
     PolicyFacts!Cleaned, Policy!PathOf, PolicyFacts!PathOf, Policy!IsAbs,
     PolicyFacts!IsAbs, Policy!Text, PolicyFacts!Text, Policy!IsFlag, PolicyFacts!IsFlag
<1>2. \A l : Policy!GitOptions(l) = PolicyFacts!GitOptions(l)
  BY <1>1, ZenonT(30)
     DEF Policy!GitOptions, PolicyFacts!GitOptions, Policy!Invocation,
         PolicyFacts!Invocation, Policy!W, PolicyFacts!W, Policy!Root, PolicyFacts!Root
<1>3. \A l : Policy!normalizeGitInvocation(l) = PolicyFacts!normalizeGitInvocation(l)
  BY <1>2
     DEF Policy!normalizeGitInvocation, PolicyFacts!normalizeGitInvocation,
         Policy!Invocation, PolicyFacts!Invocation, Policy!Name, PolicyFacts!Name,
         Policy!Root, PolicyFacts!Root
<1>q. QED
  BY <1>3, SameWords, Zenon
     DEF Policy!NormalizeInvocation, PolicyFacts!NormalizeInvocation

LEMMA SameGitReads ==
    \A l : Policy!GitReads(l) = PolicyFacts!GitReads(l)
BY DEF Policy!GitReads, PolicyFacts!GitReads, Policy!GitRead, PolicyFacts!GitRead,
   Policy!Walk, PolicyFacts!Walk, Policy!Entered, PolicyFacts!Entered, Policy!PathOf,
   PolicyFacts!PathOf, Policy!Text, PolicyFacts!Text, Policy!IsFlag, PolicyFacts!IsFlag,
   Policy!F, PolicyFacts!F, Policy!Root, PolicyFacts!Root

LEMMA SameLog ==
    \A l : Policy!isBoundedGitOnelineLog(l) = PolicyFacts!isBoundedGitOnelineLog(l)
<1>1. \A s, w : Policy!LogWord(s, w) = PolicyFacts!LogWord(s, w)
  BY DEF Policy!LogWord, PolicyFacts!LogWord, Policy!LogLimit, PolicyFacts!LogLimit,
     Policy!boundedGitLogLimit, PolicyFacts!boundedGitLogLimit, Policy!Globs,
     PolicyFacts!Globs, Policy!Number, PolicyFacts!Number, Policy!Text, PolicyFacts!Text,
     Policy!IsFlag, PolicyFacts!IsFlag, Policy!F, PolicyFacts!F, Policy!Searched,
     PolicyFacts!Searched, Policy!InTree, PolicyFacts!InTree,
     Policy!safeRelativeInspectionPath, PolicyFacts!safeRelativeInspectionPath,
     Policy!Hidden, PolicyFacts!Hidden, Policy!Clean, PolicyFacts!Clean, Policy!Cleaned,
     PolicyFacts!Cleaned, Policy!PathOf, PolicyFacts!PathOf, Policy!IsAbs,
     PolicyFacts!IsAbs
<1>q. QED
  BY <1>1, ZenonT(30)
     DEF Policy!isBoundedGitOnelineLog, PolicyFacts!isBoundedGitOnelineLog, Policy!Name,
         PolicyFacts!Name, Policy!W, PolicyFacts!W

LEMMA SameSearch ==
    /\ \A l : Policy!parseBoundedRgRepoArgs(l) = PolicyFacts!parseBoundedRgRepoArgs(l)
    /\ \A l : Policy!isBoundedRgRepoSearch(l) = PolicyFacts!isBoundedRgRepoSearch(l)
<1>1. \A s, w : Policy!RgWord(s, w) = PolicyFacts!RgWord(s, w)
  BY DEF Policy!RgWord, PolicyFacts!RgWord, Policy!ValidRgValue, PolicyFacts!ValidRgValue,
     Policy!ContextFlags, PolicyFacts!ContextFlags, Policy!RgSwitches,
     PolicyFacts!RgSwitches, Policy!Number, PolicyFacts!Number, Policy!Text,
     PolicyFacts!Text, Policy!IsFlag, PolicyFacts!IsFlag, Policy!Searched,
     PolicyFacts!Searched, Policy!InTree, PolicyFacts!InTree,
     Policy!safeRelativeInspectionPath, PolicyFacts!safeRelativeInspectionPath,
     Policy!Hidden, PolicyFacts!Hidden, Policy!Clean, PolicyFacts!Clean, Policy!Cleaned,
     PolicyFacts!Cleaned, Policy!PathOf, PolicyFacts!PathOf, Policy!IsAbs,
     PolicyFacts!IsAbs
<1>2. \A l : Policy!parseBoundedRgRepoArgs(l) = PolicyFacts!parseBoundedRgRepoArgs(l)
  BY <1>1, SameWords, ZenonT(60)
     DEF Policy!parseBoundedRgRepoArgs, PolicyFacts!parseBoundedRgRepoArgs
<1>q. QED
  BY <1>2
     DEF Policy!isBoundedRgRepoSearch, PolicyFacts!isBoundedRgRepoSearch

LEMMA SameGetopt ==
    \A l : Policy!Getopt(l) = PolicyFacts!Getopt(l)
BY DEF Policy!Getopt, PolicyFacts!Getopt, Policy!Option, PolicyFacts!Option,
   Policy!ValueFlags, PolicyFacts!ValueFlags, Policy!Name, PolicyFacts!Name, Policy!Text,
   PolicyFacts!Text, Policy!IsFlag, PolicyFacts!IsFlag

\* What a line may be answered as.
LEMMA SameSets ==
    /\ \A s : Policy!Cardinality(s) = PolicyFacts!Cardinality(s)
    /\ \A s : Policy!Min(s) = PolicyFacts!Min(s)
    /\ \A s : Policy!Max(s) = PolicyFacts!Max(s)
    /\ \A s : Policy!ToSet(s) = PolicyFacts!ToSet(s)
    /\ \A s, t : Policy!IsPrefix(s, t) = PolicyFacts!IsPrefix(s, t)
BY DEF Policy!Cardinality, PolicyFacts!Cardinality, Policy!IsFiniteSet,
   PolicyFacts!IsFiniteSet, Policy!Min, PolicyFacts!Min, Policy!Max, PolicyFacts!Max,
   Policy!ToSet, PolicyFacts!ToSet, Policy!IsPrefix, PolicyFacts!IsPrefix

LEMMA SameOperation ==
    /\ \A l : Policy!parseWarmFileOperation(l) = PolicyFacts!parseWarmFileOperation(l)
    /\ Policy!NoOperation = PolicyFacts!NoOperation
<1>1. Policy!NoOperation = PolicyFacts!NoOperation
  BY DEF Policy!NoOperation, PolicyFacts!NoOperation
<1>2. \A k, w : Policy!Operation(k, w) = PolicyFacts!Operation(k, w)
  BY DEF Policy!Operation, PolicyFacts!Operation
<1>3. \A l : Policy!parseHeadTailArgs(l) = PolicyFacts!parseHeadTailArgs(l)
  BY DEF Policy!parseHeadTailArgs, PolicyFacts!parseHeadTailArgs, Policy!F, PolicyFacts!F,
     Policy!W, PolicyFacts!W, Policy!Text, PolicyFacts!Text, Policy!IsFlag,
     PolicyFacts!IsFlag, Policy!Number, PolicyFacts!Number
<1>4. \A l : Policy!parseFixedGrepArgs(l) = PolicyFacts!parseFixedGrepArgs(l)
  BY <1>1, <1>2, SameFiles
     DEF Policy!parseFixedGrepArgs, PolicyFacts!parseFixedGrepArgs, Policy!F,
         PolicyFacts!F, Policy!IsFlag, PolicyFacts!IsFlag
<1>5. \A l : Policy!parseFixedRgArgs(l) = PolicyFacts!parseFixedRgArgs(l)
  BY <1>1, <1>2, SameFiles, SameSets
     DEF Policy!parseFixedRgArgs, PolicyFacts!parseFixedRgArgs, Policy!F, PolicyFacts!F,
         Policy!IsFlag, PolicyFacts!IsFlag
<1>6. ASSUME NEW l
      PROVE  Policy!parseWarmFileOperation(l) = PolicyFacts!parseWarmFileOperation(l)
  <2> DEFINE head == Policy!parseHeadTailArgs(l)
             grep == Policy!parseFixedGrepArgs(l)
             rg   == Policy!parseFixedRgArgs(l)
             none == Policy!NoOperation
             second == Policy!Inspected(l[2])
             third  == Policy!Inspected(l[3])
             fourth == Policy!Inspected(l[4])
             named  == Policy!Inspected(head.path)
  <2>1. /\ head = PolicyFacts!parseHeadTailArgs(l) /\ grep = PolicyFacts!parseFixedGrepArgs(l)
        /\ rg = PolicyFacts!parseFixedRgArgs(l) /\ none = PolicyFacts!NoOperation
        /\ second = PolicyFacts!Inspected(l[2]) /\ third = PolicyFacts!Inspected(l[3])
        /\ fourth = PolicyFacts!Inspected(l[4]) /\ named = PolicyFacts!Inspected(head.path)
    BY <1>1, <1>3, <1>4, <1>5, SameFiles
  <2> HIDE DEF head, grep, rg, none, second, third, fourth, named
  <2>2. /\ head = Policy!parseHeadTailArgs(l) /\ grep = Policy!parseFixedGrepArgs(l)
        /\ rg = Policy!parseFixedRgArgs(l) /\ none = Policy!NoOperation
        /\ second = Policy!Inspected(l[2]) /\ third = Policy!Inspected(l[3])
        /\ fourth = Policy!Inspected(l[4]) /\ named = Policy!Inspected(head.path)
    BY DEF head, grep, rg, none, second, third, fourth, named
  <2>q. QED
    BY <2>1, <2>2
       DEF Policy!parseWarmFileOperation, PolicyFacts!parseWarmFileOperation,
           Policy!Operation, PolicyFacts!Operation, Policy!F, PolicyFacts!F, Policy!A,
           PolicyFacts!A, Policy!IsFlag, PolicyFacts!IsFlag, Policy!Name,
           PolicyFacts!Name, Policy!Selections, PolicyFacts!Selections
<1>q. QED BY <1>1, <1>6

LEMMA SameGit ==
    /\ \A l : Policy!isGitMetadata(l) = PolicyFacts!isGitMetadata(l)
    /\ \A l : Policy!isGitRepoState(l) = PolicyFacts!isGitRepoState(l)
    /\ \A l : Policy!isGitHeadSubjectLog(l) = PolicyFacts!isGitHeadSubjectLog(l)
    /\ \A l : Policy!ClassifyGit(l) = PolicyFacts!ClassifyGit(l)
<1>1. \A l : Policy!isGitMetadata(l) = PolicyFacts!isGitMetadata(l)
  BY DEF Policy!isGitMetadata, PolicyFacts!isGitMetadata, Policy!isGitBranchShowCurrent,
     PolicyFacts!isGitBranchShowCurrent, Policy!Git, PolicyFacts!Git, Policy!W,
     PolicyFacts!W, Policy!F, PolicyFacts!F
<1>2. \A l : Policy!isGitLsFiles(l) = PolicyFacts!isGitLsFiles(l)
  BY SameFiles
     DEF Policy!isGitLsFiles, PolicyFacts!isGitLsFiles, Policy!Git, PolicyFacts!Git,
         Policy!W, PolicyFacts!W
<1>3. \A l : Policy!isGitStatusState(l) = PolicyFacts!isGitStatusState(l)
  BY DEF Policy!isGitStatusState, PolicyFacts!isGitStatusState, Policy!Git,
     PolicyFacts!Git, Policy!W, PolicyFacts!W, Policy!F, PolicyFacts!F
<1>4. \A l : Policy!isGitReadOnlyDiff(l) = PolicyFacts!isGitReadOnlyDiff(l)
  BY SameFiles
     DEF Policy!isGitReadOnlyDiff, PolicyFacts!isGitReadOnlyDiff, Policy!Git,
         PolicyFacts!Git, Policy!W, PolicyFacts!W, Policy!F, PolicyFacts!F
<1>5. \A l : Policy!isGitRepoState(l) = PolicyFacts!isGitRepoState(l)
  BY <1>2, <1>3, <1>4
     DEF Policy!isGitRepoState, PolicyFacts!isGitRepoState
<1>6. \A l : Policy!isGitHeadSubjectLog(l) = PolicyFacts!isGitHeadSubjectLog(l)
  BY DEF Policy!isGitHeadSubjectLog, PolicyFacts!isGitHeadSubjectLog, Policy!Git,
     PolicyFacts!Git, Policy!W, PolicyFacts!W, Policy!F, PolicyFacts!F, Policy!A,
     PolicyFacts!A
<1>7. \A l : Policy!isGitMutation(l) = PolicyFacts!isGitMutation(l)
  BY DEF Policy!isGitMutation, PolicyFacts!isGitMutation, Policy!Mutations,
     PolicyFacts!Mutations, Policy!isGitBranchShowCurrent,
     PolicyFacts!isGitBranchShowCurrent, Policy!Name, PolicyFacts!Name, Policy!IsFlag,
     PolicyFacts!IsFlag, Policy!Git, PolicyFacts!Git, Policy!W, PolicyFacts!W, Policy!F,
     PolicyFacts!F
<1>8. \A l : Policy!isGitRemoteMetadata(l) = PolicyFacts!isGitRemoteMetadata(l)
  BY DEF Policy!isGitRemoteMetadata, PolicyFacts!isGitRemoteMetadata, Policy!Git,
     PolicyFacts!Git, Policy!W, PolicyFacts!W, Policy!F, PolicyFacts!F
<1>9. \A l : Policy!ClassifyGit(l) = PolicyFacts!ClassifyGit(l)
  BY <1>1, <1>5, <1>6, <1>7, <1>8, SameLog
     DEF Policy!ClassifyGit, PolicyFacts!ClassifyGit
<1>q. QED BY <1>1, <1>5, <1>6, <1>9

LEMMA SameAnswered ==
    /\ \A l : Policy!IsReplayAllowed(l) = PolicyFacts!IsReplayAllowed(l)
    /\ \A l : Policy!Classify(l) = PolicyFacts!Classify(l)
    /\ \A l : Policy!MayReplay(l) = PolicyFacts!MayReplay(l)
<1>1. \A l : Policy!isReplayableFileInspection(l) = PolicyFacts!isReplayableFileInspection(l)
  BY SameOperation, SameFiles, SameWords
     DEF Policy!isReplayableFileInspection, PolicyFacts!isReplayableFileInspection
<1>2. \A l : Policy!isDirectoryListing(l) = PolicyFacts!isDirectoryListing(l)
  BY DEF Policy!isDirectoryListing, PolicyFacts!isDirectoryListing, Policy!Name,
     PolicyFacts!Name, Policy!F, PolicyFacts!F, Policy!IsFlag, PolicyFacts!IsFlag,
     Policy!IsAbs, PolicyFacts!IsAbs, Policy!Clean, PolicyFacts!Clean, Policy!Cleaned,
     PolicyFacts!Cleaned, Policy!PathOf, PolicyFacts!PathOf
<1>3. \A l : Policy!isEnvironmentProbe(l) = PolicyFacts!isEnvironmentProbe(l)
  BY DEF Policy!isEnvironmentProbe, PolicyFacts!isEnvironmentProbe,
     Policy!isToolVersionProbe, PolicyFacts!isToolVersionProbe,
     Policy!isCommandPathLookup, PolicyFacts!isCommandPathLookup,
     Policy!isStaticEnvironmentProbe, PolicyFacts!isStaticEnvironmentProbe,
     Policy!isPrintenvProbe, PolicyFacts!isPrintenvProbe, Policy!Name, PolicyFacts!Name,
     Policy!W, PolicyFacts!W, Policy!F, PolicyFacts!F
<1>4. \A l : Policy!isValidationBuildTest(l) = PolicyFacts!isValidationBuildTest(l)
  BY DEF Policy!isValidationBuildTest, PolicyFacts!isValidationBuildTest, Policy!Name,
     PolicyFacts!Name, Policy!W, PolicyFacts!W, Policy!F, PolicyFacts!F, Policy!ToSet,
     PolicyFacts!ToSet
<1>5. \A l : Policy!isPackageSetup(l) = PolicyFacts!isPackageSetup(l)
  BY DEF Policy!isPackageSetup, PolicyFacts!isPackageSetup, Policy!Name, PolicyFacts!Name,
     Policy!W, PolicyFacts!W
<1>6. /\ \A l : Policy!IsFastPathAllowed(l) = PolicyFacts!IsFastPathAllowed(l)
      /\ \A l :
           Policy!IsProofGatedReplayCandidate(l) = PolicyFacts!IsProofGatedReplayCandidate(l)
  BY <1>1, <1>2, <1>3, SameGit, SameSearch
     DEF Policy!IsFastPathAllowed, PolicyFacts!IsFastPathAllowed,
         Policy!IsProofGatedReplayCandidate, PolicyFacts!IsProofGatedReplayCandidate
<1>7. \A l : Policy!IsReplayAllowed(l) = PolicyFacts!IsReplayAllowed(l)
  BY <1>6, SameLog
     DEF Policy!IsReplayAllowed, PolicyFacts!IsReplayAllowed
<1>8. \A l : Policy!isSearch(l) = PolicyFacts!isSearch(l)
  BY <1>2, SameOperation, SameSearch
     DEF Policy!isSearch, PolicyFacts!isSearch, Policy!W, PolicyFacts!W, Policy!F,
         PolicyFacts!F
<1>9. \A l : Policy!Classify(l) = PolicyFacts!Classify(l)
  BY <1>1, <1>3, <1>4, <1>5, <1>8, SameGit, SameWords
     DEF Policy!Classify, PolicyFacts!Classify
<1>10. \A l, o, v : Policy!Decide(l, o, v) = PolicyFacts!Decide(l, o, v)
  BY <1>6, <1>9
     DEF Policy!Decide, PolicyFacts!Decide, Policy!NeverFamilies,
         PolicyFacts!NeverFamilies
<1>11. \A l : Policy!MayReplay(l) = PolicyFacts!MayReplay(l)
  BY <1>7, <1>10
     DEF Policy!MayReplay, PolicyFacts!MayReplay
<1>q. QED BY <1>7, <1>9, <1>11

\* What is said of it.
LEMMA SamePolicy ==
    /\ Policy!PolicyAssumption <=> PolicyFacts!PolicyAssumption
    /\ Policy!Init <=> PolicyFacts!Init
    /\ [Policy!Next]_<<argv, start>> <=> [PolicyFacts!Next]_<<argv, start>>
    /\ Policy!TypeOK <=> PolicyFacts!TypeOK
    /\ Policy!OnlyReads <=> PolicyFacts!OnlyReads
    /\ Policy!ReadAsTool <=> PolicyFacts!ReadAsTool
<1>1. Policy!PolicyAssumption <=> PolicyFacts!PolicyAssumption
  BY DEF Policy!PolicyAssumption, PolicyFacts!PolicyAssumption, Policy!Word,
     PolicyFacts!Word, Policy!IsFlag, PolicyFacts!IsFlag
<1>2. /\ Policy!Init <=> PolicyFacts!Init
      /\ [Policy!Next]_<<argv, start>> <=> [PolicyFacts!Next]_<<argv, start>>
  BY DEF Policy!Init, PolicyFacts!Init, Policy!Next, PolicyFacts!Next, Policy!Add,
     PolicyFacts!Add
<1>3. Policy!Invoked = PolicyFacts!Invoked
  BY SameGitOptions
     DEF Policy!Invoked, PolicyFacts!Invoked
<1>4. Policy!TypeOK <=> PolicyFacts!TypeOK
  BY <1>3
     DEF Policy!TypeOK, PolicyFacts!TypeOK
<1>5. \A l : Policy!OnlyLooks(l) = PolicyFacts!OnlyLooks(l)
  BY SameGitReads, SameGetopt, SameWords
     DEF Policy!OnlyLooks, PolicyFacts!OnlyLooks, Policy!Questions, PolicyFacts!Questions,
         Policy!Selections, PolicyFacts!Selections, Policy!W, PolicyFacts!W, Policy!F,
         PolicyFacts!F
<1>6. Policy!OnlyReads <=> PolicyFacts!OnlyReads
  <2>1. \A l : Policy!Harmless(l) = PolicyFacts!Harmless(l)
    BY <1>5, SameAnswered
       DEF Policy!Harmless, PolicyFacts!Harmless, Policy!NeverFamilies,
           PolicyFacts!NeverFamilies
  <2>2. /\ \A l : Policy!ByPath(l) = PolicyFacts!ByPath(l)
        /\ \A l : Policy!RunsAnother(l) = PolicyFacts!RunsAnother(l)
        /\ \A l : Policy!Attached(l) = PolicyFacts!Attached(l)
    BY SameWords, SameGitReads
       DEF Policy!ByPath, PolicyFacts!ByPath, Policy!RunsAnother, PolicyFacts!RunsAnother,
           Policy!Attached, PolicyFacts!Attached
  <2>3. /\ \A l : Policy!AsGiven(l) = PolicyFacts!AsGiven(l)
        /\ \A l : Policy!OnTrust(l) = PolicyFacts!OnTrust(l)
    BY <1>5, <2>2, SameWords
       DEF Policy!AsGiven, PolicyFacts!AsGiven, Policy!OnTrust, PolicyFacts!OnTrust
  <2>q. QED
    BY <1>3, <2>1, <2>3, SameAnswered
       DEF Policy!OnlyReads, PolicyFacts!OnlyReads
<1>7. ASSUME NEW o, NEW l PROVE Policy!SameRead(o, l) = PolicyFacts!SameRead(o, l)
  <2> DEFINE g == Policy!Getopt(l)
  <2>1. g = PolicyFacts!Getopt(l)
    BY SameGetopt
  <2> HIDE DEF g
  <2>2. g = Policy!Getopt(l)
    BY DEF g
  <2>q. QED
    BY <2>1, <2>2
       DEF Policy!SameRead, PolicyFacts!SameRead, Policy!Switch, PolicyFacts!Switch,
           Policy!Number, PolicyFacts!Number, Policy!Selections, PolicyFacts!Selections
<1>8. \A o, l : Policy!SameRead(o, l) = PolicyFacts!SameRead(o, l)
  BY <1>7
<1>9. \A i : Policy!AsTool(i) = PolicyFacts!AsTool(i)
  BY <1>8, SameAnswered, SameOperation, SameSearch, SameGitReads, SameGetopt, SameClean,
     SameWords, SameSets
     DEF Policy!AsTool, PolicyFacts!AsTool, Policy!Attached, PolicyFacts!Attached,
         Policy!Hidden, PolicyFacts!Hidden, Policy!W, PolicyFacts!W, Policy!F,
         PolicyFacts!F
<1>10. Policy!ReadAsTool <=> PolicyFacts!ReadAsTool
  BY <1>3, <1>9
     DEF Policy!ReadAsTool, PolicyFacts!ReadAsTool
<1>q. QED BY <1>1, <1>2, <1>4, <1>6, <1>10

PolicyPart == part = "policy" => PolicyFacts!Begun

LEMMA PolicyPartHolds == PartsSpec => []PolicyPart
<1>1. PolicyFacts!PolicyAssumption
  BY ComponentsAssumption, SamePolicy
<1>2. PartsInit => PolicyPart
  BY <1>1, PartStarts, SamePolicy, PolicyFacts!BegunInit DEF PolicyPart
<1>3. PolicyPart /\ [PartsNext]_<<part, partVars>> => PolicyPart'
  BY <1>1, PartSteps, SamePolicy, PolicyFacts!BegunNext DEF PolicyPart
<1>q. QED BY <1>2, <1>3, PTL DEF PartsSpec

\* In every behaviour a command line that may be answered, of whatever words and
\* length, is of no family that is always left to the program, and it only looks, as it
\* is normalized and as it was given, but for what the code takes on trust: a program
\* given by a path, the values of core.fsmonitor and core.hooksPath, and -Cd.
THEOREM PartsOnlyReads == PartsSpec => []OnlyReads
<1>1. PolicyPart => OnlyReads
  BY ComponentsAssumption, SamePolicy, PolicyFacts!BegunLine, PolicyFacts!Looks
     DEF PolicyPart, OnlyReads
<1>q. QED BY <1>1, PolicyPartHolds, PTL

\* And it is understood as the tool of that base name reads it: git's directory, settings and
\* arguments, the file, pattern and switches of a read, the paths of a search.
THEOREM PartsReadAsTool == PartsSpec => []ReadAsTool
<1>1. PolicyPart => ReadAsTool
  BY ComponentsAssumption, SamePolicy, PolicyFacts!BegunLine, PolicyFacts!Means
     DEF PolicyPart, ReadAsTool
<1>q. QED BY <1>1, PolicyPartHolds, PTL

(***************************************************************************)
(* Reads of a file.  LineReadsProofs is about instances of the same        *)
(* definitions that its own EXTENDS made: they are the same here.          *)
(***************************************************************************)
ReadsFacts == INSTANCE LineReadsProofs

\* Sequences of bytes and what is made of them.
LEMMA SameBytes ==
    /\ \A S : Reads!Min(S) = ReadsFacts!Min(S)
    /\ \A S : Reads!Max(S) = ReadsFacts!Max(S)
    /\ \A S : Reads!Cardinality(S) = ReadsFacts!Cardinality(S)
    /\ \A s : Reads!FlattenSeq(s) = ReadsFacts!FlattenSeq(s)
    /\ \A s : Reads!ToSet(s) = ReadsFacts!ToSet(s)
    /\ \A s, n : Reads!Copies(s, n) = ReadsFacts!Copies(s, n)
    /\ \A o, m : Reads!Bounded(o, m) = ReadsFacts!Bounded(o, m)
    /\ \A b, p : Reads!Holds(b, p) = ReadsFacts!Holds(b, p)
    /\ \A l : Reads!Body(l) = ReadsFacts!Body(l)
<1>1. \A S : Reads!Min(S) = ReadsFacts!Min(S)
  BY DEF Reads!Min, ReadsFacts!Min
<1>2. \A S : Reads!Max(S) = ReadsFacts!Max(S)
  BY DEF Reads!Max, ReadsFacts!Max
<1>3. \A S : Reads!Cardinality(S) = ReadsFacts!Cardinality(S)
  BY DEF Reads!Cardinality, ReadsFacts!Cardinality, Reads!IsFiniteSet, ReadsFacts!IsFiniteSet
<1>4. \A s : Reads!FlattenSeq(s) = ReadsFacts!FlattenSeq(s)
  BY DEF Reads!FlattenSeq, ReadsFacts!FlattenSeq
<1>5. \A s : Reads!ToSet(s) = ReadsFacts!ToSet(s)
  BY DEF Reads!ToSet, ReadsFacts!ToSet
<1>6. \A s, n : Reads!Copies(s, n) = ReadsFacts!Copies(s, n)
  BY <1>4 DEF Reads!Copies, ReadsFacts!Copies
<1>7. \A o, m : Reads!Bounded(o, m) = ReadsFacts!Bounded(o, m)
  BY DEF Reads!Bounded, ReadsFacts!Bounded, Reads!Failed, ReadsFacts!Failed, Reads!Result,
         ReadsFacts!Result
<1>8. \A b, p : Reads!Holds(b, p) = ReadsFacts!Holds(b, p)
  BY DEF Reads!Holds, ReadsFacts!Holds
<1>9. \A l : Reads!Body(l) = ReadsFacts!Body(l)
  BY DEF Reads!Body, ReadsFacts!Body, Reads!NL, ReadsFacts!NL
<1>q. QED BY <1>1, <1>2, <1>3, <1>4, <1>5, <1>6, <1>7, <1>8, <1>9

\* Where lines begin and end.
LEMMA SameCut ==
    /\ \A b, f : Reads!LineEnd(b, f) = ReadsFacts!LineEnd(b, f)
    /\ \A b, s : Reads!NextLine(b, s) = ReadsFacts!NextLine(b, s)
    /\ \A b : Reads!Scan(b) = ReadsFacts!Scan(b)
    /\ \A b : Reads!lineStartsForContent(b) = ReadsFacts!lineStartsForContent(b)
    /\ \A b, t, i : Reads!lineEndOffset(b, t, i) = ReadsFacts!lineEndOffset(b, t, i)
    /\ \A b, i : Reads!LineOf(b, i) = ReadsFacts!LineOf(b, i)
    /\ \A b, n : Reads!TextOf(b, n) = ReadsFacts!TextOf(b, n)
    /\ \A b : Reads!LineCount(b) = ReadsFacts!LineCount(b)
    /\ \A b : Reads!Terminated(b) = ReadsFacts!Terminated(b)
    /\ \A b : Reads!Close(b) = ReadsFacts!Close(b)
<1>1. \A b, f : Reads!LineEnd(b, f) = ReadsFacts!LineEnd(b, f)
  BY SameBytes DEF Reads!LineEnd, ReadsFacts!LineEnd, Reads!NL, ReadsFacts!NL
<1>2. \A b, s : Reads!NextLine(b, s) = ReadsFacts!NextLine(b, s)
  BY <1>1 DEF Reads!NextLine, ReadsFacts!NextLine
<1>3. \A b : Reads!Scan(b) = ReadsFacts!Scan(b)
  BY <1>2 DEF Reads!Scan, ReadsFacts!Scan
<1>4. \A b : Reads!lineStartsForContent(b) = ReadsFacts!lineStartsForContent(b)
  BY DEF Reads!lineStartsForContent, ReadsFacts!lineStartsForContent, Reads!Begins,
         ReadsFacts!Begins, Reads!NL, ReadsFacts!NL
<1>5. \A b, t, i : Reads!lineEndOffset(b, t, i) = ReadsFacts!lineEndOffset(b, t, i)
  BY DEF Reads!lineEndOffset, ReadsFacts!lineEndOffset
<1>6. \A b, i : Reads!LineOf(b, i) = ReadsFacts!LineOf(b, i)
  BY SameBytes DEF Reads!LineOf, ReadsFacts!LineOf, Reads!NL, ReadsFacts!NL
<1>7. \A b, n : Reads!TextOf(b, n) = ReadsFacts!TextOf(b, n)
  BY SameBytes, <1>6 DEF Reads!TextOf, ReadsFacts!TextOf
<1>8. \A b : Reads!LineCount(b) = ReadsFacts!LineCount(b)
  BY <1>6 DEF Reads!LineCount, ReadsFacts!LineCount
<1>9. \A b : Reads!Terminated(b) = ReadsFacts!Terminated(b)
  BY DEF Reads!Terminated, ReadsFacts!Terminated, Reads!NL, ReadsFacts!NL
<1>10. \A b : Reads!Close(b) = ReadsFacts!Close(b)
  BY <1>9 DEF Reads!Close, ReadsFacts!Close, Reads!NL, ReadsFacts!NL
<1>q. QED BY <1>1, <1>2, <1>3, <1>4, <1>5, <1>6, <1>7, <1>8, <1>9, <1>10

\* The clauses of sed -n.
LEMMA SameSelections ==
    /\ \A c : Reads!parseSedPrintSelection(c) = ReadsFacts!parseSedPrintSelection(c)
    /\ \A s : Reads!valid(s) = ReadsFacts!valid(s)
    /\ \A s : Reads!maxEnd(s) = ReadsFacts!maxEnd(s)
    /\ \A s, l : Reads!matchCount(s, l) = ReadsFacts!matchCount(s, l)
<1>1. \A c : Reads!parseSedPrintSelection(c) = ReadsFacts!parseSedPrintSelection(c)
  BY DEF Reads!parseSedPrintSelection, ReadsFacts!parseSedPrintSelection
<1>2. \A s : Reads!valid(s) = ReadsFacts!valid(s)
  BY DEF Reads!valid, ReadsFacts!valid
<1>3. \A s : Reads!maxEnd(s) = ReadsFacts!maxEnd(s)
  BY SameBytes DEF Reads!maxEnd, ReadsFacts!maxEnd
<1>4. \A s, l : Reads!matchCount(s, l) = ReadsFacts!matchCount(s, l)
  BY SameBytes DEF Reads!matchCount, ReadsFacts!matchCount
<1>q. QED BY <1>1, <1>2, <1>3, <1>4

\* What sed prints, from bytes.
LEMMA SameSed ==
    \A b, t, s, m : Reads!sedPrintSelectionBytesIndexed(b, t, s, m)
                      = ReadsFacts!sedPrintSelectionBytesIndexed(b, t, s, m)
<1> TAKE b, t, s, m
<1>1. [n \in DOMAIN t |-> SubSeq(b, t[n], Reads!lineEndOffset(b, t, n))]
        = [n \in DOMAIN t |-> SubSeq(b, t[n], ReadsFacts!lineEndOffset(b, t, n))]
  BY SameCut
<1>2. ASSUME NEW l
      PROVE  Reads!FlattenSeq([n \in 1..Reads!Min({Reads!maxEnd(s), Len(l)}) |->
                                  Reads!Copies(l[n], Reads!matchCount(s, n))])
               = ReadsFacts!FlattenSeq([n \in 1..ReadsFacts!Min({ReadsFacts!maxEnd(s), Len(l)}) |->
                                  ReadsFacts!Copies(l[n], ReadsFacts!matchCount(s, n))])
  <2>1. Reads!Min({Reads!maxEnd(s), Len(l)}) = ReadsFacts!Min({ReadsFacts!maxEnd(s), Len(l)})
    BY SameBytes, SameSelections
  <2> DEFINE k == Reads!Min({Reads!maxEnd(s), Len(l)})
  <2> HIDE DEF k
  <2>2. [n \in 1..k |-> Reads!Copies(l[n], Reads!matchCount(s, n))]
          = [n \in 1..k |-> ReadsFacts!Copies(l[n], ReadsFacts!matchCount(s, n))]
    BY SameBytes, SameSelections
  <2>q. QED BY <2>1, <2>2, SameBytes DEF k
<1>3. Reads!Failed = ReadsFacts!Failed /\ \A o : Reads!Result(o) = ReadsFacts!Result(o)
  BY DEF Reads!Failed, ReadsFacts!Failed, Reads!Result, ReadsFacts!Result
<1>4. Reads!valid(s) <=> ReadsFacts!valid(s)
  BY DEF Reads!valid, ReadsFacts!valid
<1> DEFINE lines == IF t # <<>> THEN [n \in DOMAIN t |-> SubSeq(b, t[n], Reads!lineEndOffset(b, t, n))]
                    ELSE Reads!Scan(b)
           same == IF t # <<>> THEN [n \in DOMAIN t |-> SubSeq(b, t[n], ReadsFacts!lineEndOffset(b, t, n))]
                   ELSE ReadsFacts!Scan(b)
           Out(l) == Reads!FlattenSeq([n \in 1..Reads!Min({Reads!maxEnd(s), Len(l)}) |->
                                          Reads!Copies(l[n], Reads!matchCount(s, n))])
           Text(l) == ReadsFacts!FlattenSeq([n \in 1..ReadsFacts!Min({ReadsFacts!maxEnd(s), Len(l)}) |->
                                          ReadsFacts!Copies(l[n], ReadsFacts!matchCount(s, n))])
<1>5. Reads!sedPrintSelectionBytesIndexed(b, t, s, m)
        = IF ~Reads!valid(s) THEN Reads!Failed ELSE IF b = <<>> THEN Reads!Result(<<>>)
          ELSE Reads!Bounded(Out(lines), m)
  BY Zenon DEF Reads!sedPrintSelectionBytesIndexed
<1>6. ReadsFacts!sedPrintSelectionBytesIndexed(b, t, s, m)
        = IF ~ReadsFacts!valid(s) THEN ReadsFacts!Failed ELSE IF b = <<>> THEN ReadsFacts!Result(<<>>)
          ELSE ReadsFacts!Bounded(Text(same), m)
  BY Zenon DEF ReadsFacts!sedPrintSelectionBytesIndexed
<1>7. lines = same
  BY <1>1, SameCut
<1>8. \A l : Out(l) = Text(l)
  BY <1>2
<1> HIDE DEF lines, same, Out, Text
<1>q. QED BY <1>3, <1>4, <1>5, <1>6, <1>7, <1>8, SameBytes

\* What nl and sed print in one pass.
LEMMA SameNumbers ==
    \A b, s, m : Reads!numberedLineSelectionBytes(b, s, m)
                   = ReadsFacts!numberedLineSelectionBytes(b, s, m)
<1> TAKE b, s, m
<1> DEFINE Row(l, n) == Reads!Digits(n) \o <<Reads!TAB>>
                          \o (IF l[n][Len(l[n])] = Reads!NL THEN l[n] ELSE Append(l[n], Reads!NL))
           Line(l, n) == ReadsFacts!Digits(n) \o <<ReadsFacts!TAB>>
                          \o (IF l[n][Len(l[n])] = ReadsFacts!NL THEN l[n] ELSE Append(l[n], ReadsFacts!NL))
<1>1. \A l, n : Row(l, n) = Line(l, n)
  BY DEF Reads!Digits, ReadsFacts!Digits, Reads!TAB, ReadsFacts!TAB, Reads!NL, ReadsFacts!NL
<1>2. ASSUME NEW l
      PROVE  Reads!FlattenSeq([n \in 1..Reads!Min({Reads!maxEnd(s), Len(l)}) |->
                                  Reads!Copies(Row(l, n), Reads!matchCount(s, n))])
               = ReadsFacts!FlattenSeq([n \in 1..ReadsFacts!Min({ReadsFacts!maxEnd(s), Len(l)}) |->
                                  ReadsFacts!Copies(Line(l, n), ReadsFacts!matchCount(s, n))])
  <2>1. Reads!Min({Reads!maxEnd(s), Len(l)}) = ReadsFacts!Min({ReadsFacts!maxEnd(s), Len(l)})
    BY SameBytes, SameSelections
  <2> DEFINE k == Reads!Min({Reads!maxEnd(s), Len(l)})
  <2> HIDE DEF k, Row, Line
  <2>2. [n \in 1..k |-> Reads!Copies(Row(l, n), Reads!matchCount(s, n))]
          = [n \in 1..k |-> ReadsFacts!Copies(Line(l, n), ReadsFacts!matchCount(s, n))]
    BY <1>1, SameBytes, SameSelections
  <2>q. QED BY <2>1, <2>2, SameBytes DEF k
<1>3. Reads!Failed = ReadsFacts!Failed /\ \A o : Reads!Result(o) = ReadsFacts!Result(o)
  BY DEF Reads!Failed, ReadsFacts!Failed, Reads!Result, ReadsFacts!Result
<1>4. Reads!valid(s) <=> ReadsFacts!valid(s)
  BY DEF Reads!valid, ReadsFacts!valid
<1>5. \A y : Reads!isDefaultNLLogicalPageDelimiter(y) <=> ReadsFacts!isDefaultNLLogicalPageDelimiter(y)
  BY DEF Reads!isDefaultNLLogicalPageDelimiter, ReadsFacts!isDefaultNLLogicalPageDelimiter,
     Reads!Page, ReadsFacts!Page
<1> DEFINE lines == Reads!Scan(b)
           paged == \E n \in DOMAIN lines : Reads!isDefaultNLLogicalPageDelimiter(Reads!Body(lines[n]))
           out == Reads!FlattenSeq([n \in 1..Reads!Min({Reads!maxEnd(s), Len(lines)}) |->
                                  Reads!Copies(Row(lines, n), Reads!matchCount(s, n))])
<1>6. Reads!numberedLineSelectionBytes(b, s, m)
        = IF ~Reads!valid(s) THEN Reads!Failed ELSE IF paged THEN Reads!Failed
          ELSE IF lines = <<>> THEN Reads!Result(<<>>) ELSE Reads!Bounded(out, m)
  BY Zenon DEF Reads!numberedLineSelectionBytes
<1>7. ReadsFacts!numberedLineSelectionBytes(b, s, m)
        = IF ~Reads!valid(s) THEN Reads!Failed ELSE IF paged THEN Reads!Failed
          ELSE IF lines = <<>> THEN Reads!Result(<<>>) ELSE Reads!Bounded(out, m)
  <2> DEFINE same == ReadsFacts!Scan(b)
             halted == \E n \in DOMAIN same :
                         ReadsFacts!isDefaultNLLogicalPageDelimiter(ReadsFacts!Body(same[n]))
             text == ReadsFacts!FlattenSeq([n \in 1..ReadsFacts!Min({ReadsFacts!maxEnd(s), Len(same)}) |->
                                  ReadsFacts!Copies(Line(same, n), ReadsFacts!matchCount(s, n))])
  <2>1. ReadsFacts!numberedLineSelectionBytes(b, s, m)
        = IF ~ReadsFacts!valid(s) THEN ReadsFacts!Failed ELSE IF halted THEN ReadsFacts!Failed
          ELSE IF same = <<>> THEN ReadsFacts!Result(<<>>) ELSE ReadsFacts!Bounded(text, m)
    BY Zenon DEF ReadsFacts!numberedLineSelectionBytes
  <2>2. same = lines
    BY SameCut
  <2>3. paged <=> halted
    BY <1>5, <2>2, SameBytes
  <2>4. out = text
    <3> HIDE DEF lines, same, Row, Line
    <3>q. QED BY <1>2, <2>2
  <2> HIDE DEF lines, same, paged, halted, out, text
  <2>q. QED BY <1>3, <1>4, <2>1, <2>2, <2>3, <2>4, SameBytes
<1>q. QED BY <1>6, <1>7

\* What grep and rg find.
LEMMA SameMatching ==
    \A b, p, q, w : Reads!Matching(b, p, q, w) = ReadsFacts!Matching(b, p, q, w)
<1> TAKE b, p, q, w
<1> DEFINE lines == Reads!Scan(b)
           found == {n \in DOMAIN lines : Reads!Holds(Reads!Body(lines[n]), p)}
           same == ReadsFacts!Scan(b)
           alike == {n \in DOMAIN same : ReadsFacts!Holds(ReadsFacts!Body(same[n]), p)}
           Ours(n) == IF n \notin found THEN <<>>
                      ELSE (IF w THEN Append(Reads!Digits(n), Reads!Colon) ELSE <<>>)
                           \o Append(Reads!Body(lines[n]), Reads!NL)
           Theirs(n) == IF n \notin alike THEN <<>>
                      ELSE (IF w THEN Append(ReadsFacts!Digits(n), ReadsFacts!Colon) ELSE <<>>)
                           \o Append(ReadsFacts!Body(same[n]), ReadsFacts!NL)
<1>1. lines = same /\ found = alike
  BY SameBytes, SameCut
<1>2. \A n : Ours(n) = Theirs(n)
  <2> HIDE DEF lines, same, found, alike
  <2>q. QED BY <1>1, SameBytes DEF Reads!Digits, ReadsFacts!Digits, Reads!Colon,
                ReadsFacts!Colon, Reads!NL, ReadsFacts!NL
<1>3. Reads!Matching(b, p, q, w)
        = [matched |-> p # <<>> /\ found # {},
           stdout |-> IF q \/ p = <<>> THEN <<>>
                      ELSE Reads!FlattenSeq([n \in DOMAIN lines |-> Ours(n)])]
  BY Zenon DEF Reads!Matching
<1>4. ReadsFacts!Matching(b, p, q, w)
        = [matched |-> p # <<>> /\ alike # {},
           stdout |-> IF q \/ p = <<>> THEN <<>>
                      ELSE ReadsFacts!FlattenSeq([n \in DOMAIN same |-> Theirs(n)])]
  BY Zenon DEF ReadsFacts!Matching
<1> HIDE DEF lines, same, found, alike, Ours, Theirs
<1>5. [n \in DOMAIN lines |-> Ours(n)] = [n \in DOMAIN same |-> Theirs(n)]
  BY <1>1, <1>2
<1>6. Reads!FlattenSeq([n \in DOMAIN lines |-> Ours(n)])
        = ReadsFacts!FlattenSeq([n \in DOMAIN same |-> Theirs(n)])
  BY <1>5, SameBytes
<1>q. QED BY <1>1, <1>3, <1>4, <1>6

\* sed itself.
LEMMA SameNativeSed ==
    \A b, s : Reads!NativeSed(b, s) = ReadsFacts!NativeSed(b, s)
<1> TAKE b, s
<1> DEFINE One(n) == Reads!FlattenSeq([i \in DOMAIN s |->
                        IF n \in s[i].start..s[i].end THEN <<Reads!TextOf(b, n)>> ELSE <<>>])
           Another(n) == ReadsFacts!FlattenSeq([i \in DOMAIN s |->
                        IF n \in s[i].start..s[i].end THEN <<ReadsFacts!TextOf(b, n)>> ELSE <<>>])
           printed == Reads!FlattenSeq([n \in 1..Reads!LineCount(b) |-> One(n)])
           same == ReadsFacts!FlattenSeq([n \in 1..ReadsFacts!LineCount(b) |-> Another(n)])
<1>1. \A n : One(n) = Another(n)
  BY SameBytes, SameCut
<1>2. printed = same
  <2> HIDE DEF One, Another
  <2>1. [n \in 1..Reads!LineCount(b) |-> One(n)] = [n \in 1..ReadsFacts!LineCount(b) |-> Another(n)]
    BY <1>1, SameCut
  <2>q. QED BY <2>1, SameBytes
<1>3. Reads!NativeSed(b, s)
        = Reads!FlattenSeq([k \in DOMAIN printed |->
                        IF k < Len(printed) THEN Reads!Close(printed[k]) ELSE printed[k]])
  BY Zenon DEF Reads!NativeSed
<1>4. ReadsFacts!NativeSed(b, s)
        = ReadsFacts!FlattenSeq([k \in DOMAIN same |->
                        IF k < Len(same) THEN ReadsFacts!Close(same[k]) ELSE same[k]])
  BY Zenon DEF ReadsFacts!NativeSed
<1> HIDE DEF printed, same
<1>5. [k \in DOMAIN printed |-> IF k < Len(printed) THEN Reads!Close(printed[k]) ELSE printed[k]]
        = [k \in DOMAIN same |-> IF k < Len(same) THEN ReadsFacts!Close(same[k]) ELSE same[k]]
  BY <1>2, SameCut
<1>q. QED BY <1>3, <1>4, <1>5, SameBytes

\* The answers computed from bytes.
LEMMA SameAnswers ==
    /\ \A b, t, n : Reads!tailLineBytesIndexed(b, t, n)
            = ReadsFacts!tailLineBytesIndexed(b, t, n)
    /\ \A b, m : Reads!numberedAllLinesBytes(b, m) = ReadsFacts!numberedAllLinesBytes(b, m)
    /\ \A b, t, o : Reads!warmFileCommandOutputIndexed(b, t, o)
            = ReadsFacts!warmFileCommandOutputIndexed(b, t, o)
    /\ \A b, t, o : Reads!Answered(b, t, o) = ReadsFacts!Answered(b, t, o)
<1>1. \A b, t, n : Reads!tailLineBytesIndexed(b, t, n)
            = ReadsFacts!tailLineBytesIndexed(b, t, n)
  BY SameBytes, SameCut DEF Reads!tailLineBytesIndexed, ReadsFacts!tailLineBytesIndexed
<1>2. \A b, m : Reads!numberedAllLinesBytes(b, m) = ReadsFacts!numberedAllLinesBytes(b, m)
  BY SameNumbers DEF Reads!numberedAllLinesBytes, ReadsFacts!numberedAllLinesBytes,
         Reads!singleLineSelection, ReadsFacts!singleLineSelection
<1>3. \A b, t, o : Reads!warmFileCommandOutputIndexed(b, t, o)
            = ReadsFacts!warmFileCommandOutputIndexed(b, t, o)
  BY <1>1, <1>2, SameSed, SameMatching DEF Reads!warmFileCommandOutputIndexed,
         ReadsFacts!warmFileCommandOutputIndexed, Reads!Result, ReadsFacts!Result,
         Reads!fixedGrepOutput, ReadsFacts!fixedGrepOutput, Reads!fixedRgOutput,
         ReadsFacts!fixedRgOutput, Reads!Search, ReadsFacts!Search,
         Reads!Failed, ReadsFacts!Failed, Reads!Binary, ReadsFacts!Binary, Reads!NUL,
         ReadsFacts!NUL, Reads!singleLineSelection, ReadsFacts!singleLineSelection
<1>4. \A b, t, o : Reads!Answered(b, t, o) = ReadsFacts!Answered(b, t, o)
  BY <1>3 DEF Reads!Answered, ReadsFacts!Answered, Reads!Failed, ReadsFacts!Failed
<1>q. QED BY <1>1, <1>2, <1>3, <1>4

\* The commands themselves.
LEMMA SameNative ==
    /\ \A b, o, n : Reads!NativeSearch(b, o, n) = ReadsFacts!NativeSearch(b, o, n)
    /\ \A b, o : Reads!Native(b, o) = ReadsFacts!Native(b, o)
<1>1. ASSUME NEW b, NEW o, NEW n PROVE Reads!NativeSearch(b, o, n) = ReadsFacts!NativeSearch(b, o, n)
  <2> DEFINE lines == 1..Reads!LineCount(b)
             found == {l \in lines : Reads!Holds(Reads!Body(Reads!TextOf(b, l)), o.pattern)}
             Ours(l) == (IF n THEN Append(Reads!Digits(l), Reads!Colon) ELSE <<>>)
                        \o Reads!Close(Reads!TextOf(b, l))
             Theirs(l) == (IF n THEN Append(ReadsFacts!Digits(l), ReadsFacts!Colon) ELSE <<>>)
                          \o ReadsFacts!Close(ReadsFacts!TextOf(b, l))
             ours == Reads!FlattenSeq([l \in lines |-> IF l \in found THEN Ours(l) ELSE <<>>])
             theirs == ReadsFacts!FlattenSeq([l \in lines |-> IF l \in found THEN Theirs(l) ELSE <<>>])
             hidden == Reads!Binary(b)
             notice == Reads!Notice
  <2>1. Reads!NativeSearch(b, o, n)
          = [stdout |-> IF o.quiet \/ found = {} THEN <<>> ELSE IF hidden THEN notice ELSE ours,
             exit |-> IF found = {} THEN 1 ELSE 0]
    BY Zenon DEF Reads!NativeSearch
  <2>2. /\ lines = 1..ReadsFacts!LineCount(b)
        /\ found = {l \in lines :
                      ReadsFacts!Holds(ReadsFacts!Body(ReadsFacts!TextOf(b, l)), o.pattern)}
    BY SameBytes, SameCut
  <2>3. ReadsFacts!NativeSearch(b, o, n)
          = [stdout |-> IF o.quiet \/ found = {} THEN <<>>
                        ELSE IF ReadsFacts!Binary(b) THEN ReadsFacts!Notice ELSE theirs,
             exit |-> IF found = {} THEN 1 ELSE 0]
    <3> HIDE DEF lines, found
    <3>q. QED BY <2>2, Zenon DEF ReadsFacts!NativeSearch
  <2>4. hidden = ReadsFacts!Binary(b) /\ notice = ReadsFacts!Notice
    BY SameBytes
       DEF Reads!Binary, ReadsFacts!Binary, Reads!NUL, ReadsFacts!NUL, Reads!Notice,
           ReadsFacts!Notice
  <2>5. ours = theirs
    <3>1. \A l : Ours(l) = Theirs(l)
      BY SameCut DEF Reads!Digits, ReadsFacts!Digits, Reads!Colon, ReadsFacts!Colon
    <3> HIDE DEF Ours, Theirs, lines, found
    <3>2. [l \in lines |-> IF l \in found THEN Ours(l) ELSE <<>>]
            = [l \in lines |-> IF l \in found THEN Theirs(l) ELSE <<>>]
      BY <3>1
    <3>q. QED BY <3>2, SameBytes
  <2> HIDE DEF found, ours, theirs, hidden, notice
  <2>q. QED BY <2>1, <2>3, <2>4, <2>5
<1>2. \A b, o : Reads!Native(b, o) = ReadsFacts!Native(b, o)
  BY SameBytes, SameCut, SameNativeSed, <1>1
     DEF Reads!Native, ReadsFacts!Native, Reads!Digits, ReadsFacts!Digits, Reads!TAB,
         ReadsFacts!TAB
<1>q. QED BY <1>1, <1>2

\* What the theorems speak of.
LEMMA SameReads ==
    /\ Reads!ReadsAssumption <=> ReadsFacts!ReadsAssumption
    /\ Reads!Init <=> ReadsFacts!Init
    /\ [Reads!Next]_<<content, operation>> <=> [ReadsFacts!Next]_<<content, operation>>
    /\ Reads!TypeOK <=> ReadsFacts!TypeOK
    /\ Reads!ReadExact <=> ReadsFacts!ReadExact
    /\ Reads!FusedExact <=> ReadsFacts!FusedExact
<1>1. Reads!ReadsAssumption <=> ReadsFacts!ReadsAssumption
  BY DEF Reads!ReadsAssumption, ReadsFacts!ReadsAssumption
<1>2. Reads!Operations = ReadsFacts!Operations
  <2>1. Reads!Clauses = ReadsFacts!Clauses
    BY DEF Reads!Clauses, ReadsFacts!Clauses
  <2> DEFINE C == Reads!Clauses
             A1 == {Reads!parseSedPrintSelection(<<c, d>>) : c, d \in C}
             A2 == {Reads!parseSedPrintSelection(<<c>>) : c \in C}
             B1 == {ReadsFacts!parseSedPrintSelection(<<c, d>>) : c, d \in C}
             B2 == {ReadsFacts!parseSedPrintSelection(<<c>>) : c \in C}
             A == A1 \cup A2
             B == B1 \cup B2
             All(S) == [kind : {"cat", "nl"}]
                       \cup [kind : {"head", "tail"}, count : 1..MaxLine]
                       \cup [kind : {"sed"}, selection : S]
                       \cup [kind : {"grep"}, pattern : Needles, quiet : BOOLEAN]
                       \cup [kind : {"rg"}, pattern : Needles, quiet : BOOLEAN, number : BOOLEAN]
  <2>2. Reads!Operations = All(A)
    BY DEF Reads!Operations
  <2>3. ReadsFacts!Operations = All(B)
    BY <2>1 DEF ReadsFacts!Operations
  <2>4. A1 = B1
    <3>1. \A c, d : Reads!parseSedPrintSelection(<<c, d>>)
            = ReadsFacts!parseSedPrintSelection(<<c, d>>)
      BY SameSelections
    <3> HIDE DEF C
    <3>2. ASSUME NEW x \in A1 PROVE x \in B1
      <4>1. PICK c \in C, d \in C : x = Reads!parseSedPrintSelection(<<c, d>>)
        OBVIOUS
      <4>q. QED BY <3>1, <4>1
    <3>3. ASSUME NEW x \in B1 PROVE x \in A1
      <4>1. PICK c \in C, d \in C : x = ReadsFacts!parseSedPrintSelection(<<c, d>>)
        OBVIOUS
      <4>q. QED BY <3>1, <4>1
    <3> HIDE DEF A1, B1
    <3>q. QED BY <3>2, <3>3
  <2>5. A2 = B2
    BY SameSelections
  <2> HIDE DEF A1, A2, B1, B2, All
  <2>q. QED BY <2>2, <2>3, <2>4, <2>5
<1>3. Reads!Init <=> ReadsFacts!Init
  BY <1>2 DEF Reads!Init, ReadsFacts!Init
<1>4. [Reads!Next]_<<content, operation>> <=> [ReadsFacts!Next]_<<content, operation>>
  BY DEF Reads!Next, ReadsFacts!Next, Reads!Grow, ReadsFacts!Grow
<1>5. Reads!TypeOK <=> ReadsFacts!TypeOK
  BY <1>2 DEF Reads!TypeOK, ReadsFacts!TypeOK
<1>6. Reads!RepeatsOpenLine <=> ReadsFacts!RepeatsOpenLine
  BY SameCut, SameSelections DEF Reads!RepeatsOpenLine, ReadsFacts!RepeatsOpenLine
<1>7. Reads!ReadExact <=> ReadsFacts!ReadExact
  BY <1>6, SameBytes, SameCut, SameAnswers, SameNative
     DEF Reads!ReadExact, ReadsFacts!ReadExact, Reads!Page, ReadsFacts!Page,
         Reads!Binary, ReadsFacts!Binary, Reads!NUL, ReadsFacts!NUL
<1>8. Reads!FusedExact <=> ReadsFacts!FusedExact
  BY SameAnswers, SameNumbers, SameNativeSed DEF Reads!FusedExact, ReadsFacts!FusedExact
<1>q. QED BY <1>1, <1>3, <1>4, <1>5, <1>7, <1>8

ReadsPart == part = "reads" => ReadsFacts!TypeOK

LEMMA ReadsPartHolds == PartsSpec => []ReadsPart
<1>1. ReadsFacts!ReadsAssumption
  BY ComponentsAssumption, SameReads
<1>2. PartsInit => ReadsPart
  BY <1>1, PartStarts, SameReads, ReadsFacts!ReadsInit DEF ReadsPart
<1>3. ReadsPart /\ [PartsNext]_<<part, partVars>> => ReadsPart'
  BY <1>1, PartSteps, SameReads, ReadsFacts!ReadsNext DEF ReadsPart
<1>q. QED BY <1>2, <1>3, PTL DEF PartsSpec

\* In every behaviour a read answered from the bytes of a file is what its
\* command prints, with the index of line starts and without, and is refused
\* only for the reasons LineReads gives.
THEOREM PartsReadExact == PartsSpec => []ReadExact
<1>1. ReadsPart => ReadExact
  BY ComponentsAssumption, SameReads, ReadsFacts!ReadsAnswered DEF ReadsPart, ReadExact
<1>q. QED BY <1>1, ReadsPartHolds, PTL

\* And nl and sed in one pass print what the two print one after the other.
THEOREM PartsFusedExact == PartsSpec => []FusedExact
<1>1. ReadsPart => FusedExact
  BY ComponentsAssumption, SameReads, ReadsFacts!FusedAnswered DEF ReadsPart, FusedExact
<1>q. QED BY <1>1, ReadsPartHolds, PTL

(***************************************************************************)
(* Types.                                                                  *)
(***************************************************************************)
\* In every behaviour every variable keeps the type of its component.
THEOREM PartsTypeCorrect ==
    ASSUME ChangeTime PROVE PartsSpec => []PartsTyped
<1> DEFINE TimerPart == part = "timer" => Timers
<1>1. PartsInit => TimerPart
  BY ComponentsAssumption, PartStarts, TimersInit
<1>2. TimerPart /\ [PartsNext]_<<part, partVars>> => TimerPart'
  BY ComponentsAssumption, PartSteps, TimersNext
<1>3. PartsSpec => []TimerPart
  <2> HIDE DEF TimerPart
  <2>q. QED BY <1>1, <1>2, PTL DEF PartsSpec
<1>4. PartsSpec => []LockPart
  BY LockPartHolds
<1>5. PartsSpec => []WatchPart
  BY WatchPartHolds
<1>6. SnapshotPart => (part = "snapshot" => Snapshot!TypeOK)
  BY ComponentsAssumption, SameSnapshot, SnapshotFacts!TypesHold DEF SnapshotPart
<1>7. PolicyPart => (part = "policy" => Policy!TypeOK)
  BY ComponentsAssumption, SamePolicy, PolicyFacts!BegunTyped DEF PolicyPart
<1>a. ReadsPart => (part = "reads" => Reads!TypeOK)
  BY SameReads DEF ReadsPart
<1>8. ASSUME TimerPart, IdentityPart, InputsPart, WatchPart, LockPart, SnapshotPart, PolicyPart,
             ReadsPart
      PROVE  PartsTyped
  BY <1>6, <1>7, <1>8, <1>a, WatchSound DEF PartsTyped, IdentityPart, InputsPart, WatchPart,
     LockPart, Timers, IdentityTypes, WalkInv, WalkTyped
<1> HIDE DEF TimerPart
<1>q. QED BY <1>3, <1>4, <1>5, <1>8, IdentityPartHolds, InputsPartHolds, SnapshotPartHolds,
             PolicyPartHolds, ReadsPartHolds, PTL
=============================================================================
