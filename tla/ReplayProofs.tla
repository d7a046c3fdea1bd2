---------------------------- MODULE ReplayProofs ----------------------------
(***************************************************************************)
(* What Replay promises, for any commands, contents, prewarm processes and *)
(* bounds.  A record is honest when the input it is kept under is the one  *)
(* its output was computed from; every ledger and every cache is honest,   *)
(* because an observation is only kept when the proofs before and after    *)
(* the run agree, and merging ledgers takes each record from one of them.  *)
(***************************************************************************)
EXTENDS Replay, TLAPS

-----------------------------------------------------------------------------
(* The operators on ledgers. *)

LEMMA ObservationTyped ==
    ASSUME NEW l \in Ledgers, NEW c \in Commands, NEW v, NEW out \in Contents
    PROVE  /\ UpsertObservation(l, c, v, out) \in Ledgers
           /\ UpsertObservation(l, c, v, out).prepared = l.prepared
           /\ v \in Contents => UpsertObservation(l, c, v, out).entries[c][v] = out
<1> DEFINE e == [l.entries EXCEPT ![c] = [l.entries[c] EXCEPT ![v] = out]]
<1>1. l.entries \in [Commands -> [Contents -> Contents \cup {None}]]
  BY DEF Ledgers
<1>2. [l.entries[c] EXCEPT ![v] = out] \in [Contents -> Contents \cup {None}]
  BY <1>1
<1>3. e \in [Commands -> [Contents -> Contents \cup {None}]]
  BY <1>1, <1>2
<1>4. v \in Contents => e[c][v] = out
  BY <1>1
<1>5. UpsertObservation(l, c, v, out) = [l EXCEPT !.entries = e]
  BY DEF UpsertObservation
<1> HIDE DEF e
<1>q. QED BY <1>3, <1>4, <1>5 DEF Ledgers

LEMMA PreparedTyped ==
    ASSUME NEW l \in Ledgers, NEW kind \in Kinds, NEW c \in Commands, NEW v \in Contents,
           NEW hot \in Contents, NEW sure \in BOOLEAN, tick \in Nat
    PROVE  /\ UpsertPrepared(l, kind, c, v, hot, sure) \in Ledgers
           /\ \A i \in Ids :
                  \/ UpsertPrepared(l, kind, c, v, hot, sure).prepared[i] = l.prepared[i]
                  \/ /\ i = <<kind, c, v>>
                     /\ UpsertPrepared(l, kind, c, v, hot, sure).prepared[i] =
                            [hot |-> hot, out |-> l.entries[c][v], at |-> tick + 1, sure |-> sure]
<1> DEFINE new == [hot |-> hot, out |-> l.entries[c][v], at |-> tick + 1, sure |-> sure]
<1>1. /\ l.entries \in [Commands -> [Contents -> Contents \cup {None}]]
      /\ l.prepared \in [Ids -> Prepared \cup {None}]
  BY DEF Ledgers
<1>2. <<kind, c, v>> \in Ids
  BY DEF Ids
<1>3. CASE l.entries[c][v] = None
  BY <1>3 DEF UpsertPrepared
<1>4. CASE l.entries[c][v] # None
  <2>1. new \in Prepared
    BY <1>1, <1>4 DEF Prepared
  <2>2. UpsertPrepared(l, kind, c, v, hot, sure) =
            [l EXCEPT !.prepared = [l.prepared EXCEPT ![<<kind, c, v>>] = new]]
    BY <1>4 DEF UpsertPrepared
  <2> HIDE DEF new
  <2>3. UpsertPrepared(l, kind, c, v, hot, sure) =
            [entries |-> l.entries, prepared |-> [l.prepared EXCEPT ![<<kind, c, v>>] = new],
             files |-> l.files]
    BY <2>2 DEF Ledgers
  <2>4. [l.prepared EXCEPT ![<<kind, c, v>>] = new] \in [Ids -> Prepared \cup {None}]
    BY <1>1, <2>1
  <2>5. UpsertPrepared(l, kind, c, v, hot, sure) \in Ledgers
    BY <1>1, <2>3, <2>4 DEF Ledgers
  <2>6. \A i \in Ids : [l.prepared EXCEPT ![<<kind, c, v>>] = new][i] =
                           IF i = <<kind, c, v>> THEN new ELSE l.prepared[i]
    BY <1>1, <1>2
  <2>q. QED BY <2>3, <2>5, <2>6 DEF new
<1>q. QED BY <1>3, <1>4

LEMMA MergeTyped ==
    ASSUME NEW base \in Ledgers, NEW incoming \in Ledgers
    PROVE  /\ Merge(base, incoming) \in Ledgers
           /\ \A i \in Ids : Merge(base, incoming).prepared[i] \in {base.prepared[i], incoming.prepared[i]}
BY DEF Merge, Ledgers

LEMMA CacheTyped == ASSUME NEW l \in Ledgers PROVE Cache(l) \in Caches
<1>1. ASSUME NEW i \in Ids, l.prepared[i] # None
      PROVE  <<i[2], l.prepared[i].hot, l.prepared[i].out, l.prepared[i].sure>>
                 \in Commands \X Contents \X Contents \X BOOLEAN
  BY <1>1 DEF Ledgers, Ids, Prepared
<1>q. QED BY <1>1 DEF Cache, Caches, Ledgers
-----------------------------------------------------------------------------
(* Types. *)

\* A process that is observing has a sample.
Typed == TypeOK /\ \A p \in Procs : pc[p] \in {"native", "after", "keyed"} => sample[p] \in Samples

LEMMA TypedInit == Init => Typed
<1> SUFFICES ASSUME Init PROVE Typed
  OBVIOUS
<1>1. NoLedger \in Ledgers /\ NoCache \in Caches
  BY DEF NoLedger, Ledgers, NoCache, Caches
<1>q. QED BY <1>1 DEF Init, Typed, TypeOK

LEMMA TypedMaintainer == ASSUME Typed, MaintainerStep PROVE Typed'
<1> USE DEF Typed, TypeOK, store, loop, procs, caller, counts, machine
<1>0. Maintainer \in Procs
  BY DEF Procs
<1>1. CASE Poll \/ Snapshot
  BY <1>1 DEF Poll, Snapshot
<1>2. CASE Load
  BY <1>2 DEF Load, Commands
<1>3. ASSUME NEW c \in Metadata, RunMetadata(c) PROVE Typed'
  <2>1. c \in Commands /\ Subject(c) \in Subjects
    BY DEF Commands, Subject, Subjects
  <2>2. UpsertObservation(ledger[Maintainer], c, head, world[Subject(c)]) \in Ledgers
    BY <1>0, <2>1, ObservationTyped
  <2>q. QED BY <1>3, <2>2 DEF RunMetadata
<1>4. CASE SaveMetadata
  <2>1. Merge(disk, ledger[Maintainer]) \in Ledgers
    BY <1>0, MergeTyped
  <2>2. PrepareMetadata(ledger[Maintainer]) \in [Ids -> Prepared \cup {None}]
    <3>1. ASSUME NEW i \in Ids PROVE PrepareMetadata(ledger[Maintainer])[i] \in Prepared \cup {None}
      <4>1. ledger[Maintainer] \in Ledgers /\ ledger[Maintainer].prepared[i] \in Prepared \cup {None}
        BY <1>0 DEF Ledgers
      <4>2. CASE i[1] = "fast-path" /\ i[2] \in Metadata /\ i[3] = head
        <5>1. /\ i[2] \in Commands /\ head \in Contents /\ "fast-path" \in Kinds /\ tick \in Nat
          BY <4>2 DEF Ids, Kinds
        <5>2. UpsertPrepared(ledger[Maintainer], "fast-path", i[2], head, head, TRUE) \in Ledgers
          BY <4>1, <5>1, PreparedTyped
        <5>q. QED BY <4>2, <5>2 DEF PrepareMetadata, Ledgers
      <4>q. QED BY <4>1, <4>2 DEF PrepareMetadata
    <3>q. QED BY <3>1 DEF PrepareMetadata
  <2>3. [ledger[Maintainer] EXCEPT !.prepared = PrepareMetadata(ledger[Maintainer])] \in Ledgers
    BY <1>0, <2>2 DEF Ledgers
  <2>4. ledger' = [ledger EXCEPT ![Maintainer] =
                     [ledger[Maintainer] EXCEPT !.prepared = PrepareMetadata(ledger[Maintainer])]]
    BY <1>4 DEF SaveMetadata
  <2>5. ledger' \in [Procs -> Ledgers]
    BY <2>3, <2>4
  <2>q. QED BY <1>4, <2>1, <2>5 DEF SaveMetadata, Commands
<1>5. CASE Demand
  <2>1. /\ requests' \subseteq requests /\ pc' \in {pc, [pc EXCEPT ![Maintainer] = "observe"]}
        /\ UNCHANGED <<machine, store, sample, kept, done, head, signal, lastSignal, caller, counts>>
    BY <1>5 DEF Demand
  <2>2. ledger' \in {ledger, [ledger EXCEPT ![Maintainer] = disk]} /\ task' \in {task, "demand"}
    BY <1>5 DEF Demand
  <2>3. todo' \in {todo, [todo EXCEPT ![Maintainer] = requests']}
    BY <1>5 DEF Demand
  <2>4. todo' \in [Procs -> SUBSET Commands]
    BY <1>0, <2>1, <2>3 DEF Commands
  <2>5. ledger' \in [Procs -> Ledgers]
    BY <1>0, <2>2
  <2>q. QED BY <1>0, <2>1, <2>2, <2>4, <2>5
<1>q. QED BY <1>1, <1>2, <1>3, <1>4, <1>5 DEF MaintainerStep

LEMMA TypedObserve == ASSUME Typed, NEW p \in Procs, ObserveStep(p) PROVE Typed'
<1> USE DEF Typed, TypeOK, store, loop, procs, caller, counts, machine
<1>0. Gated \subseteq Commands /\ Gated \subseteq Subjects
  BY DEF Commands, Subjects
<1>1. ASSUME NEW c \in Gated, Before(p, c) PROVE Typed'
  <2>1. [cmd |-> c, before |-> world[c], out |-> world[c], unseen |-> FALSE] \in Samples
    BY <1>0 DEF Samples
  <2>q. QED BY <1>1, <2>1 DEF Before
<1>2. CASE Native(p)
  <2>1. sample[p] \in Samples /\ [sample[p] EXCEPT !.out = world[sample[p].cmd]] \in Samples
    BY <1>0, <1>2 DEF Native, Samples
  <2>2. sample' = [sample EXCEPT ![p] = [sample[p] EXCEPT !.out = world[sample[p].cmd]]]
    BY <1>2 DEF Native
  <2>q. QED BY <1>2, <2>1, <2>2 DEF Native
<1>3. CASE After(p)
  <2>1. sample[p] \in Samples /\ sample[p].cmd \in Gated
    BY <1>3 DEF After, Samples
  <2>2. <<sample[p].cmd, world[sample[p].cmd], sample[p].out, sample[p].unseen>> \in Observed
    BY <1>0, <2>1 DEF Samples, Observed
  <2>q. QED BY <1>3, <2>1, <2>2 DEF After
<1>4. ASSUME NEW k \in kept[p], Key(p, k) PROVE Typed'
  <2>1. k \in Observed
    OBVIOUS
  <2>2. [cmd |-> k[1], before |-> world[k[1]], out |-> k[3], unseen |-> k[4]] \in Samples
    BY <1>0, <2>1 DEF Samples, Observed
  <2>q. QED BY <1>4, <2>2 DEF Key
<1>5. ASSUME NEW k \in kept[p], Store(p, k) PROVE Typed'
  <2> DEFINE s == sample[p]
             stored == UpsertObservation(ledger[p], s.cmd, world[s.cmd], s.out)
             kind == IF Warming(p) THEN "proof-gated" ELSE "adaptive"
             next == UpsertPrepared(stored, kind, s.cmd, s.before, k[2], ~s.unseen)
             files == IF Warming(p) THEN {} ELSE {<<s.cmd, world[s.cmd]>>}
  <2>1. /\ s.cmd \in Gated /\ s.cmd \in Commands /\ s.before \in Contents /\ s.out \in Contents
        /\ world[s.cmd] \in Contents /\ k[2] \in Contents /\ (~s.unseen) \in BOOLEAN
    BY <1>0, <1>5 DEF Store, Samples, Observed
  <2>2. kind \in Kinds
    BY DEF Kinds
  <2>3. stored \in Ledgers
    BY <2>1, ObservationTyped
  <2> HIDE DEF stored, kind
  <2>4. next \in Ledgers
    BY <2>1, <2>2, <2>3, PreparedTyped
  <2>5. files \subseteq Gated \X Contents
    BY <2>1
  <2>6. /\ ledger' = [ledger EXCEPT ![p] = [next EXCEPT !.files = next.files \cup files]]
        /\ tick' \in {tick, tick + 1}
        /\ kept' = [kept EXCEPT ![p] = @ \ {k}]
        /\ done' \in {[done EXCEPT ![p] = @ \cup {s.cmd}], done}
        /\ requests' \subseteq requests
        /\ sample' = [sample EXCEPT ![p] = None] /\ pc' = [pc EXCEPT ![p] = "observe"]
        /\ UNCHANGED <<machine, store, loop, todo, caller, faults>>
    BY <1>5 DEF Store, stored, kind
  <2> HIDE DEF next, files, s
  <2>7. [next EXCEPT !.files = next.files \cup files] \in Ledgers
    BY <2>4, <2>5 DEF Ledgers
  <2>q. QED BY <2>1, <2>6, <2>7
<1>q. QED BY <1>1, <1>2, <1>3, <1>4, <1>5 DEF ObserveStep

LEMMA TypedFinish == ASSUME Typed, NEW p \in Procs, FinishStep(p) PROVE Typed'
<1> USE DEF Typed, TypeOK, store, loop, procs, caller, counts, machine
<1>0. NoLedger \in Ledgers
  BY DEF NoLedger, Ledgers
<1>1. CASE Finish(p)
  <2>1. {<<c, world[c]>> : c \in Gated} \subseteq Gated \X Contents
    BY DEF Subjects
  <2>2. [ledger[p] EXCEPT !.files = ledger[p].files \cup {<<c, world[c]>> : c \in Gated}] \in Ledgers
    BY <2>1 DEF Ledgers
  <2> DEFINE full == [ledger[p] EXCEPT !.files = ledger[p].files \cup {<<c, world[c]>> : c \in Gated}]
  <2>3. \/ ledger' = [ledger EXCEPT ![p] = full]
        \/ ledger' = [ledger EXCEPT ![p] = ledger[p]]
        \/ ledger' = [ledger EXCEPT ![p] = NoLedger]
    <3> HIDE DEF Typed, TypeOK
    <3>1. CASE Warming(p)
      BY <1>1, <3>1 DEF Finish
    <3>2. CASE ~Warming(p) /\ done[p] # {}
      BY <1>1, <3>2 DEF Finish
    <3>3. CASE ~Warming(p) /\ done[p] = {}
      BY <1>1, <3>3 DEF Finish
    <3>q. QED BY <3>1, <3>2, <3>3
  <2> HIDE DEF full
  <2>4. ledger' \in [Procs -> Ledgers]
    BY <1>0, <2>2, <2>3 DEF full
  <2>q. QED BY <1>1, <2>4 DEF Finish
<1>2. CASE Save(p)
  <2>1. Merge(disk, ledger[p]) \in Ledgers
    BY MergeTyped
  <2>q. QED BY <1>2, <2>1 DEF Save
<1>3. CASE SaveFails(p)
  BY <1>0, <1>3 DEF SaveFails, Discard
<1>4. CASE Publish(p)
  <2>1. Cache(ledger[p]) \in Caches
    BY CacheTyped
  <2>q. QED BY <1>0, <1>4, <2>1 DEF Publish, Discard
<1>q. QED BY <1>1, <1>2, <1>3, <1>4 DEF FinishStep

LEMMA TypedNext == ASSUME Typed, [Next]_vars PROVE Typed'
<1> USE DEF Typed, TypeOK, store, loop, procs, caller, counts, machine
<1>1. ASSUME NEW s \in Subjects, NEW v \in Contents, Edit(s, v) PROVE Typed'
  <2>1. ASSUME NEW p \in Procs
        PROVE  /\ sample'[p] \in Samples \cup {None}
               /\ pc[p] \in {"native", "after", "keyed"} => sample'[p] \in Samples
    <3>1. CASE Overlooked(p, s, v)
      <4>1. sample[p] \in Samples
        BY <3>1 DEF Overlooked
      <4>2. sample'[p] = [sample[p] EXCEPT !.unseen = TRUE]
        BY <1>1, <3>1 DEF Edit
      <4>q. QED BY <4>1, <4>2 DEF Samples
    <3>2. CASE ~Overlooked(p, s, v)
      <4>1. sample'[p] = sample[p]
        BY <1>1, <3>2 DEF Edit
      <4>q. QED BY <4>1
    <3>q. QED BY <3>1, <3>2
  <2>2. sample' = [p \in Procs |-> sample'[p]]
    BY <1>1 DEF Edit
  <2>3. sample' \in [Procs -> Samples \cup {None}]
    BY <2>1, <2>2
  <2>q. QED BY <1>1, <2>1, <2>3 DEF Edit
<1>2. ASSUME NEW p \in Prewarmers, NEW cs \in SUBSET Gated \ {{}}, Adjacent(p, cs) PROVE Typed'
  BY <1>2 DEF Adjacent, Procs, Commands
<1>3. CASE ClientStep
  <2>1. ASSUME NEW c \in Commands, AskSnapshot(c) \/ AskMaintainer(c) PROVE Typed'
    BY <2>1 DEF AskSnapshot, AskMaintainer
  <2>2. CASE Hit
    BY <2>2 DEF Hit
  <2>3. CASE Miss
    BY <2>3 DEF Miss, Requested
  <2>q. QED BY <1>3, <2>1, <2>2, <2>3 DEF ClientStep
<1>4. CASE UNCHANGED vars
  BY <1>4 DEF vars
<1>q. QED BY <1>1, <1>2, <1>3, <1>4, TypedMaintainer, TypedObserve, TypedFinish DEF Next

\* Every variable of the replay cache keeps its type.
THEOREM ReplayTyped == Spec => []TypeOK
<1>1. Typed => TypeOK
  BY DEF Typed
<1>q. QED BY <1>1, TypedInit, TypedNext, PTL DEF Spec
-----------------------------------------------------------------------------
(* Honesty. *)

HonestEntry(i, e) == i[2] \in Gated /\ e # None => (e.sure => e.hot = e.out)

Honest(l) == \A i \in Ids : HonestEntry(i, l.prepared[i])

HonestCache(c) == \A r \in c.replays : r[1] \in Gated /\ r[4] => r[2] = r[3]

\* Where no change was overlooked, a run between two equal proofs read what they
\* read, and what is read for a publication is still so when it is read again.
HonestSample(p) ==
    /\ pc[p] = "after" /\ ~sample[p].unseen /\ Stable(sample[p]) =>
           sample[p].out = sample[p].before
    /\ pc[p] = "keyed" /\ ~sample[p].unseen => Stable(sample[p])
    /\ \A k \in kept[p] : ~k[4] => k[2] = k[3]

HonestLedgers == Honest(disk) /\ \A p \in Procs : Honest(ledger[p])

HonestCaches ==
    /\ HonestCache(published) /\ HonestCache(resident)
    /\ client # None => client.cache = None \/ HonestCache(client.cache)

HonestInv == HonestLedgers /\ HonestCaches /\ (\A p \in Procs : HonestSample(p)) /\ HitExact

LEMMA HonestInit == Init => HonestInv
<1> SUFFICES ASSUME Init PROVE HonestInv
  OBVIOUS
<1>1. Honest(NoLedger) /\ HonestCache(NoCache)
  BY DEF Honest, HonestEntry, NoLedger, HonestCache, NoCache
<1>q. QED BY <1>1 DEF Init, HonestInv, HonestLedgers, HonestCaches, HonestSample, HitExact

LEMMA HonestMerge ==
    ASSUME NEW base \in Ledgers, NEW incoming \in Ledgers, Honest(base), Honest(incoming)
    PROVE  Honest(Merge(base, incoming))
BY MergeTyped DEF Honest

\* What is published from an honest ledger is honest.
LEMMA HonestHydration == ASSUME NEW l \in Ledgers, Honest(l) PROVE HonestCache(Cache(l))
<1> SUFFICES ASSUME NEW r \in Cache(l).replays, r[1] \in Gated, r[4] PROVE r[2] = r[3]
  BY DEF HonestCache
<1>1. PICK i \in Ids : l.prepared[i] # None /\ r = <<i[2], l.prepared[i].hot, l.prepared[i].out, l.prepared[i].sure>>
  BY DEF Cache
<1>q. QED BY <1>1 DEF Honest, HonestEntry

\* While nothing moves but the ledgers and the disk, only they have to be looked at.
LEMMA OnlyLedgers ==
    ASSUME HonestInv, HonestLedgers', UNCHANGED <<published, resident, client, answer>>,
           \A p \in Procs : HonestSample(p)'
    PROVE  HonestInv'
BY DEF HonestInv, HonestCaches, HonestCache, HitExact

LEMMA HonestEdit ==
    ASSUME Typed, HonestInv, NEW s \in Subjects, NEW v \in Contents, Edit(s, v)
    PROVE  HonestInv'
<1>1. /\ v # world[s] /\ world' = [world EXCEPT ![s] = v]
      /\ UNCHANGED <<disk, published, resident, ledger, pc, kept, client, answer>>
  BY DEF Edit, store, caller
<1>2. HonestLedgers'
  BY <1>1 DEF HonestInv, HonestLedgers, Honest, HonestEntry
<1>3. ASSUME NEW p \in Procs PROVE HonestSample(p)'
  <2>1. HonestSample(p) /\ world \in [Subjects -> Contents]
    BY DEF HonestInv, Typed, TypeOK
  <2>2. CASE Overlooked(p, s, v)
    <3>1. sample[p] \in Samples
      BY <2>2 DEF Overlooked, Typed
    <3>2. sample'[p] = [sample[p] EXCEPT !.unseen = TRUE]
      BY <2>2 DEF Edit
    <3>3. sample'[p].unseen = TRUE
      BY <3>1, <3>2 DEF Samples
    <3>q. QED BY <1>1, <2>1, <3>3 DEF HonestSample
  <2>3. CASE ~Overlooked(p, s, v)
    <3>1. sample'[p] = sample[p]
      BY <2>3 DEF Edit
    <3>2. CASE pc[p] \in {"after", "keyed"}
      <4>1. sample[p] \in Samples /\ sample[p].cmd \in Subjects
        BY <3>2 DEF Typed, Samples, Subjects
      <4>2. CASE sample[p].cmd = s
        BY <1>1, <2>1, <2>3, <3>1, <3>2, <4>1, <4>2 DEF HonestSample, Overlooked, Stable
      <4>3. CASE sample[p].cmd # s
        BY <1>1, <2>1, <3>1, <3>2, <4>1, <4>3 DEF HonestSample, Stable
      <4>q. QED BY <4>2, <4>3
    <3>3. CASE pc[p] \notin {"after", "keyed"}
      BY <1>1, <2>1, <3>3 DEF HonestSample
    <3>q. QED BY <3>2, <3>3
  <2>q. QED BY <2>2, <2>3
<1>q. QED BY <1>1, <1>2, <1>3, OnlyLedgers

\* A step of one process leaves the samples of the others alone.
LEMMA OtherSamples ==
    ASSUME HonestInv, NEW p \in Procs, UNCHANGED world, HonestSample(p)',
           \A q \in Procs \ {p} : pc'[q] = pc[q] /\ sample'[q] = sample[q] /\ kept'[q] = kept[q]
    PROVE  \A q \in Procs : HonestSample(q)'
BY DEF HonestInv, HonestSample, Stable

LEMMA HonestMaintainer == ASSUME Typed, HonestInv, MaintainerStep PROVE HonestInv'
<1>0. Maintainer \in Procs /\ pc \in [Procs -> {"idle", "snapshot", "load", "metadata", "observe",
                         "native", "after", "keyed", "save", "publish", "stopped"}]
  BY DEF Procs, Typed, TypeOK
<1>1. UNCHANGED <<world, published, resident, client, answer, sample, kept>>
  BY DEF MaintainerStep, Poll, Snapshot, Load, RunMetadata, SaveMetadata, Demand,
         machine, store, loop, procs, caller
<1>2. \E l \in {"snapshot", "load", "metadata", "observe"} : pc' \in {pc, [pc EXCEPT ![Maintainer] = l]}
  BY DEF MaintainerStep, Poll, Snapshot, Load, RunMetadata, SaveMetadata, Demand
<1>3. \A q \in Procs : HonestSample(q)'
  BY <1>0, <1>1, <1>2 DEF HonestInv, HonestSample, Stable
<1>4. HonestLedgers'
  <2> USE DEF Typed, TypeOK, HonestInv, HonestLedgers
  <2>1. CASE Poll \/ Snapshot
    BY <2>1 DEF Poll, Snapshot, store, Honest, HonestEntry
  <2>2. CASE Load \/ Demand
    BY <1>0, <2>2 DEF Load, Demand, store, Honest, HonestEntry
  <2>3. ASSUME NEW c \in Metadata, RunMetadata(c) PROVE HonestLedgers'
    <3> DEFINE new == UpsertObservation(ledger[Maintainer], c, head, world[Subject(c)])
    <3>1. new.prepared = ledger[Maintainer].prepared
      BY <1>0, ObservationTyped DEF Commands, Subject, Subjects
    <3>2. ledger' = [ledger EXCEPT ![Maintainer] = new] /\ disk' = disk
      BY <2>3 DEF RunMetadata, store
    <3> HIDE DEF new
    <3>q. QED BY <1>0, <3>1, <3>2 DEF Honest
  <2>4. CASE SaveMetadata
    <3> DEFINE l == ledger[Maintainer]
               new == [l EXCEPT !.prepared = PrepareMetadata(l)]
    <3>1. l \in Ledgers /\ Honest(l)
      BY <1>0
    <3>2. ASSUME NEW i \in Ids PROVE HonestEntry(i, PrepareMetadata(l)[i])
      <4>1. i[2] \in Gated => PrepareMetadata(l)[i] = l.prepared[i]
        BY ReplayAssumption DEF PrepareMetadata, ReplayAssumption
      <4>q. QED BY <3>1, <4>1 DEF HonestEntry, Honest
    <3>3. new.prepared = PrepareMetadata(l)
      BY <3>1 DEF Ledgers
    <3>4. Honest(new)
      BY <3>2, <3>3 DEF Honest
    <3>5. disk' = Merge(disk, l) /\ ledger' = [ledger EXCEPT ![Maintainer] = new]
      BY <2>4 DEF SaveMetadata
    <3>6. Honest(Merge(disk, l))
      BY <3>1, HonestMerge
    <3> HIDE DEF new, l
    <3>q. QED BY <1>0, <3>4, <3>5, <3>6 DEF Honest
  <2>q. QED BY <2>1, <2>2, <2>3, <2>4 DEF MaintainerStep
<1>q. QED BY <1>1, <1>3, <1>4, OnlyLedgers
LEMMA HonestObserve == ASSUME Typed, HonestInv, NEW p \in Procs, ObserveStep(p) PROVE HonestInv'
<1> USE DEF machine, store, loop, procs, caller
<1>0. /\ pc \in [Procs -> {"idle", "snapshot", "load", "metadata", "observe",
                           "native", "after", "keyed", "save", "publish", "stopped"}]
      /\ sample \in [Procs -> Samples \cup {None}]
      /\ kept \in [Procs -> SUBSET Observed]
      /\ ledger \in [Procs -> Ledgers] /\ world \in [Subjects -> Contents]
      /\ Gated \subseteq Commands /\ Gated \subseteq Subjects
      /\ HonestSample(p) /\ HonestLedgers
  BY DEF Typed, TypeOK, HonestInv, Commands, Subjects
<1>1. ASSUME NEW c \in Gated, Before(p, c) PROVE HonestInv'
  <2>1. HonestSample(p)'
    BY <1>0, <1>1 DEF Before, HonestSample
  <2>2. \A q \in Procs : HonestSample(q)'
    BY <1>0, <1>1, <2>1, OtherSamples DEF Before
  <2>q. QED BY <1>0, <1>1, <2>2, OnlyLedgers DEF Before, HonestLedgers, Honest, HonestEntry
<1>2. CASE Native(p)
  <2>0. sample[p] \in Samples /\ pc'[p] = "after" /\ kept' = kept /\ world' = world
    BY <1>0, <1>2 DEF Native, Typed
  <2>1. sample'[p] = [sample[p] EXCEPT !.out = world[sample[p].cmd]]
    BY <1>0, <1>2 DEF Native
  <2>2. /\ sample'[p].out = world[sample[p].cmd] /\ sample'[p].cmd = sample[p].cmd
        /\ sample'[p].before = sample[p].before /\ sample'[p].unseen = sample[p].unseen
    BY <2>0, <2>1 DEF Samples
  <2>3. HonestSample(p)'
    BY <1>0, <2>0, <2>2 DEF HonestSample, Stable
  <2>4. \A q \in Procs : HonestSample(q)'
    BY <1>0, <1>2, <2>3, OtherSamples DEF Native
  <2>q. QED BY <1>0, <1>2, <2>4, OnlyLedgers DEF Native, HonestLedgers, Honest, HonestEntry
<1>3. CASE After(p)
  <2>1. pc'[p] = "observe" /\ world' = world
    BY <1>0, <1>3 DEF After
  <2>2. \A k \in kept'[p] : ~k[4] => k[2] = k[3]
    <3>1. CASE Stable(sample[p])
      <4>1. kept'[p] = kept[p] \cup
                    {<<sample[p].cmd, world[sample[p].cmd], sample[p].out, sample[p].unseen>>}
        BY <1>0, <1>3, <3>1 DEF After
      <4>q. QED BY <1>0, <1>3, <3>1, <4>1 DEF After, HonestSample, Stable
    <3>2. CASE ~Stable(sample[p])
      BY <1>0, <1>3, <3>2 DEF After, HonestSample
    <3>q. QED BY <3>1, <3>2
  <2>3. HonestSample(p)'
    BY <2>1, <2>2 DEF HonestSample
  <2>4. \A q \in Procs \ {p} : pc'[q] = pc[q] /\ sample'[q] = sample[q] /\ kept'[q] = kept[q]
    BY <1>0, <1>3 DEF After
  <2>5. \A q \in Procs : HonestSample(q)'
    BY <2>1, <2>3, <2>4, OtherSamples
  <2>q. QED BY <1>0, <1>3, <2>5, OnlyLedgers DEF After, HonestLedgers, Honest, HonestEntry
<1>4. ASSUME NEW k \in kept[p], Key(p, k) PROVE HonestInv'
  <2>1. HonestSample(p)'
    BY <1>0, <1>4 DEF Key, HonestSample, Stable
  <2>2. \A q \in Procs : HonestSample(q)'
    BY <1>0, <1>4, <2>1, OtherSamples DEF Key
  <2>q. QED BY <1>0, <1>4, <2>2, OnlyLedgers DEF Key, HonestLedgers, Honest, HonestEntry
<1>5. ASSUME NEW k \in kept[p], Store(p, k) PROVE HonestInv'
  <2> DEFINE s == sample[p]
             stored == UpsertObservation(ledger[p], s.cmd, world[s.cmd], s.out)
             kind == IF Warming(p) THEN "proof-gated" ELSE "adaptive"
             sure == ~s.unseen
             next == UpsertPrepared(stored, kind, s.cmd, s.before, k[2], sure)
             files == IF Warming(p) THEN {} ELSE {<<s.cmd, world[s.cmd]>>}
  <2>1. /\ pc[p] = "keyed" /\ k[3] = s.out
        /\ sure => k[2] = k[3] /\ s.before = world[s.cmd]
        /\ sure \in BOOLEAN
        /\ s.cmd \in Gated /\ s.cmd \in Commands /\ s.before \in Contents /\ s.out \in Contents
        /\ world[s.cmd] \in Contents /\ k[2] \in Contents
    <3>1. pc[p] = "keyed" /\ k[3] = s.out /\ (k[4] => s.unseen)
      BY <1>5 DEF Store
    <3>2. s \in Samples /\ (~s.unseen => k[2] = k[3] /\ s.before = world[s.cmd])
      BY <1>0, <3>1 DEF Typed, HonestSample, Stable
    <3>q. QED BY <1>0, <3>1, <3>2 DEF Samples, Observed
  <2>2. kind \in Kinds /\ tick \in Nat
    BY DEF Kinds, Typed, TypeOK
  <2>3. /\ stored \in Ledgers /\ stored.prepared = ledger[p].prepared
        /\ sure => stored.entries[s.cmd][s.before] = s.out
    BY <1>0, <2>1, ObservationTyped
  <2>4. /\ ledger' = [ledger EXCEPT ![p] = [next EXCEPT !.files = next.files \cup files]]
        /\ kept' = [kept EXCEPT ![p] = @ \ {k}]
        /\ sample' = [sample EXCEPT ![p] = None] /\ pc' = [pc EXCEPT ![p] = "observe"]
        /\ UNCHANGED <<world, disk, published, resident, client, answer>>
    BY <1>5 DEF Store
  <2> HIDE DEF stored, kind, s, files, sure
  <2>5. next \in Ledgers
    BY <2>1, <2>2, <2>3, PreparedTyped
  <2>6. Honest(stored)
    BY <1>0, <2>3 DEF HonestLedgers, Honest
  <2>7. ASSUME NEW i \in Ids PROVE HonestEntry(i, next.prepared[i])
    <3>1. \/ next.prepared[i] = stored.prepared[i]
          \/ next.prepared[i] = [hot |-> k[2], out |-> stored.entries[s.cmd][s.before],
                                 at |-> tick + 1, sure |-> sure]
      BY <2>1, <2>2, <2>3, PreparedTyped
    <3>2. CASE next.prepared[i] = stored.prepared[i]
      BY <2>6, <3>2 DEF Honest
    <3>3. CASE next.prepared[i] = [hot |-> k[2], out |-> stored.entries[s.cmd][s.before],
                                   at |-> tick + 1, sure |-> sure]
      <4>1. /\ next.prepared[i].sure = sure /\ next.prepared[i].hot = k[2]
            /\ next.prepared[i].out = stored.entries[s.cmd][s.before]
        BY <3>3
      <4>2. sure => next.prepared[i].hot = next.prepared[i].out
        BY <2>1, <2>3, <4>1
      <4>q. QED BY <4>1, <4>2 DEF HonestEntry
    <3>q. QED BY <3>1, <3>2, <3>3
  <2> HIDE DEF next
  <2>8. [next EXCEPT !.files = next.files \cup files].prepared = next.prepared
    BY <2>5 DEF Ledgers
  <2>9. HonestLedgers'
    BY <1>0, <2>4, <2>7, <2>8 DEF HonestLedgers, Honest, HonestEntry
  <2>10. HonestSample(p)'
    BY <1>0, <2>4 DEF HonestSample
  <2>11. \A q \in Procs : HonestSample(q)'
    BY <1>0, <2>4, <2>10, OtherSamples
  <2>q. QED BY <2>4, <2>9, <2>11, OnlyLedgers
<1>q. QED BY <1>1, <1>2, <1>3, <1>4, <1>5 DEF ObserveStep

LEMMA HonestFinish == ASSUME Typed, HonestInv, NEW p \in Procs, FinishStep(p) PROVE HonestInv'
<1> USE DEF machine, store, loop, procs, caller
<1>0. /\ pc \in [Procs -> {"idle", "snapshot", "load", "metadata", "observe",
                           "native", "after", "keyed", "save", "publish", "stopped"}]
      /\ ledger \in [Procs -> Ledgers] /\ disk \in Ledgers
      /\ HonestSample(p) /\ HonestLedgers
  BY DEF Typed, TypeOK, HonestInv
<1>1. Honest(NoLedger)
  BY DEF Honest, HonestEntry, NoLedger
<1>2. UNCHANGED <<world, sample, kept, client, answer>>
  BY DEF FinishStep, Finish, Save, SaveFails, Publish
<1>3. \E l \in {"save", "idle", "publish", "stopped"} : pc' = [pc EXCEPT ![p] = l]
  BY DEF FinishStep, Finish, Save, SaveFails, Publish
<1>4. \A q \in Procs : HonestSample(q)'
  BY <1>0, <1>2, <1>3 DEF HonestInv, HonestSample, Stable
<1>5. CASE Finish(p)
  <2> DEFINE full == [ledger[p] EXCEPT !.files = ledger[p].files \cup {<<c, world[c]>> : c \in Gated}]
  <2>1. \/ ledger' = [ledger EXCEPT ![p] = full]
        \/ ledger' = [ledger EXCEPT ![p] = ledger[p]]
        \/ ledger' = [ledger EXCEPT ![p] = NoLedger]
    BY <1>5 DEF Finish
  <2>2. full.prepared = ledger[p].prepared
    BY <1>0 DEF Ledgers
  <2> HIDE DEF full
  <2>3. HonestLedgers'
    BY <1>0, <1>1, <1>5, <2>1, <2>2 DEF Finish, HonestLedgers, Honest, HonestEntry
  <2>q. QED BY <1>2, <1>4, <1>5, <2>3, OnlyLedgers DEF Finish
<1>6. CASE Save(p)
  <2>1. Honest(Merge(disk, ledger[p]))
    BY <1>0, HonestMerge DEF HonestLedgers
  <2>2. HonestLedgers'
    BY <1>0, <1>6, <2>1 DEF Save, HonestLedgers, Honest, HonestEntry
  <2>q. QED BY <1>2, <1>4, <1>6, <2>2, OnlyLedgers DEF Save
<1>7. CASE SaveFails(p)
  <2>1. HonestLedgers'
    <3>1. ledger' = [ledger EXCEPT ![p] = NoLedger] /\ disk' = disk
      BY <1>7 DEF SaveFails, Discard
    <3>q. QED BY <1>0, <1>1, <3>1 DEF HonestLedgers, Honest
  <2>q. QED BY <1>2, <1>4, <1>7, <2>1, OnlyLedgers DEF SaveFails
<1>8. CASE Publish(p)
  <2>1. HonestLedgers'
    BY <1>0, <1>1, <1>8 DEF Publish, Discard, HonestLedgers, Honest, HonestEntry
  <2>2. HonestCache(Cache(ledger[p]))
    BY <1>0, HonestHydration DEF HonestLedgers
  <2>3. HonestCaches'
    BY <1>2, <1>8, <2>2 DEF Publish, HonestInv, HonestCaches, HonestCache
  <2>q. QED BY <1>2, <1>4, <2>1, <2>3 DEF HonestInv, HitExact
<1>q. QED BY <1>5, <1>6, <1>7, <1>8 DEF FinishStep

LEMMA HonestClient == ASSUME Typed, HonestInv, ClientStep PROVE HonestInv'
<1>1. UNCHANGED <<world, disk, ledger, published, resident, pc, sample, kept>>
  BY DEF ClientStep, AskSnapshot, AskMaintainer, Hit, Miss, machine, store, procs
<1>2. HonestLedgers' /\ \A q \in Procs : HonestSample(q)'
  BY <1>1 DEF HonestInv, HonestLedgers, Honest, HonestEntry, HonestSample, Stable
<1>3. CASE Hit
  <2>1. HonestCache(Cached)
    BY <1>3 DEF Hit, Cached, HonestInv, HonestCaches
  <2>2. HitExact'
    BY <1>3, <2>1 DEF Hit, Matches, HonestCache, HitExact
  <2>q. QED BY <1>1, <1>2, <1>3, <2>2 DEF Hit, HonestInv, HonestCaches, HonestCache
<1>4. CASE Miss
  BY <1>1, <1>2, <1>4 DEF Miss, HonestInv, HonestCaches, HonestCache, HitExact
<1>5. ASSUME NEW c \in Commands, AskSnapshot(c) \/ AskMaintainer(c) PROVE HonestInv'
  BY <1>1, <1>2, <1>5 DEF AskSnapshot, AskMaintainer, HonestInv, HonestCaches, HonestCache, HitExact
<1>q. QED BY <1>3, <1>4, <1>5 DEF ClientStep

LEMMA HonestNext == ASSUME Typed, HonestInv, [Next]_vars PROVE HonestInv'
<1>1. ASSUME NEW p \in Prewarmers, NEW cs \in SUBSET Gated \ {{}}, Adjacent(p, cs) PROVE HonestInv'
  <2>1. /\ p \in Procs /\ pc \in [Procs -> {"idle", "snapshot", "load", "metadata", "observe",
                           "native", "after", "keyed", "save", "publish", "stopped"}]
        /\ ledger \in [Procs -> Ledgers] /\ HonestLedgers /\ HonestSample(p)
    BY DEF Procs, Typed, TypeOK, HonestInv
  <2>2. /\ ledger' = [ledger EXCEPT ![p] = disk] /\ pc' = [pc EXCEPT ![p] = "observe"]
        /\ UNCHANGED <<world, disk, published, resident, sample, kept, client, answer>>
    BY <1>1 DEF Adjacent, machine, store, caller
  <2>3. HonestLedgers'
    BY <2>1, <2>2 DEF HonestLedgers, Honest, HonestEntry
  <2>4. \A q \in Procs : HonestSample(q)'
    BY <2>1, <2>2 DEF HonestInv, HonestSample, Stable
  <2>q. QED BY <2>2, <2>3, <2>4, OnlyLedgers
<1>2. CASE UNCHANGED vars
  <2>1. UNCHANGED <<world, disk, ledger, published, resident, pc, sample, kept, client, answer>>
    BY <1>2 DEF vars, machine, store, procs, caller
  <2>q. QED BY <2>1 DEF HonestInv, HonestLedgers, Honest, HonestEntry, HonestCaches, HonestCache,
                        HonestSample, Stable, HitExact
<1>q. QED BY <1>1, <1>2, HonestEdit, HonestMaintainer, HonestObserve, HonestFinish, HonestClient
          DEF Next

\* A proof-gated hit is what the command would have printed: whoever observed it,
\* however often, and however the ledgers of several processes were merged, unless
\* its input changed behind the proofs while it was observed or published.
THEOREM HitsExact == Spec => []HitExact
<1>1. HonestInv => HitExact
  BY DEF HonestInv
<1>q. QED BY <1>1, TypedInit, TypedNext, HonestInit, HonestNext, PTL DEF Spec

-----------------------------------------------------------------------------
(* What is saved stays. *)

LEMMA MergeKeeps ==
    ASSUME NEW base \in Ledgers, NEW incoming \in Ledgers
    PROVE  /\ \A c \in Commands, v \in Contents :
                  base.entries[c][v] # None => Merge(base, incoming).entries[c][v] # None
           /\ \A i \in Ids : base.prepared[i] # None =>
                  /\ Merge(base, incoming).prepared[i] # None
                  /\ Merge(base, incoming).prepared[i].at >= base.prepared[i].at
           /\ base.files \subseteq Merge(base, incoming).files
<1>1. ASSUME NEW i \in Ids, base.prepared[i] # None
      PROVE  /\ Merge(base, incoming).prepared[i] # None
             /\ Merge(base, incoming).prepared[i].at >= base.prepared[i].at
  <2>1. base.prepared[i] \in Prepared /\ incoming.prepared[i] \in Prepared \cup {None}
    BY <1>1 DEF Ledgers
  <2>2. Merge(base, incoming).prepared[i] =
            IF incoming.prepared[i] # None /\ incoming.prepared[i].at > base.prepared[i].at
            THEN incoming.prepared[i] ELSE base.prepared[i]
    BY <1>1 DEF Merge
  <2>q. QED BY <1>1, <2>1, <2>2 DEF Prepared
<1>q. QED BY <1>1 DEF Merge

\* No process undoes what another has saved: what is on disk stays there, and a
\* prepared entry only gives way to a later one.
THEOREM NothingIsUnlearned == Spec => NothingUnlearned
<1> DEFINE Kept == /\ \A c \in Commands, v \in Contents :
                          disk.entries[c][v] # None => disk'.entries[c][v] # None
                   /\ \A i \in Ids : disk.prepared[i] # None =>
                          /\ disk'.prepared[i] # None
                          /\ disk'.prepared[i].at >= disk.prepared[i].at
                   /\ disk.files \subseteq disk'.files
<1>1. Typed /\ [Next]_vars => [Kept]_disk
  <2> SUFFICES ASSUME Typed, [Next]_vars, disk' # disk PROVE Kept
    OBVIOUS
  <2>1. CASE SaveMetadata
    BY <2>1, MergeKeeps DEF SaveMetadata, Procs, Typed, TypeOK
  <2>2. ASSUME NEW p \in Procs, Save(p) PROVE Kept
    BY <2>2, MergeKeeps DEF Save, Typed, TypeOK
  <2>3. (\E s \in Subjects, v \in Contents : Edit(s, v)) => disk' = disk
    BY DEF Edit, store
  <2>4. MaintainerStep => disk' = disk \/ SaveMetadata
    BY DEF MaintainerStep, Poll, Snapshot, Load, RunMetadata, Demand, store
  <2>5. (\E p \in Prewarmers, cs \in SUBSET Gated \ {{}} : Adjacent(p, cs)) => disk' = disk
    BY DEF Adjacent, store
  <2>6. ASSUME NEW p \in Procs, ObserveStep(p) PROVE disk' = disk
    <3>1. (\E c \in Gated : Before(p, c)) \/ Native(p) => disk' = disk
      BY DEF Before, Native, store
    <3>2. After(p) => disk' = disk
      BY DEF After, store
    <3>3. \A k \in kept[p] : Key(p, k) => disk' = disk
      BY DEF Key, store
    <3>4. \A k \in kept[p] : Store(p, k) => disk' = disk
      BY DEF Store, store
    <3>q. QED BY <2>6, <3>1, <3>2, <3>3, <3>4 DEF ObserveStep
  <2>7. \A p \in Procs : FinishStep(p) => disk' = disk \/ Save(p)
    BY DEF FinishStep, Finish, SaveFails, Publish, store
  <2>8. ClientStep => disk' = disk
    BY DEF ClientStep, AskSnapshot, AskMaintainer, Hit, Miss, store
  <2>9. UNCHANGED vars => disk' = disk
    BY DEF vars, store
  <2>q. QED BY <2>1, <2>2, <2>3, <2>4, <2>5, <2>6, <2>7, <2>8, <2>9 DEF Next
<1>q. QED BY <1>1, TypedInit, TypedNext, PTL DEF Spec, NothingUnlearned
=============================================================================
