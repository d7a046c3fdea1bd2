------------------------------- MODULE Replay -------------------------------
(* The replay cache of internal/proofcache: the maintainer and the short     *)
(* lived prewarm processes run commands natively and record their output     *)
(* next to a proof of the input it depends on; a client that asks for the    *)
(* same command is answered from the record whose proof matches the world,   *)
(* without running anything.                                                 *)
(*                                                                           *)
(* A proof is a hash of contents, so it is modelled by the content itself;   *)
(* the output of a command is a function of its input, so it is modelled by  *)
(* the content it was computed from.                                         *)
EXTENDS Naturals, FiniteSets

CONSTANTS
    Metadata,     \* the "fast path" commands, which print HEAD
    Gated,        \* the "proof-gated" commands, each with a file of its own
    Contents,     \* what an input may contain
    Prewarmers,   \* the slots of `runtime prewarm-adjacent` processes
    None,
    MaxEdits,     \* bound on the edits
    MaxPrepared,  \* bound on the prepared entries
    MaxFaults     \* bound on the ledger saves that fail

\* commandCacheability puts a command into one class.
ASSUME ReplayAssumption == Metadata \cap Gated = {}

Maintainer == "maintainer"
Procs      == {Maintainer} \cup Prewarmers
Commands   == Metadata \cup Gated
Subjects   == {"HEAD"} \cup Gated
Subject(c) == IF c \in Metadata THEN "HEAD" ELSE c
Kinds      == {"fast-path", "proof-gated", "adaptive"}

VARIABLES
    world,       \* what each input contains now
    edits,
    disk,        \* ledger.json
    ledger,      \* the ledger each process works on
    published,   \* the hot snapshot file
    resident,    \* the prepared replays in the maintainer's memory
    pc,          \* where each process is
    task,        \* "warm" or "demand": why the maintainer is preparing
    todo,        \* the commands each process has still to run
    sample,      \* the observation each process is making
    kept,        \* the observations each process has still to publish
    head,        \* WorldState.Head of the warm under way
    signal,      \* what maintainerSignal hashed in this poll
    lastSignal,  \* report.LastSignal
    requests,    \* the files of prepare_requests/
    done,        \* what each process has prepared and not yet published
    client, answer,
    tick, faults

machine == <<world, edits>>
store   == <<disk, published, resident>>
loop    == <<task, head, signal, lastSignal>>
procs   == <<ledger, pc, todo, sample, kept, done>>
caller  == <<client, answer>>
counts  == <<tick, faults>>
vars    == <<machine, store, loop, procs, caller, requests, counts>>

(* A ledger: the output recorded for a command under a fingerprint, the      *)
(* prepared entries by their PreparedID, and the warm files, whose proof is  *)
(* the hash of the bytes they hold.  "unseen" and "sure" are history: while  *)
(* the observation was made its input changed behind the proofs, or it did   *)
(* not.                                                                      *)
Prepared   == [hot : Contents, out : Contents, at : Nat, sure : BOOLEAN]
Ids        == Kinds \X Commands \X Contents
Ledgers    == [entries  : [Commands -> [Contents -> Contents \cup {None}]],
               prepared : [Ids -> Prepared \cup {None}],
               files    : SUBSET (Gated \X Contents)]
Samples    == [cmd : Gated, before : Contents, out : Contents, unseen : BOOLEAN]
Observed   == Gated \X Contents \X Contents \X BOOLEAN
Caches     == [replays : SUBSET (Commands \X Contents \X Contents \X BOOLEAN),
               files   : SUBSET (Gated \X Contents)]
NoLedger   == [entries  |-> [c \in Commands |-> [v \in Contents |-> None]],
               prepared |-> [i \in Ids |-> None],
               files    |-> {}]
NoCache    == [replays |-> {}, files |-> {}]

TypeOK ==
    /\ world \in [Subjects -> Contents]
    /\ disk \in Ledgers
    /\ ledger \in [Procs -> Ledgers]
    /\ {published, resident} \subseteq Caches
    /\ pc \in [Procs -> {"idle", "snapshot", "load", "metadata", "observe",
                         "native", "after", "keyed", "save", "publish", "stopped"}]
    /\ task \in {"warm", "demand"}
    /\ todo \in [Procs -> SUBSET Commands]
    /\ sample \in [Procs -> Samples \cup {None}]
    /\ kept \in [Procs -> SUBSET Observed]
    /\ requests \subseteq Gated
    /\ done \in [Procs -> SUBSET Gated]
    /\ {edits, tick, faults} \subseteq Nat

Init ==
    /\ world \in {[s \in Subjects |-> v] : v \in Contents}
    /\ disk = NoLedger /\ ledger = [p \in Procs |-> NoLedger]
    /\ published = NoCache /\ resident = NoCache
    /\ pc = [p \in Procs |-> "idle"]
    /\ task = "warm"
    /\ todo = [p \in Procs |-> {}]
    /\ sample = [p \in Procs |-> None]
    /\ kept = [p \in Procs |-> {}]
    /\ head = None /\ signal = None /\ lastSignal = None
    /\ done = [p \in Procs |-> {}]
    /\ requests = {}
    /\ client = None /\ answer = None
    /\ edits = 0 /\ tick = 0 /\ faults = 0

-----------------------------------------------------------------------------
(* The ledger (ledger.go).                                                   *)

\* Mutant: the ledger is written as it is, over what others have saved.
Overwrite(base, incoming) == incoming

\* mergeLedgerInto: under the lock, what is on disk is read again and the
\* incoming ledger laid over it; of two prepared entries the later one stays.
Merge(base, incoming) ==
    [entries  |-> [c \in Commands |-> [v \in Contents |->
                      IF incoming.entries[c][v] # None
                      THEN incoming.entries[c][v] ELSE base.entries[c][v]]],
     prepared |-> [i \in Ids |->
                      IF incoming.prepared[i] = None THEN base.prepared[i]
                      ELSE IF base.prepared[i] = None THEN incoming.prepared[i]
                      ELSE IF incoming.prepared[i].at > base.prepared[i].at
                           THEN incoming.prepared[i] ELSE base.prepared[i]],
     files    |-> base.files \cup incoming.files]

UpsertObservation(l, c, fingerprint, out) ==
    [l EXCEPT !.entries[c][fingerprint] = out]

\* The publication of an observation: nothing is prepared when no output is
\* recorded under the fingerprint the caller computed.
UpsertPrepared(l, kind, c, fingerprint, hot, sure) ==
    IF l.entries[c][fingerprint] = None THEN l
    ELSE [l EXCEPT !.prepared[<<kind, c, fingerprint>>] =
             [hot |-> hot, out |-> l.entries[c][fingerprint], at |-> tick + 1, sure |-> sure]]

\* buildPreparedReplayCache: a prepared entry counts when some observation of
\* its command still has the output it refers to.
Cache(l) ==
    [replays |-> {<<i[2], l.prepared[i].hot, l.prepared[i].out, l.prepared[i].sure>> :
                     i \in {j \in Ids :
                        /\ l.prepared[j] # None
                        /\ \E v \in Contents :
                              l.entries[j[2]][v] = l.prepared[j].out}},
     files   |-> l.files]

-----------------------------------------------------------------------------
(* The world.  Two changes of an input are not covered by the proofs before   *)
(* and after a run: one that restores what the first proof read, and one     *)
(* between the two reads of the fingerprints in a publication.               *)

Overlooked(p, s, v) ==
    /\ pc[p] \in {"native", "after", "keyed"} /\ sample[p].cmd = s
    /\ pc[p] = "keyed" \/ v = sample[p].before

Edit(s, v) ==
    /\ edits < MaxEdits
    /\ v # world[s]
    /\ world' = [world EXCEPT ![s] = v]
    /\ edits' = edits + 1
    /\ sample' = [p \in Procs |-> IF Overlooked(p, s, v)
                                  THEN [sample[p] EXCEPT !.unseen = TRUE] ELSE sample[p]]
    /\ UNCHANGED <<store, loop, ledger, pc, todo, kept, done, caller, requests, counts>>

-----------------------------------------------------------------------------
(* RunMaintainer: poll, warm when the signal moved, take up the requests.    *)

Poll ==
    /\ pc[Maintainer] = "idle" /\ tick < MaxPrepared
    /\ world # lastSignal
    /\ signal' = world
    /\ task' = "warm"
    /\ pc' = [pc EXCEPT ![Maintainer] = "snapshot"]
    /\ UNCHANGED <<machine, store, ledger, todo, sample, kept, done, head,
                   lastSignal, caller, requests, counts>>

Snapshot ==
    /\ pc[Maintainer] = "snapshot"
    /\ head' = world["HEAD"]
    /\ pc' = [pc EXCEPT ![Maintainer] = "load"]
    /\ UNCHANGED <<machine, store, ledger, todo, sample, kept, done, task,
                   signal, lastSignal, caller, requests, counts>>

Load ==
    /\ pc[Maintainer] = "load"
    /\ ledger' = [ledger EXCEPT ![Maintainer] = disk]
    /\ todo' = [todo EXCEPT ![Maintainer] = Metadata]
    /\ pc' = [pc EXCEPT ![Maintainer] = "metadata"]
    /\ UNCHANGED <<machine, store, loop, sample, kept, done, caller, requests, counts>>

\* precomputeFastPathOutputs: each command runs and what it prints is recorded
\* under the snapshot taken before.
RunMetadata(c) ==
    /\ pc[Maintainer] = "metadata" /\ c \in todo[Maintainer]
    /\ ledger' = [ledger EXCEPT ![Maintainer] =
                     UpsertObservation(@, c, head, world[Subject(c)])]
    /\ todo' = [todo EXCEPT ![Maintainer] = @ \ {c}]
    /\ UNCHANGED <<machine, store, loop, pc, sample, kept, done, caller, requests, counts>>

\* addPreparedFastPath, for every command.
PrepareMetadata(l) == [i \in Ids |->
    IF i[1] = "fast-path" /\ i[2] \in Metadata /\ i[3] = head
    THEN UpsertPrepared(l, "fast-path", i[2], head, head, TRUE).prepared[i]
    ELSE l.prepared[i]]

\* The end of precomputeFastPathOutputs saves; addPreparedFastPath follows, with
\* the proof of the same snapshot.
SaveMetadata ==
    /\ pc[Maintainer] = "metadata" /\ todo[Maintainer] = {}
    /\ disk' = Merge(disk, ledger[Maintainer])
    /\ ledger' = [ledger EXCEPT ![Maintainer].prepared = PrepareMetadata(ledger[Maintainer])]
    /\ tick' = tick + 1
    /\ todo' = [todo EXCEPT ![Maintainer] = Gated]
    /\ pc' = [pc EXCEPT ![Maintainer] = "observe"]
    /\ UNCHANGED <<machine, published, resident, loop, sample, kept, done, caller,
                   requests, faults>>

\* consumePrepareRequests; one that the hot snapshot already answers is dropped.
Demand ==
    LET answered == {c \in requests :
                        \/ <<c, world[c]>> \in published.files
                        \/ \E r \in published.replays : r[1] = c /\ r[2] = world[c]} IN
    /\ pc[Maintainer] = "idle" /\ tick < MaxPrepared
    /\ lastSignal # None /\ requests # {}
    /\ requests' = requests \ answered
    /\ IF requests = answered THEN UNCHANGED <<ledger, pc, todo, task>>
       ELSE /\ ledger' = [ledger EXCEPT ![Maintainer] = disk]
            /\ todo' = [todo EXCEPT ![Maintainer] = requests']
            /\ task' = "demand"
            /\ pc' = [pc EXCEPT ![Maintainer] = "observe"]
    /\ UNCHANGED <<machine, store, sample, kept, done, head, signal, lastSignal, caller, counts>>

(* PrewarmAdjacent: a process of its own, which loads the ledger and runs the *)
(* neighbours of the command it was given.                                   *)
Adjacent(p, candidates) ==
    /\ pc[p] = "idle" /\ tick < MaxPrepared
    /\ ledger' = [ledger EXCEPT ![p] = disk]
    /\ todo' = [todo EXCEPT ![p] = candidates]
    /\ pc' = [pc EXCEPT ![p] = "observe"]
    /\ UNCHANGED <<machine, store, loop, sample, kept, done, caller, requests, counts>>

-----------------------------------------------------------------------------
(* One observation: a proof, the native run, the proof again.  A warm makes   *)
(* all its observations before it publishes any; the others publish each.     *)

Warming(p) == p = Maintainer /\ task = "warm"

Before(p, c) ==
    /\ pc[p] = "observe" /\ c \in todo[p]
    /\ Warming(p) \/ kept[p] = {}
    /\ sample' = [sample EXCEPT ![p] =
                     [cmd |-> c, before |-> world[c], out |-> world[c], unseen |-> FALSE]]
    /\ todo' = [todo EXCEPT ![p] = @ \ {c}]
    /\ pc' = [pc EXCEPT ![p] = "native"]
    /\ UNCHANGED <<machine, store, loop, ledger, kept, done, caller, requests, counts>>

Native(p) ==
    /\ pc[p] = "native"
    /\ sample' = [sample EXCEPT ![p].out = world[sample[p].cmd]]
    /\ pc' = [pc EXCEPT ![p] = "after"]
    /\ UNCHANGED <<machine, store, loop, ledger, todo, kept, done, caller, requests, counts>>

\* Mutant: an observation is kept whatever the second proof says.
KeptAnyway(s) == TRUE

Stable(s) == s.before = world[s.cmd]

\* A request that cannot be prepared is dropped.
After(p) ==
    LET s == sample[p] IN
    /\ pc[p] = "after"
    /\ IF Stable(s)
       THEN /\ kept' = [kept EXCEPT ![p] = @ \cup {<<s.cmd, world[s.cmd], s.out, s.unseen>>}]
            /\ UNCHANGED requests
       ELSE /\ UNCHANGED kept
            /\ requests' = IF p = Maintainer /\ task = "demand"
                           THEN requests \ {s.cmd} ELSE requests
    /\ sample' = [sample EXCEPT ![p] = None]
    /\ pc' = [pc EXCEPT ![p] = "observe"]
    /\ UNCHANGED <<machine, store, loop, ledger, todo, done, caller, counts>>

\* inputFingerprints and invalidationEpoch, read by the caller ...
Key(p, k) ==
    /\ pc[p] = "observe" /\ k \in kept[p]
    /\ Warming(p) => todo[p] = {}
    /\ sample' = [sample EXCEPT ![p] = [cmd |-> k[1], before |-> world[k[1]], out |-> k[3],
                                       unseen |-> k[4]]]
    /\ pc' = [pc EXCEPT ![p] = "keyed"]
    /\ UNCHANGED <<machine, store, loop, ledger, todo, kept, done, caller, requests, counts>>

\* ... and again by storeReplayableObservation; FindValid then looks up what the
\* caller read.  A demanded or adjacent file is kept whole as well.
Store(p, k) ==
    LET s      == sample[p]
        stored == UpsertObservation(ledger[p], s.cmd, world[s.cmd], s.out)
        kind   == IF Warming(p) THEN "proof-gated" ELSE "adaptive"
        next   == UpsertPrepared(stored, kind, s.cmd, s.before, k[2], ~s.unseen)
        files  == IF Warming(p) THEN {} ELSE {<<s.cmd, world[s.cmd]>>} IN
    /\ pc[p] = "keyed" /\ k \in kept[p] /\ k[1] = s.cmd /\ k[3] = s.out
    /\ k[4] => s.unseen
    /\ ledger' = [ledger EXCEPT ![p] = [next EXCEPT !.files = @ \cup files]]
    /\ tick' = IF next = stored THEN tick ELSE tick + 1
    /\ kept' = [kept EXCEPT ![p] = @ \ {k}]
    /\ done' = [done EXCEPT ![p] = IF next = stored THEN @ ELSE @ \cup {s.cmd}]
    /\ requests' = IF p = Maintainer /\ task = "demand" /\ next = stored
                   THEN requests \ {s.cmd} ELSE requests
    /\ sample' = [sample EXCEPT ![p] = None]
    /\ pc' = [pc EXCEPT ![p] = "observe"]
    /\ UNCHANGED <<machine, store, loop, todo, caller, faults>>

-----------------------------------------------------------------------------
(* The end of a preparation: prewarmWarmFiles in a warm, then Save, then      *)
(* hydratePreparedReplayCache, from the ledger the process itself worked on.  *)

Finish(p) ==
    /\ pc[p] = "observe" /\ todo[p] = {} /\ kept[p] = {}
    /\ ledger' = [ledger EXCEPT ![p] =
                     IF Warming(p)
                     THEN [ledger[p] EXCEPT !.files = @ \cup {<<c, world[c]>> : c \in Gated}]
                     ELSE IF done[p] # {} THEN @ ELSE NoLedger]
    /\ pc' = [pc EXCEPT ![p] = IF Warming(p) \/ done[p] # {} THEN "save" ELSE "idle"]
    /\ UNCHANGED <<machine, store, loop, todo, sample, kept, done, caller, requests, counts>>

Save(p) ==
    /\ pc[p] = "save"
    /\ disk' = Merge(disk, ledger[p])
    /\ pc' = [pc EXCEPT ![p] = "publish"]
    /\ UNCHANGED <<machine, published, resident, loop, ledger, todo, sample, kept,
                   done, caller, requests, counts>>

\* The local variables of a preparation end with it.
Discard(p) ==
    /\ ledger' = [ledger EXCEPT ![p] = NoLedger]
    /\ done' = [done EXCEPT ![p] = {}]
    /\ head' = IF p = Maintainer THEN None ELSE head
    /\ signal' = IF p = Maintainer THEN None ELSE signal

\* The lock cannot be taken in time, or the file cannot be written.  A warm that
\* fails ends the maintainer; requests stay for the next cycle.
SaveFails(p) ==
    /\ faults < MaxFaults
    /\ pc[p] = "save" \/ (pc[p] = "metadata" /\ todo[p] = {})
    /\ faults' = faults + 1
    /\ pc' = [pc EXCEPT ![p] = IF Warming(p) THEN "stopped" ELSE "idle"]
    /\ Discard(p)
    /\ UNCHANGED <<machine, store, task, lastSignal, todo, sample, kept, caller,
                   requests, tick>>

Publish(p) ==
    /\ pc[p] = "publish"
    /\ published' = Cache(ledger[p])
    /\ resident' = IF p = Maintainer THEN Cache(ledger[p]) ELSE resident
    /\ lastSignal' = IF Warming(p) THEN signal ELSE lastSignal
    /\ requests' = IF p = Maintainer /\ task = "demand" THEN requests \ done[p] ELSE requests
    /\ pc' = [pc EXCEPT ![p] = "idle"]
    /\ Discard(p)
    /\ UNCHANGED <<machine, disk, task, todo, sample, kept, caller, counts>>

-----------------------------------------------------------------------------
(* The client.  The hot snapshot file is read after the proof of the command   *)
(* was computed, the maintainer copies its candidates before it computes one; *)
(* the entry that matches the proof answers.  A miss runs natively, and the   *)
(* shim leaves a request for the maintainer.                                  *)

AskSnapshot(c) ==
    /\ client = None
    /\ client' = [cmd |-> c, proof |-> world[Subject(c)], cache |-> None]
    /\ answer' = None
    /\ UNCHANGED <<machine, store, loop, procs, requests, counts>>

AskMaintainer(c) ==
    /\ client = None /\ pc[Maintainer] # "stopped"
    /\ client' = [cmd |-> c, proof |-> None, cache |-> resident]
    /\ answer' = None
    /\ UNCHANGED <<machine, store, loop, procs, requests, counts>>

Proof   == IF client.proof = None THEN world[Subject(client.cmd)] ELSE client.proof
Cached  == IF client.cache = None THEN published ELSE client.cache
Matches == {r \in Cached.replays : r[1] = client.cmd /\ r[2] = Proof}
IsFile  == <<client.cmd, Proof>> \in Cached.files

\* Mutant: every miss leaves a request.
AlwaysRequested(c) == {c}

\* is_prepare_request_candidate and validPrepareRequest.
Requested(c) == {c} \cap Gated

\* native is what the command would have printed when its proof was computed.
Hit ==
    /\ client # None
    /\ \/ \E r \in Matches : answer' = [cmd |-> r[1], out |-> r[3], native |-> Proof, sure |-> r[4]]
       \/ /\ Matches = {} /\ IsFile
          /\ answer' = [cmd |-> client.cmd, out |-> Proof, native |-> Proof, sure |-> TRUE]
    /\ client' = None
    /\ UNCHANGED <<machine, store, loop, procs, requests, counts>>

Miss ==
    /\ client # None
    /\ Matches = {} /\ ~IsFile
    /\ \/ UNCHANGED requests
       \/ client.cache = None /\ requests' = requests \cup Requested(client.cmd)
    /\ client' = None
    /\ UNCHANGED <<machine, store, loop, procs, answer, counts>>

MaintainerStep == Poll \/ Snapshot \/ Load \/ SaveMetadata \/ Demand
                  \/ \E c \in Metadata : RunMetadata(c)
ObserveStep(p) == \/ \E c \in Gated : Before(p, c)
                  \/ Native(p) \/ After(p)
                  \/ \E k \in kept[p] : Key(p, k) \/ Store(p, k)
FinishStep(p)  == Finish(p) \/ Save(p) \/ SaveFails(p) \/ Publish(p)
ClientStep     == Hit \/ Miss \/ \E c \in Commands : AskSnapshot(c) \/ AskMaintainer(c)

Next ==
    \/ \E s \in Subjects, v \in Contents : Edit(s, v)
    \/ MaintainerStep
    \/ \E p \in Prewarmers, cs \in SUBSET Gated \ {{}} : Adjacent(p, cs)
    \/ \E p \in Procs : ObserveStep(p) \/ FinishStep(p)
    \/ ClientStep

Spec == Init /\ [][Next]_vars

-----------------------------------------------------------------------------
(* A proof-gated hit is what the command would have printed had it run, at    *)
(* the moment its proof was computed, whoever prepared the entry and however  *)
(* the ledgers of the maintainer and of the prewarm processes were merged --  *)
(* unless the input changed behind the proofs while the entry was made.       *)
HitExact ==
    answer # None /\ answer.cmd \in Gated /\ answer.sure => answer.out = answer.native

(* The same of the commands that print HEAD.                                  *)
MetadataHitExact == answer # None /\ answer.cmd \in Metadata => answer.out = answer.native

(* No process undoes what another has saved: an observation, a prepared entry *)
(* or a warm file on disk stays there, and a prepared entry only gives way to *)
(* a later one.                                                               *)
NothingUnlearned ==
    [][/\ \A c \in Commands, v \in Contents :
             disk.entries[c][v] # None => disk'.entries[c][v] # None
       /\ \A i \in Ids : disk.prepared[i] # None =>
             /\ disk'.prepared[i] # None
             /\ disk'.prepared[i].at >= disk.prepared[i].at
       /\ disk.files \subseteq disk'.files]_disk
=============================================================================
