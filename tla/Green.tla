------------------------------- MODULE Green -------------------------------
(***************************************************************************)
(* Squire Green: the scheduler of internal/green together with the runs it *)
(* starts, the mutation guards around them, the persisted state and trust  *)
(* records, and the `squire verify` reader.                                *)
(*                                                                         *)
(* A file is known by its change token: 0 while it does not exist, and a   *)
(* fresh positive number for each inode-and-ctime identity it ever gets.   *)
(* A file proof (readRegularIdentity) contains the token, so two proofs    *)
(* are equal exactly when their tokens are.                                *)
(***************************************************************************)
EXTENDS Integers, FiniteSets

CONSTANTS
    Checks,         \* names of the checks every config declares
    Required,       \* the checks whose result gates Green
    Files,          \* repository files and validation executables
    Repo,           \* the files under the repository root, which can be watched
    Proven,         \* Proven[k]: matched inputs of check k and its executable
    Configs,        \* digests of well-formed .squire/checks.toml contents
    NoConfig,       \* the config file is missing or rejected
    Envs,           \* normalised environments the daemon may be started in
    Concurrency,    \* the semaphore's capacity
    MaxClock,       \* bound on file identities ever created
    MaxConfigOps,   \* bound on edits of the config file
    MaxTrustOps,    \* bound on trust and revoke commands
    MaxStops,       \* bound on daemon stops and crashes
    MaxFaults,      \* bound on failing system calls other than those on state.json
    MaxSaveFaults,  \* bound on failing saves of state.json
    MaxLoadFaults   \* bound on failing loads of state.json

ASSUME GreenAssumption ==
    /\ Required \subseteq Checks
    /\ Repo \subseteq Files
    /\ Proven \in [Checks -> SUBSET Files]
    /\ NoConfig \notin Configs
    /\ Concurrency \in Nat

VARIABLES
    clock, tok, config, trust,                          \* the machine
    storeConfig, recs,                                  \* green/state.json
    up, env, cfg, seesTrust, armed, changed, monitoring, phase,  \* the daemon
    pc, pre, post, outcome, revalidated, event, dirty,  \* one run per check
    torn, phantom,                                      \* history: what it read
    configOps, trustOps, stops, faults, saveFaults, loadFaults  \* uses of the bounds

world  == <<clock, tok, config, trust>>
disk   == <<storeConfig, recs>>
loop   == <<up, env, cfg, seesTrust, armed, monitoring, phase>>
daemon == <<loop, changed>>
proofs == <<pre, post, outcome, revalidated>>
guards == <<event, dirty>>
reads  == <<torn, phantom>>
runs   == <<pc, proofs, guards, reads>>
ops    == <<configOps, trustOps, stops>>
storeFaults == <<saveFaults, loadFaults>>
bounds == <<ops, faults, storeFaults>>
vars   == <<world, disk, daemon, runs, bounds>>

(***************************************************************************)
(* Data.                                                                   *)
(***************************************************************************)
Unread  == -1                 \* not part of a proof, or not walked yet
Verdict == {"passed", "failed", "timed_out"}
Config  == Configs \cup {NoConfig}

Scope == [config : Config, env : Envs, toks : [Files -> Int]]

\* torn, phantom and late are history: the native run behind the record read a
\* listed file at another version, or a matching file its proof does not list;
\* and an event was still on its way to the guard when the verdict was made.
Record == [state : Verdict \cup {"none", "running", "discarded", "error"},
           scope : Scope, torn : BOOLEAN, phantom : BOOLEAN, late : BOOLEAN]

Blank == [f \in Files |-> Unread]

Toks(k) == [f \in Files |-> IF f \in Proven[k] THEN tok[f] ELSE Unread]

ScopeOf(k) == [config |-> cfg, env |-> env, toks |-> pre[k]]

Walked(k, proof) == \A f \in Proven[k] : proof[f] # Unread

NoScope == [config |-> NoConfig, env |-> env, toks |-> Blank]

emptyState == [k \in Checks |-> [state |-> "none", scope |-> NoScope, torn |-> FALSE,
                                 phantom |-> FALSE, late |-> FALSE]]

Guarding == {"prewalk", "preflight", "spawn", "native", "postwalk", "decide"}
Active   == {"start"} \cup Guarding

(***************************************************************************)
(* The reader: Inspect compares the record with the machine as it is now.  *)
(* It compares the digest kept once per state file, never the record's     *)
(* own scope digest.                                                       *)
(***************************************************************************)
StatusOf(k) ==
    IF recs[k].state = "none" THEN "pending"
    ELSE IF storeConfig # config \/ recs[k].scope.toks # Toks(k) THEN "stale"
    ELSE IF recs[k].state = "discarded" THEN "stale"
    ELSE recs[k].state

GreenReport ==
    /\ config # NoConfig /\ trust = config
    /\ Required # {}
    /\ \A k \in Required : StatusOf(k) = "passed"

(***************************************************************************)
(* Initial states: no daemon yet, an empty store, an untrusted config.     *)
(***************************************************************************)
Init ==
    /\ clock = 1
    /\ tok = [f \in Files |-> 1]
    /\ config \in Config
    /\ trust \in Config
    /\ storeConfig = NoConfig
    /\ env \in Envs
    /\ recs = emptyState
    /\ up = "down" /\ cfg = NoConfig /\ seesTrust = FALSE
    /\ armed = FALSE /\ changed = FALSE /\ monitoring = FALSE
    /\ phase = "select"
    /\ pc = [k \in Checks |-> "idle"]
    /\ pre = [k \in Checks |-> Blank] /\ post = pre
    /\ outcome = [k \in Checks |-> "error"]
    /\ revalidated = [k \in Checks |-> FALSE]
    /\ event = revalidated /\ dirty = revalidated
    /\ torn = revalidated /\ phantom = revalidated
    /\ configOps = 0 /\ trustOps = 0 /\ stops = 0
    /\ faults = 0 /\ saveFaults = 0 /\ loadFaults = 0

SpendConfigOp ==
    /\ configOps < MaxConfigOps /\ configOps' = configOps + 1
    /\ UNCHANGED <<trustOps, stops, faults, storeFaults>>
SpendTrustOp ==
    /\ trustOps < MaxTrustOps /\ trustOps' = trustOps + 1
    /\ UNCHANGED <<configOps, stops, faults, storeFaults>>
SpendStop ==
    /\ stops < MaxStops /\ stops' = stops + 1
    /\ UNCHANGED <<configOps, trustOps, faults, storeFaults>>
Fault     == faults < MaxFaults /\ faults' = faults + 1
SaveFault == saveFaults < MaxSaveFaults /\ saveFaults' = saveFaults + 1
LoadFault == loadFaults < MaxLoadFaults /\ loadFaults' = loadFaults + 1

(***************************************************************************)
(* The machine around the daemon.                                          *)
(***************************************************************************)
\* The kernel queues an event for each guard that watches a matched file, and
\* the monitor's one-slot channel remembers that something happened.
GuardNotice(interested) ==
    event' = [k \in Checks |-> event[k] \/ (k \in interested /\ pc[k] \in Guarding)]
MonitorNotice(relevant) == changed' = (changed \/ (monitoring /\ relevant))

Watchers(f) == {k \in Checks : f \in Proven[k] \cap Repo}

\* Create, rewrite or replace a file (an executable included).
Edit(f) ==
    /\ clock < MaxClock
    /\ clock' = clock + 1
    /\ tok' = [tok EXCEPT ![f] = clock + 1]
    /\ GuardNotice(Watchers(f))
    /\ MonitorNotice(Watchers(f) # {})
    /\ UNCHANGED <<config, trust, disk, loop, pc, proofs, dirty, reads, bounds>>

\* Change only the mode: the identity changes and the monitor sees it, but
\* the guard ignores Chmod events.
Chmod(f) ==
    /\ clock < MaxClock /\ tok[f] # 0
    /\ clock' = clock + 1
    /\ tok' = [tok EXCEPT ![f] = clock + 1]
    /\ MonitorNotice(Watchers(f) # {})
    /\ UNCHANGED <<config, trust, disk, loop, runs, bounds>>

Remove(f) ==
    /\ f \in Repo /\ tok[f] # 0
    /\ tok' = [tok EXCEPT ![f] = 0]
    /\ GuardNotice(Watchers(f))
    /\ MonitorNotice(Watchers(f) # {})
    /\ UNCHANGED <<clock, config, trust, disk, loop, pc, proofs, dirty, reads, bounds>>

EditConfig(c) ==
    /\ SpendConfigOp
    /\ c # config /\ config' = c
    /\ GuardNotice(Checks)
    /\ MonitorNotice(TRUE)
    /\ UNCHANGED <<clock, tok, trust, disk, loop, pc, proofs, dirty, reads>>

TrustConfig ==
    /\ SpendTrustOp
    /\ config # NoConfig /\ trust' = config
    /\ UNCHANGED <<clock, tok, config, disk, daemon, runs>>

RevokeConfigTrust ==
    /\ SpendTrustOp
    /\ trust' = NoConfig
    /\ UNCHANGED <<clock, tok, config, disk, daemon, runs>>

ConfigTrusted(c) == c # NoConfig /\ trust = c

(***************************************************************************)
(* state.json.  A publish replaces one record and stamps the whole file    *)
(* with the publisher's config digest; its error is ignored by every       *)
(* caller, so a failing save just leaves the old file.  A file that cannot *)
(* be read or decoded counts as an empty one, for the scheduler and for a  *)
(* publish, which then writes back its own record alone.                   *)
(***************************************************************************)
Loads(loaded) ==
    \/ loaded = recs /\ UNCHANGED loadFaults
    \/ loaded = emptyState /\ LoadFault

NewRecord(k, state, scope) ==
    [state |-> state, scope |-> scope, torn |-> torn[k], phantom |-> phantom[k],
     late |-> state \in Verdict /\ event[k]]

Publish(k, state, scope) ==
    \/ \E loaded \in {recs, emptyState} :
          /\ Loads(loaded)
          /\ recs' = [loaded EXCEPT ![k] = NewRecord(k, state, scope)]
          /\ storeConfig' = cfg
          /\ UNCHANGED saveFaults
    \/ /\ SaveFault
       /\ UNCHANGED <<disk, loadFaults>>

\* runCheck returns: its guard is closed and its semaphore slot is free.
Finish(k) ==
    /\ pc' = [pc EXCEPT ![k] = "idle"]
    /\ pre' = [pre EXCEPT ![k] = Blank] /\ post' = [post EXCEPT ![k] = Blank]
    /\ outcome' = [outcome EXCEPT ![k] = "error"]
    /\ revalidated' = [revalidated EXCEPT ![k] = FALSE]
    /\ event' = [event EXCEPT ![k] = FALSE] /\ dirty' = [dirty EXCEPT ![k] = FALSE]
    /\ torn' = [torn EXCEPT ![k] = FALSE] /\ phantom' = [phantom EXCEPT ![k] = FALSE]

\* Mutant: a restart leaves the records of killed runs as they are.
KeepRunning == UNCHANGED <<disk, loadFaults>>

replaceRunning ==
    \/ /\ recs' = [k \in Checks |->
                     IF recs[k].state = "running" THEN [recs[k] EXCEPT !.state = "discarded"]
                     ELSE recs[k]]
       /\ UNCHANGED <<storeConfig, loadFaults>>
    \/ LoadFault /\ recs' = emptyState /\ storeConfig' = NoConfig

(***************************************************************************)
(* The daemon's life.                                                      *)
(***************************************************************************)
\* Without a monitor the scheduler lives on its ticker.
StartMonitor ==
    \/ monitoring' = TRUE /\ UNCHANGED faults
    \/ monitoring' = FALSE /\ Fault

Start(e) ==
    /\ up = "down" /\ up' = "up"
    /\ env' = e
    /\ cfg' = config /\ seesTrust' = ConfigTrusted(config)
    /\ armed' = TRUE /\ phase' = "select"
    /\ \/ replaceRunning /\ UNCHANGED saveFaults
       \/ SaveFault /\ UNCHANGED <<disk, loadFaults>>
    /\ StartMonitor
    /\ UNCHANGED <<world, changed, runs, ops>>

\* The context is cancelled; the select loop and every run notice on their own.
Cancel ==
    /\ up = "up" /\ up' = "stopping"
    /\ SpendStop
    /\ UNCHANGED <<world, disk, env, cfg, seesTrust, armed, changed, monitoring,
                   phase, runs>>

Forget ==
    /\ up' = "down" /\ seesTrust' = FALSE /\ armed' = FALSE /\ changed' = FALSE
    /\ monitoring' = FALSE /\ phase' = "select" /\ cfg' = NoConfig

OnDone ==
    /\ up = "stopping" /\ phase = "select"
    /\ Forget
    /\ UNCHANGED <<world, disk, env, runs, bounds>>

Kill ==
    /\ up # "down"
    /\ SpendStop
    /\ Forget
    /\ pc' = [k \in Checks |-> "idle"]
    /\ pre' = [k \in Checks |-> Blank] /\ post' = [k \in Checks |-> Blank]
    /\ outcome' = [k \in Checks |-> "error"]
    /\ revalidated' = [k \in Checks |-> FALSE]
    /\ event' = [k \in Checks |-> FALSE] /\ dirty' = [k \in Checks |-> FALSE]
    /\ torn' = [k \in Checks |-> FALSE] /\ phantom' = [k \in Checks |-> FALSE]
    /\ UNCHANGED <<world, disk, env>>

(***************************************************************************)
(* RunScheduler: one iteration of the select loop.                         *)
(***************************************************************************)
Selecting == up # "down" /\ phase = "select"

\* A filesystem notification, or the reconciliation ticker, rearms the debounce.
OnChange ==
    /\ Selecting /\ changed
    /\ changed' = FALSE /\ armed' = TRUE
    /\ UNCHANGED <<world, disk, up, env, cfg, seesTrust, monitoring, phase, runs, bounds>>

\* Mutant: the ticker fires and rearms nothing.
IgnoreReconcile == Selecting /\ ~armed /\ UNCHANGED vars

OnReconcile ==
    /\ Selecting /\ ~armed
    /\ armed' = TRUE
    /\ UNCHANGED <<world, disk, up, env, cfg, seesTrust, changed, monitoring, phase,
                   runs, bounds>>

OnTrustPoll ==
    /\ Selecting /\ cfg # NoConfig /\ ~seesTrust /\ ConfigTrusted(cfg)
    /\ seesTrust' = TRUE /\ armed' = TRUE
    /\ UNCHANGED <<world, disk, up, env, cfg, changed, monitoring, phase, runs, bounds>>

\* Quiescence is over: reload the config; a different one closes the monitor,
\* and with it whatever notification was still queued.
OnDebounce ==
    /\ Selecting /\ armed
    /\ armed' = FALSE
    /\ cfg' = config
    /\ IF config # cfg
       THEN phase' = "rebuild" /\ monitoring' = FALSE /\ changed' = FALSE
       ELSE phase' = "trust" /\ UNCHANGED <<monitoring, changed>>
    /\ UNCHANGED <<world, disk, up, env, seesTrust, runs, bounds>>

Rebuild ==
    /\ up # "down" /\ phase = "rebuild"
    /\ phase' = "trust"
    /\ StartMonitor
    /\ UNCHANGED <<world, disk, up, env, cfg, seesTrust, armed, changed, runs, ops,
                   storeFaults>>

ReadTrust ==
    /\ up # "down" /\ phase = "trust"
    /\ seesTrust' = ConfigTrusted(cfg)
    /\ phase' = IF seesTrust' THEN "prove" ELSE "select"
    /\ UNCHANGED <<world, disk, up, env, cfg, armed, changed, monitoring, runs, bounds>>

\* Mutant: failures and timeouts are launched again.
SkipPassed(k, record) ==
    /\ record.scope = [config |-> cfg, env |-> env, toks |-> Toks(k)]
    /\ record.state \in {"passed", "running"}

\* A check is skipped when its record was made under the very scope just
\* proved and is final, or claims to be running.
Skip(k, record) ==
    /\ record.scope = [config |-> cfg, env |-> env, toks |-> Toks(k)]
    /\ record.state \in Verdict \cup {"running"}

\* runPendingWithProofs; a batch is blind when the records could not be read.
ProveBatch ==
    /\ up = "up" /\ phase = "prove"
    /\ \E loaded \in {recs, emptyState} :
          /\ Loads(loaded)
          /\ phase' = IF loaded = recs THEN "batch" ELSE "blind"
          /\ pc' = [k \in Checks |-> IF Skip(k, loaded[k]) THEN "idle" ELSE "queued"]
    /\ UNCHANGED <<world, disk, up, env, cfg, seesTrust, armed, changed, monitoring,
                   proofs, guards, reads, ops, faults, saveFaults>>

InBatch == phase \in {"batch", "blind"}

\* A cancelled context fails every proof and kills every command; otherwise a
\* proof fails when a file changes under the hash or cannot be read, and a
\* command cannot be started or dies of a signal.
Interrupted ==
    \/ up = "stopping" /\ UNCHANGED faults
    \/ up = "up" /\ Fault

\* Any proof error, and every proof once the context is cancelled, ends the cycle.
ProveBatchFails ==
    /\ phase = "prove" /\ phase' = "select"
    /\ Interrupted
    /\ UNCHANGED <<world, disk, up, env, cfg, seesTrust, armed, changed, monitoring,
                   runs, ops, storeFaults>>

BatchDone ==
    /\ up # "down" /\ InBatch /\ \A k \in Checks : pc[k] = "idle"
    /\ phase' = "select"
    /\ UNCHANGED <<world, disk, up, env, cfg, seesTrust, armed, changed, monitoring,
                   runs, bounds>>

(***************************************************************************)
(* runCheck, one check at a time; different checks interleave.             *)
(***************************************************************************)
Acquire(k) ==
    /\ pc[k] = "queued"
    /\ Cardinality({j \in Checks : pc[j] \in Active}) < Concurrency
    /\ pc' = [pc EXCEPT ![k] = "start"]
    /\ UNCHANGED <<world, disk, daemon, proofs, guards, reads, bounds>>

Abandon(k) ==
    /\ pc[k] = "queued" /\ up = "stopping"
    /\ pc' = [pc EXCEPT ![k] = "idle"]
    /\ UNCHANGED <<world, disk, daemon, proofs, guards, reads, bounds>>

StartGuard(k) ==
    /\ pc[k] = "start"
    /\ pc' = [pc EXCEPT ![k] = "prewalk"]
    /\ UNCHANGED <<world, disk, daemon, proofs, guards, reads, bounds>>

GuardFails(k) ==
    /\ pc[k] = "start"
    /\ Fault
    /\ Publish(k, "error", NoScope)
    /\ Finish(k)
    /\ UNCHANGED <<world, daemon, ops>>

\* The watcher goroutine hands one queued event to the guard.
GuardConsume(k) ==
    /\ event[k]
    /\ event' = [event EXCEPT ![k] = FALSE]
    /\ dirty' = [dirty EXCEPT ![k] = TRUE]
    /\ UNCHANGED <<world, disk, daemon, pc, proofs, reads, bounds>>

\* The proof walk reads one file's identity; the walk is not atomic.
PreWalk(k, f) ==
    /\ pc[k] = "prewalk" /\ f \in Proven[k] /\ pre[k][f] = Unread
    /\ pre' = [pre EXCEPT ![k][f] = tok[f]]
    /\ UNCHANGED <<world, disk, daemon, pc, post, outcome, revalidated, guards, reads,
                   bounds>>

PreProofFails(k) ==
    /\ pc[k] = "prewalk"
    /\ Interrupted
    /\ Publish(k, "error", NoScope)
    /\ Finish(k)
    /\ UNCHANGED <<world, daemon, ops>>

PreTrust(k) ==
    /\ pc[k] = "prewalk" /\ Walked(k, pre[k])
    /\ ConfigTrusted(cfg)
    /\ pc' = [pc EXCEPT ![k] = "preflight"]
    /\ UNCHANGED <<world, disk, daemon, proofs, guards, reads, bounds>>

PreTrustLost(k) ==
    /\ pc[k] = "prewalk" /\ Walked(k, pre[k])
    /\ ~ConfigTrusted(cfg)
    /\ Publish(k, "discarded", ScopeOf(k))
    /\ Finish(k)
    /\ UNCHANGED <<world, daemon, ops, faults>>

Preflight(k) ==
    /\ pc[k] = "preflight" /\ ~dirty[k]
    /\ pc' = [pc EXCEPT ![k] = "spawn"]
    /\ Publish(k, "running", ScopeOf(k))
    /\ UNCHANGED <<world, daemon, proofs, guards, reads, ops, faults>>

PreflightDirty(k) ==
    /\ pc[k] = "preflight" /\ dirty[k]
    /\ Publish(k, "discarded", ScopeOf(k))
    /\ Finish(k)
    /\ UNCHANGED <<world, daemon, ops, faults>>

Spawn(k) ==
    /\ pc[k] = "spawn" /\ up = "up"
    /\ pc' = [pc EXCEPT ![k] = "native"]
    /\ Publish(k, "running", ScopeOf(k))
    /\ UNCHANGED <<world, daemon, proofs, guards, reads, ops, faults>>

SpawnFails(k) ==
    /\ pc[k] = "spawn"
    /\ Interrupted
    /\ Publish(k, "error", ScopeOf(k))
    /\ Finish(k)
    /\ UNCHANGED <<world, daemon, ops>>

\* The native command reads declared files whenever it likes.
NativeRead(k, f) ==
    /\ pc[k] = "native" /\ f \in Proven[k] /\ tok[f] # pre[k][f]
    /\ IF pre[k][f] = 0
       THEN phantom' = [phantom EXCEPT ![k] = TRUE] /\ UNCHANGED torn
       ELSE torn' = [torn EXCEPT ![k] = TRUE] /\ UNCHANGED phantom
    /\ UNCHANGED <<world, disk, daemon, pc, proofs, guards, bounds>>

\* Mutant: the deadline is recorded under a name no reader knows.
ExitMislabelled(k, how) ==
    /\ pc[k] = "native"
    /\ pc' = [pc EXCEPT ![k] = "postwalk"]
    /\ outcome' = [outcome EXCEPT ![k] = IF how = "timed_out" THEN "timeout" ELSE how]
    /\ UNCHANGED <<world, disk, daemon, pre, post, revalidated, guards, reads, ops,
                   faults, storeFaults>>

\* It exits with a status, on its deadline, or killed by a signal.
NativeExit(k, how) ==
    /\ pc[k] = "native"
    /\ IF how = "error" THEN Interrupted ELSE UNCHANGED faults
    /\ pc' = [pc EXCEPT ![k] = "postwalk"]
    /\ outcome' = [outcome EXCEPT ![k] = how]
    /\ UNCHANGED <<world, disk, daemon, pre, post, revalidated, guards, reads, ops,
                   storeFaults>>

PostWalk(k, f) ==
    /\ pc[k] = "postwalk" /\ f \in Proven[k] /\ post[k][f] = Unread
    /\ post' = [post EXCEPT ![k][f] = tok[f]]
    /\ UNCHANGED <<world, disk, daemon, pc, pre, outcome, revalidated, guards, reads,
                   bounds>>

PostTrust(k) ==
    /\ pc[k] = "postwalk" /\ pc' = [pc EXCEPT ![k] = "decide"]
    /\ \/ /\ Walked(k, post[k]) /\ UNCHANGED faults
          /\ revalidated' = [revalidated EXCEPT ![k] = ConfigTrusted(cfg)]
       \/ /\ Interrupted
          /\ revalidated' = [revalidated EXCEPT ![k] = FALSE]
    /\ UNCHANGED <<world, disk, daemon, pre, post, outcome, guards, reads, ops,
                   storeFaults>>

\* Mutants: the verdict rests on the guard alone, or on the two proofs alone.
ConfirmedByGuard(k)  == revalidated[k] /\ ~dirty[k]
ConfirmedByProofs(k) == revalidated[k] /\ post[k] = pre[k]

Confirmed(k) == revalidated[k] /\ ~dirty[k] /\ post[k] = pre[k]

Decide(k) ==
    /\ pc[k] = "decide"
    /\ Publish(k, IF Confirmed(k) THEN outcome[k] ELSE "discarded", ScopeOf(k))
    /\ Finish(k)
    /\ UNCHANGED <<world, daemon, ops, faults>>

(***************************************************************************)
(* Specification.                                                          *)
(***************************************************************************)
SelectLoop ==
    \/ OnChange \/ OnReconcile \/ OnTrustPoll \/ OnDebounce \/ Rebuild \/ ReadTrust
    \/ ProveBatch \/ ProveBatchFails \/ BatchDone

RunStep(k) ==
    \/ Acquire(k) \/ Abandon(k) \/ StartGuard(k) \/ GuardFails(k)
    \/ \E f \in Files : PreWalk(k, f)
    \/ PreProofFails(k) \/ PreTrust(k) \/ PreTrustLost(k)
    \/ Preflight(k) \/ PreflightDirty(k) \/ Spawn(k) \/ SpawnFails(k)
    \/ \E how \in Verdict \cup {"error"} : NativeExit(k, how)
    \/ \E f \in Files : PostWalk(k, f)
    \/ PostTrust(k) \/ Decide(k)

Machine ==
    \/ \E f \in Files : Edit(f) \/ Chmod(f) \/ Remove(f)
    \/ \E c \in Config : EditConfig(c)
    \/ TrustConfig \/ RevokeConfigTrust

Lifecycle == (\E e \in Envs : Start(e)) \/ Cancel \/ OnDone \/ Kill

Next ==
    \/ Machine \/ Lifecycle \/ SelectLoop
    \/ \E k \in Checks : RunStep(k) \/ GuardConsume(k)
    \/ \E k \in Checks, f \in Files : NativeRead(k, f)

Spec == Init /\ [][Next]_vars

\* The select loop never blocks for ever: its ticker fires, the semaphore is
\* released by every run, and a run ends because proofs read finitely many
\* files, the native command has a timeout and fsnotify delivers its queue.
Fairness ==
    /\ WF_vars(SelectLoop)
    /\ \A k \in Checks : WF_vars(RunStep(k)) /\ WF_vars(GuardConsume(k))

FairSpec == Spec /\ Fairness

(***************************************************************************)
(* Properties.                                                             *)
(***************************************************************************)
\* Every variable keeps its type.
TypeOK ==
    /\ clock \in Nat /\ tok \in [Files -> Nat]
    /\ config \in Config /\ trust \in Config
    /\ storeConfig \in Config /\ recs \in [Checks -> Record]
    /\ up \in {"down", "up", "stopping"} /\ env \in Envs /\ cfg \in Config
    /\ seesTrust \in BOOLEAN /\ armed \in BOOLEAN
    /\ changed \in BOOLEAN /\ monitoring \in BOOLEAN
    /\ phase \in {"select", "rebuild", "trust", "prove", "batch", "blind"}
    /\ pc \in [Checks -> {"idle", "queued"} \cup Active]
    /\ pre \in [Checks -> [Files -> Int]]
    /\ post \in [Checks -> [Files -> Int]]
    /\ outcome \in [Checks -> Verdict \cup {"error"}]
    /\ revalidated \in [Checks -> BOOLEAN]
    /\ event \in [Checks -> BOOLEAN] /\ dirty \in [Checks -> BOOLEAN]
    /\ torn \in [Checks -> BOOLEAN] /\ phantom \in [Checks -> BOOLEAN]
    /\ configOps \in Nat /\ trustOps \in Nat /\ stops \in Nat
    /\ faults \in Nat /\ saveFaults \in Nat /\ loadFaults \in Nat

\* runCheck hashes before and after: a published pass, failure or timeout was
\* produced by a native run that read every file its proof lists at exactly the
\* listed version, although neither walk is atomic, edits interleave with both,
\* the guard may lag, and a chmod raises no guard event at all.
VerdictUntorn == \A k \in Checks : recs[k].state \in Verdict => ~recs[k].torn

\* The guard between the two proofs: a run that saw a matching file come and go,
\* to which both proofs are blind, gives no verdict -- unless the verdict was
\* made while the event about that file was still on its way to the guard.
VerdictSawNoPhantom ==
    \A k \in Checks :
        recs[k].state \in Verdict /\ recs[k].phantom => recs[k].late

\* replaceRunning and the batch's Wait: as long as saves succeed, a record that
\* says "running" while a daemon is up belongs to a run in progress, so that no
\* crash leaves a check which every later batch skips as running.
RunningOwned ==
    up # "down" /\ saveFaults = 0 =>
        \A k \in Checks : recs[k].state = "running" =>
            pc[k] \in {"spawn", "native", "postwalk", "decide"}

\* runPendingWithProofs: a check whose stored verdict was reached under a scope
\* with all its files present is never launched again under that scope,
\* although the batch's proof and the run's proof are taken at different times,
\* and records are read and written by several runs.  A batch formed while the
\* records could not be read launches every check.
NoRedundantRun ==
    [][\A k \in Checks :
        phase = "batch" /\ pc[k] = "preflight" /\ pc'[k] = "spawn" =>
            ~ /\ recs[k].state \in Verdict /\ recs[k].scope = ScopeOf(k)
              /\ \A f \in Proven[k] : pre[k][f] # 0]_vars

\* The periodic reconciliation: once a daemon stays up with a trusted config,
\* every check ends with a verdict for the files as they finally are, whatever
\* notifications, runs or proofs were lost before.
Current(k) ==
    /\ recs[k].state \in Verdict
    /\ recs[k].scope = [config |-> config, env |-> env, toks |-> Toks(k)]

EventuallyCurrent ==
    <>[](up = "up" /\ ConfigTrusted(config)) => <>[](\A k \in Checks : Current(k))

\* `squire verify`: when it reports green, every required check has passed under
\* the config that is now on disk.
GreenIsEarned ==
    GreenReport => \A k \in Required : recs[k].scope.config = config

(***************************************************************************)
(* Why VerdictUntorn and VerdictSawNoPhantom hold: the inductive invariant *)
(* of the proofs.                                                          *)
(***************************************************************************)
\* Runs exist only inside a batch of a live daemon.
RunsInBatch == ~InBatch \/ up = "down" => \A k \in Checks : pc[k] = "idle"

\* Where a run has got to says which of its proofs are complete or still empty.
RunShape ==
    \A k \in Checks :
        /\ pc[k] \in {"idle", "queued", "start"} => pre[k] = Blank
        /\ pc[k] \in {"preflight", "spawn", "native", "postwalk", "decide"} =>
               Walked(k, pre[k])
        /\ pc[k] \notin {"postwalk", "decide"} => post[k] = Blank
        /\ torn[k] \/ phantom[k] => pc[k] \in Guarding

\* No identity is ever reused: what is in the machine or in a proof is old.
TokensOld ==
    \A f \in Files : tok[f] <= clock /\ \A k \in Checks : pre[k][f] <= clock

\* Only repository files are ever removed, and only those can be watched.
OutsidePresent ==
    \A f \in Files \ Repo : tok[f] # 0 /\ \A k \in Checks : pre[k][f] # 0

\* A torn run can never confirm: the version its first proof lists is gone for good.
TornCannotConfirm ==
    \A k \in Checks : torn[k] =>
        \E f \in Proven[k] :
            /\ pre[k][f] \notin {0, Unread}
            /\ tok[f] # pre[k][f] /\ post[k][f] # pre[k][f]

\* A file that appears behind a proof leaves an event with the guard.
PhantomNoticed ==
    \A k \in Checks :
        /\ phantom[k] => event[k] \/ dirty[k]
        /\ pc[k] \in Guarding =>
               \A f \in Proven[k] : pre[k][f] = 0 /\ tok[f] # 0 => event[k] \/ dirty[k]

RunInv ==
    RunShape /\ TokensOld /\ OutsidePresent /\ TornCannotConfirm /\ PhantomNoticed
=============================================================================
