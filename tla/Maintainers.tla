---------------------------- MODULE Maintainers ----------------------------
(***************************************************************************)
(* The life of the background maintainer: the programs that start one,     *)
(* the one status file that says which is running, the stop command, the   *)
(* socket path that leads to the one that serves, and the clients whose    *)
(* misses bring one back.                                                  *)
(*                                                                         *)
(* Nothing here is under a lock: the status file is read, a process is     *)
(* spawned, the file is written.  A starter is an adapter process, the     *)
(* registry of a runtime process, or a command line (session, codex,       *)
(* prepare, maintain --background).                                        *)
(***************************************************************************)
EXTENDS Naturals, FiniteSets

CONSTANTS
    Adapters,           \* long-lived adapter processes
    Clis,               \* command lines: session, codex, prepare, maintain --stop
    Registries,         \* runtime processes, each with its registry of workspaces
    None,
    MaxPids             \* bound on maintainers in the process table at a time

Starters == Adapters \cup Clis \cup Registries
Pids     == 1..MaxPids
Orphan   == MaxPids + 1     \* a path to a listener that has died

ASSUME MaintainersAssumption ==
    /\ Adapters \cap Clis = {} /\ Registries \cap (Adapters \cup Clis) = {}
    /\ None \notin Starters
    /\ MaxPids \in Nat

VARIABLES
    proc,       \* each maintainer process
    parent,     \* the starter that spawned it, None once that has exited
    asked,      \* the maintainers sent SIGTERM
    socket,     \* whose listener the socket path leads to, 0 for no path
    file,       \* the PID of maintainer_status.json, 0 for no file
    pc, child,  \* of each starter: where it is, the process it has spawned, or
                \* the one it stops
    memo,       \* adapterServer.maintainers: whether one is believed running
    miss,       \* adapterServer.hotMisses: the command missed just now
    prepared,   \* the published snapshot answers the adapters' command
    raced       \* history: two uses of the status file overlapped, or one failed

machine == <<proc, parent, asked, socket, file>>
calls   == <<pc, child>>
clients == <<memo, miss>>
vars    == <<machine, calls, clients, prepared, raced>>

Booted     == {"serving", "deaf"}
AliveState == {"booting", "cleared", "closing", "removing"} \cup Booted
Alive      == {p \in Pids : proc[p] \in AliveState}

\* Mutants: one that has not booted yet does not count; the file is believed.
processAnswers(p) == p \in Pids /\ proc[p] \in Booted
statusBelieved(p) == p \in Pids

\* kill(pid, 0): it finds a process that has ended too, as long as the one that
\* spawned it is there and has not waited for it, and no starter ever waits.
processAlive(p) == p \in Pids /\ (p \in Alive \/ proc[p] = "zombie")

Working == {"spawn", "save", "signal", "wait"}
Busy    == {s \in Starters : pc[s] \in Working}

TypeOK ==
    /\ proc \in [Pids -> AliveState \cup {"unused", "zombie"}]
    /\ parent \in [Pids -> Starters \cup {None}] /\ asked \subseteq Pids
    /\ socket \in 0..Orphan /\ file \in 0..MaxPids
    /\ pc \in [Starters -> {"idle", "look", "replay", "resident"} \cup Working]
    /\ child \in [Starters -> 0..MaxPids]
    /\ {memo, miss} \subseteq [Adapters -> BOOLEAN]
    /\ prepared \in BOOLEAN /\ raced \in BOOLEAN

Init ==
    /\ proc = [p \in Pids |-> "unused"] /\ parent = [p \in Pids |-> None]
    /\ asked = {} /\ socket = 0 /\ file = 0
    /\ pc = [s \in Starters |-> "idle"] /\ child = [s \in Starters |-> 0]
    /\ memo = [a \in Adapters |-> FALSE] /\ miss = [a \in Adapters |-> FALSE]
    /\ prepared = FALSE /\ raced = FALSE

(***************************************************************************)
(* Starting: StartBackgroundMaintainer.                                    *)
(***************************************************************************)
\* What a starter does with the status it gets back.  An adapter remembers a
\* running maintainer and goes on to the replay, the registry closes its
\* preparation, a session runs its command.
Return(s, running) ==
    /\ child' = [child EXCEPT ![s] = 0]
    /\ pc' = [pc EXCEPT ![s] = CASE s \in Adapters -> "replay"
                                     [] s \in Registries -> "idle"
                                     [] OTHER           -> "resident"]
    /\ memo' = IF s \in Adapters /\ running THEN [memo EXCEPT ![s] = TRUE] ELSE memo

Look(s) ==
    /\ pc[s] = "look"
    /\ raced' = (raced \/ Busy # {})
    /\ \/ processAlive(file) /\ Return(s, TRUE)
       \/ /\ ~processAlive(file)
          /\ pc' = [pc EXCEPT ![s] = "spawn"]
          /\ UNCHANGED <<child, memo>>
    /\ UNCHANGED <<machine, miss, prepared>>

\* Mutant: the child is recorded as its own parent.
SpawnOwn(s) ==
    /\ pc[s] = "spawn"
    /\ \E p \in Pids :
          /\ proc[p] = "unused" /\ proc' = [proc EXCEPT ![p] = "booting"]
          /\ parent' = [parent EXCEPT ![p] = p]
          /\ child' = [child EXCEPT ![s] = p]
    /\ pc' = [pc EXCEPT ![s] = "save"]
    /\ UNCHANGED <<asked, socket, file, clients, prepared, raced>>

Spawn(s) ==
    /\ pc[s] = "spawn"
    /\ \E p \in Pids :
          /\ proc[p] = "unused"
          /\ proc' = [proc EXCEPT ![p] = "booting"]
          /\ parent' = [parent EXCEPT ![p] = s]
          /\ child' = [child EXCEPT ![s] = p]
    /\ pc' = [pc EXCEPT ![s] = "save"]
    /\ UNCHANGED <<asked, socket, file, clients, prepared, raced>>

\* No process can be spawned: outside the bound this is the error of cmd.Start.
SpawnFails(s) ==
    /\ pc[s] = "spawn"
    /\ \A p \in Pids : proc[p] # "unused"
    /\ Return(s, FALSE)
    /\ UNCHANGED <<machine, miss, prepared, raced>>

Save(s) ==
    /\ pc[s] = "save"
    /\ file' = child[s]
    /\ Return(s, processAlive(child[s]))
    /\ UNCHANGED <<proc, parent, asked, socket, miss, prepared, raced>>

\* The process is there, and no file says so.
SaveFails(s) ==
    /\ pc[s] = "save"
    /\ raced' = TRUE
    /\ Return(s, FALSE)
    /\ UNCHANGED <<machine, miss, prepared>>

(***************************************************************************)
(* The callers.                                                            *)
(***************************************************************************)
\* squire session, codex, prepare and maintain --background start one whatever
\* there is; a registry when a request misses (EnsurePrepared), unless it is at it.
Begin(s) ==
    /\ pc[s] = "idle"
    /\ s \in Clis \/ (s \in Registries /\ ~prepared)
    /\ pc' = [pc EXCEPT ![s] = "look"]
    /\ UNCHANGED <<machine, child, clients, prepared, raced>>

\* The process of a starter ends, and init takes its children over.
Exits(s) ==
    /\ pc' = [pc EXCEPT ![s] = "idle"] /\ child' = [child EXCEPT ![s] = 0]
    /\ parent' = [p \in Pids |-> IF parent[p] = s THEN None ELSE parent[p]]
    /\ proc' = [p \in Pids |-> IF parent[p] = s /\ proc[p] = "zombie"
                               THEN "unused" ELSE proc[p]]
    /\ memo' = [a \in Adapters |-> memo[a] /\ a # s]
    /\ miss' = [a \in Adapters |-> miss[a] /\ a # s]
    /\ UNCHANGED <<asked, socket, file, prepared>>

\* A session or codex that has begun ends with its command.
Exit(s) ==
    /\ pc[s] = IF s \in Clis THEN "resident" ELSE "idle"
    /\ Exits(s)
    /\ UNCHANGED raced

\* A session warms the repository itself, too, before its command begins.
WarmSession(c) ==
    /\ pc[c] = "resident" /\ ~prepared
    /\ prepared' = TRUE
    /\ UNCHANGED <<machine, calls, clients, raced>>

\* One killed on the way.  A codex starts its maintainer in a goroutine, and ends
\* when its child does, wherever that goroutine is.
CliKilled(c) ==
    /\ pc[c] \in Working
    /\ raced' = TRUE
    /\ Exits(c)

\* An adapter's request: a recent miss of the command is not looked up again.
RecentMiss(a) ==
    /\ pc[a] = "idle" /\ miss[a]
    /\ UNCHANGED <<machine, calls, memo, miss, prepared, raced>>

\* ensureBackgroundMaintainer.
ensureBackgroundMaintainer(a) ==
    /\ pc[a] = "idle" /\ ~miss[a]
    /\ LET known == memo[a] \/ processAlive(file)
       IN  /\ pc' = [pc EXCEPT ![a] = IF known THEN "replay" ELSE "look"]
           /\ memo' = [memo EXCEPT ![a] = known]
    /\ UNCHANGED <<machine, child, miss, prepared, raced>>

\* The rest of the request: the replay, and the memo of a miss.
handleRequest(a) ==
    /\ pc[a] = "replay"
    /\ pc' = [pc EXCEPT ![a] = "idle"]
    /\ miss' = [miss EXCEPT ![a] = ~prepared]
    /\ UNCHANGED <<machine, child, memo, prepared, raced>>

\* Five seconds, and one second, have passed.
MemoExpires(a) ==
    /\ memo[a] /\ memo' = [memo EXCEPT ![a] = FALSE]
    /\ UNCHANGED <<machine, calls, miss, prepared, raced>>

hotMissValid(a) ==
    /\ miss[a] /\ miss' = [miss EXCEPT ![a] = FALSE]
    /\ UNCHANGED <<machine, calls, memo, prepared, raced>>

(***************************************************************************)
(* Stopping: StopBackgroundMaintainer reads the status, signals, waits and *)
(* writes the status it has read.                                          *)
(***************************************************************************)
StopLook(c) ==
    /\ pc[c] = "idle"
    /\ pc' = [pc EXCEPT ![c] = IF processAlive(file) THEN "signal" ELSE "wait"]
    /\ child' = [child EXCEPT ![c] = file]
    /\ raced' = (raced \/ Busy # {})
    /\ UNCHANGED <<machine, clients, prepared>>

StopSignal(c) ==
    /\ pc[c] = "signal"
    /\ pc' = [pc EXCEPT ![c] = "wait"]
    /\ asked' = asked \cup ({child[c]} \cap Alive)
    /\ UNCHANGED <<proc, parent, socket, file, child, clients, prepared, raced>>

\* After the process is gone, or after two seconds.
StopSave(c) ==
    /\ pc[c] = "wait"
    /\ file' = child[c]
    /\ pc' = [pc EXCEPT ![c] = "idle"] /\ child' = [child EXCEPT ![c] = 0]
    /\ UNCHANGED <<proc, parent, asked, socket, clients, prepared, raced>>

(***************************************************************************)
(* The maintainer: RunMaintainer and its hot cache server.                 *)
(***************************************************************************)
Dies(p) ==
    /\ proc' = [proc EXCEPT ![p] = IF parent[p] = None THEN "unused" ELSE "zombie"]
    /\ asked' = asked \ {p}

\* Mutant: the path is taken as it is found.
UnlinkNothing(p) ==
    /\ proc[p] = "booting"
    /\ proc' = [proc EXCEPT ![p] = "cleared"]
    /\ UNCHANGED <<parent, asked, socket, file, calls, clients, prepared, raced>>

\* startHotCacheServer removes whatever is at the path, then listens there.
Unlink(p) ==
    /\ proc[p] = "booting"
    /\ proc' = [proc EXCEPT ![p] = "cleared"]
    /\ socket' = 0
    /\ UNCHANGED <<parent, asked, file, calls, clients, prepared, raced>>

\* One that finds the path taken goes on without a server.
Listen(p) ==
    /\ proc[p] = "cleared"
    /\ \/ /\ socket = 0 /\ socket' = p
          /\ proc' = [proc EXCEPT ![p] = "serving"]
       \/ /\ socket # 0 /\ UNCHANGED socket
          /\ proc' = [proc EXCEPT ![p] = "deaf"]
    /\ UNCHANGED <<parent, asked, file, calls, clients, prepared, raced>>

\* A cycle in which the signal has changed.
Warm(p) ==
    /\ proc[p] \in Booted /\ ~prepared
    /\ prepared' = TRUE
    /\ UNCHANGED <<machine, calls, clients, raced>>

\* The context ends: SIGTERM, the duration, or a warm cycle that fails.  One
\* that has not got to its loop is ended by the signal itself.
Finish(p) ==
    /\ \/ proc[p] \in Booted
       \/ proc[p] \in {"booting", "cleared"} /\ p \in asked
    /\ IF proc[p] = "serving"
       THEN /\ proc' = [proc EXCEPT ![p] = "closing"]
            /\ UNCHANGED asked
       ELSE Dies(p)
    /\ UNCHANGED <<parent, socket, file, calls, clients, prepared, raced>>

\* Closing a listener removes its path, and Close removes the path once more,
\* whoever listens there by then.
Close(p) ==
    /\ \/ /\ proc[p] = "closing"
          /\ proc' = [proc EXCEPT ![p] = "removing"] /\ UNCHANGED asked
       \/ proc[p] = "removing" /\ Dies(p)
    /\ socket' = 0
    /\ UNCHANGED <<parent, file, calls, clients, prepared, raced>>

Crash(p) ==
    /\ p \in Alive /\ Dies(p)
    /\ socket' = IF socket = p THEN Orphan ELSE socket
    /\ UNCHANGED <<parent, file, calls, clients, prepared, raced>>

\* What was prepared is out of date.
Edit ==
    /\ prepared /\ prepared' = FALSE
    /\ UNCHANGED <<machine, calls, clients, raced>>

(***************************************************************************)
(* The specification.                                                      *)
(***************************************************************************)
Start(s) == Look(s) \/ Spawn(s) \/ SpawnFails(s) \/ Save(s)

StopStep(c) == StopSignal(c) \/ StopSave(c)

AdapterStep(a) == Start(a) \/ RecentMiss(a) \/ ensureBackgroundMaintainer(a) \/ handleRequest(a)

MaintainerStep(p) == Unlink(p) \/ Listen(p) \/ Warm(p) \/ Close(p)

Next ==
    \/ \E s \in Starters : Begin(s) \/ Start(s) \/ SaveFails(s) \/ Exit(s)
    \/ \E c \in Clis : WarmSession(c) \/ CliKilled(c) \/ StopLook(c) \/ StopStep(c)
    \/ \E a \in Adapters : AdapterStep(a) \/ MemoExpires(a) \/ hotMissValid(a)
    \/ \E p \in Pids : MaintainerStep(p) \/ Finish(p) \/ Crash(p)
    \/ Edit

Spec == Init /\ [][Next]_vars

\* What nobody has to do.
Disturbance ==
    \/ Edit
    \/ \E p \in Pids : Crash(p) \/ Finish(p)
    \/ \E c \in Clis : StopLook(c) \/ CliKilled(c)
    \/ \E s \in Starters : SaveFails(s)

\* Programs take their steps and time passes.  Nobody has to edit, fail, crash,
\* start or stop anything.
Fairness ==
    /\ \A s \in Starters \ Adapters : WF_vars(Start(s))
    /\ \A c \in Clis : WF_vars(StopStep(c))
    /\ \A a \in Adapters :
          WF_vars(AdapterStep(a)) /\ WF_vars(MemoExpires(a)) /\ WF_vars(hotMissValid(a))
    /\ \A r \in Registries : WF_vars(Begin(r))
    /\ \A p \in Pids : WF_vars(MaintainerStep(p)) /\ WF_vars(p \in asked /\ Finish(p))

FairSpec == Spec /\ Fairness

\* Sessions end, too, and others begin.
SessionSpec == FairSpec /\ \A s \in Starters : SF_vars(Exit(s))

(***************************************************************************)
(* The properties.                                                         *)
(***************************************************************************)
\* While no two uses of the status file overlapped and none failed, there is at
\* most one maintainer, through every restart, crash and stop: a starter that
\* finds one alive reuses it.
OneMaintainer == ~raced => Cardinality(Alive) <= 1

\* Then, too, the socket path leads to the maintainer that has started, whatever
\* a crashed or stopped one before it left at the path or is still removing.
SocketLeadsToServer ==
    ~raced => \A p \in Pids : proc[p] \in Booted => socket = p

\* Once the workspace rests and nothing more fails, ends or is stopped, every
\* adapter is served again and again: its memos expire, and a maintainer that has
\* died is replaced.
EventuallyServed ==
    <>[][~Disturbance]_vars
        => \A a \in Adapters : []<><<handleRequest(a) /\ prepared>>_vars
=============================================================================
