-------------------------- MODULE MaintainersProofs --------------------------
(***************************************************************************)
(* Proofs about Maintainers, for every number of adapters, command lines,  *)
(* registries and maintainers: type correctness, that a workspace has at   *)
(* most one maintainer, and that the socket path leads to it.              *)
(***************************************************************************)
EXTENDS Maintainers, FiniteSetTheorems, TLAPS

(***************************************************************************)
(* Type correctness.                                                       *)
(***************************************************************************)
LEMMA TypeInit == Init => TypeOK
<1> SUFFICES ASSUME Init PROVE TypeOK
  OBVIOUS
<1>1. 0 \in 0..MaxPids /\ 0 \in 0..Orphan
  BY MaintainersAssumption DEF Orphan
<1>2. /\ proc \in [Pids -> AliveState \cup {"unused", "zombie"}]
      /\ parent \in [Pids -> Starters \cup {None}]
  BY DEF Init
<1>3. /\ pc \in [Starters -> {"idle", "look", "replay", "resident"} \cup Working]
      /\ child \in [Starters -> 0..MaxPids]
  BY <1>1 DEF Init
<1>4. memo \in [Adapters -> BOOLEAN] /\ miss \in [Adapters -> BOOLEAN]
  BY DEF Init
<1>q. QED BY <1>1, <1>2, <1>3, <1>4 DEF Init, TypeOK

LEMMA ReturnType ==
    ASSUME TypeOK, NEW s \in Starters, NEW running \in BOOLEAN, Return(s, running)
    PROVE  /\ pc' \in [Starters -> {"idle", "look", "replay", "resident"} \cup Working]
           /\ child' \in [Starters -> 0..MaxPids]
           /\ memo' \in [Adapters -> BOOLEAN]
<1>1. 0 \in 0..MaxPids
  BY MaintainersAssumption
<1>2. child' \in [Starters -> 0..MaxPids]
  BY <1>1 DEF Return, TypeOK
<1>3. memo' \in [Adapters -> BOOLEAN]
  <2>1. memo \in [Adapters -> BOOLEAN]
    BY DEF TypeOK
  <2>2. memo' = memo \/ memo' = [memo EXCEPT ![s] = TRUE]
    BY DEF Return
  <2>q. QED BY <2>1, <2>2
<1>4. pc' \in [Starters -> {"idle", "look", "replay", "resident"} \cup Working]
  BY DEF Return, TypeOK
<1>q. QED BY <1>2, <1>3, <1>4

LEMMA AliveIsBoolean == \A p : processAlive(p) \in BOOLEAN
BY DEF processAlive

LEMMA TypeStart ==
    ASSUME TypeOK, NEW s \in Starters, Begin(s) \/ Start(s) \/ SaveFails(s) PROVE TypeOK'
<1>1. CASE Begin(s)
  BY <1>1 DEF Begin, TypeOK, machine, clients
<1>2. CASE Look(s)
  <2>1. CASE processAlive(file) /\ Return(s, TRUE)
    BY <1>2, <2>1, ReturnType DEF Look, TypeOK, machine
  <2>2. CASE ~processAlive(file)
    BY <1>2, <2>2 DEF Look, TypeOK, machine, Working, Return
  <2>q. QED BY <1>2, <2>1, <2>2 DEF Look
<1>3. CASE Spawn(s)
  BY <1>3, MaintainersAssumption DEF Spawn, TypeOK, Pids, AliveState, Working, clients
<1>4. CASE SpawnFails(s)
  BY <1>4, ReturnType DEF SpawnFails, TypeOK, machine
<1>5. CASE Save(s)
  BY <1>5, ReturnType, AliveIsBoolean DEF Save, TypeOK
<1>6. CASE SaveFails(s)
  BY <1>6, ReturnType DEF SaveFails, TypeOK, machine
<1>q. QED BY <1>1, <1>2, <1>3, <1>4, <1>5, <1>6 DEF Start

LEMMA ExitsType ==
    ASSUME TypeOK, NEW s \in Starters, Exits(s), raced' \in BOOLEAN PROVE TypeOK'
<1>1. /\ pc' \in [Starters -> {"idle", "look", "replay", "resident"} \cup Working]
      /\ child' \in [Starters -> 0..MaxPids]
  BY MaintainersAssumption DEF Exits, TypeOK
<1>2. parent' \in [Pids -> Starters \cup {None}]
  BY DEF Exits, TypeOK
<1>3. proc' \in [Pids -> AliveState \cup {"unused", "zombie"}]
  BY DEF Exits, TypeOK
<1>4. memo' \in [Adapters -> BOOLEAN] /\ miss' \in [Adapters -> BOOLEAN]
  BY DEF Exits, TypeOK
<1>q. QED BY <1>1, <1>2, <1>3, <1>4 DEF Exits, TypeOK

LEMMA TypeCallers ==
    ASSUME TypeOK,
           \/ \E s \in Starters : Exit(s)
           \/ \E c \in Clis : WarmSession(c) \/ CliKilled(c) \/ StopLook(c) \/ StopStep(c)
           \/ \E a \in Adapters : \/ RecentMiss(a) \/ ensureBackgroundMaintainer(a)
                                 \/ handleRequest(a) \/ MemoExpires(a) \/ hotMissValid(a)
    PROVE  TypeOK'
<1>1. CASE \E s \in Starters : Exit(s)
  BY <1>1, ExitsType DEF Exit, TypeOK
<1>2. ASSUME NEW c \in Clis, WarmSession(c) \/ CliKilled(c) \/ StopLook(c) \/ StopStep(c)
      PROVE  TypeOK'
  <2>0. c \in Starters
    BY DEF Starters
  <2>1. CASE WarmSession(c)
    BY <2>1 DEF WarmSession, TypeOK, machine, calls, clients
  <2>2. CASE CliKilled(c)
    BY <2>0, <2>2, ExitsType DEF CliKilled
  <2>3. CASE StopLook(c)
    BY <2>0, <2>3 DEF StopLook, TypeOK, machine, clients, Working
  <2>4. CASE StopSignal(c)
    <3>1. asked' \subseteq Pids
      BY <2>4 DEF StopSignal, TypeOK, Alive
    <3>q. QED BY <2>0, <2>4, <3>1 DEF StopSignal, TypeOK, clients, Working
  <2>5. CASE StopSave(c)
    BY <2>0, <2>5, MaintainersAssumption DEF StopSave, TypeOK, clients
  <2>q. QED BY <1>2, <2>1, <2>2, <2>3, <2>4, <2>5 DEF StopStep
<1>3. ASSUME NEW a \in Adapters,
             \/ RecentMiss(a) \/ ensureBackgroundMaintainer(a)
             \/ handleRequest(a) \/ MemoExpires(a) \/ hotMissValid(a)
      PROVE  TypeOK'
  <2>0. a \in Starters
    BY DEF Starters
  <2>1. CASE RecentMiss(a)
    BY <2>1 DEF RecentMiss, TypeOK, machine, calls
  <2>2. CASE ensureBackgroundMaintainer(a)
    <3>1. \E known \in BOOLEAN :
             /\ pc' = [pc EXCEPT ![a] = IF known THEN "replay" ELSE "look"]
             /\ memo' = [memo EXCEPT ![a] = known]
      BY <2>2, AliveIsBoolean DEF ensureBackgroundMaintainer, TypeOK
    <3>2. pc' \in [Starters -> {"idle", "look", "replay", "resident"} \cup Working]
      BY <2>0, <3>1 DEF TypeOK
    <3>3. memo' \in [Adapters -> BOOLEAN]
      BY <3>1 DEF TypeOK
    <3>q. QED BY <2>2, <3>2, <3>3 DEF ensureBackgroundMaintainer, TypeOK, machine
  <2>3. CASE handleRequest(a)
    BY <2>0, <2>3 DEF handleRequest, TypeOK, machine
  <2>4. CASE MemoExpires(a)
    BY <2>4 DEF MemoExpires, TypeOK, machine, calls
  <2>5. CASE hotMissValid(a)
    BY <2>5 DEF hotMissValid, TypeOK, machine, calls
  <2>q. QED BY <1>3, <2>1, <2>2, <2>3, <2>4, <2>5
<1>q. QED BY <1>1, <1>2, <1>3

LEMMA TypeMaintainer ==
    ASSUME TypeOK, NEW p \in Pids, MaintainerStep(p) \/ Finish(p) \/ Crash(p) PROVE TypeOK'
<1> USE DEF TypeOK, AliveState, Booted
<1>0. 0 \in 0..Orphan /\ p \in 0..Orphan /\ Orphan \in 0..Orphan
  BY MaintainersAssumption DEF Pids, Orphan
<1>1. CASE Unlink(p)
  BY <1>0, <1>1 DEF Unlink, calls, clients
<1>2. CASE Listen(p)
  BY <1>0, <1>2 DEF Listen, calls, clients
<1>3. CASE Warm(p)
  BY <1>3 DEF Warm, machine, calls, clients
<1>4. CASE Close(p)
  BY <1>0, <1>4 DEF Close, Dies, calls, clients
<1>5. CASE Finish(p)
  BY <1>5 DEF Finish, Dies, calls, clients
<1>6. CASE Crash(p)
  BY <1>0, <1>6 DEF Crash, Dies, calls, clients
<1>q. QED BY <1>1, <1>2, <1>3, <1>4, <1>5, <1>6 DEF MaintainerStep

LEMMA TypeStep == TypeOK /\ [Next]_vars => TypeOK'
<1> SUFFICES ASSUME TypeOK, [Next]_vars PROVE TypeOK'
  OBVIOUS
<1>1. ASSUME NEW a \in Adapters, Start(a) PROVE TypeOK'
  BY <1>1, TypeStart DEF Starters
<1>2. CASE Edit
  BY <1>2 DEF Edit, TypeOK, machine, calls, clients
<1>3. CASE UNCHANGED vars
  BY <1>3 DEF vars, TypeOK, machine, calls, clients
<1>q. QED
  BY <1>1, <1>2, <1>3, TypeStart, TypeCallers, TypeMaintainer DEF Next, AdapterStep

\* Every variable keeps its type, whatever the processes do.
THEOREM MaintainersTyped == Spec => []TypeOK
BY TypeInit, TypeStep, PTL DEF Spec
(***************************************************************************)
(* One maintainer.                                                         *)
(***************************************************************************)
\* While no two uses of the file overlapped, one starter at most is at it; it
\* spawns only when nothing is alive, and what is alive is what the file names,
\* or the child that has not been written to it yet.
StartersAlone ==
    /\ \A s, t \in Busy : s = t
    /\ \A s \in Starters : pc[s] = "spawn" => Alive = {}
    /\ \A s \in Starters : pc[s] = "save" => Alive \subseteq {child[s]}
    /\ \A s \in Starters : pc[s] \in {"signal", "wait"} => child[s] = file
    /\ (\A s \in Starters : pc[s] # "save") => Alive \subseteq {file}

StarterInv == ~raced => StartersAlone

LEMMA StarterInit == Init => StarterInv
BY DEF Init, StarterInv, StartersAlone, Busy, Working, Alive, AliveState, Booted

\* Steps that touch neither the file nor a starter, and bring no process to life.
LEMMA StarterFrame ==
    ASSUME StarterInv, UNCHANGED <<pc, child, file, raced>>, Alive' \subseteq Alive
    PROVE  StarterInv'
BY DEF StarterInv, StartersAlone, Busy

\* Steps of a starter that is not at the file, before and after.
LEMMA StarterIdle ==
    ASSUME TypeOK, StarterInv, NEW s \in Starters, s \notin Busy, s \notin Busy',
           raced' = raced, UNCHANGED file, Alive' \subseteq Alive,
           \A t \in Starters : t # s => pc'[t] = pc[t] /\ child'[t] = child[t]
    PROVE  StarterInv'
BY DEF StarterInv, StartersAlone, Busy, Working

\* A starter that returns leaves the file to the others.
LEMMA Returned ==
    ASSUME TypeOK, NEW s \in Starters, NEW running \in BOOLEAN, Return(s, running)
    PROVE  /\ pc'[s] \notin Working
           /\ \A t \in Starters : t # s => pc'[t] = pc[t] /\ child'[t] = child[t]
BY DEF Return, TypeOK, Working

LEMMA StarterLook == ASSUME TypeOK, StarterInv, NEW s \in Starters, Look(s) PROVE StarterInv'
<1> SUFFICES ASSUME ~raced' PROVE StartersAlone'
  BY DEF StarterInv
<1>1. Busy = {} /\ ~raced /\ pc[s] = "look"
  BY DEF Look
<1>2. Alive \subseteq {file} /\ Alive' = Alive /\ UNCHANGED file
  BY <1>1 DEF Look, StarterInv, StartersAlone, Busy, Working, machine, Alive
<1>3. \A t \in Starters : pc[t] \notin Working
  BY <1>1 DEF Busy
<1>4. CASE Return(s, TRUE)
  <2>1. \A t \in Starters : pc'[t] \notin Working
    BY <1>3, <1>4, Returned
  <2>q. QED BY <1>2, <2>1 DEF StartersAlone, Busy, Working
<1>5. CASE ~processAlive(file) /\ pc' = [pc EXCEPT ![s] = "spawn"]
  <2>1. Alive = {}
    BY <1>2, <1>5 DEF processAlive, Alive
  <2>2. pc'[s] = "spawn" /\ \A t \in Starters : t # s => pc'[t] \notin Working
    BY <1>3, <1>5 DEF TypeOK
  <2>q. QED BY <1>2, <2>1, <2>2 DEF StartersAlone, Busy, Working
<1>q. QED BY <1>4, <1>5 DEF Look

LEMMA StarterSpawns ==
    ASSUME TypeOK, StarterInv, NEW s \in Starters, Spawn(s) \/ SpawnFails(s) \/ Save(s)
    PROVE  StarterInv'
<1> SUFFICES ASSUME ~raced' PROVE StartersAlone'
  BY DEF StarterInv
<1>0. ~raced /\ StartersAlone
  <2>1. UNCHANGED raced
    BY DEF Spawn, SpawnFails, Save
  <2>q. QED BY <2>1 DEF StarterInv
<1>1. \A t \in Starters : t # s => pc[t] \notin Working
  BY <1>0 DEF Spawn, SpawnFails, Save, StartersAlone, Busy, Working
<1>2. CASE Spawn(s)
  <2>1. Alive = {}
    BY <1>0, <1>2 DEF Spawn, StartersAlone
  <2>2. Alive' \subseteq {child'[s]}
    <3>1. PICK p \in Pids : /\ proc' = [proc EXCEPT ![p] = "booting"]
                            /\ child' = [child EXCEPT ![s] = p]
      BY <1>2 DEF Spawn
    <3>2. child'[s] = p /\ \A q \in Pids : q # p => proc'[q] = proc[q]
      BY <3>1 DEF TypeOK
    <3>q. QED BY <2>1, <3>2 DEF Alive
  <2>3. pc'[s] = "save" /\ \A t \in Starters : t # s => pc'[t] \notin Working
    BY <1>1, <1>2 DEF Spawn, TypeOK
  <2>q. QED BY <2>2, <2>3 DEF StartersAlone, Busy, Working
<1>3. CASE SpawnFails(s)
  <2>1. Alive = {} /\ Alive' = Alive
    BY <1>0, <1>3 DEF SpawnFails, StartersAlone, machine, Alive
  <2>2. \A t \in Starters : pc'[t] \notin Working
    BY <1>1, <1>3, Returned DEF SpawnFails
  <2>q. QED BY <2>1, <2>2 DEF StartersAlone, Busy, Working
<1>4. CASE Save(s)
  <2>1. Alive \subseteq {file'} /\ Alive' = Alive
    BY <1>0, <1>4 DEF Save, StartersAlone, Alive
  <2>2. \A t \in Starters : pc'[t] \notin Working
    BY <1>1, <1>4, Returned, AliveIsBoolean DEF Save
  <2>q. QED BY <2>1, <2>2 DEF StartersAlone, Busy, Working
<1>q. QED BY <1>2, <1>3, <1>4

LEMMA StarterStops ==
    ASSUME TypeOK, StarterInv, NEW c \in Clis, StopLook(c) \/ StopStep(c) PROVE StarterInv'
<1> SUFFICES ASSUME ~raced' PROVE StartersAlone'
  BY DEF StarterInv
<1>0. c \in Starters
  BY DEF Starters
<1>1. Alive' = Alive
  BY DEF StopLook, StopStep, StopSignal, StopSave, machine, Alive
<1>2. CASE StopLook(c)
  <2>1. Busy = {} /\ ~raced
    BY <1>2 DEF StopLook
  <2>2. Alive \subseteq {file} /\ \A t \in Starters : pc[t] \notin Working
    BY <2>1 DEF StarterInv, StartersAlone, Busy, Working
  <2>3. UNCHANGED file /\ child'[c] = file /\ pc'[c] \in {"signal", "wait"}
    BY <1>0, <1>2 DEF StopLook, machine, TypeOK
  <2>4. \A t \in Starters : t # c => pc'[t] \notin Working
    BY <1>2, <2>2 DEF StopLook, TypeOK
  <2>q. QED BY <1>1, <2>2, <2>3, <2>4 DEF StartersAlone, Busy, Working
<1>3. CASE StopSignal(c)
  <2>1. StartersAlone /\ UNCHANGED <<file, child>> /\ pc[c] = "signal" /\ pc'[c] = "wait"
    BY <1>0, <1>3 DEF StopSignal, StarterInv, TypeOK
  <2>2. \A t \in Starters : t # c => pc'[t] = pc[t]
    BY <1>3 DEF StopSignal, TypeOK
  <2>q. QED BY <1>1, <2>1, <2>2 DEF StartersAlone, Busy, Working
<1>4. CASE StopSave(c)
  <2>1. StartersAlone /\ pc[c] = "wait" /\ file' = child[c]
    BY <1>4 DEF StopSave, StarterInv
  <2>2. file' = file /\ \A t \in Starters : t # c => pc[t] \notin Working
    BY <1>0, <2>1 DEF StartersAlone, Busy, Working
  <2>3. \A t \in Starters : pc'[t] \notin Working
    BY <1>4, <2>2 DEF StopSave, TypeOK, Working
  <2>4. Alive \subseteq {file}
    BY <1>0, <2>1, <2>2 DEF StartersAlone, Working
  <2>q. QED BY <1>1, <2>2, <2>3, <2>4 DEF StartersAlone, Busy, Working
<1>q. QED BY <1>2, <1>3, <1>4 DEF StopStep

\* No step but Spawn brings a process to life.
LEMMA NobodyRises ==
    ASSUME TypeOK, NEW p \in Pids, MaintainerStep(p) \/ Finish(p) \/ Crash(p)
    PROVE  Alive' \subseteq Alive
BY DEF MaintainerStep, Unlink, Listen, Warm, Close, Finish, Crash, Dies, machine,
       Alive, AliveState, Booted, TypeOK

LEMMA StarterStep == TypeOK /\ StarterInv /\ [Next]_vars => StarterInv'
<1> SUFFICES ASSUME TypeOK, StarterInv, [Next]_vars PROVE StarterInv'
  OBVIOUS
<1>1. ASSUME NEW s \in Starters, Start(s) PROVE StarterInv'
  BY <1>1, StarterLook, StarterSpawns DEF Start
<1>2. ASSUME NEW s \in Starters, Begin(s) PROVE StarterInv'
  <2>1. s \notin Busy /\ s \notin Busy' /\ Alive' = Alive
    BY <1>2 DEF Begin, Busy, Working, TypeOK, Alive, machine
  <2>q. QED BY <1>2, <2>1, StarterIdle DEF Begin, TypeOK, machine
<1>3. ASSUME NEW s \in Starters, SaveFails(s) \/ (s \in Clis /\ CliKilled(s)) PROVE StarterInv'
  BY <1>3 DEF SaveFails, CliKilled, StarterInv
<1>4. ASSUME NEW s \in Starters, Exit(s) PROVE StarterInv'
  <2>1. s \notin Busy /\ s \notin Busy'
    BY <1>4 DEF Exit, Exits, Busy, Working, TypeOK
  <2>2. Alive' \subseteq Alive
    BY <1>4 DEF Exit, Exits, Alive, AliveState, Booted, TypeOK
  <2>q. QED BY <1>4, <2>1, <2>2, StarterIdle DEF Exit, Exits, TypeOK
<1>5. ASSUME NEW c \in Clis, WarmSession(c) \/ StopLook(c) \/ StopStep(c) PROVE StarterInv'
  <2>1. CASE WarmSession(c)
    BY <2>1, StarterFrame DEF WarmSession, calls, machine, Alive
  <2>q. QED BY <1>5, <2>1, StarterStops
<1>6. ASSUME NEW a \in Adapters, \/ RecentMiss(a) \/ ensureBackgroundMaintainer(a)
                                 \/ handleRequest(a) \/ MemoExpires(a) \/ hotMissValid(a)
      PROVE  StarterInv'
  <2>0. a \in Starters
    BY DEF Starters
  <2>1. Alive' = Alive /\ UNCHANGED <<child, file, raced>>
    BY <1>6 DEF RecentMiss, ensureBackgroundMaintainer, handleRequest, MemoExpires,
           hotMissValid, machine, calls, Alive
  <2>2. CASE UNCHANGED pc
    BY <2>1, <2>2, StarterFrame
  <2>3. CASE ensureBackgroundMaintainer(a) \/ handleRequest(a)
    <3>1. a \notin Busy /\ a \notin Busy'
      BY <2>0, <2>3 DEF ensureBackgroundMaintainer, handleRequest, Busy, Working, TypeOK
    <3>2. \A t \in Starters : t # a => pc'[t] = pc[t]
      BY <2>3 DEF ensureBackgroundMaintainer, handleRequest, TypeOK
    <3>q. QED BY <2>0, <2>1, <3>1, <3>2, StarterIdle
  <2>q. QED BY <1>6, <2>2, <2>3 DEF RecentMiss, MemoExpires, hotMissValid, calls
<1>7. ASSUME NEW p \in Pids, MaintainerStep(p) \/ Finish(p) \/ Crash(p) PROVE StarterInv'
  <2>1. UNCHANGED <<pc, child, file, raced>>
    BY <1>7 DEF MaintainerStep, Unlink, Listen, Warm, Close, Finish, Crash, machine, calls
  <2>q. QED BY <1>7, <2>1, NobodyRises, StarterFrame
<1>8. CASE Edit \/ UNCHANGED vars
  BY <1>8, StarterFrame DEF Edit, vars, machine, calls, Alive
<1>9. \A a \in Adapters : a \in Starters
  BY DEF Starters
<1>10. \A c \in Clis : c \in Starters
  BY DEF Starters
<1>q. QED
  BY <1>1, <1>2, <1>3, <1>4, <1>5, <1>6, <1>7, <1>8, <1>9, <1>10 DEF Next, AdapterStep

LEMMA AtMostOne ==
    ASSUME StarterInv, ~raced PROVE \A p, q \in Alive : p = q
BY DEF StarterInv, StartersAlone

\* While no two uses of the status file overlapped, at most one maintainer is
\* alive, however many starters, restarts, crashes and stops there are.
THEOREM OneIsAlive == Spec => []OneMaintainer
<1>1. ASSUME \A p, q \in Alive : p = q PROVE Cardinality(Alive) <= 1
  <2>1. CASE Alive = {}
    BY <2>1, FS_EmptySet
  <2>2. CASE Alive # {}
    <3>1. PICK p \in Alive : TRUE
      BY <2>2
    <3>2. Alive = {p}
      BY <1>1, <3>1
    <3>3. Cardinality({p}) = 1
      BY FS_Singleton
    <3>q. QED BY <3>2, <3>3
  <2>q. QED BY <2>1, <2>2
<1>2. StarterInv => OneMaintainer
  BY <1>1, AtMostOne DEF OneMaintainer
<1>q. QED BY <1>2, TypeInit, TypeStep, StarterInit, StarterStep, PTL DEF Spec

(***************************************************************************)
(* The socket path.                                                        *)
(***************************************************************************)
\* One that has cleared the path finds it free, and one that has started there
\* is where the path leads.
SocketInv ==
    ~raced => \A p \in Pids : /\ proc[p] = "cleared" => socket = 0
                              /\ proc[p] \in Booted => socket = p

LEMMA SocketFrame ==
    ASSUME SocketInv, raced => raced', UNCHANGED socket,
           \A p \in Pids : proc'[p] \in Booted \cup {"cleared"} => proc'[p] = proc[p]
    PROVE  SocketInv'
BY DEF SocketInv

LEMMA SocketMaintainer ==
    ASSUME TypeOK, StarterInv, SocketInv, NEW p \in Pids,
           MaintainerStep(p) \/ Finish(p) \/ Crash(p)
    PROVE  SocketInv'
<1> SUFFICES ASSUME ~raced' PROVE SocketInv'
  BY DEF SocketInv
<1>0. ~raced /\ UNCHANGED raced
  BY DEF MaintainerStep, Unlink, Listen, Warm, Close, Finish, Crash
<1>1. \A q \in Pids : q # p => proc'[q] = proc[q]
  BY DEF MaintainerStep, Unlink, Listen, Warm, Close, Finish, Crash, Dies, machine, TypeOK
<1>2. CASE p \notin Alive
  BY <1>2, <1>0, SocketFrame DEF MaintainerStep, Unlink, Listen, Warm, Close, Finish, Crash,
     Alive, AliveState, Booted, machine
<1>3. CASE p \in Alive
  <2>1. \A q \in Pids : q # p => proc'[q] \notin Booted \cup {"cleared"}
    BY <1>0, <1>1, <1>3, AtMostOne DEF Alive, AliveState
  <2>2. (proc'[p] = "cleared" => socket' = 0) /\ (proc'[p] \in Booted => socket' = p)
    <3>1. CASE Unlink(p)
      BY <3>1 DEF Unlink, TypeOK, Booted
    <3>2. CASE Listen(p)
      BY <1>0, <3>2 DEF Listen, SocketInv, TypeOK
    <3>3. CASE Warm(p)
      BY <1>0, <3>3 DEF Warm, machine, SocketInv
    <3>4. CASE Close(p) \/ Finish(p) \/ Crash(p)
      BY <3>4 DEF Close, Finish, Crash, Dies, TypeOK, Booted
    <3>q. QED BY <3>1, <3>2, <3>3, <3>4 DEF MaintainerStep
  <2>q. QED BY <2>1, <2>2 DEF SocketInv
<1>q. QED BY <1>2, <1>3

LEMMA SocketStep == TypeOK /\ StarterInv /\ SocketInv /\ [Next]_vars => SocketInv'
<1> SUFFICES ASSUME TypeOK, StarterInv, SocketInv, [Next]_vars PROVE SocketInv'
  OBVIOUS
<1>1. ASSUME NEW s \in Starters, Begin(s) \/ Start(s) \/ SaveFails(s) \/ Exit(s)
      PROVE  SocketInv'
  <2>1. UNCHANGED socket /\ (raced => raced')
    <3>1. CASE Begin(s) \/ Look(s) \/ SpawnFails(s) \/ SaveFails(s)
      <4>1. UNCHANGED machine
        BY <3>1 DEF Begin, Look, SpawnFails, SaveFails
      <4>2. raced => raced'
        BY <3>1 DEF Begin, Look, SpawnFails, SaveFails
      <4>q. QED BY <4>1, <4>2 DEF machine
    <3>2. CASE Spawn(s)
      BY <3>2 DEF Spawn
    <3>3. CASE Save(s)
      BY <3>3 DEF Save
    <3>4. CASE Exit(s)
      BY <3>4 DEF Exit, Exits
    <3>q. QED BY <1>1, <3>1, <3>2, <3>3, <3>4 DEF Start
  <2>2. \A p \in Pids : proc'[p] \in Booted \cup {"cleared"} => proc'[p] = proc[p]
    <3>1. CASE UNCHANGED proc
      BY <3>1
    <3>2. CASE Spawn(s)
      BY <3>2 DEF Spawn, Booted, TypeOK
    <3>3. CASE Exit(s)
      BY <3>3 DEF Exit, Exits, Booted, TypeOK
    <3>4. Begin(s) \/ Look(s) \/ SpawnFails(s) \/ Save(s) \/ SaveFails(s) => UNCHANGED proc
      BY DEF Begin, Look, SpawnFails, Save, SaveFails, machine
    <3>q. QED BY <1>1, <3>1, <3>2, <3>3, <3>4 DEF Start
  <2>q. QED BY <2>1, <2>2, SocketFrame
<1>2. ASSUME NEW c \in Clis, WarmSession(c) \/ StopLook(c) \/ StopStep(c) PROVE SocketInv'
  <2>1. UNCHANGED <<proc, socket>>
    BY <1>2 DEF WarmSession, StopLook, StopStep, StopSignal, StopSave, machine
  <2>2. raced => raced'
    BY <1>2 DEF WarmSession, StopLook, StopStep, StopSignal, StopSave
  <2>q. QED BY <2>1, <2>2, SocketFrame
<1>3. ASSUME NEW c \in Clis, CliKilled(c) PROVE SocketInv'
  BY <1>3 DEF CliKilled, SocketInv
<1>4. ASSUME NEW a \in Adapters, \/ RecentMiss(a) \/ ensureBackgroundMaintainer(a)
                                 \/ handleRequest(a) \/ MemoExpires(a) \/ hotMissValid(a)
      PROVE  SocketInv'
  BY <1>4, SocketFrame DEF RecentMiss, ensureBackgroundMaintainer, handleRequest,
     MemoExpires, hotMissValid, machine
<1>5. CASE Edit \/ UNCHANGED vars
  BY <1>5, SocketFrame DEF Edit, vars, machine
<1>6. \A a \in Adapters : a \in Starters
  BY DEF Starters
<1>q. QED BY <1>1, <1>2, <1>3, <1>4, <1>5, <1>6, SocketMaintainer DEF Next, AdapterStep

\* While no two uses of the status file overlapped, the path leads to the
\* maintainer that has started: no clean-up of one before it takes the path away.
THEOREM PathLeads == Spec => []SocketLeadsToServer
<1>1. Init => SocketInv
  BY DEF Init, SocketInv, Booted
<1>2. SocketInv => SocketLeadsToServer
  BY DEF SocketInv, SocketLeadsToServer
<1>q. QED BY <1>1, <1>2, TypeInit, TypeStep, StarterInit, StarterStep, SocketStep, PTL DEF Spec
=============================================================================
