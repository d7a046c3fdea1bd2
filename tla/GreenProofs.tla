---------------------------- MODULE GreenProofs ----------------------------
(***************************************************************************)
(* Proofs about Green for every set of checks, files, configs and every    *)
(* bound: type correctness, and that a published verdict comes from a run  *)
(* that read each listed file at its listed version.                       *)
(***************************************************************************)
EXTENDS GreenHistory, TLAPS

(***************************************************************************)
(* Type correctness.                                                       *)
(***************************************************************************)
LEMMA ScopeType ==
    ASSUME TypeOK, NEW k \in Checks
    PROVE  ScopeOf(k) \in Scope /\ NoScope \in Scope
BY DEF TypeOK, ScopeOf, NoScope, Scope, Blank, Unread, Config

LEMMA EmptyType == TypeOK => emptyState \in [Checks -> Record]
<1> SUFFICES ASSUME TypeOK PROVE emptyState \in [Checks -> Record]
  OBVIOUS
<1>1. NoScope \in Scope
  BY DEF TypeOK, NoScope, Scope, Blank, Unread, Config
<1>q. QED BY <1>1 DEF emptyState, Record

\* A publication writes its own record; the others stay, or are lost together.
LEMMA PublishRecords ==
    ASSUME TypeOK, NEW k \in Checks, NEW scope, NEW state, Publish(k, state, scope)
    PROVE  \/ UNCHANGED recs
           \/ /\ recs' = [j \in Checks |-> recs'[j]]
              /\ recs'[k] = NewRecord(k, state, scope)
              /\ \/ \A j \in Checks \ {k} : recs'[j] = recs[j]
                 \/ \A j \in Checks \ {k} : recs'[j] = emptyState[j]
<1>1. ASSUME NEW loaded \in {recs, emptyState},
             recs' = [loaded EXCEPT ![k] = NewRecord(k, state, scope)]
      PROVE  /\ recs' = [j \in Checks |-> recs'[j]]
             /\ recs'[k] = NewRecord(k, state, scope)
             /\ \/ \A j \in Checks \ {k} : recs'[j] = recs[j]
                \/ \A j \in Checks \ {k} : recs'[j] = emptyState[j]
  <2>1. loaded = [j \in Checks |-> loaded[j]]
    BY <1>1, EmptyType DEF TypeOK
  <2> HIDE DEF NewRecord
  <2>2. \A j \in Checks : recs'[j] = IF j = k THEN NewRecord(k, state, scope) ELSE loaded[j]
    BY <1>1, <2>1
  <2>3. recs' = [j \in Checks |-> recs'[j]]
    BY <1>1, <2>1
  <2>q. QED BY <2>2, <2>3
<1>q. QED BY <1>1 DEF Publish, disk

LEMMA PublishType ==
    ASSUME TypeOK, NEW k \in Checks, NEW scope \in Scope,
           NEW state \in Verdict \cup {"running", "discarded", "error"},
           Publish(k, state, scope)
    PROVE  /\ recs' \in [Checks -> Record] /\ storeConfig' \in Config
           /\ saveFaults' \in Nat /\ loadFaults' \in Nat
<1>1. NewRecord(k, state, scope) \in Record
  BY DEF TypeOK, Record, NewRecord
<1>2. recs' \in [Checks -> Record]
  <2>1. CASE UNCHANGED recs
    BY <2>1 DEF TypeOK
  <2>2. CASE recs' # recs
    <3>1. \A j \in Checks : recs[j] \in Record /\ emptyState[j] \in Record
      BY EmptyType DEF TypeOK
    <3> HIDE DEF NewRecord, emptyState
    <3>2. recs' = [j \in Checks |-> recs'[j]] /\ \A j \in Checks : recs'[j] \in Record
      BY <1>1, <2>2, <3>1, PublishRecords
    <3>q. QED BY <3>2
  <2>q. QED BY <2>1, <2>2
<1>3. storeConfig' \in Config /\ saveFaults' \in Nat /\ loadFaults' \in Nat
  BY DEF TypeOK, Publish, Loads, LoadFault, SaveFault, disk
<1>q. QED BY <1>2, <1>3

LEMMA FinishType ==
    ASSUME TypeOK, NEW k \in Checks, Finish(k)
    PROVE  /\ pc' \in [Checks -> {"idle", "queued"} \cup Active]
           /\ pre' \in [Checks -> [Files -> Int]]
           /\ post' \in [Checks -> [Files -> Int]]
           /\ outcome' \in [Checks -> Verdict \cup {"error"}]
           /\ revalidated' \in [Checks -> BOOLEAN]
           /\ event' \in [Checks -> BOOLEAN] /\ dirty' \in [Checks -> BOOLEAN]
           /\ torn' \in [Checks -> BOOLEAN] /\ phantom' \in [Checks -> BOOLEAN]
<1>1. Blank \in [Files -> Int]
  BY DEF Blank, Unread
<1>q. QED BY <1>1 DEF TypeOK, Finish

LEMMA TypeInit == Init => TypeOK
<1> SUFFICES ASSUME Init PROVE TypeOK
  OBVIOUS
<1>1. Blank \in [Files -> Int]
  BY DEF Blank, Unread
<1>2. NoScope \in Scope
  BY <1>1 DEF Init, NoScope, Scope, Config
<1>3. recs \in [Checks -> Record]
  BY <1>2 DEF Init, emptyState, Record
<1>q. QED BY <1>1, <1>3 DEF Init, TypeOK, Config

LEMMA TypeMachine == TypeOK /\ Machine => TypeOK'
<1> SUFFICES ASSUME TypeOK, Machine PROVE TypeOK'
  OBVIOUS
<1> USE DEF TypeOK, world, disk, loop, daemon, proofs, guards, reads, runs, ops, bounds, storeFaults
<1>1. ASSUME NEW f \in Files, Edit(f) PROVE TypeOK'
  BY <1>1 DEF Edit, GuardNotice, MonitorNotice
<1>2. ASSUME NEW f \in Files, Chmod(f) PROVE TypeOK'
  BY <1>2 DEF Chmod, MonitorNotice
<1>3. ASSUME NEW f \in Files, Remove(f) PROVE TypeOK'
  BY <1>3 DEF Remove, GuardNotice, MonitorNotice
<1>4. ASSUME NEW c \in Config, EditConfig(c) PROVE TypeOK'
  BY <1>4 DEF EditConfig, GuardNotice, MonitorNotice, SpendConfigOp
<1>5. CASE TrustConfig
  BY <1>5 DEF TrustConfig, SpendTrustOp
<1>6. CASE RevokeConfigTrust
  BY <1>6 DEF RevokeConfigTrust, SpendTrustOp, Config
<1>q. QED BY <1>1, <1>2, <1>3, <1>4, <1>5, <1>6 DEF Machine

LEMMA MonitorType ==
    ASSUME TypeOK, StartMonitor PROVE monitoring' \in BOOLEAN /\ faults' \in Nat
<1>1. monitoring' \in BOOLEAN
  BY Zenon DEF StartMonitor
<1>2. faults' \in Nat
  BY DEF TypeOK, StartMonitor, Fault
<1>q. QED BY <1>1, <1>2

LEMMA TypeLifecycle == TypeOK /\ Lifecycle => TypeOK'
<1> SUFFICES ASSUME TypeOK, Lifecycle PROVE TypeOK'
  OBVIOUS
<1> USE DEF TypeOK, world, disk, loop, daemon, proofs, guards, reads, runs, ops, bounds, storeFaults
<1>1. ASSUME NEW e \in Envs, Start(e) PROVE TypeOK'
  <2>1. /\ recs' \in [Checks -> Record] /\ storeConfig' \in Config
        /\ saveFaults' \in Nat /\ loadFaults' \in Nat
    <3>1. CASE replaceRunning /\ UNCHANGED saveFaults
      <4>1. ASSUME NEW k \in Checks
            PROVE  (IF recs[k].state = "running"
                    THEN [recs[k] EXCEPT !.state = "discarded"] ELSE recs[k]) \in Record
        BY DEF Record
      <4>q. QED BY <3>1, <4>1, EmptyType DEF replaceRunning, LoadFault, Config
    <3>2. CASE SaveFault /\ UNCHANGED <<disk, loadFaults>>
      BY <3>2 DEF SaveFault
    <3>q. QED BY <1>1, <3>1, <3>2 DEF Start
  <2>2. monitoring' \in BOOLEAN /\ faults' \in Nat
    BY <1>1, MonitorType DEF Start
  <2>q. QED BY <1>1, <2>1, <2>2 DEF Start, ConfigTrusted
<1>2. CASE Cancel
  BY <1>2 DEF Cancel, SpendStop
<1>3. CASE OnDone
  BY <1>3 DEF OnDone, Forget, Config
<1>4. CASE Kill
  <2>1. Blank \in [Files -> Int]
    BY DEF Blank, Unread
  <2>2. stops' \in Nat /\ UNCHANGED <<configOps, trustOps, faults, storeFaults>>
    BY <1>4 DEF Kill, SpendStop
  <2>3. /\ pc' \in [Checks -> {"idle", "queued"} \cup Active]
        /\ pre' \in [Checks -> [Files -> Int]] /\ post' \in [Checks -> [Files -> Int]]
        /\ outcome' \in [Checks -> Verdict \cup {"error"}]
        /\ revalidated' \in [Checks -> BOOLEAN]
        /\ event' \in [Checks -> BOOLEAN] /\ dirty' \in [Checks -> BOOLEAN]
        /\ torn' \in [Checks -> BOOLEAN] /\ phantom' \in [Checks -> BOOLEAN]
    BY <1>4, <2>1 DEF Kill
  <2>q. QED BY <1>4, <2>2, <2>3 DEF Kill, Forget, Config
<1>q. QED BY <1>1, <1>2, <1>3, <1>4 DEF Lifecycle

LEMMA TypeSelectLoop == TypeOK /\ SelectLoop => TypeOK'
<1> SUFFICES ASSUME TypeOK, SelectLoop PROVE TypeOK'
  OBVIOUS
<1> USE DEF TypeOK, world, disk, loop, daemon, proofs, guards, reads, runs, ops, bounds, storeFaults
<1>1. CASE OnChange
  BY <1>1 DEF OnChange
<1>2. CASE OnReconcile
  BY <1>2 DEF OnReconcile
<1>3. CASE OnTrustPoll
  BY <1>3 DEF OnTrustPoll
<1>4. CASE OnDebounce
  BY <1>4 DEF OnDebounce
<1>5. CASE Rebuild
  <2>1. monitoring' \in BOOLEAN /\ faults' \in Nat
    BY <1>5, MonitorType DEF Rebuild
  <2>q. QED BY <1>5, <2>1 DEF Rebuild
<1>6. CASE ReadTrust
  BY <1>6 DEF ReadTrust, ConfigTrusted
<1>7. CASE ProveBatch
  BY <1>7 DEF ProveBatch, Loads, LoadFault
<1>8. CASE ProveBatchFails
  BY <1>8 DEF ProveBatchFails, Interrupted, Fault
<1>9. CASE BatchDone
  BY <1>9 DEF BatchDone
<1>q. QED BY <1>1, <1>2, <1>3, <1>4, <1>5, <1>6, <1>7, <1>8, <1>9 DEF SelectLoop

\* What every step of a run that ends the run leaves typed.
LEMMA TypePublishFinish ==
    ASSUME TypeOK, NEW k \in Checks, NEW scope \in Scope,
           NEW state \in Verdict \cup {"running", "discarded", "error"},
           Publish(k, state, scope), Finish(k), UNCHANGED <<world, daemon, ops>>,
           faults' \in Nat
    PROVE  TypeOK'
BY PublishType, FinishType DEF TypeOK, world, loop, daemon, ops

LEMMA TypePublishRunning ==
    ASSUME TypeOK, NEW k \in Checks, NEW p \in Active,
           Publish(k, "running", ScopeOf(k)), pc' = [pc EXCEPT ![k] = p],
           UNCHANGED <<world, daemon, proofs, guards, reads, ops, faults>>
    PROVE  TypeOK'
<1>1. /\ recs' \in [Checks -> Record] /\ storeConfig' \in Config
      /\ saveFaults' \in Nat /\ loadFaults' \in Nat
  BY PublishType, ScopeType
<1>q. QED BY <1>1 DEF TypeOK, world, loop, daemon, proofs, guards, reads, ops

LEMMA TypeRun == ASSUME TypeOK, NEW k \in Checks, RunStep(k) PROVE TypeOK'
<1>0. ScopeOf(k) \in Scope /\ NoScope \in Scope
  BY ScopeType
<1>f. Interrupted => faults' \in Nat
  BY DEF TypeOK, Interrupted, Fault
<1> DEFINE Frame == UNCHANGED <<world, daemon, ops>>
<1>1. CASE Acquire(k) \/ Abandon(k) \/ StartGuard(k)
  <2>1. pc' \in [Checks -> {"idle", "queued"} \cup Active]
    BY <1>1 DEF Acquire, Abandon, StartGuard, TypeOK, Active, Guarding
  <2>2. UNCHANGED <<world, disk, daemon, proofs, guards, reads, bounds>>
    BY <1>1 DEF Acquire, Abandon, StartGuard
  <2>q. QED BY <2>1, <2>2 DEF TypeOK, world, disk, loop, daemon, proofs, guards, reads,
                              ops, bounds, storeFaults
<1>2. CASE GuardFails(k)
  BY <1>0, <1>2, TypePublishFinish DEF GuardFails, Fault, TypeOK
<1>3. ASSUME NEW f \in Files, PreWalk(k, f) PROVE TypeOK'
  BY <1>3 DEF PreWalk, TypeOK, world, disk, loop, daemon, guards, reads, ops, bounds, storeFaults
<1>4. CASE PreProofFails(k)
  BY <1>0, <1>f, <1>4, TypePublishFinish DEF PreProofFails
<1>5. CASE PreTrust(k)
  BY <1>5 DEF PreTrust, TypeOK, Active, Guarding,
              world, disk, loop, daemon, proofs, guards, reads, ops, bounds, storeFaults
<1>6. CASE PreTrustLost(k)
  BY <1>0, <1>6, TypePublishFinish DEF PreTrustLost, TypeOK
<1>7. CASE Preflight(k)
  BY <1>7, TypePublishRunning DEF Preflight, Active, Guarding
<1>8. CASE PreflightDirty(k)
  BY <1>0, <1>8, TypePublishFinish DEF PreflightDirty, TypeOK
<1>9. CASE Spawn(k)
  BY <1>9, TypePublishRunning DEF Spawn, Active, Guarding
<1>10. CASE SpawnFails(k)
  BY <1>0, <1>f, <1>10, TypePublishFinish DEF SpawnFails
<1>11. ASSUME NEW how \in Verdict \cup {"error"}, NativeExit(k, how) PROVE TypeOK'
  <2>1. faults' \in Nat
    BY <1>f, <1>11 DEF NativeExit, TypeOK
  <2>q. QED BY <1>11, <2>1 DEF NativeExit, TypeOK, Active, Guarding,
               world, disk, loop, daemon, proofs, guards, reads, ops, storeFaults
<1>12. ASSUME NEW f \in Files, PostWalk(k, f) PROVE TypeOK'
  BY <1>12 DEF PostWalk, TypeOK, world, disk, loop, daemon, guards, reads, ops, bounds, storeFaults
<1>13. CASE PostTrust(k)
  BY <1>f, <1>13 DEF PostTrust, ConfigTrusted, TypeOK, Active, Guarding,
                     world, disk, loop, daemon, guards, reads, ops, storeFaults
<1>14. CASE Decide(k)
  <2>1. (IF Confirmed(k) THEN outcome[k] ELSE "discarded")
            \in Verdict \cup {"running", "discarded", "error"}
    BY DEF TypeOK
  <2>q. QED BY <1>0, <1>14, <2>1, TypePublishFinish DEF Decide, TypeOK
<1>q. QED BY <1>1, <1>2, <1>3, <1>4, <1>5, <1>6, <1>7, <1>8, <1>9, <1>10, <1>11, <1>12,
             <1>13, <1>14 DEF RunStep

LEMMA TypeStep == TypeOK /\ [Next]_vars => TypeOK'
<1> SUFFICES ASSUME TypeOK, [Next]_vars PROVE TypeOK'
  OBVIOUS
<1>1. ASSUME NEW k \in Checks, GuardConsume(k) PROVE TypeOK'
  BY <1>1 DEF GuardConsume, TypeOK, world, disk, loop, daemon, proofs, reads, ops, bounds, storeFaults
<1>2. ASSUME NEW k \in Checks, NEW f \in Files, NativeRead(k, f) PROVE TypeOK'
  BY <1>2 DEF NativeRead, TypeOK, world, disk, loop, daemon, proofs, guards, ops, bounds, storeFaults
<1>3. CASE UNCHANGED vars
  BY <1>3 DEF vars, TypeOK, world, disk, loop, daemon, proofs, guards, reads, runs, ops,
              bounds, storeFaults
<1>q. QED BY <1>1, <1>2, <1>3, TypeMachine, TypeLifecycle, TypeSelectLoop, TypeRun DEF Next

\* Every reachable state of the scheduler, its runs and its files is well typed.
THEOREM TypeCorrect == Spec => []TypeOK
<1>1. Init => TypeOK
  BY TypeInit
<1>2. TypeOK /\ [Next]_vars => TypeOK'
  BY TypeStep
<1>q. QED BY <1>1, <1>2, PTL DEF Spec

(***************************************************************************)
(* The inductive invariant of the runs.                                    *)
(***************************************************************************)
LEMMA RunInvInit == Init => RunInv
<1> SUFFICES ASSUME Init PROVE RunInv
  OBVIOUS
<1>1. \A k \in Checks : /\ pc[k] = "idle" /\ pre[k] = Blank /\ post[k] = Blank
                        /\ ~torn[k] /\ ~phantom[k]
  BY DEF Init
<1>2. \A f \in Files : Blank[f] = -1 /\ tok[f] = 1
  BY DEF Init, Blank, Unread
<1>3. RunShape
  BY <1>1 DEF RunShape
<1>4. TokensOld
  BY <1>1, <1>2 DEF TokensOld, Init
<1>5. OutsidePresent
  BY <1>1, <1>2 DEF OutsidePresent
<1>6. TornCannotConfirm
  BY <1>1 DEF TornCannotConfirm
<1>7. PhantomNoticed
  BY <1>1 DEF PhantomNoticed, Guarding
<1>q. QED BY <1>3, <1>4, <1>5, <1>6, <1>7 DEF RunInv

\* Steps that touch neither files nor runs keep the invariant.
LEMMA RunInvFrame ==
    RunInv /\ UNCHANGED <<clock, tok, pc, pre, post, event, dirty, torn, phantom>> => RunInv'
BY DEF RunInv, RunShape, Walked, TokensOld, OutsidePresent, TornCannotConfirm, PhantomNoticed

\* A run that ends leaves nothing behind.
LEMMA RunInvFinish ==
    ASSUME TypeOK, RunInv, NEW k \in Checks, Finish(k), UNCHANGED <<clock, tok>>
    PROVE  RunInv'
<1> USE DEF RunInv
<1>0. \A f \in Files : Blank[f] = -1
  BY DEF Blank, Unread
<1>1. /\ pc'[k] = "idle" /\ pre'[k] = Blank /\ post'[k] = Blank
      /\ ~torn'[k] /\ ~phantom'[k]
  BY DEF Finish, TypeOK
<1>2. \A j \in Checks \ {k} :
          /\ pc'[j] = pc[j] /\ pre'[j] = pre[j] /\ post'[j] = post[j]
          /\ torn'[j] = torn[j] /\ phantom'[j] = phantom[j]
          /\ event'[j] = event[j] /\ dirty'[j] = dirty[j]
  BY DEF Finish, TypeOK
<1>3. RunShape'
  BY <1>1, <1>2 DEF RunShape, Walked
<1>4. TokensOld'
  BY <1>0, <1>1, <1>2 DEF TokensOld, TypeOK
<1>5. OutsidePresent'
  BY <1>0, <1>1, <1>2 DEF OutsidePresent
<1>6. TornCannotConfirm'
  BY <1>1, <1>2 DEF TornCannotConfirm
<1>7. PhantomNoticed'
  BY <1>1, <1>2 DEF PhantomNoticed, Guarding
<1>q. QED BY <1>3, <1>4, <1>5, <1>6, <1>7

\* A new identity differs from everything proved so far, and each guard that
\* watches the file gets an event unless the file existed before.
LEMMA RunInvChange ==
    ASSUME TypeOK, RunInv, NEW f \in Files, NEW t \in Nat,
           tok' = [tok EXCEPT ![f] = t], clock' \in Nat, clock <= clock',
           (t > clock /\ t = clock') \/ (t = 0 /\ f \in Repo),
           UNCHANGED <<pc, pre, post, dirty, torn, phantom>>,
           \A k \in Checks : event[k] => event'[k],
           \/ tok[f] # 0 /\ t # 0
           \/ \A k \in Checks : f \in Proven[k] \cap Repo /\ pc[k] \in Guarding => event'[k]
    PROVE  RunInv'
<1> USE DEF RunInv
<1>0. /\ tok'[f] = t /\ \A h \in Files \ {f} : tok'[h] = tok[h]
      /\ \A k \in Checks : Proven[k] \subseteq Files
  BY GreenAssumption DEF TypeOK
<1>1. RunShape'
  BY DEF RunShape, Walked
<1>2. TokensOld'
  BY <1>0 DEF TokensOld, TypeOK
<1>3. OutsidePresent'
  BY <1>0 DEF OutsidePresent, TypeOK
<1>4. TornCannotConfirm'
  <2> SUFFICES ASSUME NEW k \in Checks, torn[k]
               PROVE  \E h \in Proven[k] : /\ pre[k][h] \notin {0, Unread}
                                           /\ tok'[h] # pre[k][h] /\ post[k][h] # pre[k][h]
    BY DEF TornCannotConfirm
  <2>1. PICK h \in Proven[k] : /\ pre[k][h] \notin {0, Unread}
                               /\ tok[h] # pre[k][h] /\ post[k][h] # pre[k][h]
    BY DEF TornCannotConfirm
  <2>2. h \in Files /\ pre[k][h] <= clock /\ pre[k][h] \in Int
    BY <1>0 DEF TokensOld, TypeOK
  <2>3. tok'[h] # pre[k][h]
    BY <1>0, <2>1, <2>2 DEF TypeOK
  <2>q. QED BY <2>1, <2>3
<1>5. PhantomNoticed'
  <2> SUFFICES ASSUME NEW k \in Checks
               PROVE  /\ phantom[k] => event'[k] \/ dirty[k]
                      /\ pc[k] \in Guarding =>
                            \A h \in Proven[k] : pre[k][h] = 0 /\ tok'[h] # 0 =>
                                event'[k] \/ dirty[k]
    BY DEF PhantomNoticed
  <2>1. phantom[k] => event'[k] \/ dirty[k]
    BY DEF PhantomNoticed
  <2>2. ASSUME pc[k] \in Guarding, NEW h \in Proven[k], pre[k][h] = 0, tok'[h] # 0
        PROVE  event'[k] \/ dirty[k]
    <3>1. CASE tok[h] # 0
      BY <2>2, <3>1 DEF PhantomNoticed
    <3>2. CASE tok[h] = 0
      <4>1. h = f /\ h \in Repo
        BY <1>0, <2>2, <3>2 DEF OutsidePresent
      <4>q. QED BY <2>2, <3>2, <4>1
    <3>q. QED BY <3>1, <3>2
  <2>q. QED BY <2>1, <2>2
<1>q. QED BY <1>1, <1>2, <1>3, <1>4, <1>5

LEMMA RunInvMachine == TypeOK /\ RunInv /\ Machine => RunInv'
<1> SUFFICES ASSUME TypeOK, RunInv, Machine PROVE RunInv'
  OBVIOUS
<1>1. ASSUME NEW f \in Files, Edit(f) PROVE RunInv'
  <2>1. clock + 1 \in Nat /\ clock + 1 > clock /\ clock <= clock + 1
    BY DEF TypeOK
  <2>2. \A k \in Checks : event'[k] = (event[k] \/ (f \in Proven[k] \cap Repo /\ pc[k] \in Guarding))
    BY <1>1 DEF Edit, GuardNotice, Watchers
  <2>q. QED BY <1>1, <2>1, <2>2, RunInvChange DEF Edit, proofs, reads
<1>2. ASSUME NEW f \in Files, Chmod(f) PROVE RunInv'
  <2>1. clock + 1 \in Nat /\ clock + 1 > clock /\ clock <= clock + 1 /\ clock + 1 # 0
    BY DEF TypeOK
  <2>q. QED BY <1>2, <2>1, RunInvChange DEF Chmod, runs, proofs, guards, reads
<1>3. ASSUME NEW f \in Files, Remove(f) PROVE RunInv'
  <2>1. \A k \in Checks : event'[k] = (event[k] \/ (f \in Proven[k] \cap Repo /\ pc[k] \in Guarding))
    BY <1>3 DEF Remove, GuardNotice, Watchers
  <2>2. clock' = clock /\ clock \in Nat /\ clock <= clock /\ 0 \in Nat
    BY <1>3 DEF Remove, TypeOK
  <2>q. QED BY <1>3, <2>1, <2>2, RunInvChange DEF Remove, proofs, reads
<1>4. ASSUME NEW c \in Config, EditConfig(c) PROVE RunInv'
  <2>1. \A k \in Checks : event[k] => event'[k]
    BY <1>4 DEF EditConfig, GuardNotice
  <2>2. UNCHANGED <<clock, tok, pc, pre, post, dirty, torn, phantom>>
    BY <1>4 DEF EditConfig, proofs, reads
  <2>q. QED BY <2>1, <2>2 DEF RunInv, RunShape, Walked, TokensOld, OutsidePresent,
                             TornCannotConfirm, PhantomNoticed
<1>5. CASE TrustConfig \/ RevokeConfigTrust
  BY <1>5, RunInvFrame DEF TrustConfig, RevokeConfigTrust, runs, proofs, guards, reads
<1>q. QED BY <1>1, <1>2, <1>3, <1>4, <1>5 DEF Machine

LEMMA RunInvLifecycle == TypeOK /\ RunInv /\ Lifecycle => RunInv'
<1> SUFFICES ASSUME TypeOK, RunInv, Lifecycle PROVE RunInv'
  OBVIOUS
<1>1. CASE (\E e \in Envs : Start(e)) \/ Cancel \/ OnDone
  BY <1>1, RunInvFrame DEF Start, Cancel, OnDone, world, runs, proofs, guards, reads
<1>2. CASE Kill
  <2> USE DEF RunInv
  <2>0. \A f \in Files : Blank[f] = -1
    BY DEF Blank, Unread
  <2>1. \A k \in Checks : /\ pc'[k] = "idle" /\ pre'[k] = Blank /\ post'[k] = Blank
                          /\ ~torn'[k] /\ ~phantom'[k]
    BY <1>2 DEF Kill
  <2>2. UNCHANGED <<clock, tok>>
    BY <1>2 DEF Kill, world
  <2>3. RunShape'
    BY <2>1 DEF RunShape
  <2>4. TokensOld'
    BY <2>0, <2>1, <2>2 DEF TokensOld, TypeOK
  <2>5. OutsidePresent'
    BY <2>0, <2>1, <2>2 DEF OutsidePresent
  <2>6. TornCannotConfirm' /\ PhantomNoticed'
    BY <2>1 DEF TornCannotConfirm, PhantomNoticed, Guarding
  <2>q. QED BY <2>3, <2>4, <2>5, <2>6
<1>q. QED BY <1>1, <1>2 DEF Lifecycle

LEMMA RunInvSelectLoop == TypeOK /\ RunsInBatch /\ RunInv /\ SelectLoop => RunInv'
<1> SUFFICES ASSUME TypeOK, RunsInBatch, RunInv, SelectLoop PROVE RunInv'
  OBVIOUS
<1>1. CASE ProveBatch
  <2>1. UNCHANGED <<clock, tok, pre, post, event, dirty, torn, phantom>>
    BY <1>1 DEF ProveBatch, world, proofs, guards, reads
  <2>2. \A k \in Checks : pc[k] = "idle"
    BY <1>1 DEF ProveBatch, RunsInBatch, InBatch
  <2>3. \A k \in Checks : pc'[k] \in {"idle", "queued"}
    BY <1>1 DEF ProveBatch
  <2>q. QED BY <2>1, <2>2, <2>3 DEF RunInv, RunShape, Walked, TokensOld, OutsidePresent,
                 TornCannotConfirm, PhantomNoticed, Guarding
<1>2. CASE ~ProveBatch
  BY <1>2, RunInvFrame DEF SelectLoop, OnChange, OnReconcile, OnTrustPoll, OnDebounce,
       Rebuild, ReadTrust, ProveBatchFails, BatchDone, world, runs, proofs, guards, reads
<1>q. QED BY <1>1, <1>2

\* A step of one run leaves the other runs alone.
LEMMA RunInvStep == ASSUME TypeOK, RunInv, NEW k \in Checks, RunStep(k) PROVE RunInv'
<1> USE DEF RunInv
<1>0. Proven[k] \subseteq Files
  BY GreenAssumption
<1>1. CASE Acquire(k) \/ Abandon(k) \/ StartGuard(k)
  <2>1. UNCHANGED <<clock, tok, pre, post, event, dirty, torn, phantom>>
    BY <1>1 DEF Acquire, Abandon, StartGuard, world, proofs, guards, reads
  <2>2. /\ pc[k] \in {"queued", "start"} /\ pc'[k] \in {"idle", "start", "prewalk"}
        /\ \A j \in Checks \ {k} : pc'[j] = pc[j]
        /\ pc'[k] = "prewalk" => pc[k] = "start"
    BY <1>1 DEF Acquire, Abandon, StartGuard, TypeOK
  <2>3. RunShape'
    BY <2>1, <2>2 DEF RunShape, Walked, Guarding
  <2>4. PhantomNoticed'
    <3>1. pre[k] = Blank
      BY <2>2 DEF RunShape
    <3>2. \A f \in Proven[k] : pre[k][f] # 0
      BY <1>0, <3>1 DEF Blank, Unread
    <3>q. QED BY <2>1, <2>2, <3>2 DEF PhantomNoticed
  <2>q. QED BY <2>1, <2>3, <2>4 DEF TokensOld, OutsidePresent, TornCannotConfirm
<1>2. CASE \/ GuardFails(k) \/ PreProofFails(k) \/ PreTrustLost(k) \/ PreflightDirty(k)
           \/ SpawnFails(k) \/ Decide(k)
  BY <1>2, RunInvFinish DEF GuardFails, PreProofFails, PreTrustLost, PreflightDirty,
       SpawnFails, Decide, world
<1>3. ASSUME NEW f \in Files, PreWalk(k, f) PROVE RunInv'
  <2>1. /\ UNCHANGED <<clock, tok, pc, post, event, dirty, torn, phantom>>
        /\ pc[k] = "prewalk" /\ pre[k][f] = Unread
        /\ pre'[k][f] = tok[f] /\ \A h \in Files \ {f} : pre'[k][h] = pre[k][h]
        /\ \A j \in Checks \ {k} : pre'[j] = pre[j]
    BY <1>3 DEF PreWalk, TypeOK, world, guards, reads
  <2>2. RunShape'
    BY <2>1 DEF RunShape, Walked, Guarding
  <2>3. TokensOld'
    BY <2>1 DEF TokensOld
  <2>4. OutsidePresent'
    BY <2>1 DEF OutsidePresent
  <2>5. TornCannotConfirm'
    BY <2>1, <1>0, GreenAssumption DEF TornCannotConfirm
  <2>6. PhantomNoticed'
    BY <2>1, <1>0 DEF PhantomNoticed
  <2>q. QED BY <2>2, <2>3, <2>4, <2>5, <2>6
<1>4. CASE PreTrust(k) \/ Preflight(k) \/ Spawn(k)
  <2>1. UNCHANGED <<clock, tok, pre, post, event, dirty, torn, phantom>>
    BY <1>4 DEF PreTrust, Preflight, Spawn, world, proofs, guards, reads
  <2>2. /\ pc[k] \in {"prewalk", "preflight", "spawn"}
        /\ pc'[k] \in {"preflight", "spawn", "native"}
        /\ \A j \in Checks \ {k} : pc'[j] = pc[j]
        /\ Walked(k, pre[k])
    BY <1>4 DEF PreTrust, Preflight, Spawn, TypeOK, RunShape
  <2>3. RunShape'
    BY <2>1, <2>2 DEF RunShape, Walked, Guarding
  <2>4. PhantomNoticed'
    BY <2>1, <2>2 DEF PhantomNoticed, Guarding
  <2>q. QED BY <2>1, <2>3, <2>4 DEF TokensOld, OutsidePresent, TornCannotConfirm
<1>5. CASE (\E how \in Verdict \cup {"error"} : NativeExit(k, how)) \/ PostTrust(k)
  <2>1. UNCHANGED <<clock, tok, pre, post, event, dirty, torn, phantom>>
    BY <1>5 DEF NativeExit, PostTrust, world, guards, reads
  <2>2. /\ pc[k] \in {"native", "postwalk"} /\ pc'[k] \in {"postwalk", "decide"}
        /\ \A j \in Checks \ {k} : pc'[j] = pc[j]
    BY <1>5 DEF NativeExit, PostTrust, TypeOK
  <2>3. RunShape'
    BY <2>1, <2>2 DEF RunShape, Walked, Guarding
  <2>4. PhantomNoticed'
    BY <2>1, <2>2 DEF PhantomNoticed, Guarding
  <2>q. QED BY <2>1, <2>3, <2>4 DEF TokensOld, OutsidePresent, TornCannotConfirm
<1>6. ASSUME NEW f \in Files, PostWalk(k, f) PROVE RunInv'
  <2>1. /\ UNCHANGED <<clock, tok, pc, pre, event, dirty, torn, phantom>>
        /\ pc[k] = "postwalk"
        /\ post'[k][f] = tok[f] /\ \A h \in Files \ {f} : post'[k][h] = post[k][h]
        /\ \A j \in Checks \ {k} : post'[j] = post[j]
    BY <1>6 DEF PostWalk, TypeOK, world, guards, reads
  <2>2. RunShape'
    BY <2>1 DEF RunShape, Walked
  <2>3. TornCannotConfirm'
    BY <2>1, <1>0 DEF TornCannotConfirm
  <2>q. QED BY <2>1, <2>2, <2>3 DEF TokensOld, OutsidePresent, PhantomNoticed
<1>q. QED BY <1>1, <1>2, <1>3, <1>4, <1>5, <1>6 DEF RunStep

LEMMA RunInvGuard == ASSUME TypeOK, RunInv, NEW k \in Checks, GuardConsume(k) PROVE RunInv'
<1>1. /\ UNCHANGED <<clock, tok, pc, pre, post, torn, phantom>> /\ dirty'[k]
      /\ \A j \in Checks \ {k} : event'[j] = event[j] /\ dirty'[j] = dirty[j]
  BY DEF GuardConsume, TypeOK, world, proofs, reads
<1>q. QED BY <1>1 DEF RunInv, RunShape, Walked, TokensOld, OutsidePresent,
                      TornCannotConfirm, PhantomNoticed

LEMMA RunInvNative ==
    ASSUME TypeOK, RunInv, NEW k \in Checks, NEW f \in Files, NativeRead(k, f)
    PROVE  RunInv'
<1> USE DEF RunInv
<1>1. /\ UNCHANGED <<clock, tok, pc, pre, post, event, dirty>>
      /\ pc[k] = "native" /\ f \in Proven[k] /\ tok[f] # pre[k][f]
      /\ \A j \in Checks \ {k} : torn'[j] = torn[j] /\ phantom'[j] = phantom[j]
  BY DEF NativeRead, TypeOK, world, proofs, guards
<1>2. pre[k][f] # Unread /\ post[k] = Blank /\ Blank[f] = Unread
  BY <1>1 DEF RunShape, Walked, Blank
<1>3. RunShape'
  BY <1>1 DEF RunShape, Walked, Guarding
<1>4. TornCannotConfirm'
  <2>1. torn'[k] => torn[k] \/ pre[k][f] # 0
    BY DEF NativeRead, TypeOK
  <2>q. QED BY <1>1, <1>2, <2>1 DEF TornCannotConfirm
<1>5. PhantomNoticed'
  <2>1. phantom'[k] => phantom[k] \/ pre[k][f] = 0
    BY DEF NativeRead, TypeOK
  <2>2. pre[k][f] = 0 => event[k] \/ dirty[k]
    BY <1>1 DEF PhantomNoticed, Guarding
  <2>q. QED BY <1>1, <2>1, <2>2 DEF PhantomNoticed
<1>q. QED BY <1>1, <1>3, <1>4, <1>5 DEF TokensOld, OutsidePresent

(***************************************************************************)
(* The inductive invariant of the scheduler.                               *)
(***************************************************************************)
LEMMA RunsInBatchInit == Init => RunsInBatch
BY DEF Init, RunsInBatch, InBatch

LEMMA RunsInBatchRun ==
    ASSUME TypeOK, RunsInBatch, NEW k \in Checks, RunStep(k) PROVE RunsInBatch'
<1>1. pc[k] # "idle"
  BY DEF RunStep, Acquire, Abandon, StartGuard, GuardFails, PreWalk, PreProofFails,
         PreTrust, PreTrustLost, Preflight, PreflightDirty, Spawn, SpawnFails, NativeExit,
         PostWalk, PostTrust, Decide
<1>2. UNCHANGED <<phase, up>>
  BY DEF RunStep, Acquire, Abandon, StartGuard, GuardFails, PreWalk, PreProofFails,
         PreTrust, PreTrustLost, Preflight, PreflightDirty, Spawn, SpawnFails, NativeExit,
         PostWalk, PostTrust, Decide, daemon, loop
<1>q. QED BY <1>1, <1>2 DEF RunsInBatch, InBatch

LEMMA RunsInBatchStep == TypeOK /\ RunsInBatch /\ [Next]_vars => RunsInBatch'
<1> SUFFICES ASSUME TypeOK, RunsInBatch, [Next]_vars PROVE RunsInBatch'
  OBVIOUS
<1>1. CASE Machine
  BY <1>1 DEF Machine, Edit, Chmod, Remove, EditConfig, TrustConfig, RevokeConfigTrust,
              RunsInBatch, InBatch, daemon, loop, runs
<1>2. CASE Lifecycle
  BY <1>2 DEF Lifecycle, Start, Cancel, OnDone, Kill, Forget, RunsInBatch, InBatch, runs
<1>3. CASE SelectLoop
  <2>1. CASE OnChange \/ OnReconcile \/ OnTrustPoll \/ OnDebounce
    BY <2>1 DEF OnChange, OnReconcile, OnTrustPoll, OnDebounce, Selecting, RunsInBatch, InBatch, runs
  <2>2. CASE Rebuild \/ ReadTrust \/ ProveBatchFails \/ BatchDone
    BY <2>2 DEF Rebuild, ReadTrust, ProveBatchFails, BatchDone, RunsInBatch, InBatch, runs
  <2>3. CASE ProveBatch
    <3>1. up' = "up" /\ phase' \in {"batch", "blind"}
      BY <2>3 DEF ProveBatch
    <3>q. QED BY <3>1 DEF RunsInBatch, InBatch
  <2>q. QED BY <1>3, <2>1, <2>2, <2>3 DEF SelectLoop
<1>4. ASSUME NEW k \in Checks, GuardConsume(k) PROVE RunsInBatch'
  BY <1>4 DEF GuardConsume, RunsInBatch, InBatch, daemon, loop
<1>5. ASSUME NEW k \in Checks, NEW f \in Files, NativeRead(k, f) PROVE RunsInBatch'
  BY <1>5 DEF NativeRead, RunsInBatch, InBatch, daemon, loop
<1>6. CASE UNCHANGED vars
  BY <1>6 DEF vars, RunsInBatch, InBatch, daemon, loop, runs
<1>q. QED BY <1>1, <1>2, <1>3, <1>4, <1>5, <1>6, RunsInBatchRun DEF Next

IInv == TypeOK /\ RunsInBatch /\ RunInv

LEMMA InductionStep == IInv /\ [Next]_vars => IInv'
<1> SUFFICES ASSUME IInv, [Next]_vars PROVE IInv'
  OBVIOUS
<1>1. TypeOK' /\ RunsInBatch'
  BY TypeStep, RunsInBatchStep DEF IInv
<1>2. RunInv'
  <2>1. CASE UNCHANGED vars
    BY <2>1, RunInvFrame DEF IInv, vars, world, runs, proofs, guards, reads
  <2>q. QED BY <2>1, RunInvMachine, RunInvLifecycle, RunInvSelectLoop, RunInvStep,
               RunInvGuard, RunInvNative DEF IInv, Next
<1>q. QED BY <1>1, <1>2 DEF IInv

LEMMA Induction == Spec => []IInv
<1>1. Init => IInv
  BY TypeInit, RunsInBatchInit, RunInvInit DEF IInv
<1>q. QED BY <1>1, InductionStep, PTL DEF Spec

(***************************************************************************)
(* What the records say.                                                   *)
(***************************************************************************)
\* Only Decide publishes a verdict; it does so of a run that is not torn, and
\* that has not seen a phantom of which its guard has been told.
Earned(rec) == rec.state \in Verdict => ~rec.torn /\ (rec.phantom => rec.late)

LEMMA EarnedDecide ==
    ASSUME IInv, NEW k \in Checks, Decide(k), Confirmed(k)
    PROVE  ~torn[k] /\ (phantom[k] => event[k])
<1>1. ~torn[k]
  BY DEF IInv, RunInv, TornCannotConfirm, Confirmed
<1>2. phantom[k] => event[k]
  BY DEF IInv, RunInv, PhantomNoticed, Confirmed
<1>q. QED BY <1>1, <1>2

LEMMA EarnedPublish ==
    ASSUME TypeOK, \A j \in Checks : Earned(recs[j]), NEW k \in Checks, NEW state, NEW scope,
           Publish(k, state, scope),
           state \in Verdict => ~torn[k] /\ (phantom[k] => event[k])
    PROVE  \A j \in Checks : Earned(recs'[j])
<1>1. Earned(NewRecord(k, state, scope))
  BY DEF Earned, NewRecord
<1>2. \A j \in Checks : Earned(emptyState[j])
  BY DEF Earned, emptyState, Verdict
<1> HIDE DEF NewRecord
<1>q. QED BY <1>1, <1>2, PublishRecords

LEMMA EarnedRun ==
    ASSUME IInv, \A j \in Checks : Earned(recs[j]), NEW k \in Checks, RunStep(k)
    PROVE  \A j \in Checks : Earned(recs'[j])
<1>0. TypeOK /\ "error" \notin Verdict /\ "discarded" \notin Verdict /\ "running" \notin Verdict
  BY DEF IInv, Verdict
<1>1. CASE GuardFails(k) \/ PreProofFails(k)
  BY <1>0, <1>1, EarnedPublish DEF GuardFails, PreProofFails
<1>2. CASE PreTrustLost(k) \/ PreflightDirty(k)
  BY <1>0, <1>2, EarnedPublish DEF PreTrustLost, PreflightDirty
<1>3. CASE Preflight(k) \/ Spawn(k) \/ SpawnFails(k)
  BY <1>0, <1>3, EarnedPublish DEF Preflight, Spawn, SpawnFails
<1>4. CASE Decide(k)
  <2>1. (IF Confirmed(k) THEN outcome[k] ELSE "discarded") \in Verdict
            => ~torn[k] /\ (phantom[k] => event[k])
    BY <1>0, <1>4, EarnedDecide
  <2>q. QED BY <1>0, <1>4, <2>1, EarnedPublish DEF Decide
<1>5. CASE UNCHANGED recs
  BY <1>5
<1>q. QED BY <1>1, <1>2, <1>3, <1>4, <1>5 DEF RunStep, Acquire, Abandon, StartGuard,
             PreWalk, PreTrust, NativeExit, PostWalk, PostTrust, disk

AllEarned == \A j \in Checks : Earned(recs[j])

LEMMA EarnedStep == IInv /\ AllEarned /\ [Next]_vars => AllEarned'
<1> USE DEF AllEarned
<1> SUFFICES ASSUME IInv, \A j \in Checks : Earned(recs[j]), [Next]_vars
             PROVE  \A j \in Checks : Earned(recs'[j])
  OBVIOUS
<1>1. ASSUME NEW e \in Envs, Start(e) PROVE \A j \in Checks : Earned(recs'[j])
  <2>1. CASE replaceRunning
    <3> SUFFICES ASSUME NEW j \in Checks PROVE Earned(recs'[j])
      OBVIOUS
    <3>1. recs[j] \in Record /\ Earned(emptyState[j])
      BY DEF IInv, TypeOK, Earned, emptyState, Verdict
    <3>2. \/ recs'[j] = IF recs[j].state = "running"
                        THEN [recs[j] EXCEPT !.state = "discarded"] ELSE recs[j]
          \/ recs'[j] = emptyState[j]
      BY <2>1 DEF replaceRunning
    <3>q. QED BY <3>1, <3>2 DEF Earned, Record, Verdict
  <2>2. CASE UNCHANGED recs
    BY <2>2
  <2>q. QED BY <1>1, <2>1, <2>2 DEF Start, disk
<1>2. CASE UNCHANGED recs
  BY <1>2
<1>q. QED BY <1>1, <1>2, EarnedRun DEF Next, Machine, Edit, Chmod, Remove, EditConfig,
             TrustConfig, RevokeConfigTrust, Lifecycle, Cancel, OnDone, Kill, SelectLoop,
             OnChange, OnReconcile, OnTrustPoll, OnDebounce, Rebuild, ReadTrust, ProveBatch,
             ProveBatchFails, BatchDone, GuardConsume, NativeRead, vars, disk

LEMMA EarnedAlways == Spec => []AllEarned
<1>1. Init => AllEarned
  BY DEF Init, AllEarned, Earned, Verdict, emptyState
<1>q. QED BY <1>1, Induction, EarnedStep, PTL DEF Spec

\* No verdict comes from a run that read a listed file at another version than
\* its proof lists: for any checks, files, edits, crashes and failures.
THEOREM VerdictsUntorn == Spec => []VerdictUntorn
<1>1. AllEarned => VerdictUntorn
  BY DEF AllEarned, Earned, VerdictUntorn
<1>q. QED BY <1>1, EarnedAlways, PTL

\* Nor from one that saw a matching file come and go, when the guard was told of
\* it before the verdict.
THEOREM VerdictsSawNoPhantom == Spec => []VerdictSawNoPhantom
<1>1. AllEarned => VerdictSawNoPhantom
  BY DEF AllEarned, Earned, VerdictSawNoPhantom
<1>q. QED BY <1>1, EarnedAlways, PTL

(***************************************************************************)
(* A running record is owned.                                              *)
(***************************************************************************)
Owning == {"spawn", "native", "postwalk", "decide"}

\* A publication that is saved makes no other record a running one.
LEMMA PublishedRunning ==
    ASSUME TypeOK, NEW k \in Checks, NEW state, NEW scope, Publish(k, state, scope), ~SaveFault,
           NEW j \in Checks, recs'[j].state = "running"
    PROVE  IF j = k THEN state = "running" ELSE recs[j].state = "running"
<1>1. emptyState[j].state # "running"
  BY DEF emptyState
<1>2. recs'[k] = NewRecord(k, state, scope)
  <2>1. PICK loaded \in {recs, emptyState} : recs' = [loaded EXCEPT ![k] = NewRecord(k, state, scope)]
    BY DEF Publish
  <2>2. loaded = [i \in Checks |-> loaded[i]]
    BY <2>1, EmptyType DEF TypeOK
  <2>q. QED BY <2>1, <2>2
<1>3. j = k => recs'[j].state = state
  BY <1>2 DEF NewRecord
<1>q. QED BY <1>1, <1>3, PublishRecords

LEMMA OwnedEnd ==
    ASSUME TypeOK, RunningOwned, NEW k \in Checks, NEW state, NEW scope, state # "running",
           Publish(k, state, scope), Finish(k), UNCHANGED <<world, daemon>>
    PROVE  RunningOwned'
<1> SUFFICES ASSUME up' # "down", saveFaults' = 0, NEW j \in Checks, recs'[j].state = "running"
             PROVE  pc'[j] \in Owning
  BY DEF RunningOwned, Owning
<1>1. saveFaults = 0 /\ ~SaveFault
  BY DEF Publish, SaveFault, TypeOK
<1>2. j # k /\ recs[j].state = "running"
  BY <1>1, PublishedRunning DEF NewRecord
<1>3. pc'[j] = pc[j] /\ up # "down"
  BY <1>2 DEF Finish, TypeOK, daemon, loop
<1>q. QED BY <1>1, <1>2, <1>3 DEF RunningOwned, Owning

LEMMA OwnedStart ==
    ASSUME TypeOK, RunningOwned, NEW k \in Checks, NEW scope, NEW p \in {"spawn", "native"},
           Publish(k, "running", scope), pc' = [pc EXCEPT ![k] = p], UNCHANGED <<world, daemon>>
    PROVE  RunningOwned'
<1> SUFFICES ASSUME up' # "down", saveFaults' = 0, NEW j \in Checks, recs'[j].state = "running"
             PROVE  pc'[j] \in Owning
  BY DEF RunningOwned, Owning
<1>1. saveFaults = 0 /\ ~SaveFault
  BY DEF Publish, SaveFault, TypeOK
<1>2. j # k => recs[j].state = "running" /\ pc'[j] = pc[j] /\ up # "down"
  BY <1>1, PublishedRunning DEF TypeOK, daemon, loop
<1>3. j = k => pc'[j] \in Owning
  BY DEF TypeOK, Owning
<1>q. QED BY <1>1, <1>2, <1>3 DEF RunningOwned, Owning

LEMMA OwnedRun ==
    ASSUME TypeOK, RunningOwned, NEW k \in Checks, RunStep(k) PROVE RunningOwned'
<1>1. CASE GuardFails(k) \/ PreProofFails(k) \/ SpawnFails(k)
  BY <1>1, OwnedEnd DEF GuardFails, PreProofFails, SpawnFails
<1>2. CASE PreTrustLost(k) \/ PreflightDirty(k)
  BY <1>2, OwnedEnd DEF PreTrustLost, PreflightDirty
<1>3. CASE Decide(k)
  <2>1. (IF Confirmed(k) THEN outcome[k] ELSE "discarded") # "running"
    BY DEF TypeOK, Verdict
  <2>q. QED BY <1>3, <2>1, OwnedEnd DEF Decide
<1>4. CASE Preflight(k) \/ Spawn(k)
  BY <1>4, OwnedStart DEF Preflight, Spawn
<1>5. CASE Acquire(k) \/ Abandon(k) \/ StartGuard(k) \/ PreTrust(k)
  <2>1. UNCHANGED <<recs, up, saveFaults>> /\ \A j \in Checks \ {k} : pc'[j] = pc[j]
    BY <1>5 DEF Acquire, Abandon, StartGuard, PreTrust, TypeOK, disk, daemon, loop, bounds, storeFaults
  <2>2. pc[k] \notin Owning
    BY <1>5 DEF Acquire, Abandon, StartGuard, PreTrust, Owning
  <2>q. QED BY <2>1, <2>2 DEF RunningOwned, Owning
<1>6. CASE \E f \in Files : PreWalk(k, f) \/ PostWalk(k, f)
  BY <1>6 DEF PreWalk, PostWalk, RunningOwned, disk, daemon, loop, bounds, storeFaults
<1>7. CASE (\E how \in Verdict \cup {"error"} : NativeExit(k, how)) \/ PostTrust(k)
  <2>1. UNCHANGED <<recs, up, saveFaults>> /\ \A j \in Checks \ {k} : pc'[j] = pc[j]
    BY <1>7 DEF NativeExit, PostTrust, TypeOK, disk, daemon, loop, storeFaults
  <2>2. pc'[k] \in Owning
    BY <1>7 DEF NativeExit, PostTrust, TypeOK, Owning
  <2>q. QED BY <2>1, <2>2 DEF RunningOwned, Owning
<1>q. QED BY <1>1, <1>2, <1>3, <1>4, <1>5, <1>6, <1>7 DEF RunStep

LEMMA OwnedStep == TypeOK /\ RunsInBatch /\ RunningOwned /\ [Next]_vars => RunningOwned'
<1> SUFFICES ASSUME TypeOK, RunsInBatch, RunningOwned, [Next]_vars PROVE RunningOwned'
  OBVIOUS
<1>1. CASE Machine
  BY <1>1 DEF Machine, Edit, Chmod, Remove, EditConfig, SpendConfigOp, TrustConfig,
              RevokeConfigTrust, SpendTrustOp, RunningOwned, disk, daemon, loop, runs, bounds, storeFaults
<1>2. ASSUME NEW e \in Envs, Start(e) PROVE RunningOwned'
  <2>1. CASE SaveFault
    BY <2>1 DEF SaveFault, TypeOK, RunningOwned
  <2>2. CASE replaceRunning
    <3>1. ASSUME NEW j \in Checks PROVE recs'[j].state # "running"
      <4>1. recs[j] \in Record /\ emptyState[j].state = "none"
        BY DEF TypeOK, emptyState
      <4>q. QED BY <2>2, <4>1 DEF replaceRunning, Record
    <3>q. QED BY <3>1 DEF RunningOwned
  <2>q. QED BY <1>2, <2>1, <2>2 DEF Start
<1>3. CASE Cancel
  BY <1>3 DEF Cancel, SpendStop, RunningOwned, disk, runs, storeFaults
<1>4. CASE OnDone \/ Kill
  BY <1>4 DEF OnDone, Kill, Forget, RunningOwned
<1>5. CASE ProveBatch
  <2>1. \A k \in Checks : pc[k] = "idle"
    BY <1>5 DEF ProveBatch, RunsInBatch, InBatch
  <2>q. QED BY <1>5, <2>1 DEF ProveBatch, RunningOwned, disk, bounds, storeFaults
<1>6. CASE SelectLoop /\ ~ProveBatch
  BY <1>6 DEF SelectLoop, OnChange, OnReconcile, OnTrustPoll, OnDebounce, Rebuild,
              ReadTrust, ProveBatchFails, BatchDone, RunningOwned, disk, runs, bounds, storeFaults
<1>7. ASSUME NEW k \in Checks, GuardConsume(k) PROVE RunningOwned'
  BY <1>7 DEF GuardConsume, RunningOwned, disk, daemon, loop, bounds, storeFaults
<1>8. ASSUME NEW k \in Checks, NEW f \in Files, NativeRead(k, f) PROVE RunningOwned'
  BY <1>8 DEF NativeRead, RunningOwned, disk, daemon, loop, bounds, storeFaults
<1>9. CASE UNCHANGED vars
  BY <1>9 DEF vars, RunningOwned, disk, daemon, loop, runs, bounds, storeFaults
<1>q. QED BY <1>1, <1>2, <1>3, <1>4, <1>5, <1>6, <1>7, <1>8, <1>9, OwnedRun
          DEF Next, Lifecycle

\* While saves succeed, a crash never leaves a check that looks as if it ran.
THEOREM RunningRecordsOwned == Spec => []RunningOwned
<1>1. Init => RunningOwned
  BY DEF Init, RunningOwned
<1>2. IInv => TypeOK /\ RunsInBatch
  BY DEF IInv
<1>q. QED BY <1>1, <1>2, Induction, OwnedStep, PTL DEF Spec

(***************************************************************************)
(* No run repeats a verdict.  A verdict can only agree with a run's first  *)
(* proof if it agreed with the batch's proof, since what differed then has *)
(* a fresh identity or none now; but the batch skips checks that agree.    *)
(***************************************************************************)
\* Proofs and recorded scopes list a check's own files, under old identities.
Listed ==
    \A k \in Checks : \A f \in Files :
        /\ recs[k].scope.toks[f] <= clock
        /\ f \notin Proven[k] => recs[k].scope.toks[f] = Unread /\ pre[k][f] = Unread

LEMMA ListedInit == Init => Listed
<1> SUFFICES ASSUME Init PROVE Listed
  OBVIOUS
<1>1. \A k \in Checks : recs[k].scope.toks = Blank /\ pre[k] = Blank
  BY DEF Init, NoScope, emptyState
<1>q. QED BY <1>1 DEF Listed, Blank, Unread, Init

LEMMA ListedPublish ==
    ASSUME TypeOK, TokensOld, Listed, NEW k \in Checks, NEW state,
           NEW scope \in {NoScope, ScopeOf(k)}, Publish(k, state, scope), clock' = clock,
           \/ pre' = pre
           \/ pre' = [pre EXCEPT ![k] = Blank]
    PROVE  Listed'
<1> SUFFICES ASSUME NEW j \in Checks, NEW f \in Files
             PROVE  /\ recs'[j].scope.toks[f] <= clock
                    /\ f \notin Proven[j] => /\ recs'[j].scope.toks[f] = Unread
                                             /\ pre'[j][f] = Unread
  BY DEF Listed
<1>1. Blank[f] = Unread /\ Unread <= clock
  BY DEF Blank, Unread, TypeOK
<1>2. f \notin Proven[j] => pre'[j][f] = Unread
  BY <1>1 DEF Listed, TypeOK
<1>3. /\ scope.toks[f] <= clock
      /\ j = k /\ f \notin Proven[j] => scope.toks[f] = Unread
  BY <1>1 DEF NoScope, ScopeOf, TokensOld, Listed
<1>4. \/ recs'[j] = recs[j]
      \/ recs'[j] = emptyState[j]
      \/ j = k /\ recs'[j].scope = scope
  <2>1. NewRecord(k, state, scope).scope = scope
    BY DEF NewRecord
  <2>q. QED BY <2>1, PublishRecords
<1>5. emptyState[j].scope.toks = Blank
  BY DEF emptyState, NoScope
<1>q. QED BY <1>1, <1>2, <1>3, <1>4, <1>5 DEF Listed

LEMMA ListedRun ==
    ASSUME TypeOK, TokensOld, Listed, NEW k \in Checks, RunStep(k) PROVE Listed'
<1>1. CASE GuardFails(k) \/ PreProofFails(k)
  BY <1>1, ListedPublish DEF GuardFails, PreProofFails, Finish, world
<1>2. CASE PreTrustLost(k) \/ PreflightDirty(k) \/ SpawnFails(k) \/ Decide(k)
  BY <1>2, ListedPublish DEF PreTrustLost, PreflightDirty, SpawnFails, Decide, Finish, world
<1>3. CASE Preflight(k) \/ Spawn(k)
  BY <1>3, ListedPublish DEF Preflight, Spawn, world, proofs
<1>4. ASSUME NEW f \in Files, PreWalk(k, f) PROVE Listed'
  <2>1. /\ UNCHANGED <<clock, recs>> /\ f \in Proven[k]
        /\ \A j \in Checks : \A h \in Files : h \notin Proven[j] => pre'[j][h] = pre[j][h]
    BY <1>4 DEF PreWalk, world, disk, TypeOK
  <2>q. QED BY <2>1 DEF Listed
<1>5. CASE UNCHANGED <<clock, recs, pre>>
  BY <1>5 DEF Listed
<1>q. QED BY <1>1, <1>2, <1>3, <1>4, <1>5 DEF RunStep, Acquire, Abandon, StartGuard, PreTrust,
             NativeExit, PostWalk, PostTrust, world, disk, proofs

LEMMA ListedStep == IInv /\ Listed /\ [Next]_vars => Listed'
<1> SUFFICES ASSUME IInv, Listed, [Next]_vars PROVE Listed'
  OBVIOUS
<1>0. TypeOK /\ TokensOld
  BY DEF IInv, RunInv
<1>1. CASE Machine
  <2>1. UNCHANGED <<recs, pre>>
    BY <1>1 DEF Machine, Edit, Chmod, Remove, EditConfig, TrustConfig, RevokeConfigTrust,
                disk, runs, proofs
  <2>2. clock' = clock \/ clock' = clock + 1
    BY <1>1 DEF Machine, Edit, Chmod, Remove, EditConfig, TrustConfig, RevokeConfigTrust
  <2>3. clock \in Nat
    BY <1>0 DEF TypeOK
  <2>4. \A k \in Checks : \A f \in Files : recs[k].scope.toks[f] \in Int
    BY <1>0 DEF TypeOK, Record, Scope
  <2>q. QED BY <2>1, <2>2, <2>3, <2>4 DEF Listed
<1>2. ASSUME NEW e \in Envs, Start(e) PROVE Listed'
  <2>1. UNCHANGED <<clock, pre>> /\ (replaceRunning \/ UNCHANGED recs)
    BY <1>2 DEF Start, world, disk, runs, proofs
  <2>2. ASSUME NEW k \in Checks
        PROVE  recs'[k].scope = recs[k].scope \/ recs'[k].scope.toks = Blank
    <3>1. recs[k] \in Record /\ emptyState[k].scope.toks = Blank
      BY <1>0 DEF TypeOK, emptyState, NoScope
    <3>q. QED BY <2>1, <3>1 DEF replaceRunning, Record
  <2>3. \A f \in Files : Blank[f] = Unread /\ Unread <= clock
    BY <1>0 DEF Blank, Unread, TypeOK
  <2>q. QED BY <2>1, <2>2, <2>3 DEF Listed
<1>3. CASE Kill
  <2>1. UNCHANGED <<clock, recs>> /\ \A k \in Checks : pre'[k] = Blank
    BY <1>3 DEF Kill, world, disk
  <2>q. QED BY <2>1 DEF Listed, Blank
<1>4. CASE UNCHANGED <<clock, recs, pre>>
  BY <1>4 DEF Listed
<1>q. QED BY <1>0, <1>1, <1>2, <1>3, <1>4, ListedRun DEF Next, Lifecycle, Cancel, OnDone,
             SelectLoop, OnChange, OnReconcile, OnTrustPoll, OnDebounce, Rebuild, ReadTrust,
             ProveBatch, ProveBatchFails, BatchDone, GuardConsume, NativeRead, vars, world,
             disk, runs, proofs

\* A run that has not passed its preflight was launched because the verdict on
\* record, if it is one about the same config and environment and about files
\* that exist, lists a file that has another identity now; and its first proof
\* has not read that file, or read the other identity.
Launched == {"queued", "start", "prewalk", "preflight"}

Comparable(k) ==
    /\ recs[k].state \in Verdict
    /\ recs[k].scope.config = cfg /\ recs[k].scope.env = env
    /\ \A f \in Proven[k] : recs[k].scope.toks[f] # 0

Outdated(k) ==
    \E f \in Proven[k] :
        /\ tok[f] # recs[k].scope.toks[f]
        /\ pre[k][f] = Unread \/ pre[k][f] # recs[k].scope.toks[f]

LaunchedOutdated ==
    \A k \in Checks : phase = "batch" /\ pc[k] \in Launched /\ Comparable(k) => Outdated(k)

\* What a step of another run, or none, leaves of it.
LEMMA OutdatedFrame ==
    ASSUME LaunchedOutdated, UNCHANGED <<tok, cfg, env, phase>>, NEW k \in Checks,
           pc'[k] = pc[k] \/ pc'[k] \notin Launched,
           UNCHANGED <<recs[k], pre[k]>> \/ pc'[k] \notin Launched
    PROVE  (phase' = "batch" /\ pc'[k] \in Launched /\ Comparable(k)' => Outdated(k)')
BY DEF LaunchedOutdated, Comparable, Outdated

LEMMA OutdatedChange ==
    ASSUME TypeOK, Listed, LaunchedOutdated, NEW f \in Files, NEW t,
           tok' = [tok EXCEPT ![f] = t], t = 0 \/ t = clock + 1,
           UNCHANGED <<pc, pre, recs, cfg, env, phase>>
    PROVE  LaunchedOutdated'
<1> SUFFICES ASSUME NEW k \in Checks, phase = "batch", pc[k] \in Launched, Comparable(k)
             PROVE  Outdated(k)'
  BY DEF LaunchedOutdated, Comparable
<1>1. PICK h \in Proven[k] : /\ tok[h] # recs[k].scope.toks[h]
                             /\ pre[k][h] = Unread \/ pre[k][h] # recs[k].scope.toks[h]
  BY DEF LaunchedOutdated, Outdated
<1>2. h \in Files
  BY GreenAssumption
<1>3. recs[k].scope.toks[h] \in Int /\ recs[k].scope.toks[h] <= clock /\ clock \in Nat
  BY <1>2 DEF TypeOK, Record, Scope, Listed
<1>4. recs[k].scope.toks[h] # 0
  BY DEF Comparable
<1>5. tok'[h] # recs[k].scope.toks[h]
  BY <1>1, <1>2, <1>3, <1>4 DEF TypeOK
<1>q. QED BY <1>1, <1>5 DEF Outdated

LEMMA OutdatedBatch ==
    ASSUME TypeOK, RunsInBatch, RunShape, Listed, ProveBatch PROVE LaunchedOutdated'
<1> SUFFICES ASSUME NEW k \in Checks, phase' = "batch", pc'[k] \in Launched, Comparable(k)'
             PROVE  Outdated(k)'
  BY DEF LaunchedOutdated
<1>1. UNCHANGED <<recs, tok, cfg, env, pre>> /\ Comparable(k)
  BY DEF ProveBatch, world, disk, proofs, Comparable
<1>2. ~Skip(k, recs[k])
  BY DEF ProveBatch, Launched
<1>3. pc[k] = "idle"
  BY DEF ProveBatch, RunsInBatch, InBatch
<1>4. \A f \in Files : pre[k][f] = Unread
  BY <1>3 DEF RunShape, Blank
<1>5. recs[k].scope.toks # Toks(k)
  <2>1. recs[k].scope \in [config : Config, env : Envs, toks : [Files -> Int]]
    BY DEF TypeOK, Record, Scope
  <2>2. recs[k].scope.toks = Toks(k) =>
            recs[k].scope = [config |-> cfg, env |-> env, toks |-> Toks(k)]
    BY <1>1, <2>1 DEF Comparable
  <2>q. QED BY <1>1, <1>2, <2>2 DEF Skip, Comparable
<1>6. recs[k].scope.toks \in [Files -> Int]
  BY DEF TypeOK, Record, Scope
<1>7. PICK f \in Files : recs[k].scope.toks[f] # Toks(k)[f]
  BY <1>5, <1>6 DEF Toks
<1>8. f \in Proven[k] /\ recs[k].scope.toks[f] # tok[f]
  BY <1>7 DEF Listed, Toks
<1>q. QED BY <1>1, <1>4, <1>8 DEF Outdated

LEMMA EmptyIncomparable == \A k \in Checks : emptyState[k].state \notin Verdict
BY DEF emptyState, Verdict

LEMMA OutdatedRun ==
    ASSUME TypeOK, LaunchedOutdated, NEW k \in Checks, RunStep(k) PROVE LaunchedOutdated'
<1>0. UNCHANGED <<tok, cfg, env, phase>>
  BY DEF RunStep, Acquire, Abandon, StartGuard, GuardFails, PreWalk, PreProofFails, PreTrust,
         PreTrustLost, Preflight, PreflightDirty, Spawn, SpawnFails, NativeExit, PostWalk,
         PostTrust, Decide, world, daemon, loop
<1>1. CASE \/ GuardFails(k) \/ PreProofFails(k) \/ PreTrustLost(k) \/ PreflightDirty(k)
           \/ SpawnFails(k) \/ Decide(k)
  <2>1. PICK state, scope : Publish(k, state, scope)
    BY <1>1 DEF GuardFails, PreProofFails, PreTrustLost, PreflightDirty, SpawnFails, Decide
  <2>2. Finish(k)
    BY <1>1 DEF GuardFails, PreProofFails, PreTrustLost, PreflightDirty, SpawnFails, Decide
  <2>3. pc'[k] \notin Launched
    BY <2>2 DEF Finish, TypeOK, Launched
  <2>4. \A j \in Checks \ {k} : UNCHANGED <<pc[j], pre[j]>>
    BY <2>2 DEF Finish, TypeOK
  <2>5. \A j \in Checks \ {k} : recs'[j] = recs[j] \/ recs'[j] = emptyState[j]
    BY <2>1, PublishRecords
  <2>q. QED BY <1>0, <2>3, <2>4, <2>5, EmptyIncomparable DEF LaunchedOutdated, Comparable, Outdated
<1>2. CASE Preflight(k) \/ Spawn(k)
  <2>1. pc'[k] \notin Launched
    BY <1>2 DEF Preflight, Spawn, TypeOK, Launched
  <2>2. \A j \in Checks \ {k} : UNCHANGED <<pc[j], pre[j]>>
    BY <1>2 DEF Preflight, Spawn, proofs, TypeOK
  <2>3. \A j \in Checks \ {k} : recs'[j] = recs[j] \/ recs'[j] = emptyState[j]
    BY <1>2, PublishRecords DEF Preflight, Spawn
  <2>q. QED BY <1>0, <2>1, <2>2, <2>3, EmptyIncomparable DEF LaunchedOutdated, Comparable, Outdated
<1>3. ASSUME NEW f \in Files, PreWalk(k, f) PROVE LaunchedOutdated'
  <2>1. /\ UNCHANGED <<recs, pc>> /\ pre'[k][f] = tok[f]
        /\ \A j \in Checks \ {k} : pre'[j] = pre[j]
        /\ \A h \in Files \ {f} : pre'[k][h] = pre[k][h]
    BY <1>3 DEF PreWalk, disk, TypeOK
  <2>2. \A j \in Checks : Proven[j] \subseteq Files
    BY GreenAssumption
  <2>q. QED BY <1>0, <2>1, <2>2 DEF LaunchedOutdated, Comparable, Outdated
<1>4. CASE Acquire(k) \/ Abandon(k) \/ StartGuard(k) \/ PreTrust(k)
  <2>1. UNCHANGED <<recs, pre>> /\ \A j \in Checks \ {k} : pc'[j] = pc[j]
    BY <1>4 DEF Acquire, Abandon, StartGuard, PreTrust, disk, proofs, TypeOK
  <2>2. pc[k] \in Launched
    BY <1>4 DEF Acquire, Abandon, StartGuard, PreTrust, Launched
  <2>q. QED BY <1>0, <2>1, <2>2 DEF LaunchedOutdated, Comparable, Outdated
<1>5. CASE (\E how \in Verdict \cup {"error"} : NativeExit(k, how)) \/ PostTrust(k)
  <2>1. UNCHANGED <<recs, pre>> /\ \A j \in Checks \ {k} : pc'[j] = pc[j]
    BY <1>5 DEF NativeExit, PostTrust, disk, TypeOK
  <2>2. pc'[k] \notin Launched
    BY <1>5 DEF NativeExit, PostTrust, Launched, TypeOK
  <2>q. QED BY <1>0, <2>1, <2>2 DEF LaunchedOutdated, Comparable, Outdated
<1>6. CASE \E f \in Files : PostWalk(k, f)
  BY <1>6, <1>0 DEF PostWalk, disk, LaunchedOutdated, Comparable, Outdated
<1>q. QED BY <1>1, <1>2, <1>3, <1>4, <1>5, <1>6 DEF RunStep

LEMMA OutdatedStep == IInv /\ Listed /\ LaunchedOutdated /\ [Next]_vars => LaunchedOutdated'
<1> SUFFICES ASSUME IInv, Listed, LaunchedOutdated, [Next]_vars PROVE LaunchedOutdated'
  OBVIOUS
<1>0. TypeOK /\ RunsInBatch /\ RunShape
  BY DEF IInv, RunInv
<1>1. ASSUME NEW f \in Files, Edit(f) \/ Chmod(f) \/ Remove(f) PROVE LaunchedOutdated'
  <2>1. UNCHANGED <<pc, pre, recs, cfg, env, phase>>
    BY <1>1 DEF Edit, Chmod, Remove, disk, loop, runs, proofs
  <2>2. tok' = [tok EXCEPT ![f] = clock + 1] \/ tok' = [tok EXCEPT ![f] = 0]
    BY <1>1 DEF Edit, Chmod, Remove
  <2>q. QED BY <1>0, <2>1, <2>2, OutdatedChange
<1>2. CASE (\E e \in Envs : Start(e)) \/ OnDone \/ OnDebounce
  <2>1. \A k \in Checks : pc'[k] = "idle"
    BY <1>0, <1>2 DEF Start, OnDone, OnDebounce, Selecting, RunsInBatch, InBatch, runs
  <2>q. QED BY <2>1 DEF LaunchedOutdated, Launched
<1>3. CASE Kill
  BY <1>3 DEF Kill, LaunchedOutdated, Launched
<1>4. CASE ProveBatch
  BY <1>0, <1>4, OutdatedBatch
<1>5. CASE UNCHANGED <<tok, cfg, env, recs, pc, pre, phase>>
  BY <1>5 DEF LaunchedOutdated, Comparable, Outdated
<1>6. CASE OnChange \/ OnReconcile \/ OnTrustPoll \/ Rebuild \/ ReadTrust \/ ProveBatchFails
           \/ BatchDone
  <2>1. phase' # "batch"
    BY <1>6 DEF OnChange, OnReconcile, OnTrustPoll, Selecting, Rebuild, ReadTrust,
                ProveBatchFails, BatchDone
  <2>q. QED BY <2>1 DEF LaunchedOutdated
<1>q. QED BY <1>0, <1>1, <1>2, <1>3, <1>4, <1>5, <1>6, OutdatedRun DEF Next, Machine,
             EditConfig, TrustConfig, RevokeConfigTrust, Lifecycle, Cancel, SelectLoop,
             GuardConsume, NativeRead, vars, world, disk, daemon, loop, runs, proofs

\* At its preflight a run's first proof is complete, so it lists the identity
\* that outdated the verdict.
NoRepeat ==
    \A k \in Checks :
        phase = "batch" /\ pc[k] = "preflight" /\ pc'[k] = "spawn" =>
            ~ /\ recs[k].state \in Verdict /\ recs[k].scope = ScopeOf(k)
              /\ \A f \in Proven[k] : pre[k][f] # 0

LEMMA NoRepeatStep == IInv /\ LaunchedOutdated => NoRepeat
<1> SUFFICES ASSUME IInv, LaunchedOutdated, NEW k \in Checks, phase = "batch", pc[k] = "preflight",
                    recs[k].state \in Verdict, recs[k].scope = ScopeOf(k),
                    \A f \in Proven[k] : pre[k][f] # 0
             PROVE  FALSE
  BY DEF NoRepeat
<1>1. recs[k].scope.toks = pre[k] /\ Comparable(k)
  BY DEF ScopeOf, Comparable
<1>2. Walked(k, pre[k])
  BY DEF IInv, RunInv, RunShape
<1>q. QED BY <1>1, <1>2 DEF LaunchedOutdated, Launched, Outdated, Walked

\* No check is run again under the scope of the verdict it has, by a batch that
\* could read the verdicts: for any checks, files and edits, and however runs and
\* the two proofs interleave.
THEOREM VerdictsAreReused == Spec => NoRedundantRun
<1>1. Init => Listed /\ LaunchedOutdated
  BY ListedInit DEF Init, LaunchedOutdated, Launched
<1>2. IInv /\ Listed /\ LaunchedOutdated /\ [Next]_vars => Listed' /\ LaunchedOutdated'
  BY ListedStep, OutdatedStep
<1>3. IInv /\ LaunchedOutdated => [NoRepeat]_vars
  BY NoRepeatStep
<1>q. QED BY <1>1, <1>2, <1>3, Induction, PTL DEF Spec, NoRedundantRun, NoRepeat

(***************************************************************************)
(* Green implements VerdictContract, for any checks, files, edits, crashes *)
(* and failures.                                                           *)
(*                                                                         *)
(* The instant a verdict is about is the end of the first proof walk.  If  *)
(* the walk's proof is not what the files are at that instant, then either *)
(* a file it lists has lost its identity for good, and the second proof    *)
(* cannot agree, or a file it lists as missing has appeared, and the guard *)
(* has been told, or will be.                                              *)
(***************************************************************************)

Reading == {"preflight", "spawn", "native", "postwalk", "decide"}

\* A judgement spans the present, from its guard's start to its end.
SpanNow == \A k \in Checks : IF Spanning(k) THEN tok \in span[k] ELSE span[k] = {}

\* A file the first proof lists has changed, and the second proof cannot agree.
Gone(k, f) ==
    /\ pre[k][f] \notin {0, Unread}
    /\ tok[f] # pre[k][f] /\ post[k][f] # pre[k][f]

\* Some instant of the judgement is the one its first proof describes, but for
\* the files it lists as missing when the guard has, or will get, an event; or
\* the run cannot be confirmed any more.
Witness(k) ==
    \/ \E f \in Proven[k] : Gone(k, f)
    \/ \E w \in span[k] :
          /\ \A f \in Proven[k] : pre[k][f] # 0 => w[f] = pre[k][f]
          /\ event[k] \/ dirty[k] \/ \A f \in Proven[k] : w[f] = pre[k][f]

Witnessed == \A k \in Checks : pc[k] \in Reading => Witness(k)

HInv ==
    /\ IInv /\ Listed /\ SpanNow /\ Witnessed
    /\ span = [k \in Checks |-> span[k]]

LEMMA HistoryInit == HInit => HInv
<1> SUFFICES ASSUME HInit PROVE HInv
  OBVIOUS
<1>1. IInv /\ Listed
  BY TypeInit, RunsInBatchInit, RunInvInit, ListedInit DEF HInit, IInv
<1>2. \A k \in Checks : pc[k] = "idle" /\ span[k] = {}
  BY DEF HInit, Init
<1>3. span = [k \in Checks |-> span[k]]
  BY DEF HInit
<1>q. QED BY <1>1, <1>2, <1>3 DEF HInv, SpanNow, Spanning, Guarding, Witnessed, Reading

LEMMA SpanNowStep == HNext => SpanNow'
BY DEF HNext, SpanNow, Spanning

\* A judgement that goes on remembers every world it has spanned.
LEMMA SpanGrows ==
    ASSUME HNext, NEW k \in Checks, Spanning(k)' PROVE span[k] \subseteq span'[k]
BY DEF HNext, Spanning

\* What a step owes to a run that reads before and after it.
Kept(k) ==
    /\ pre'[k] = pre[k]
    /\ event[k] \/ dirty[k] => event'[k] \/ dirty'[k]
    /\ \A f \in Proven[k] : Gone(k, f) => Gone(k, f)'

LEMMA KeptFrame ==
    ASSUME NEW k \in Checks, UNCHANGED <<tok, pre[k], post[k], dirty[k]>>,
           event[k] => event'[k]
    PROVE  Kept(k)
BY DEF Kept, Gone

LEMMA KeptMachine ==
    ASSUME IInv, NEW k \in Checks, Machine PROVE Kept(k)
<1>1. ASSUME NEW f \in Files, Edit(f) \/ Chmod(f) \/ Remove(f) PROVE Kept(k)
  <2>1. UNCHANGED <<pre, post, dirty>> /\ (event[k] => event'[k])
    BY <1>1 DEF Edit, Chmod, Remove, GuardNotice, runs, proofs, guards
  <2>2. tok' = [tok EXCEPT ![f] = clock + 1] \/ tok' = [tok EXCEPT ![f] = 0]
    BY <1>1 DEF Edit, Chmod, Remove
  <2>3. ASSUME NEW h \in Proven[k], Gone(k, h) PROVE tok'[h] # pre[k][h]
    <3>1. h \in Files
      BY GreenAssumption
    <3>2. pre[k][h] \in Int /\ pre[k][h] <= clock /\ clock \in Nat
      BY <3>1 DEF IInv, RunInv, TypeOK, TokensOld
    <3>3. tok'[h] \in {tok[h], clock + 1, 0}
      BY <2>2, <3>1 DEF IInv, TypeOK
    <3>q. QED BY <2>3, <3>2, <3>3 DEF Gone
  <2>q. QED BY <2>1, <2>3 DEF Kept, Gone
<1>2. CASE (\E c \in Config : EditConfig(c)) \/ TrustConfig \/ RevokeConfigTrust
  <2>1. UNCHANGED <<tok, pre, post, dirty>> /\ (event[k] => event'[k])
    BY <1>2 DEF EditConfig, TrustConfig, RevokeConfigTrust, GuardNotice, runs, proofs, guards
  <2>q. QED BY <2>1, KeptFrame
<1>q. QED BY <1>1, <1>2 DEF Machine

LEMMA KeptRun ==
    ASSUME IInv, NEW k \in Checks, NEW j \in Checks, RunStep(j),
           pc[k] \in Reading, pc'[k] \in Reading
    PROVE  Kept(k)
<1>0. TypeOK /\ tok' = tok
  BY DEF IInv, RunStep, Acquire, Abandon, StartGuard, GuardFails, PreWalk, PreProofFails,
         PreTrust, PreTrustLost, Preflight, PreflightDirty, Spawn, SpawnFails, NativeExit,
         PostWalk, PostTrust, Decide, world
<1>1. CASE \/ GuardFails(j) \/ PreProofFails(j) \/ PreTrustLost(j) \/ PreflightDirty(j)
           \/ SpawnFails(j) \/ Decide(j)
  <2>1. Finish(j)
    BY <1>1 DEF GuardFails, PreProofFails, PreTrustLost, PreflightDirty, SpawnFails, Decide
  <2>2. j # k
    BY <1>0, <2>1 DEF Finish, TypeOK, Reading
  <2>3. UNCHANGED <<pre[k], post[k], event[k], dirty[k]>>
    BY <1>0, <2>1, <2>2 DEF Finish, TypeOK
  <2>q. QED BY <1>0, <2>3, KeptFrame
<1>2. ASSUME NEW f \in Files, PreWalk(j, f) PROVE Kept(k)
  <2>1. j # k
    BY <1>2 DEF PreWalk, Reading
  <2>2. UNCHANGED <<pre[k], post, event, dirty>>
    BY <1>0, <1>2, <2>1 DEF PreWalk, TypeOK, guards
  <2>q. QED BY <1>0, <2>2, KeptFrame
<1>3. ASSUME NEW f \in Files, PostWalk(j, f) PROVE Kept(k)
  <2>1. UNCHANGED <<pre, event, dirty>>
    BY <1>3 DEF PostWalk, guards
  <2>2. \A h \in Files : post'[k][h] \in {post[k][h], tok[h]}
    BY <1>0, <1>3 DEF PostWalk, TypeOK
  <2>3. Proven[k] \subseteq Files
    BY GreenAssumption
  <2>q. QED BY <1>0, <2>1, <2>2, <2>3 DEF Kept, Gone
<1>4. CASE UNCHANGED <<pre, post, event, dirty>>
  BY <1>0, <1>4, KeptFrame
<1>q. QED BY <1>1, <1>2, <1>3, <1>4 DEF RunStep, Acquire, Abandon, StartGuard, PreTrust,
             Preflight, Spawn, NativeExit, PostTrust, proofs, guards

LEMMA KeptStep ==
    ASSUME IInv, Next, NEW k \in Checks, pc[k] \in Reading, pc'[k] \in Reading
    PROVE  Kept(k)
<1>1. CASE Lifecycle
  <2>1. ~Kill
    BY DEF Kill, Reading
  <2>2. UNCHANGED <<tok, pre, post, event, dirty>>
    BY <1>1, <2>1 DEF Lifecycle, Start, Cancel, OnDone, world, runs, proofs, guards
  <2>q. QED BY <2>2, KeptFrame
<1>2. CASE SelectLoop
  <2>1. UNCHANGED <<tok, pre, post, event, dirty>>
    BY <1>2 DEF SelectLoop, OnChange, OnReconcile, OnTrustPoll, OnDebounce, Rebuild,
                ReadTrust, ProveBatch, ProveBatchFails, BatchDone, world, runs, proofs, guards
  <2>q. QED BY <2>1, KeptFrame
<1>3. ASSUME NEW j \in Checks, GuardConsume(j) PROVE Kept(k)
  <2>1. UNCHANGED <<tok, pre, post>>
    BY <1>3 DEF GuardConsume, world, proofs
  <2>2. event[k] \/ dirty[k] => event'[k] \/ dirty'[k]
    BY <1>3 DEF GuardConsume, IInv, TypeOK
  <2>q. QED BY <2>1, <2>2 DEF Kept, Gone
<1>4. ASSUME NEW j \in Checks, NEW f \in Files, NativeRead(j, f) PROVE Kept(k)
  <2>1. UNCHANGED <<tok, pre, post, event, dirty>>
    BY <1>4 DEF NativeRead, world, proofs, guards
  <2>q. QED BY <2>1, KeptFrame
<1>q. QED BY <1>1, <1>2, <1>3, <1>4, KeptMachine, KeptRun DEF Next

\* Only the end of the first proof walk starts the reading part of a run.
LEMMA ReadingBegins ==
    ASSUME IInv, Next, NEW k \in Checks, pc[k] \notin Reading, pc'[k] \in Reading
    PROVE  PreTrust(k)
<1>0. TypeOK
  BY DEF IInv
<1>1. ASSUME NEW j \in Checks, RunStep(j) PROVE PreTrust(k)
  <2>1. CASE \/ GuardFails(j) \/ PreProofFails(j) \/ PreTrustLost(j) \/ PreflightDirty(j)
             \/ SpawnFails(j) \/ Decide(j)
    <3>1. pc' = [pc EXCEPT ![j] = "idle"]
      BY <2>1 DEF GuardFails, PreProofFails, PreTrustLost, PreflightDirty, SpawnFails, Decide,
                  Finish
    <3>q. QED BY <1>0, <3>1 DEF TypeOK, Reading
  <2>2. CASE Acquire(j) \/ Abandon(j) \/ StartGuard(j)
    BY <1>0, <2>2 DEF Acquire, Abandon, StartGuard, TypeOK, Reading
  <2>3. CASE Preflight(j) \/ Spawn(j)
    BY <1>0, <2>3 DEF Preflight, Spawn, TypeOK, Reading
  <2>4. CASE (\E how \in Verdict \cup {"error"} : NativeExit(j, how)) \/ PostTrust(j)
    BY <1>0, <2>4 DEF NativeExit, PostTrust, TypeOK, Reading
  <2>5. CASE PreTrust(j)
    BY <1>0, <2>5 DEF PreTrust, TypeOK, Reading
  <2>6. CASE \E f \in Files : PreWalk(j, f) \/ PostWalk(j, f)
    BY <2>6 DEF PreWalk, PostWalk
  <2>q. QED BY <1>1, <2>1, <2>2, <2>3, <2>4, <2>5, <2>6 DEF RunStep
<1>2. CASE Machine \/ Lifecycle
  BY <1>2 DEF Machine, Edit, Chmod, Remove, EditConfig, TrustConfig, RevokeConfigTrust,
              Lifecycle, Start, Cancel, OnDone, Kill, runs, Reading
<1>3. CASE SelectLoop
  BY <1>3 DEF SelectLoop, OnChange, OnReconcile, OnTrustPoll, OnDebounce, Rebuild, ReadTrust,
              ProveBatch, ProveBatchFails, BatchDone, runs, Reading
<1>4. CASE \/ \E j \in Checks : GuardConsume(j)
           \/ \E j \in Checks, f \in Files : NativeRead(j, f)
  BY <1>4 DEF GuardConsume, NativeRead
<1>q. QED BY <1>1, <1>2, <1>3, <1>4 DEF Next

LEMMA WitnessedStep == IInv /\ SpanNow /\ Witnessed /\ HNext => Witnessed'
<1> SUFFICES ASSUME IInv, SpanNow, Witnessed, HNext, NEW k \in Checks, pc'[k] \in Reading
             PROVE  Witness(k)'
  BY DEF Witnessed
<1>0. Next /\ Spanning(k)'
  BY DEF HNext, Spanning, Reading, Guarding
<1>1. CASE pc[k] \in Reading
  <2>1. Kept(k)
    BY <1>0, <1>1, KeptStep
  <2>2. span[k] \subseteq span'[k]
    BY <1>0, SpanGrows
  <2>3. Witness(k)
    BY <1>1 DEF Witnessed
  <2>q. QED BY <2>1, <2>2, <2>3 DEF Witness, Kept
<1>2. CASE pc[k] \notin Reading
  <2>1. PreTrust(k)
    BY <1>0, <1>2, ReadingBegins
  <2>2. UNCHANGED <<tok, pre, post, event, dirty>>
    BY <2>1 DEF PreTrust, world, proofs, guards
  <2>3. pc[k] = "prewalk" /\ Walked(k, pre[k])
    BY <2>1 DEF PreTrust
  <2>4. tok' \in span'[k]
    BY <1>0, SpanNowStep DEF SpanNow
  <2>5. ASSUME NEW f \in Proven[k], pre[k][f] = 0, tok[f] # 0
        PROVE  event[k] \/ dirty[k]
    BY <2>3, <2>5 DEF IInv, RunInv, PhantomNoticed, Guarding
  <2>6. Witness(k)' <=> \/ \E f \in Proven[k] : Gone(k, f)
                        \/ \E w \in span'[k] :
                              /\ \A f \in Proven[k] : pre[k][f] # 0 => w[f] = pre[k][f]
                              /\ \/ event[k] \/ dirty[k]
                                 \/ \A f \in Proven[k] : w[f] = pre[k][f]
    BY <2>2 DEF Witness, Gone
  <2>7. ASSUME NEW f \in Proven[k], pre[k][f] # 0, pre[k][f] # tok[f] PROVE Gone(k, f)
    <3>1. f \in Files /\ post[k] = Blank
      BY <2>3, GreenAssumption DEF IInv, RunInv, RunShape
    <3>2. pre[k][f] # Unread /\ post[k][f] = Unread
      BY <2>3, <3>1 DEF Walked, Blank
    <3>q. QED BY <2>7, <3>2 DEF Gone
  <2>q. QED BY <2>2, <2>4, <2>5, <2>6, <2>7
<1>q. QED BY <1>1, <1>2

LEMMA HistoryInv == HSpec => []HInv
<1>1. HInv /\ [HNext]_<<vars, span>> => HInv'
  <2> SUFFICES ASSUME HInv, [HNext]_<<vars, span>> PROVE HInv'
    OBVIOUS
  <2>1. CASE HNext
    <3>1. Next
      BY <2>1 DEF HNext
    <3>2. IInv'
      BY <3>1, InductionStep DEF HInv
    <3>3. Listed'
      BY <3>1, ListedStep DEF HInv
    <3>4. span' = [k \in Checks |-> span'[k]]
      BY <2>1 DEF HNext
    <3>q. QED BY <2>1, <3>2, <3>3, <3>4, SpanNowStep, WitnessedStep DEF HInv
  <2>2. CASE UNCHANGED <<vars, span>>
    <3>1. IInv' /\ Listed'
      BY <2>2, InductionStep, ListedStep DEF HInv
    <3>2. UNCHANGED <<tok, span, pc, pre, post, event, dirty>>
      BY <2>2 DEF vars, world, runs, proofs, guards
    <3>3. SpanNow'
      BY <3>2 DEF HInv, SpanNow, Spanning
    <3>4. Witnessed'
      BY <3>2 DEF HInv, Witnessed, Witness, Gone
    <3>5. span' = [k \in Checks |-> span'[k]]
      BY <3>2 DEF HInv
    <3>q. QED BY <3>1, <3>3, <3>4, <3>5 DEF HInv
  <2>q. QED BY <2>1, <2>2
<1>q. QED BY <1>1, HistoryInit, PTL DEF HSpec

(***************************************************************************)
(* Every step of Green is a step of the contract, or none.                 *)
(***************************************************************************)
Verdicts == [k \in Checks |-> VerdictOf(k)]

LEMMA ContractNone == Contract!None = NoVerdict
BY DEF Contract!None, NoVerdict, Blank, Unread

LEMMA ContractInit == HInit => Contract!Init
<1> SUFFICES ASSUME HInit PROVE Contract!Init
  OBVIOUS
<1>1. tok \in [Files -> Nat]
  BY DEF HInit, Init
<1>2. \A k \in Checks : VerdictOf(k) = Contract!None
  BY ContractNone DEF HInit, Init, emptyState, VerdictOf, Verdict
<1>3. Verdicts = [k \in Checks |-> Contract!None]
  BY <1>2 DEF Verdicts
<1>q. QED BY <1>1, <1>3 DEF HInit, Contract!Init, Verdicts

\* While the files stay, only a run that starts or ends its guarded part
\* changes what is being judged.
LEMMA SpanStays ==
    ASSUME HInv, HNext, tok' = tok, NEW k \in Checks, Spanning(k)' <=> Spanning(k)
    PROVE  span'[k] = span[k]
BY DEF HInv, SpanNow, HNext, Spanning

LEMMA ChangeStep ==
    ASSUME HInv, HNext, \A k \in Checks : Spanning(k)' <=> Spanning(k),
           \A k \in Checks : VerdictOf(k)' = VerdictOf(k)
    PROVE  Contract!Change
<1>1. ASSUME NEW k \in Checks
      PROVE  span'[k] = IF span[k] = {} THEN {} ELSE span[k] \cup {tok'}
  BY DEF HNext, HInv, SpanNow, Spanning
<1>2. span' = [k \in Checks |-> IF span[k] = {} THEN {} ELSE span[k] \cup {tok'}]
  BY <1>1 DEF HNext
<1>3. Verdicts' = Verdicts
  BY DEF Verdicts
<1>q. QED BY <1>2, <1>3 DEF Contract!Change, Verdicts

\* What a publication makes of the verdicts: the others stay, or all are lost.
LEMMA PublishVerdict ==
    ASSUME TypeOK, NEW k \in Checks, NEW state, NEW scope, Publish(k, state, scope)
    PROVE  /\ \E lost \in SUBSET Checks : \A j \in Checks \ {k} :
                  VerdictOf(j)' = IF j \in lost THEN NoVerdict ELSE VerdictOf(j)
           /\ \/ VerdictOf(k)' = VerdictOf(k)
              \/ VerdictOf(k)' = IF state \in Verdict
                                 THEN [files |-> scope.toks, late |-> event[k]] ELSE NoVerdict
<1>1. CASE UNCHANGED recs
  <2>1. \A j \in Checks : VerdictOf(j)' = VerdictOf(j)
    BY <1>1 DEF VerdictOf, NoVerdict
  <2>q. QED BY <2>1
<1>2. CASE ~UNCHANGED recs
  <2>1. /\ recs'[k] = NewRecord(k, state, scope)
        /\ \/ \A j \in Checks \ {k} : recs'[j] = recs[j]
           \/ \A j \in Checks \ {k} : recs'[j] = emptyState[j]
    BY <1>2, PublishRecords
  <2>2. VerdictOf(k)' = IF state \in Verdict
                        THEN [files |-> scope.toks, late |-> event[k]] ELSE NoVerdict
    <3>1. recs'[k].state = state /\ recs'[k].scope = scope
      BY <2>1 DEF NewRecord
    <3>2. recs'[k].late = (state \in Verdict /\ event[k]) /\ event[k] \in BOOLEAN
      BY <2>1 DEF NewRecord, TypeOK
    <3>3. state \in Verdict => recs'[k].late = event[k]
      BY <3>2, Zenon
    <3>q. QED BY <3>1, <3>3 DEF VerdictOf, NoVerdict
  <2>3. CASE \A j \in Checks \ {k} : recs'[j] = recs[j]
    <3>1. \A j \in Checks \ {k} : VerdictOf(j)' = VerdictOf(j)
      BY <2>3 DEF VerdictOf, NoVerdict
    <3>q. QED BY <2>2, <3>1
  <2>4. CASE \A j \in Checks \ {k} : recs'[j] = emptyState[j]
    <3>1. \A j \in Checks \ {k} : VerdictOf(j)' = NoVerdict
      BY <2>4, EmptyIncomparable DEF VerdictOf, NoVerdict
    <3>q. QED BY <2>2, <3>1
  <2>q. QED BY <2>1, <2>3, <2>4
<1>q. QED BY <1>1, <1>2

\* A record that is no verdict replaces another record, outside a judgement's
\* start and end.
LEMMA WithdrawStep ==
    ASSUME HInv, HNext, tok' = tok, NEW k \in Checks, NEW state, NEW scope,
           state \notin Verdict, Publish(k, state, scope),
           \A j \in Checks : Spanning(j)' <=> Spanning(j)
    PROVE  Contract!Withdraw
<1>0. TypeOK
  BY DEF HInv, IInv
<1>1. PICK lost \in SUBSET Checks : \A j \in Checks \ {k} :
          VerdictOf(j)' = IF j \in lost THEN NoVerdict ELSE VerdictOf(j)
  BY <1>0, PublishVerdict
<1>2. VerdictOf(k)' = VerdictOf(k) \/ VerdictOf(k)' = NoVerdict
  BY <1>0, PublishVerdict
<1>3. PICK l \in SUBSET Checks : \A j \in Checks :
          VerdictOf(j)' = IF j \in l THEN NoVerdict ELSE VerdictOf(j)
  <2>1. CASE VerdictOf(k)' = VerdictOf(k)
    <3>1. lost \ {k} \in SUBSET Checks /\ \A j \in Checks :
              VerdictOf(j)' = IF j \in lost \ {k} THEN NoVerdict ELSE VerdictOf(j)
      BY <1>1, <2>1
    <3>q. QED BY <3>1
  <2>2. CASE VerdictOf(k)' = NoVerdict
    <3>1. lost \cup {k} \in SUBSET Checks /\ \A j \in Checks :
              VerdictOf(j)' = IF j \in lost \cup {k} THEN NoVerdict ELSE VerdictOf(j)
      BY <1>1, <2>2
    <3>q. QED BY <3>1
  <2>q. QED BY <1>2, <2>1, <2>2
<1>4. Verdicts' = Contract!Without(l)
  BY <1>3, ContractNone DEF Verdicts, Contract!Without
<1>5. span' = span
  BY SpanStays DEF HInv, HNext
<1>q. QED BY <1>4, <1>5 DEF Contract!Withdraw, Verdicts

\* A run that ends its guarded part ends the judgement, with a verdict only
\* about an instant of it.
LEMMA EndStep ==
    ASSUME HInv, HNext, tok' = tok, NEW k \in Checks, NEW state, NEW scope,
           Publish(k, state, scope), Finish(k), Spanning(k),
           state \in Verdict =>
               \E w \in span[k] :
                   [files |-> scope.toks, late |-> event[k]] \in Contract!About(k, w)
    PROVE  Contract!End(k)
<1>0. TypeOK
  BY DEF HInv, IInv
<1>1. pc'[k] = "idle" /\ \A j \in Checks \ {k} : pc'[j] = pc[j]
  BY <1>0 DEF Finish, TypeOK
<1>2. span[k] # {}
  BY DEF HInv, SpanNow
<1>3. span'[k] = {}
  BY <1>1 DEF HNext, Spanning, Guarding
<1>4. \A j \in Checks \ {k} : span'[j] = span[j]
  BY <1>1, SpanStays DEF Spanning
<1>5. span' = [span EXCEPT ![k] = {}]
  BY <1>3, <1>4 DEF HInv, HNext
<1>6. PICK lost \in SUBSET Checks : \A j \in Checks \ {k} :
          VerdictOf(j)' = IF j \in lost THEN NoVerdict ELSE VerdictOf(j)
  BY <1>0, PublishVerdict
<1>7. Verdicts' = [Contract!Without(lost) EXCEPT ![k] = VerdictOf(k)']
  BY <1>6, ContractNone DEF Verdicts, Contract!Without
<1>8. VerdictOf(k)' \in {Contract!None, Verdicts[k]}
                            \cup UNION {Contract!About(k, w) : w \in span[k]}
  <2> HIDE DEF Contract!About
  <2>1. Verdicts[k] = VerdictOf(k)
    BY DEF Verdicts
  <2>q. QED BY <1>0, <2>1, PublishVerdict, ContractNone
<1>q. QED BY <1>2, <1>5, <1>7, <1>8 DEF Contract!End, Verdicts

\* The heart of it: a confirmed run's verdict is about one instant of its judgement.
LEMMA DecideInstant ==
    ASSUME HInv, NEW k \in Checks, Decide(k), Confirmed(k)
    PROVE  \E w \in span[k] : [files |-> pre[k], late |-> event[k]] \in Contract!About(k, w)
<1>1. ~dirty[k] /\ post[k] = pre[k] /\ pc[k] = "decide" /\ event[k] \in BOOLEAN
  BY DEF Decide, Confirmed, HInv, IInv, TypeOK
<1>2. PICK w \in span[k] :
          /\ \A f \in Proven[k] : pre[k][f] # 0 => w[f] = pre[k][f]
          /\ event[k] \/ \A f \in Proven[k] : w[f] = pre[k][f]
  BY <1>1 DEF HInv, Witnessed, Witness, Reading, Gone
<1>3. \A f \in Files \ Proven[k] : pre[k][f] = -1
  BY DEF HInv, Listed, Unread
<1>4. pre[k] \in [Files -> Int]
  BY DEF HInv, IInv, TypeOK
<1>5. CASE event[k]
  <2> DEFINE missing == {f \in Files : pre[k][f] = 0}
  <2>1. pre[k] = [f \in Files |-> IF f \notin Proven[k] THEN -1
                                  ELSE IF f \in missing THEN 0 ELSE w[f]]
    BY <1>2, <1>3, <1>4
  <2>2. pre[k] = Contract!Seen(k, w, missing) /\ missing \in SUBSET Files
    BY <2>1 DEF Contract!Seen
  <2>q. QED BY <1>5, <2>2 DEF Contract!About
<1>6. CASE ~event[k]
  <2>1. pre[k] = [f \in Files |-> IF f \notin Proven[k] THEN -1
                                  ELSE IF f \in {} THEN 0 ELSE w[f]]
    BY <1>2, <1>3, <1>4, <1>6
  <2>2. pre[k] = Contract!Seen(k, w, {}) /\ event[k] = FALSE
    BY <1>1, <1>6, <2>1 DEF Contract!Seen
  <2>q. QED BY <2>2 DEF Contract!About
<1>q. QED BY <1>5, <1>6

LEMMA RunImplements ==
    ASSUME HInv, HNext, NEW k \in Checks, RunStep(k) PROVE Contract!Next
<1>0. /\ TypeOK /\ tok' = tok
      /\ {"error", "discarded", "running"} \cap Verdict = {}
  BY DEF HInv, IInv, RunStep, Acquire, Abandon, StartGuard, GuardFails, PreWalk, PreProofFails,
         PreTrust, PreTrustLost, Preflight, PreflightDirty, Spawn, SpawnFails, NativeExit,
         PostWalk, PostTrust, Decide, world, Verdict
<1>1. CASE StartGuard(k)
  <2>1. ~Spanning(k) /\ Spanning(k)' /\ \A j \in Checks \ {k} : Spanning(j)' <=> Spanning(j)
    BY <1>0, <1>1 DEF StartGuard, Spanning, Guarding, TypeOK
  <2>2. span[k] = {} /\ span'[k] = {tok}
    BY <1>0, <2>1 DEF HInv, SpanNow, HNext
  <2>3. span' = [span EXCEPT ![k] = {tok}]
    BY <1>0, <2>1, <2>2, SpanStays DEF HInv, HNext
  <2>4. Verdicts' = Verdicts
    BY <1>1 DEF StartGuard, disk, Verdicts, VerdictOf, NoVerdict
  <2>q. QED BY <1>0, <2>2, <2>3, <2>4 DEF Contract!Next, Contract!Begin, Verdicts
<1>2. CASE GuardFails(k)
  <2>1. \A j \in Checks : Spanning(j)' <=> Spanning(j)
    BY <1>0, <1>2 DEF GuardFails, Finish, Spanning, Guarding, TypeOK
  <2>q. QED BY <1>0, <1>2, <2>1, WithdrawStep DEF GuardFails, Contract!Next
<1>3. CASE Preflight(k) \/ Spawn(k)
  <2>1. \A j \in Checks : Spanning(j)' <=> Spanning(j)
    BY <1>0, <1>3 DEF Preflight, Spawn, Spanning, Guarding, TypeOK
  <2>2. Publish(k, "running", ScopeOf(k))
    BY <1>3 DEF Preflight, Spawn
  <2>q. QED BY <1>0, <2>1, <2>2, WithdrawStep DEF Contract!Next
<1>4. CASE PreProofFails(k) \/ PreTrustLost(k) \/ PreflightDirty(k) \/ SpawnFails(k)
  <2>1. Spanning(k) /\ Finish(k)
    BY <1>4 DEF PreProofFails, PreTrustLost, PreflightDirty, SpawnFails, Spanning, Guarding
  <2>2. PICK state \in {"error", "discarded"}, scope \in {NoScope, ScopeOf(k)} :
            Publish(k, state, scope)
    BY <1>4 DEF PreProofFails, PreTrustLost, PreflightDirty, SpawnFails
  <2>3. Contract!End(k)
    BY <1>0, <2>1, <2>2, EndStep
  <2>q. QED BY <2>3 DEF Contract!Next
<1>5. CASE Decide(k)
  <2> DEFINE state == IF Confirmed(k) THEN outcome[k] ELSE "discarded"
  <2>1. Spanning(k) /\ Finish(k) /\ Publish(k, state, ScopeOf(k))
    BY <1>5 DEF Decide, Spanning, Guarding
  <2>2. state \in Verdict =>
            \E w \in span[k] :
                [files |-> ScopeOf(k).toks, late |-> event[k]] \in Contract!About(k, w)
    BY <1>0, <1>5, DecideInstant DEF ScopeOf
  <2> HIDE DEF state
  <2>3. Contract!End(k)
    BY <1>0, <2>1, <2>2, EndStep
  <2>q. QED BY <2>3 DEF Contract!Next
<1>6. CASE \/ Acquire(k) \/ Abandon(k) \/ PreTrust(k) \/ PostTrust(k)
           \/ \E how \in Verdict \cup {"error"} : NativeExit(k, how)
           \/ \E f \in Files : PreWalk(k, f) \/ PostWalk(k, f)
  <2>1. \A j \in Checks : Spanning(j)' <=> Spanning(j)
    BY <1>0, <1>6 DEF Acquire, Abandon, PreTrust, PostTrust, NativeExit, PreWalk, PostWalk,
                      Spanning, Guarding, TypeOK
  <2>2. recs' = recs
    BY <1>6 DEF Acquire, Abandon, PreTrust, PostTrust, NativeExit, PreWalk, PostWalk, disk
  <2>q. QED BY <2>1, <2>2, ChangeStep DEF VerdictOf, NoVerdict, Contract!Next
<1>q. QED BY <1>1, <1>2, <1>3, <1>4, <1>5, <1>6 DEF RunStep

\* A starting daemon turns running records into discarded ones, keeps them all,
\* or loses them all: no verdict is made.
LEMMA StartImplements ==
    ASSUME HInv, HNext, NEW e \in Envs, Start(e) PROVE Contract!Next
<1>0. TypeOK /\ tok' = tok
  BY DEF HInv, IInv, Start, world
<1>1. \A k \in Checks : Spanning(k)' <=> Spanning(k)
  BY DEF Start, runs, Spanning
<1>2. CASE recs' = emptyState
  <2>1. \A k \in Checks : VerdictOf(k)' = NoVerdict
    BY <1>2, EmptyIncomparable DEF VerdictOf, NoVerdict
  <2>2. Verdicts' = Contract!Without(Checks)
    BY <2>1, ContractNone DEF Verdicts, Contract!Without
  <2>3. span' = span
    BY <1>0, <1>1, SpanStays DEF HInv, HNext
  <2>q. QED BY <1>0, <2>2, <2>3 DEF Contract!Withdraw, Contract!Next, Verdicts
<1>3. CASE recs' # emptyState
  <2>1. ASSUME NEW k \in Checks PROVE VerdictOf(k)' = VerdictOf(k)
    <3>1. CASE UNCHANGED recs
      BY <3>1 DEF VerdictOf, NoVerdict
    <3>2. CASE replaceRunning
      <4>1. recs[k] \in Record
        BY <1>0 DEF TypeOK
      <4>2. recs'[k] = IF recs[k].state = "running"
                       THEN [recs[k] EXCEPT !.state = "discarded"] ELSE recs[k]
        BY <1>3, <3>2 DEF replaceRunning
      <4>3. recs[k].state = "running" => recs'[k].state = "discarded"
        BY <4>1, <4>2 DEF Record
      <4>q. QED BY <4>2, <4>3 DEF VerdictOf, NoVerdict, Verdict
    <3>q. QED BY <3>1, <3>2 DEF Start, disk
  <2>q. QED BY <1>1, <2>1, ChangeStep DEF Contract!Next
<1>q. QED BY <1>2, <1>3

LEMMA Implements ==
    ASSUME HInv, [HNext]_<<vars, span>>
    PROVE  [Contract!Next]_<<tok, span, [k \in Checks |-> VerdictOf(k)]>>
<1>0. TypeOK /\ RunsInBatch
  BY DEF HInv, IInv
<1>1. CASE UNCHANGED <<vars, span>>
  BY <1>1 DEF vars, world, disk, VerdictOf, NoVerdict
<1>2. CASE HNext /\ Kill
  <2>1. span' = [k \in Checks |-> {}]
    BY <1>2 DEF HNext, Kill, Spanning, Guarding
  <2>2. UNCHANGED <<tok, Verdicts>>
    BY <1>2 DEF Kill, world, disk, Verdicts, VerdictOf, NoVerdict
  <2>q. QED BY <2>1, <2>2 DEF Contract!Crash, Contract!Next, Verdicts
<1>3. CASE HNext /\ \E e \in Envs : Start(e)
  BY <1>3, StartImplements
<1>4. CASE HNext /\ ProveBatch
  <2>1. \A k \in Checks : ~Spanning(k) /\ ~Spanning(k)'
    <3>1. \A k \in Checks : pc[k] = "idle" /\ pc'[k] \in {"idle", "queued"}
      BY <1>0, <1>4 DEF ProveBatch, RunsInBatch, InBatch
    <3>q. QED BY <3>1 DEF Spanning, Guarding
  <2>2. recs' = recs
    BY <1>4 DEF ProveBatch, disk
  <2>q. QED BY <1>4, <2>1, <2>2, ChangeStep DEF VerdictOf, NoVerdict, Contract!Next
<1>5. CASE HNext /\ UNCHANGED <<pc, recs>>
  BY <1>5, ChangeStep DEF Spanning, VerdictOf, NoVerdict, Contract!Next
<1>6. CASE HNext /\ \E k \in Checks : RunStep(k)
  BY <1>6, RunImplements
<1>q. QED BY <1>1, <1>2, <1>3, <1>4, <1>5, <1>6 DEF HNext, Next, Machine, Edit, Chmod, Remove,
             EditConfig, TrustConfig, RevokeConfigTrust, Lifecycle, Cancel, OnDone, SelectLoop,
             OnChange, OnReconcile, OnTrustPoll, OnDebounce, Rebuild, ReadTrust,
             ProveBatchFails, BatchDone, GuardConsume, NativeRead, disk, runs

\* Every published verdict is about one instant within its run's guarded part,
\* whatever changes, fails or crashes meanwhile; only a verdict made before the
\* guard had its last event may have taken files for missing.
THEOREM GreenImplementsContract == HSpec => ImplementsContract
<1>1. HInv /\ [HNext]_<<vars, span>>
          => [Contract!Next]_<<tok, span, [k \in Checks |-> VerdictOf(k)]>>
  BY Implements
<1>q. QED BY <1>1, ContractInit, HistoryInv, PTL DEF HSpec, ImplementsContract, Contract!Spec
=============================================================================
