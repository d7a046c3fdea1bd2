----------------------------- MODULE LedgerLock ------------------------------
(***************************************************************************)
(* Saving the ledger.  Maintainers, prewarm processes and command lines    *)
(* each work on a copy of it, and LedgerStore.Save merges the copy into    *)
(* ledger.json under a lock: a directory that is made and removed by its   *)
(* name, that does not say who made it, and that may be removed by anyone  *)
(* who finds it half a minute old.                                         *)
(***************************************************************************)
EXTENDS Naturals

CONSTANTS
    Procs,
    None,
    MaxSaves    \* bound on the saves that begin

VARIABLES
    owner,      \* who made the lock directory, None while there is none
    old,        \* it is more than thirty seconds old
    disk,       \* ledger.json, as the set of the saves it contains
    pc,
    copy,       \* what each process saves: the ledger it loaded, and its own
    merged,     \* that and what it found on disk
    saves,      \* saves begun
    saved,      \* history: those whose ledger was renamed into place
    broken      \* history: a lock was made when one that was found old was still
                \* about to be removed, or a ledger could not be read

lock  == <<owner, old>>
local == <<pc, copy, merged>>
vars  == <<lock, disk, local, saves, saved, broken>>

LockAssumption == None \notin Procs /\ MaxSaves \in Nat

Section == {"merge", "rename", "unlock"}
Saves   == 1..MaxSaves

TypeOK ==
    /\ owner \in Procs \cup {None} /\ old \in BOOLEAN
    /\ disk \subseteq Saves /\ saved \subseteq Saves /\ saves \in 0..MaxSaves
    /\ pc \in [Procs -> {"idle", "mkdir", "stat", "remove"} \cup Section]
    /\ copy \in [Procs -> SUBSET Saves] /\ merged \in [Procs -> SUBSET Saves]
    /\ broken \in BOOLEAN

Init ==
    /\ owner = None /\ old = FALSE /\ disk = {}
    /\ pc = [p \in Procs |-> "idle"]
    /\ copy = [p \in Procs |-> {}] /\ merged = [p \in Procs |-> {}]
    /\ saves = 0 /\ saved = {} /\ broken = FALSE

Goto(p, place) == pc' = [pc EXCEPT ![p] = place]

\* A process loads the ledger, now or long before it saves, and adds to it.
Load(p) ==
    /\ pc[p] = "idle"
    /\ copy' = [copy EXCEPT ![p] = disk]
    /\ UNCHANGED <<lock, disk, pc, merged, saves, saved, broken>>

Save(p) ==
    /\ pc[p] = "idle" /\ saves < MaxSaves
    /\ saves' = saves + 1
    /\ copy' = [copy EXCEPT ![p] = @ \cup {saves'}]
    /\ Goto(p, "mkdir")
    /\ UNCHANGED <<lock, disk, merged, saved, broken>>

Mkdir(p) ==
    /\ pc[p] = "mkdir"
    /\ \/ /\ owner = None /\ owner' = p /\ old' = FALSE
          /\ Goto(p, "merge")
          /\ broken' = (broken \/ \E q \in Procs : pc[q] = "remove")
       \/ owner # None /\ Goto(p, "stat") /\ UNCHANGED <<lock, broken>>
    /\ UNCHANGED <<disk, copy, merged, saves, saved>>

\* Mutant: a lock that is held is taken for one left behind.
StatAnyAge(p) ==
    /\ pc[p] = "stat"
    /\ Goto(p, "remove")
    /\ UNCHANGED <<lock, disk, copy, merged, saves, saved, broken>>

\* An old lock is removed next; otherwise it is tried again in a while, or no
\* more after five seconds.
Stat(p) ==
    /\ pc[p] = "stat"
    /\ \/ owner # None /\ old /\ Goto(p, "remove")
       \/ (owner = None \/ ~old) /\ \E place \in {"mkdir", "idle"} : Goto(p, place)
    /\ UNCHANGED <<lock, disk, copy, merged, saves, saved, broken>>

\* Whatever directory there is by now.
Remove(p) ==
    /\ pc[p] = "remove"
    /\ owner' = None /\ old' = FALSE
    /\ Goto(p, "mkdir")
    /\ UNCHANGED <<disk, copy, merged, saves, saved, broken>>

mergeWithCurrentLedger(p) ==
    /\ pc[p] = "merge"
    /\ \/ merged' = [merged EXCEPT ![p] = disk \cup copy[p]] /\ UNCHANGED broken
       \/ merged' = [merged EXCEPT ![p] = copy[p]] /\ broken' = TRUE
    /\ Goto(p, "rename")
    /\ UNCHANGED <<lock, disk, copy, saves, saved>>

\* The file is written next to the ledger, which it replaces; or it is not.
Rename(p) ==
    /\ pc[p] = "rename"
    /\ \/ disk' = merged[p] /\ saved' = saved \cup copy[p]
       \/ UNCHANGED <<disk, saved>>
    /\ Goto(p, "unlock")
    /\ UNCHANGED <<lock, copy, merged, saves, broken>>

Unlock(p) ==
    /\ pc[p] = "unlock"
    /\ owner' = None /\ old' = FALSE
    /\ Goto(p, "idle")
    /\ UNCHANGED <<disk, copy, merged, saves, saved, broken>>

\* A process ends wherever it is, and another may begin in its place.
Crash(p) ==
    /\ pc[p] # "idle" /\ Goto(p, "idle")
    /\ copy' = [copy EXCEPT ![p] = {}]
    /\ UNCHANGED <<lock, disk, merged, saves, saved, broken>>

\* Half a minute.  Nobody holds the lock that long: the section merges and writes
\* one file.
Ages ==
    /\ owner # None /\ ~old
    /\ pc[owner] \notin Section
    /\ old' = TRUE
    /\ UNCHANGED <<owner, disk, local, saves, saved, broken>>

SaveStep(p) ==
    \/ Mkdir(p) \/ Stat(p) \/ Remove(p)
    \/ mergeWithCurrentLedger(p) \/ Rename(p) \/ Unlock(p)

Next ==
    \/ \E p \in Procs : Load(p) \/ Save(p) \/ SaveStep(p) \/ Crash(p)
    \/ Ages

Spec == Init /\ [][Next]_vars

\* What a process has saved stays in the ledger, through the saves of others who
\* loaded it earlier and through crashes that leave the lock behind.  What breaks
\* this is named: two processes find one lock old, and the later of them removes
\* the lock the earlier has made since; or the ledger cannot be read.
NothingLost == ~broken => saved \subseteq disk
=============================================================================
