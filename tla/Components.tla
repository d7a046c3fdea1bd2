----------------------------- MODULE Components -----------------------------
(***************************************************************************)
(* Eight components that share no state: the four by which Green notices a *)
(* change -- the clock of the scheduler, the identity of one file, the     *)
(* choice of what is listed and watched, and the guard of a tree that      *)
(* changes -- the lock under which the ledger is saved, the snapshot file  *)
(* prepared answers are kept in, the policy of which command lines may be  *)
(* answered, and the reads computed from file bytes.  A behaviour belongs  *)
(* to one of them and leaves the variables of the others.                  *)
(***************************************************************************)
CONSTANTS
    Timings, MaxBatch, MaxEdits, Horizon,
    Readers, Chunks, Values, ChangeTime, MaxNow,
    Trees, Patterns,
    Dirs, Files, Include, MaxOps,
    Procs, None, MaxSaves,
    Pool, MaxPrepared, MaxEntries, MaxBytes, MaxStored, MaxFile, MaxCorpus,
    Paths, Readable, Sensitive, Numerals, Settings, Starts, Words, MaxArguments,
    Alphabet, MaxLength, Needles, MaxRanges, MaxLine, MaxWidth, MaxOutput

VARIABLES
    part,
    disk, timing, debounce, tick, fired, notified, busy, wait, edits,
    now, inodes, path, cache, pc, outer, inner, opened, hash, pos, digest, seen,
    files, checks, entries,
    todo, watched,
    fs, away, queue, phase, changed, base, flicker, missed, ops,
    owner, old, ledger, at, copy, merged, saves, saved, broken,
    prepared, file, published,
    argv, start,
    content, operation

Timer    == INSTANCE GreenTimer
Identity == INSTANCE FileIdentity
Inputs   == INSTANCE GreenInputs
Watch    == INSTANCE GreenWatch
Lock     == INSTANCE LedgerLock WITH disk <- ledger, pc <- at
Snapshot == INSTANCE HotSnapshot WITH MaxOutput <- MaxStored
Policy   == INSTANCE CommandPolicy
Reads    == INSTANCE LineReads

ASSUME ComponentsAssumption ==
    /\ Timer!TimerAssumption /\ Identity!IdentityAssumption /\ Watch!WatchAssumption
    /\ Inputs!InputsAssumption /\ Lock!LockAssumption /\ Snapshot!PoolAssumption
    /\ Policy!PolicyAssumption /\ Reads!ReadsAssumption

timerVars    == <<disk, timing, debounce, tick, fired, notified, busy, wait, edits>>
identityVars == <<now, inodes, path, cache, pc, outer, inner, opened, hash, pos, digest, seen>>
inputVars    == <<files, checks, entries>>
walkVars     == <<todo, watched>>
watchVars    == <<fs, away, queue, phase, changed, base, flicker, missed, ops>>
lockVars     == <<owner, old, ledger, at, copy, merged, saves, saved, broken>>
snapshotVars == <<prepared, file, published>>
policyVars   == <<argv, start>>
readVars     == <<content, operation>>
partVars     == <<timerVars, identityVars, inputVars, walkVars, watchVars, lockVars,
                  snapshotVars, policyVars, readVars>>

Unused == "unused"

NoTimer ==
    /\ disk = Unused /\ timing = Unused /\ debounce = Unused /\ tick = Unused
    /\ fired = Unused /\ notified = Unused /\ busy = Unused /\ wait = Unused
    /\ edits = Unused
NoIdentity ==
    /\ now = Unused /\ inodes = Unused /\ path = Unused /\ cache = Unused
    /\ pc = Unused /\ outer = Unused /\ inner = Unused /\ opened = Unused
    /\ hash = Unused /\ pos = Unused /\ digest = Unused /\ seen = Unused
NoInputs == files = Unused /\ checks = Unused /\ entries = Unused
NoWalk   == todo = Unused /\ watched = Unused
NoWatch ==
    /\ fs = Unused /\ away = Unused /\ queue = Unused /\ phase = Unused
    /\ changed = Unused /\ base = Unused /\ flicker = Unused /\ missed = Unused
    /\ ops = Unused
NoLock ==
    /\ owner = Unused /\ old = Unused /\ ledger = Unused /\ at = Unused
    /\ copy = Unused /\ merged = Unused /\ saves = Unused /\ saved = Unused
    /\ broken = Unused
NoSnapshot == prepared = Unused /\ file = Unused /\ published = Unused
NoPolicy   == argv = Unused /\ start = Unused
NoRead     == content = Unused /\ operation = Unused

NoPart ==
    NoTimer /\ NoIdentity /\ NoInputs /\ NoWalk /\ NoWatch /\ NoLock /\ NoSnapshot /\ NoPolicy /\
    NoRead

PartsInit ==
    \/ /\ part = "timer" /\ Timer!Init
       /\ NoIdentity /\ NoInputs /\ NoWalk /\ NoWatch /\ NoLock /\ NoSnapshot /\ NoPolicy /\ NoRead
    \/ /\ part = "identity" /\ Identity!Init
       /\ NoTimer /\ NoInputs /\ NoWalk /\ NoWatch /\ NoLock /\ NoSnapshot /\ NoPolicy /\ NoRead
    \/ /\ part = "inputs" /\ Inputs!Init
       /\ NoTimer /\ NoIdentity /\ NoWatch /\ NoLock /\ NoSnapshot /\ NoPolicy /\ NoRead
    \/ /\ part = "watch" /\ Watch!Init
       /\ NoTimer /\ NoIdentity /\ NoInputs /\ NoLock /\ NoSnapshot /\ NoPolicy /\ NoRead
    \/ /\ part = "lock" /\ Lock!Init
       /\ NoTimer /\ NoIdentity /\ NoInputs /\ NoWalk /\ NoWatch /\ NoSnapshot /\ NoPolicy /\ NoRead
    \/ /\ part = "snapshot" /\ Snapshot!Init
       /\ NoTimer /\ NoIdentity /\ NoInputs /\ NoWalk /\ NoWatch /\ NoLock /\ NoPolicy /\ NoRead
    \/ /\ part = "policy" /\ Policy!Init
       /\ NoTimer /\ NoIdentity /\ NoInputs /\ NoWalk /\ NoWatch /\ NoLock /\ NoSnapshot
       /\ NoRead
    \/ /\ part = "reads" /\ Reads!Init
       /\ NoTimer /\ NoIdentity /\ NoInputs /\ NoWalk /\ NoWatch /\ NoLock /\ NoSnapshot
       /\ NoPolicy

PartsNext ==
    /\ part' = part
    /\ \/ /\ part = "timer" /\ Timer!Next
          /\ UNCHANGED <<identityVars, inputVars, walkVars, watchVars, lockVars, snapshotVars,
                         policyVars, readVars>>
       \/ /\ part = "identity" /\ Identity!Next
          /\ UNCHANGED <<timerVars, inputVars, walkVars, watchVars, lockVars, snapshotVars,
                         policyVars, readVars>>
       \/ /\ part = "inputs" /\ Inputs!Next
          /\ UNCHANGED <<timerVars, identityVars, watchVars, lockVars, snapshotVars,
                         policyVars, readVars>>
       \/ /\ part = "watch" /\ Watch!Next
          /\ UNCHANGED <<timerVars, identityVars, inputVars, lockVars, snapshotVars,
                         policyVars, readVars>>
       \/ /\ part = "lock" /\ Lock!Next
          /\ UNCHANGED <<timerVars, identityVars, inputVars, walkVars, watchVars, snapshotVars,
                         policyVars, readVars>>
       \/ /\ part = "snapshot" /\ Snapshot!Next
          /\ UNCHANGED <<timerVars, identityVars, inputVars, walkVars, watchVars, lockVars,
                         policyVars, readVars>>
       \/ /\ part = "policy" /\ Policy!Next
          /\ UNCHANGED <<timerVars, identityVars, inputVars, walkVars, watchVars, lockVars,
                         snapshotVars, readVars>>
       \/ /\ part = "reads" /\ Reads!Next
          /\ UNCHANGED <<timerVars, identityVars, inputVars, walkVars, watchVars, lockVars,
                         snapshotVars, policyVars>>

PartsSpec == PartsInit /\ [][PartsNext]_<<part, partVars>>

\* Types: the type invariant of the component the behaviour belongs to.
PartsTyped ==
    /\ part = "timer"    => Timer!TypeOK
    /\ part = "identity" => Identity!TypeOK
    /\ part = "inputs"   => Inputs!TypeOK
    /\ part = "watch"    => Watch!TypeOK
    /\ part = "lock"     => Lock!TypeOK
    /\ part = "snapshot" => Snapshot!TypeOK
    /\ part = "policy"   => Policy!TypeOK
    /\ part = "reads"    => Reads!TypeOK

\* Scheduler: a change is looked at within the bound GreenTimer states.
PickedUpInTime == part = "timer" => Timer!PickedUpInTime

\* Input proof: the digest cache tells the truth about every version of the file.
CacheHonest == part = "identity" => Identity!CacheHonest

\* Input proof: an identity that is returned was the file's during the call.
IdentityWitnessed == part = "identity" => Identity!IdentityWitnessed

\* Input proof and watches: every input lies in a watched directory.
ProofWatched == part = "inputs" => Inputs!ProofWatched

\* Input proof: the inputs listed are those the patterns declare.
InputSetExact == part = "inputs" => Inputs!InputSetExact

\* Mutation guard: what it does not report did not happen, as GreenWatch says it.
GuardSound == part = "watch" => Watch!GuardSound

\* Ledger: what was saved stays saved, as LedgerLock says it.
NothingLost == part = "lock" => Lock!NothingLost

\* Snapshot: the best prepared answer for a proof is the one that is found.
FoundExact == part = "snapshot" => Snapshot!FoundExact

\* Snapshot: whatever is left of the file, nothing is found that was not
\* prepared for that very proof.
NeverAnother == part = "snapshot" => Snapshot!NeverAnother

\* Command policy: a command that may be answered is understood as its program
\* reads it.
ReadAsTool == part = "policy" => Policy!ReadAsTool

\* Command policy: only commands that look may be answered.
OnlyReads == part = "policy" => Policy!OnlyReads

\* Reads of a file: computed from its bytes, they are what the command prints.
ReadExact == part = "reads" => Reads!ReadExact

\* Reads of a file: nl and sed in one pass print what the two print.
FusedExact == part = "reads" => Reads!FusedExact
=============================================================================
