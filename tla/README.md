# A model of Squire

Squire keeps two promises about a repository. *Green* (`src/internal/green`)
says whether the checks a repository declares pass on the files as they are now.
The *replay cache* (`src/internal/proofcache`) answers read-only commands with
output recorded earlier, when a proof shows that running them would print the
same. Both rest on the same idea: read the inputs before a run, read them again
after it, and bind the result to what was read. Both are concurrent with every
editor, shell and git command on the machine, and that is where they can go
wrong. These modules state both promises, model-check them on small instances,
and prove the central ones for every instance.

## The system

| part | state | operations |
|---|---|---|
| scheduler (`scheduler.go`) | its locals: config, environment, trust, debounce timer, monitor | a select loop over changes, reconciliation, trust poll, debounce; a batch of runs behind a semaphore |
| run (`runner.go`) | one record, two proofs, a guard | guard, proof, trust, preflight, native run, proof, trust, verdict |
| mutation guard (`guard.go`) | inotify watches, a changed flag | watch relevant directories, mark a change, follow new directories |
| change monitor (`change_monitor.go`) | watches, a channel of capacity one | wake the scheduler |
| input proof (`proof.go`, `file_token_*.go`) | a cache of file digests, shared by all goroutines | walk, match patterns, hash with a cache keyed by stat |
| state and trust (`state.go`, `trust.go`) | `state.json`, one trust file per repository | publish, replace running records, trust, revoke |
| status (`status.go`) | none | derive each check's state; green or not |
| maintainer (`maintainer.go`, `prepare.go`) | a private ledger, a resident cache, the last signal | poll, warm, take up requests, answer over a socket |
| prewarm process (`adaptive_prewarm.go`) | a private ledger | observe neighbouring commands, save, publish |
| ledger (`ledger.go`) | `ledger.json` under a lock directory | load, upsert, merge and save |
| hot snapshot (`hot_snapshot.go`, `hot_cache.go`) | one file | choose answers, encode, publish, look up |
| hot client (`fast_client.go`, `ipc_cache.go`) | per engine and under one mutex: the mapping of the snapshot, a kept connection, pauses | look up in the mapping, ask the maintainer, retry, pause |
| clients (`runner.go`, `shims/`) | none | compute a proof, look up, run natively on a miss, leave a request |
| starters (`background_maintainer.go`, `cmd/squire`, `runtime/engine.go`) | `maintainer_status.json`, the socket path, memos of adapters | start, reuse and stop a maintainer |
| command policy (`command.go`, `policy.go`) | none | normalize a command line, classify it, decide |
| reads and composed commands (`warm_file.go`, `line_selection.go`, `composed_shell.go`) | none | compute what a read, a filter or a pipeline prints |

The parts meet in files (`state.json`, the trust file, `ledger.json`, the hot
snapshot, `maintainer_status.json`, `prepare_requests/`), at a socket path, and in
shared memory inside a process (the digest cache, the resident cache, the mapped
snapshot). The repository itself is shared
with programs Squire knows nothing about.

What makes each part correct:

- *runs*: a verdict is about one state of the files, the one its proof lists;
  it was reached under a trusted config; nothing that came and went is hidden;
- *scheduler*: nothing is run twice for one state, a crash leaves nothing stuck,
  a change is eventually proven, and soon;
- *guard*: every change of an input during a run is noticed, in directories that
  appear during the run too;
- *input proof*: the listed files are the matching ones; a digest is one of the
  content the file had while it was being read;
- *status*: green means every required check passed under this config;
- *replay cache*: a hit is what the command would have printed; processes that
  share the ledger do not undo each other's work;
- *ledger*: what was saved stays, through crashes that leave the lock behind;
- *hot snapshot*: the best answer for a proof is found, and from a file that is
  half written none that belongs to another;
- *hot client*: the answer a caller takes is its own (which the code breaks after a
  failed second try), the memory it reads is mapped, and no pause keeps it from a
  maintainer for good;
- *starters*: one maintainer at a time, to which the socket leads, and another
  when it dies;
- *command policy*: only commands that look are answered, and each is taken to
  mean what its program takes it to mean;
- *reads and composed commands*: what is computed is what the programs and the
  shell would have printed.

`PROJECT.json` lists every component with what is left out of it, and every
place where the code is exposed to something a test would hardly reach.

## The modules

| module | what it is |
|---|---|
| `Green` | scheduler, runs, guard, state, trust and status together |
| `VerdictContract` | the abstract specification: a verdict is about one instant |
| `GreenHistory` | `Green` with the instants each run spans, and the mapping to the contract |
| `GreenProofs` | the theorems about `Green`, and that `GreenHistory` implements the contract |
| `GreenTimer` | debounce timer and ticker in discrete time |
| `FileIdentity` | hashing one path through the shared digest cache |
| `GreenMatcher`, `GreenInputs` | pattern matching, which files a proof lists, which directories are watched |
| `GreenWatch` | the guard's watches and its event loop against a changing tree |
| `Replay`, `ReplayProofs` | maintainer, prewarm processes, ledger and clients, and the theorems about them |
| `LedgerLock` | saving the ledger under its lock directory |
| `HotSnapshot`, `HotSnapshotProofs` | the snapshot file: choice, layout, lookup, damage; the theorems about it |
| `HotClient`, `HotClientProofs` | goroutines that share a mapping and a connection, and the theorems about them |
| `Maintainers`, `MaintainersProofs` | the processes that start, stop and serve, and the theorems about them |
| `CommandPolicy`, `CommandPolicyProofs` | `command.go` and `policy.go`: which command lines may be answered; the theorems about it |
| `LineSlices`, `LineReads`, `LineReadsProofs` | output computed from the bytes of a file; every read of every small file; the theorems about them |
| `ComposedShell` | tokens, parser, evaluator and gate of composed commands, over `LineSlices` |
| `Components`, `ComponentsProofs` | timer, identity, walks, guard, lock, snapshot, policy and reads as parts of one specification; the theorems about it, the timer, the identity and the guard |
| `MC...` | the instances that are model-checked; `MCComponents` adds one part to `Components` |

### Green

Every write of a file gives it a *token* never used before (`tok[f]`; 0 when the
file is absent). A proof is the token of every declared file, read one file per
step (`PreWalk`, `PostWalk`), because the code reads them one after another. The
native command reads a file whenever it likes (`NativeRead`), and the model only
remembers whether what it read differs from the first proof (`torn`) or was not
in it (`phantom`). The guard is an event flag, raised by the kernel (`event`),
and a mark, set by the guard's goroutine some time later (`dirty`).

`pc[k]` follows `runCheck`; each of its returns is an action. `phase` follows the
loop of `RunScheduler`: a select, then rebuilding the monitor, reading trust,
proving all checks and running a batch. Wherever the code saves the state file
the action contains `Publish`, which overwrites the config digest as the code
does, and whose save may fail. A state file that cannot be read or decoded counts as
empty, as in the code (`Loads`): a daemon that starts then forgets every record, a
publish writes back its own record alone, and a batch formed then is `blind` and
launches every check, judged or not. `NoRedundantRun` is about the other batches.

A verdict reads the guard's mark without draining its queue (`runner.go:139`), so it
may be reached while an event is still on its way. `NewRecord` remembers that in
`late`. `VerdictSawNoPhantom` shows that this is the only way in which a run that saw a
file come and go can give a verdict, and `VerdictContract` says what a late verdict is
still worth: the files its proof lists were as listed, all at one instant; a matching
file it does not list may have been there. GREEN.md:127-128 ("A change-and-revert
during execution is still discarded because the mutation guard observed the
intermediate event") promises more than the code keeps for late verdicts.

Abstractions. The batch's proof of all checks is one step, because every use of
it is confirmed by the run's own proof, which is not. A write is one step: no
stat sees half of it. An input that is a symbolic link is a file whose token changes
with the link or with its target; the walk that resolves it (`proof.go:183-219`) is not
taken apart. A directory does not move in `Green`; it does in
`GreenWatch`. The trust file is read in one step, and a trust file or config that cannot be read or
decoded counts as no trust and no config (`trust.go:56-64`, `runner.go:56`,
`scheduler.go:99-102`), without its error. An executable is a file outside
the repository, proven but not watched.

### The other modules of Green

`GreenTimer` looks only at times: a change is `waiting` since some instant, a
batch takes up to three units, and the timings may change with the config.
`FileIdentity` splits `readRegularIdentity` at every system call and every access
of the cache. Every change has a change time of its own there; two changes within one
tick of the file system's clock, which neither the code nor a stat tells apart, are not
modelled. `GreenInputs` walks a tree twice with the same patterns, once to
prove and once to watch, on trees and patterns chosen so that every clause of
the matcher decides something. (The walks leave out the directory `.git`; a *file* of
that name, which a linked worktree has, they treat as any other.) `GreenWatch` has a tree of directories that are
created, removed and moved while the guard walks it, with inotify's rule that a
watch exists from the moment it is added and sees nothing earlier.

### Replay

A proof is a hash of contents, so it is modelled by the content, and the output
of a command by the content it was computed from. A ledger records outputs per
command and fingerprint, prepared entries under their `PreparedID`, and warm
files. The maintainer polls (`Poll`), takes a snapshot, loads the ledger, runs
the metadata commands and saves, then observes every gated command (`Before`,
`Native`, `After`), publishes the observations (`Key`, `Store`), saves (`Save`)
and publishes (`Publish`). Requests (`Demand`) and prewarm processes (`Adjacent`)
share these actions. A client reads the snapshot after its proof, or asks the
maintainer, which computes the proof after it copied its candidates.

The slow path of `Engine.Run` (policy, ledger lookup) is left out: every command
that reaches it is turned away by `foregroundSpeculationDisabled`, which is the
same predicate. So is the observation of foreground commands, which only an
engine that is both a maintainer and a client makes, and no program builds one.
The two snapshots that a poll reads count as one. `PreparedAt` is a counter.

An input may change at any moment. Two kinds of change escape the proofs
(`Overlooked`): one that restores, before the second proof of a run, what the first
proof read, since proofs are hashes of contents; and one between the two computations
of the fingerprints in a publication (`adaptive_prewarm.go:93` and the store's own),
which stores the output under one fingerprint and takes the entry found under the
other. The code guards against neither, and answers made from such an entry may be
wrong. The model lets both happen and remembers it in the record (`unseen`, `sure`);
`HitExact` shows that there is no third way to a wrong answer.

### The ledger's lock

`LedgerLock` has what `Replay` takes for granted. A save is a number; a ledger is
the set of saves in it. A process makes the lock directory (`Mkdir`), or stats it
(`Stat`) and either waits or removes it by its name (`Remove`) - whatever is there
by then. It merges, renames and unlocks, and may die anywhere (`Crash`). `broken`
records the two things that lose a save: a lock is made while one found old is
still about to be removed, and a ledger that cannot be read when it is merged,
which `mergeWithCurrentLedger` takes for an empty one. `Ages` assumes that nobody
holds the lock for half a minute.

### The hot snapshot and its clients

In `HotSnapshot` a file is a sequence of units, one header, entries, bytes; a hash
stands for what it is taken of. `hotSnapshotCandidates` keeps what is fit, drops all
but the best of each proof (`betterHotSnapshotCandidate`), keeps the first of them
(`Precedes`, which breaks a tie in rank by key and epoch) and sorts them by key;
`hotSnapshotCommandRange` is the binary search. The code lists its candidates from
maps, so of two answers for one proof that are equally good it keeps either;
`PoolAssumption` leaves such pairs out, and no others. `Damage` leaves what a file that was renamed but never synced may look like
after a loss of power: cut short, or with a unit that reads as zero.

In `HotClient` goroutines of one engine ask for outputs. `Stat`, `Look`, `Map` and
`Decode` are `readHotSnapshotResponse`; `Look` to `Decode` hold `hotCacheMu`. A
snapshot is filed under the stamp (size and time) of a stat that was made before the
file was mapped. Then comes the socket: the pauses, the kept connection that is
replaced once when a request fails on it, requests and frames under way, a frame
that says miss when the peer gives up on an idle connection. The maintainer may
stop, start and lose what it has prepared between any two steps.

`RoundTripError` follows `hotCacheRoundTrip` to its last line: the first try's
connection is closed (`ipc_cache.go:209`), and the second try's is not (213). When
a second try times out, its connection stays with the request unanswered, the late
frame is read by whoever asks next, and every caller after that gets the answer to
the request before its own, until the connection fails. A frame does not name its
command, so the answer may be another command's. The model has this behaviour, on
two commands. `left` marks such a connection, and `OwnAnswer` speaks of the others;
without that exception TLC finds the violation within seconds. A read
that ends inside a frame is a timeout here: what follows on a connection that was
left is then no frame at all, which is an error of the next read.

### The processes

`Maintainers` has the process table as `kill(pid, 0)` sees it: a maintainer that
died is a `zombie` until the program that started it ends, because no starter waits
for its child. Looking at the status file, spawning and writing the file are
separate steps without a lock. The server removes the socket path, listens, and
on its way out removes the path twice. Adapters have the two memos of
`adapter.go`: a maintainer believed to run, and a command that missed.
`raced` records that two uses of the status file overlapped, or that one failed.

### Commands

`CommandPolicy` has a command line as words; a word is a flag, with the value
attached to it, or plain. The first part follows `command.go` matcher by matcher, the second
is written from the manuals: how git, head, rg and the others read the same words.
Both are scans of the line, one word per round. A flag that is given where a value is
due is that value (`Text`), as it is for `getopt`; an empty value is a path of no parts;
and a line whose options git's normalization does not take is judged as it stands, as in
`command.go:32`. Every matcher takes the base name of the first word for the program
(`command.go:43`, 128): `Called` does so once, and `./git` and `/x/cat` are among the
beginnings of lines. `Settings` are the words that set something for git, with their key,
which `safeGitConfigOverride` looks at, and whether the value has git run a program,
which it does not look at.

`OnlyReads` judges two lines: what the line is normalized to, and the line as it was
given (`AsGiven`), with its path and its settings. The code takes three things on trust,
and the property names each in `OnTrust`: that a program given by a path is the tool of
that name (`/x/cat f`), that the value of `core.fsmonitor` or `core.hooksPath` names no
program with an effect (`git -c core.fsmonitor=./watch status --short`), and that git
takes a `-C` or `-c` with its value attached, which it refuses. Without any one of the
three TLC finds the line given here, so these are the limits of what the policy promises;
for every other line the property holds as it is read.

`LineSlices` follows `warm_file.go` on sequences of bytes, and has a reference for
each operation next to it, with what grep and rg say of a binary file; `LineReads`
applies them to every file of up to five bytes over a letter, a newline, a backslash and
the NUL byte, for which grep and rg are refused (`warm_file.go:232`, 241). `ComposedShell` has the parser
position by position, the evaluator with Go's nil and empty slices kept apart, a
shell as the reference, and a grammar for the parser. Plans are put together from
commands (`Command`, `Compose`, `Silence`, `Repeat`) and rendered as scripts, and
scripts are also put together token by token (`Token`). A word with an equals sign is
neither a program (`composed_shell.go:412`) nor the variable of a loop; of the other
characters that `isComposedShellIdentifier` refuses, nothing is said.

`evalComposedNumberedRange` reads the arguments of the command that `nl -ba` is piped
into, and not its name (`composed_shell.go:645`, 808-813): `nl -ba f | grep -n 1p` is
answered with sed's output. The commands of the model include such a `foreign` program.
The gate of the production runtime refuses it, and `ReplayExactAlone` covers every plan
that passes the gate; replay without the gate (`adapter.go:325`) reaches it, and there
`TakenForSed` excuses these plans by name. Without the excuse TLC finds that script.

## What is checked

| run | instance | shows |
|---|---|---|
| `green_contract` | one check, two files, three writes, one failing save | every published verdict comes from a run that read what its proof lists; the whole of `Green` implements `VerdictContract` |
| `green_two` | two checks sharing a file, one outside file, one slot, two environments, a stop or kill, a failing load | no check is run twice for one scope by a batch that could read the records; a running record has a run |
| `green_settles` | one check, one file; an edit, a config edit, two trust operations, a stop, a fault | every check ends with a current verdict |
| `green_stamp` | one check less than needed to be green, two configs | **fails**: green although a required check passed under another config |
| `timer_fast` | an interval as short as the quiescence | **fails**: a change is never picked up |
| `inputs_shallow` | excludes ending in `/*` | **fails**: files deeper down are missed |
| `replay` | a command that reads a file and one that prints HEAD, the maintainer and one prewarm process | a hit is exact, unless its input changed behind the proofs; no saved work is lost |
| `replay_head` | the same | **fails**: a metadata command answers with another commit |
| `components` | nine components, below | each is what its module promises |
| `maintainers` | one adapter, one command line, two entries of the process table | one maintainer at a time, the socket leads to it, the adapter is served again |
| `hot_client` | two callers; two publications over one command of two versions, or a maintainer over two commands, one of two versions | answers are the caller's own unless a failed second try left the connection, memory is mapped, callers are answered again |
| `composed_shell` | pipelines of three commands over a file of three lines | **fails**: a group that is piped into gives its whole input to each of its commands |

`components` explores nine modules that share no state. A behaviour belongs to one
of them and leaves the variables of the others alone; every property says which part
it is about. Eight of them (all but shell) are put together in `Components`, which the
theorems are about; shell, whose properties are only model-checked, is added by
`MCComponents`. The run also evaluates what
the theorems suppose of the timings and of the excludes (`TickersAreSlow`,
`SubtreesAreWhole`). They are:

| part | instance | properties |
|---|---|---|
| timer | quiescence up to 3, intervals longer than it | `PickedUpInTime`: a change waits no longer than a batch and a slow interval |
| identity | two readers, two contents, two chunks | `CacheHonest`, `IdentityWitnessed`: the cache never answers with another content; an identity was the file's during the call |
| inputs | all pairs of twelve pattern sets, two trees | `InputSetExact`, `ProofWatched`: the proof lists what matches, and all of it is watched |
| watch | six changes of a tree of depth two | `GuardSound`: the guard notices every input that changed under it |
| reads | files of up to five bytes of four kinds, every operation with counts and lines up to 4 | `ReadExact`, `FusedExact`: a read computed from bytes is the command's, with or without the index, in one pass or two |
| shell | three of nine commands, one redirect or loop; five tokens | `ParseExact`, `ReplayExactAlone`, `GateSafe`: scripts mean what the grammar says, and answers are the shell's |
| snapshot | four of a pool of answers, three entries, ten units | `FoundExact`, `NeverAnother`: the best answer is found; a damaged file gives none but its own |
| policy | thirty-two beginnings of command lines and up to four words | `ReadAsTool`, `OnlyReads`: a line is understood as the tool of its base name reads it; only what looks is answered, but for what is taken on trust |
| lock | two processes, three saves | `NothingLost`: a save stays in the ledger |

The five failing runs each check one sentence of the documentation that the code
does not keep; `PROJECT.json` quotes the sentence and the lines under
"findings".

*Bounds.* Two files are enough to tear a proof, three writes to change, revert
and change again. Two checks and one slot give every order of two runs. Two stops
give a crash in a run and another in the recovery. In `FileIdentity` two chunks
let a write fall inside a read, and two readers share the cache in every order.
In `Replay` two contents and two edits give a change and a change back, two
prepared entries let one be laid over another, and one prewarm process is enough
for a stale ledger to meet a fresh one. In `Maintainers` two process table entries
let a maintainer that ends meet its successor. In `HotClient` two versions and two
publications make an answer, a mapping and a connection stale in every order, and two
commands let one read the other's frame; snapshots and the maintainer are explored in
turn, not together, because they meet in the lock and the places only. Five
bytes hold two lines with an unterminated third; three commands are the fewest that
make a group inside a pipeline. Two processes and three saves let a crashed holder, a
waiter and a late remover be told apart. Every counter that bounds an
instance is a constant named `Max...`.

*Symmetry* is used where values are interchangeable (contents and readers), and
not in a run with a liveness property.

*Deadlock* is checked, but for runs whose cfg says otherwise: those systems stop
when their bounds are used up.

*Fairness.* `FairSpec` of `Green` supposes that the select loop keeps turning (its
ticker always fires), and that every run takes its next step: proofs read finitely
many files, the native command has a timeout, and fsnotify delivers what it
queued. Edits, faults, kills and what the native command reads are never fair.
`FairSpec` of `GreenTimer` supposes that time passes. `FairSpec` of `HotClient`
supposes that goroutines run and that a mutex of Go, which hands itself to one that
has waited a millisecond, is got in the end (strong fairness of each caller's
steps), that pauses pass, and that a maintainer which has a request answers it;
that it answers in time is a condition of `EventuallyAnswered`. `SessionSpec` of
`Maintainers` supposes that programs take their steps, that memos expire, and that
every program that starts maintainers ends now and then. The last is needed: under
`FairSpec` alone a long-lived adapter whose child died finds the zombie alive for
ever.

Each property is also run against a change of the model that a plausible bug would
make (a dropped comparison, a missing reset, a walk that skips a level); the
operators marked "Mutant" are these changes. They occur in no specification.

## What is proved

The proofs are for every value of the constants.

`GreenProofs`, for every set of checks and files, every config and environment and
every bound:

- `TypeCorrect`: the type invariant.
- `VerdictsUntorn`: a published verdict was produced by a run that read every
  listed file at the listed version.
- `VerdictsSawNoPhantom`: that run saw nothing that came and went, unless the verdict
  was made while an event was on its way to the guard.
- `RunningRecordsOwned`: while a daemon is up and no save has failed, a record
  that says running belongs to a run.
- `VerdictsAreReused`: no batch that could read the records runs a check again for a
  scope its record has a verdict for.
- `GreenImplementsContract`: `Green` implements `VerdictContract`.

The first is inductive. The second and third need to know why a run that goes
wrong cannot confirm. `RunInv` says it: tokens are never reused (`TokensOld`), so
a file that was rewritten can never again carry the token of the first proof and
the second proof will differ (`TornCannotConfirm`); and a file that appears behind
the first proof has raised an event the guard still holds (`PhantomNoticed`),
because only repository files are ever removed and they are all watched
(`OutsidePresent`). `RunShape` says which proofs are complete at which step. With
`RunInv` an invariant, `Decide` publishes a verdict only when the run was neither
torn nor, but for an event still in the guard's queue, phantom. `RunningOwned` is inductive
together with where runs can be (`RunsInBatch`).

A check that is launched is outdated by what the batch's proof found
(`LaunchedOutdated`), and stays so until it is judged: tokens that differed then are not
tokens of its record now, because no token comes back and a record's are old (`Listed`).

The contract wants one instant at which the files were what the proof lists. It is the
end of the first proof: a file read earlier that had changed by then would differ in the
second proof, or is gone for good, or was missing, and then the guard has an event
(`HInv`); if the guard has handled it the run is not confirmed, and if it has not the
verdict is late. Every other
step of `Green` is a write to a file, a step of a run's span, or a stutter of the
contract.

The assumptions are the
`ASSUME`s of `Green`: checks and files are sets, every check has its proven files
among the files, and the bounds are numbers.

`HotClientProofs`, for any number of goroutines and commands:

- `TypeCorrect`: the type invariant.
- `ReadsMapped`: no goroutine decodes an entry of an unmapped region. It follows
  from mutual exclusion under `hotCacheMu`: a goroutine that is mapping or decoding
  holds it, and the region that is decoded was mapped since it was taken.
- `SnapshotsFound`: a lookup during which the snapshot was not replaced is made in
  the snapshot that is there. The invariant relates the stamp of the mapping, of
  the stat and of the file: stamps only grow, so a mapping filed under the stamp of
  the present file was made while that file was there.
- `AnswersOwn`: the frame a caller reads is of its own request and no older, unless
  a failed second try has left the connection. The invariant counts: any other
  connection carries at most one request or frame, plus the frame that ends an idle
  one, and only while its owner waits for it, because an owner that gives up on it
  closes it.

`MaintainersProofs`, for any starters and any size of the process table:

- `MaintainersTyped`: the type invariant.
- `OneIsAlive`: unless two uses of the status file overlapped or one failed, at
  most one maintainer is alive. `StarterInv` says who may be alive: the process the
  file names, or the one a starter has spawned and not yet recorded.
- `PathLeads`: then the socket path leads to the maintainer that has booted.
  Then a server on its way out, which removes the path, is that one alive maintainer,
  and `SocketInv` is inductive: whoever has removed the path finds it free, and whoever
  has booted is where it leads.

About `FileIdentity` (in `ComponentsProofs`), for any number of goroutines, chunks and
changes of the file, assuming the file system has change times (`ChangeTime`):

- `IdentityTyped`: the type invariant.
- `CacheIsHonest`: an entry whose signal a version of the file answers to holds that
  version's digest.
- `IdentitiesWitnessed`: an identity that is returned is one the path had during the
  call.

Neither is inductive. `IdentityInv` adds what a reader's stats say while the file
changes: the change time of an inode only grows and a name never goes back to an old
inode, so a stat whose change time is still the inode's (`Current`) was taken of what
the inode still holds. Hence what was read up to now is the content if the stat of the
open file is current (`Reading`), the digest is the content if the inner stat is
(`Digested`), and when the last comparison finds the outer stat current, the inner
one, taken between the two, is current as well (`Ordered`).

`ReplayProofs`, for any commands, contents, prewarm processes and bounds:

- `ReplayTyped`: the type invariant.
- `HitsExact`: a gated command that is answered from the cache prints what
  it would have printed if run on what the client's proof read, unless the input
  changed behind the proofs while the entry was made.
- `NothingIsUnlearned`: no process undoes what another has saved.

A record is honest when the input it is kept under is the one its output was computed
from. `HonestInv` says that every ledger, snapshot and cache is honest and what each
process knows between its two proofs: as long as no change was overlooked, equal proofs
mean equal inputs. Merging keeps honesty because it takes each record from one of the two ledgers,
and the second theorem follows from how `Merge` chooses.

About `GreenTimer` (in `ComponentsProofs`), for any timings and batches:

- `TimerTyped`: the type invariant.
- `ChangesPickedUpInTime`: a change waits no longer than the slowest interval and
  quiescence period, or than the batch in progress and two quiescence periods.

`Promise` says at every moment how long the change will have waited at the latest: the
time so far and `Remaining`, which follows the debounce through the ticker that may
arm it anew. Two assumptions: the timings are bounded (`Bounded`;
`parseBoundedDuration`, `config.go:104-108`), and the ticker is slower than the debounce
(`SlowTicker`), as it is in the defaults (`config.go:20-21`). The code does not demand
the second, and `timer_fast` shows what happens without it.

About `GreenWatch` (in `ComponentsProofs`), for any tree, patterns and number of changes:

- `WatchTyped`: the type invariant.
- `GuardIsSound`: what the guard does not report did not happen, but for what came and
  went in a directory that was gone before the guard looked at it.

Until something is noticed, every relevant directory is watched or lies below one the
guard has still to come to (`Covered`), and every input that came or went is accounted
for (`Told`): the second proof will miss it, its directory was gone too early, or an
event about it or a directory above it is in the queue. The proof needs two facts about
the matcher. What a pattern matches lies below its literal prefix
(`BelowLiteralPrefix`), so a directory above an input is one the guard follows; and a
pattern that ends in `**` matches below what it matches (`MatchesBelow`). `Match` is a
recursive function; that it exists, and what it computes, is proved by the
principle of the least number.

`HotSnapshotProofs`, for any pool of answers and any limits:

- `SnapshotTyped`: the type invariant.
- `AnswersOwnProof`: however little of a published file reached the disk, a lookup finds
  nothing but an answer that was prepared for the proof it asks for.
- `BestIsFound`: in a whole file, the best of the answers fit to be published for a proof
  is found as it was prepared, unless `MaxEntries` others precede it; a proof none of them
  has is a miss.

`SnapshotInv` is inductive: every unit of the file is a header, an unwritten unit, a byte,
or the entry of an answer that was published at *some* offset. Damage keeps it, since it
adds no entry. That is enough for `AnswersOwnProof`: an entry names the bytes it stands
for by their hash, and `Read` compares. `BestIsFound` is a fact about the layout and the
search rather than about steps, and rests on four lemmas. The best of each proof are kept
once (`UsablesApart`), and the kept ones are at most `MaxEntries`, being initial in a
strict order (`Ranks`, `KeptFew`), so they can be listed by key and the list fits. What an
entry points at holds the bytes of its answer, although a later one is appended behind it
(`PayloadHolds`, by induction over the items). The binary search ends at the first key that
is not smaller (`SearchFinds`, by induction over its rounds). And the first entry with the
key and the epoch is the only one (`WholeMatches`), since a key belongs to one kind. The
payload and the search are recursive functions; that they exist is `Rounds`. The
hypothesis is `PoolAssumption`: hashes of different kinds of answers differ, and of two
answers for one proof one is better. `MCHotSnapshot` gives it a pool in which answers for
*different* proofs do tie.

`CommandPolicyProofs`, for any beginnings of command lines, words, names and number of
arguments:

- `LinesTyped`: the type invariant; what a line is normalized to has a program and an
  absolute directory.
- `LinesOnlyLook`: what may be answered only looks, as it is normalized and as it was
  given, but for the three forms that are taken on trust (`OnlyReads`).
- `LinesUnderstood`: what may be answered is understood as the tool of that base name
  reads it (`ReadAsTool`).

The invariant of the steps, `Begun`, says little: a line consists of words and begins with
one of `Starts`. The work is about every such line. Each scan is a recursive function, and
so are `Clean` and `Walk`; that they exist and go round by round is `Rounds`. The proofs
take two scans of one line, the policy's and the program's, and say what they have in
common after each word: for git the directory, the words from the subcommand on and the
settings (`GitAgree`), for a search the flag that waits for its value, the operands and
that no `--pre` was among the options (`Agree`). A line that is refused half-way by the
policy's scan of git's options is only answered if git has no options there
(`GitAsItStands`). For the directory, `Clean` of a join and `chdir` agree as long as the
directory is spelled from the top without detours (`Normal`), which every `-C` keeps
(`ResolveWalks`). For the tree, a relative path that `Clean` leaves without `..` leads to
the same names below the root (`Below`), even if it has `..` inside; once `Clean` is above
where it began it stays there (`AboveStays`). A read of one file is parsed by position and
read by option; each spelling is taken through `Getopt` word by word (`Unrolled`), and of
`rg` with its switches in any place by counting (`SpreadRead`). `Classify` then names each
matcher's family (`AllowedKnown`), and the matchers leave nothing that writes or starts
another program (`AllowedLooks`). The hypothesis is `PolicyAssumption`: a path is absolute
by its first part only, no number is spelled as nothing, and a command line begins with
a program, by its name or by a path. Nothing is supposed of the settings: which of
those that are let through have git run a program is part of the statement.

`LineReadsProofs`, for every file and any limits:

- `ReadsExact`: a read answered from the bytes of a file is what its command prints, the
  same with the index of line starts and without, and is refused only for the reasons
  `ReadExact` names.
- `FusedIsExact`: `nl -ba` and `sed -n` in one pass print what the two print.

That a file keeps its type is the whole invariant (`ReadsTypedAlways`); the rest is about
every file. All three ways of cutting it into lines give the slices of one cut (`Cut`):
positions, each after the one before, that end at the newlines and at the end of the file.
The reference counts newlines in front of a byte (`CutLines`); the scan cuts off one line
per round (`ScanExact`); the index has the start of every line and, because a newline at
the very end starts none, no other (`StartsFound`). A file has one cut, so the lines are
the same. What is printed is a list of lines flattened. `FlattenSeq` is a recursion, and
`FlatRuns`, `FlatMore` and `FlatPad` say how it goes: value by value, and whatever the empty
ones between. `Selected` is why it does not matter that lines after the last range are not
looked at. `NativeSedExact` takes sed's own list, in which a line asked for twice occurs
twice and every line but the last printed is closed; that is the same unless the last line
of the file is open and asked for twice (`OpenOnce`). For the fused pipeline, the output of
`nl` is a file whose lines are the rows it was made of (`JoinedLines`), since a row has one
newline, at its end. The recursions here are recursive functions over numbers; that they
exist and run round by round is proved from the principle of the least number. The
hypothesis is `ReadsAssumption`: bytes and limits are numbers, a selection may have a
range, and a pattern is not empty, which the matchers of
reads demand (`command.go:534`, `command.go:562`).

`ComponentsProofs`, for every behaviour of `Components`. The theorems state the
properties of the run `components`; where a part has theorems in a module of its own, the
proof says that the part's definitions are the same inside the composition
(`SameSnapshot`, `SamePolicy`, `SameReads`; the other parts are proved about in place),
and that a step of the composition is one of the part or leaves it alone (`PartSteps`).

- `PartsTypeCorrect`, `PartsPickUpInTime`, `PartsCacheHonest`, `PartsIdentityWitnessed`,
  `PartsGuardSound`, `PartsFoundExact`, `PartsNeverAnother`, `PartsOnlyReads`,
  `PartsReadAsTool`, `PartsReadExact`, `PartsFusedExact`: as above, under the same
  assumptions.
- `PartsProofWatched`: every input a proof lists lies in a directory its guard watches,
  and all that a guard watches the monitor watches.
- `PartsInputSetExact`: a proof lists exactly the files that match.
- `PartsNothingLost`: a save stays in the ledger unless two processes removed one old
  lock or the ledger could not be read (`broken`).

The two about the walks rest on `WalkInv`: a walk that enters every directory above a
path (`Open`) has looked at the path, or has a prefix of it on its list. The proof's walk
enters only what the guard's does, and the guard's what the monitor's does
(`EntersLess`). That nothing is pruned that matches needs a hypothesis,
`WholeSubtrees`: an exclude that prunes a directory matches all that lies in it. The
code prunes when the exclude matches the directory or a made-up name in it, and
`inputs_shallow` shows an exclude for which that is not enough. The lock's argument is
that until `broken` it excludes (`Excluded`): a process in its section owns the directory,
an old directory is nobody's, nobody is in the section while an old lock is about to be
removed, and what is about to be renamed has all that is on disk.

Only model-checked: liveness, which the prover does not treat, and the module
`ComposedShell` (`ParseExact`, `ReplayExactAlone`, `GateSafe`), with its share of the type
invariant of `MCComponents`. It compares a parser that calls itself with a grammar, and an
evaluator with a shell, over trees of any depth: these are recursive operators, and
inductions over data, which the prover cannot do.

The assumptions on constants are the `ASSUME`s of the modules, and two facts among them
are about the language only, that the names `.git` and `__squire_probe__` are strings,
which the provers are not able to see.

## Where the code and the programs it stands for differ

Five differences are runs that fail, listed under "findings". The others that came
up while modelling are excused by name in the property they would violate:

- `sed -n '1p;1p'` of a file whose last line has no newline prints that line twice
  without a newline between (`warm_file.go:339-380`); GNU sed adds it.
  (`RepeatsOpenLine`)
- `git -Cdir` and `git -ck=v` are accepted (`command.go:66-81`), and refused by git.
  (`Attached`)
- A program is known by its base name (`command.go:43`, 128): `./git` and `/x/cat` are
  answered as the tool whatever they are. (`ByPath`)
- The value of `core.fsmonitor` or `core.hooksPath` is not looked at
  (`command.go:102-113`), and may have git run a program. (`RunsAnother`)
- `nl -ba f | grep -n 1p` is answered as if grep were sed (`composed_shell.go:645`), where
  the replay is not gated. (`TakenForSed`)
- A run that saw a matching file come and go may give a verdict when the guard has not
  yet been told (`runner.go:139`). (`late`)
- After a second try that failed, answers on the kept connection are off by one
  (`ipc_cache.go:213`). (`left`)
- An edit while an observation is published may file an output under another content
  (`adaptive_prewarm.go:93`), as may an edit undone during the run. (`unseen`, `sure`)
- `..` after a `-C` that leads through a symbolic link is resolved by name; the
  model has no symbolic links.
- `a;;b` is accepted by the composed shell and refused by shells. (`ParseExact`)
- `sort` compares bytes whatever the locale.
- A save is lost when two processes remove one old lock, or when the ledger cannot
  be read at the moment it is merged. (`broken`)
- Two maintainers run when two starters look at the status file at one time, and a
  stop may write an outdated status. (`raced`)

## What is not modelled

- Two daemons on one repository that share `state.json` under a mutex that is per
  process.
- Trust revoked between `runner.go:55` and the start of the command: the command
  still starts, and its verdict is discarded.
- The last save of a run that fails leaves "running" in the file until the next
  start; the batch skips such a check.
- Platforms without a change time (`file_token_other.go`), where a same-size
  rewrite with its times put back is invisible; Windows processes.
- A PID that is given to an unrelated program while the status file still names it
  (`background_maintainer.go:176` would signal that program).
- A request that is too large for the socket, which counts as an outage
  (`ipc_cache.go:324`) and pauses every other request for a moment.
- Two snapshots of one size and one time, which a mapping does not tell apart.
- Which files a proof covers (`oracle.go`), search and history corpora, the
  statistics ring, quoting and printf escapes, the C runtime, the VM, argument
  parsing of the CLI, benchmarks.

## Plan

1. Two `Green` daemons on one `state.json`.
2. `Replay` over `LedgerLock`, instead of a lock that excludes.
3. *The C runtime's change guard*: a process-resident fingerprint that is reused
   while no watched dependency changed, with the events of `GreenWatch`.
4. `oracle.go`: the inputs of a proof against what each git command reads.
5. Proofs about `ComposedShell`: its parser and evaluator as functions over the number of
   tokens and the depth of a plan, and inductions over these numbers.
