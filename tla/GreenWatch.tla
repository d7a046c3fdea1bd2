----------------------------- MODULE GreenWatch -----------------------------
(***************************************************************************)
(* The mutation guard of one check over a directory tree that changes:     *)
(* startMutationGuard walks the tree adding watches while it changes, and  *)
(* a goroutine then handles the queued events, watching new directories.   *)
(* Green.tla assumes of it what GuardSound says here.                      *)
(***************************************************************************)
EXTENDS GreenMatcher, FiniteSets

CONSTANTS
    Dirs, Files,    \* every directory and file path there may be
    Include,        \* the patterns of the check, which excludes nothing
    MaxOps          \* bound on changes of the tree

Root == <<>>
Parent(path) == Front(path)

WatchAssumption ==
    /\ MaxOps \in Nat
    /\ Dirs \cup Files \subseteq Seq(STRING) /\ Dirs \cap Files = {} /\ Root \in Dirs
    /\ \A p \in Dirs \cup Files : Parent(p) \in Dirs
    /\ \A p \in Include : IsPattern(p)

VARIABLES
    fs,         \* the paths that exist
    away,       \* a directory moved out of the repository, with its files
    watched,    \* directories with a watch
    queue,      \* events not yet handled
    phase,      \* of the guard: "starting" or "running"
    todo,       \* what the walk in progress has still to do: <<step, directory>>
    changed,    \* guard.changed
    base,       \* history: the inputs there were when the guard was ready
    flicker,    \* history: inputs that came or went since
    missed,     \* history: directories gone before their creation was handled
    ops

tree    == <<fs, away>>
history == <<base, flicker, missed>>
vars    == <<tree, watched, queue, phase, todo, changed, history, ops>>

Input(f)  == f \in Files /\ matches(Include, {}, f)
Inputs    == {f \in fs : Input(f)}
Watches(d) == d = Root \/ couldContain(Include, d)

Init ==
    /\ \E F \in SUBSET Files : fs = F \cup {Root} \cup UNION {Prefixes(Parent(f)) : f \in F}
    /\ away = {} /\ watched = {} /\ queue = <<>>
    /\ phase = "starting" /\ todo = {<<"enter", Root>>}
    /\ changed = FALSE
    /\ base = {} /\ flicker = {} /\ missed = {}
    /\ ops = 0

(***************************************************************************)
(* The tree.                                                               *)
(***************************************************************************)
\* A watched directory reports what happens to its entries, in order.
Report(op, paths) ==
    queue' = queue \o [i \in 1..Cardinality(paths) |->
                          [op |-> op, path |-> SetToSeq(paths)[i]]]

Heard(path) == IF path # Root /\ Parent(path) \in watched THEN {path} ELSE {}

\* The creation of d is still to be handled, or being handled.
Unhandled(d) ==
    \/ \E i \in DOMAIN queue : queue[i] = [op |-> "create", path |-> d]
    \/ \E t \in todo : t[2] = d

Change(here) ==
    /\ ops < MaxOps /\ ops' = ops + 1
    /\ fs' = here
    /\ flicker' = IF phase = "starting" THEN {}
                  ELSE flicker \cup {f \in (fs \ here) \cup (here \ fs) : Input(f)}
    /\ missed' = IF phase = "starting" THEN {}
                 ELSE missed \cup {d \in Dirs \ here : d \in fs /\ Unhandled(d)}
    /\ UNCHANGED <<phase, todo, changed, base>>

Create(p) ==
    /\ p \notin fs /\ Parent(p) \in fs
    /\ Change(fs \cup {p})
    /\ Report("create", Heard(p))
    /\ UNCHANGED <<away, watched>>

RemoveFile(f) ==
    /\ f \in fs
    /\ Change(fs \ {f})
    /\ Report("remove", Heard(f))
    /\ UNCHANGED <<away, watched>>

Inside(d) == {p \in fs : p # d /\ IsPrefix(d, p)}

Gone(d) ==
    /\ d \in fs \ {Root}
    /\ watched' = watched \ {d}

RemoveDirectory(d) ==
    /\ Inside(d) = {}
    /\ Gone(d)
    /\ Change(fs \ {d})
    /\ Report("remove", Heard(d))
    /\ UNCHANGED away

\* Its files go without an event of their own, and keep their identity.
MoveAway(d) ==
    /\ away = {} /\ Inside(d) \subseteq Files
    /\ Gone(d)
    /\ away' = {d} \cup Inside(d)
    /\ Change(fs \ away')
    /\ Report("rename", Heard(d))

MoveBack(d) ==
    /\ d \in away /\ d \notin fs /\ Parent(d) \in fs
    /\ away' = {}
    /\ Change(fs \cup away)
    /\ Report("create", Heard(d))
    /\ UNCHANGED watched

(***************************************************************************)
(* addRelevantDirectories: filepath.WalkDir adds a watch, then lists.      *)
(***************************************************************************)
\* A directory that vanishes under the walk is an error.
WalkFails == todo' = {} /\ changed' = TRUE /\ UNCHANGED watched

Enter(d) ==
    /\ <<"enter", d>> \in todo
    /\ IF ~Watches(d) THEN todo' = todo \ {<<"enter", d>>} /\ UNCHANGED <<watched, changed>>
       ELSE IF d \notin fs THEN WalkFails
       ELSE /\ watched' = watched \cup {d}
            /\ todo' = (todo \ {<<"enter", d>>}) \cup {<<"list", d>>}
            /\ UNCHANGED changed
    /\ UNCHANGED <<tree, queue, phase, history, ops>>

List(d) ==
    /\ <<"list", d>> \in todo
    /\ IF d \notin fs THEN WalkFails
       ELSE /\ todo' = (todo \ {<<"list", d>>}) \cup
                       {<<"enter", c>> : c \in {c \in Dirs \cap fs : c # Root /\ Parent(c) = d}}
            /\ UNCHANGED <<watched, changed>>
    /\ UNCHANGED <<tree, queue, phase, history, ops>>

\* startMutationGuard returns: the proof that follows sees these inputs.
Ready ==
    /\ phase = "starting" /\ todo = {}
    /\ phase' = "running" /\ base' = Inputs
    /\ UNCHANGED <<tree, watched, queue, todo, changed, flicker, missed, ops>>

(***************************************************************************)
(* The goroutine: handleEvent, one event at a time.                        *)
(***************************************************************************)
\* Mutant: events about directories are ignored.
NeverDirectory(e) == FALSE

NewDirectory(e) == e.op = "create" /\ e.path \in Dirs \cap fs /\ couldContain(Include, e.path)

\* (The code marks a new directory after its walk, here before: only a queue that
\* is fully handled is judged.)
HandleEvent ==
    /\ phase = "running" /\ todo = {} /\ queue # <<>>
    /\ queue' = Tail(queue)
    /\ todo' = IF NewDirectory(Head(queue)) THEN {<<"enter", Head(queue).path>>} ELSE {}
    /\ changed' = (changed \/ matches(Include, {}, Head(queue).path)
                           \/ NewDirectory(Head(queue)))
    /\ UNCHANGED <<tree, watched, phase, history, ops>>

Guard == (\E d \in Dirs : Enter(d) \/ List(d)) \/ Ready \/ HandleEvent

Next ==
    \/ \E p \in Dirs \cup Files : p # Root /\ Create(p)
    \/ \E f \in Files : RemoveFile(f)
    \/ \E d \in Dirs : RemoveDirectory(d) \/ MoveAway(d) \/ MoveBack(d)
    \/ Guard

Spec == Init /\ [][Next]_vars

\* Types: files and directories of the tree, events about paths below the root.
TypeOK ==
    /\ fs \subseteq Dirs \cup Files /\ away \subseteq Dirs \cup Files
    /\ watched \subseteq Dirs \cap fs
    /\ \A i \in DOMAIN queue : queue[i].path \in (Dirs \cup Files) \ {Root}
    /\ phase \in {"starting", "running"}
    /\ todo \subseteq {"enter", "list"} \X Dirs
    /\ changed \in BOOLEAN /\ base \subseteq Files /\ flicker \subseteq Files
    /\ missed \subseteq Dirs
    /\ ops \in 0..MaxOps

\* The mutation guard observes intermediate events: once it has handled all it
\* was told and still says nothing changed, an input that came or went since the
\* first proof is one that proof lists and the second will miss, or lay in a
\* directory that was created and gone again before the guard looked at it.
GuardSound ==
    phase = "running" /\ queue = <<>> /\ todo = {} /\ ~changed =>
        \A f \in flicker : f \in base \ fs \/ \E d \in missed : IsPrefix(d, f)
=============================================================================
