---------------------------- MODULE GreenInputs -----------------------------
(***************************************************************************)
(* The walks over a repository that does not change: collectInputProof     *)
(* lists a check's inputs, the mutation guard of the check and the         *)
(* scheduler's monitor of all checks choose the directories they watch.    *)
(***************************************************************************)
EXTENDS GreenMatcher

CONSTANTS
    Trees,          \* the repositories: sets of file paths
    Patterns        \* the [include, exclude] pairs a check may declare

\* A repository has a file, the config that declares the checks, and no file lies
\* in another.
InputsAssumption ==
    /\ \A t \in Trees : /\ t \subseteq Seq(STRING) \ {<<>>} /\ t # {}
                        /\ \A f, g \in t : IsPrefix(f, g) => f = g
    /\ \A c \in Patterns : \A p \in c.include \cup c.exclude : IsPattern(p)
    /\ Probe \in STRING /\ Git \in Seq(STRING)

VARIABLES
    files,          \* the repository
    checks,         \* <<mine, other>>: the check that runs, and one more
    todo,           \* todo[w]: entries walk w has still to visit
    entries,        \* input paths proved so far
    watched         \* watched[w]: directories watched so far

vars == <<files, checks, todo, entries, watched>>

Walks == {"proof", "guard", "monitor"}

Parent(path) == Front(path)

Directories == (UNION {Prefixes(f) : f \in files}) \ files

Children(dir) == {e \in files \cup Directories : e # <<>> /\ Parent(e) = dir}

Mine == checks[1]

Init ==
    /\ files \in Trees
    /\ checks \in Patterns \X Patterns
    /\ todo = [w \in Walks |-> {<<>>}]
    /\ entries = {}
    /\ watched = [w \in {"guard", "monitor"} |-> {}]

Visit(w, entry, more) == todo' = [todo EXCEPT ![w] = (@ \ {entry}) \cup more]

ProofEnters(d) == d = <<>> \/ (d # Git /\ Relevant(Mine.include, Mine.exclude, d))

ProofFile(f) ==
    /\ f \in todo["proof"] \cap files
    /\ Visit("proof", f, {})
    /\ entries' = IF matches(Mine.include, Mine.exclude, f) THEN entries \cup {f} ELSE entries
    /\ UNCHANGED <<files, checks, watched>>

ProofDirectory(d) ==
    /\ d \in todo["proof"] \ files
    /\ Visit("proof", d, IF ProofEnters(d) THEN Children(d) ELSE {})
    /\ UNCHANGED <<files, checks, entries, watched>>

\* addRelevantDirectories of the guard; .squire is watched for the config.
GuardRelevant(d) ==
    \/ d = <<>>
    \/ /\ d # Git /\ ~excludesSubtree(Mine.exclude, d)
       /\ d = <<".squire">> \/ couldContain(Mine.include, d)

\* Mutant: the monitor does not watch the config's directory.
RelevantToChecks(d) ==
    \/ d = <<>>
    \/ d # Git /\ \E c \in {checks[1], checks[2]} : Relevant(c.include, c.exclude, d)

\* addRelevantDirectories of the monitor: relevant to any check.
MonitorRelevant(d) ==
    \/ d \in {<<>>, <<".squire">>}
    \/ d # Git /\ \E c \in {checks[1], checks[2]} : Relevant(c.include, c.exclude, d)

WatchEntry(w, relevant, e) ==
    /\ e \in todo[w]
    /\ IF e \in files \/ ~relevant
       THEN Visit(w, e, {}) /\ UNCHANGED watched
       ELSE Visit(w, e, Children(e)) /\ watched' = [watched EXCEPT ![w] = @ \cup {e}]
    /\ UNCHANGED <<files, checks, entries>>

\* The scheduler has its monitor before it runs a check, and the check its guard
\* before it proves its inputs.
Next ==
    \/ \E e \in todo["monitor"] : WatchEntry("monitor", MonitorRelevant(e), e)
    \/ /\ todo["monitor"] = {}
       /\ \E e \in todo["guard"] : WatchEntry("guard", GuardRelevant(e), e)
    \/ /\ todo["monitor"] = {} /\ todo["guard"] = {}
       /\ \E e \in todo["proof"] : ProofFile(e) \/ ProofDirectory(e)

Spec == Init /\ [][Next]_vars

Done == \A w \in Walks : todo[w] = {}

\* Types: walks see paths of the repository only.
TypeOK ==
    /\ files \in Trees /\ checks \in Patterns \X Patterns
    /\ \A w \in Walks : todo[w] \subseteq files \cup Directories
    /\ entries \subseteq files
    /\ \A w \in DOMAIN watched : watched[w] \subseteq Directories

\* A change of any proved input raises an event: its directory is watched by the
\* guard of its check, and all that a guard watches the monitor watches too.
ProofWatched ==
    Done => /\ \A f \in entries : Parent(f) \in watched["guard"]
            /\ watched["guard"] \subseteq watched["monitor"]

\* The validity of a result rests on the sorted set of matched paths: the proof
\* lists every file the declared patterns match, those in Git's directory aside.
InputSetExact ==
    Done => entries = {f \in files : /\ IsPrefix(Git, f) => f = Git
                                     /\ matches(Mine.include, Mine.exclude, f)}

\* An exclude that ends in "**" and matches the probe by no name in particular
\* matches whatever lies in a directory it prunes.
PrunesWhole(p) ==
    /\ p # <<>> /\ p[Len(p)].kind = "deep"
    /\ \A i \in DOMAIN p : Probe \in p[i].names =>
           \A t \in Trees : \A f \in t : \A j \in DOMAIN f : f[j] \in p[i].names

PrunesNothing(p) ==
    \A t \in Trees : \A f \in t : \A d \in Prefixes(f) \ {<<>>, f} : ~excludesSubtree({p}, d)

WholeSubtrees ==
    \A c \in Patterns : \A p \in c.exclude : PrunesWhole(p) \/ PrunesNothing(p)
=============================================================================
