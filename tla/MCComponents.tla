---------------------------- MODULE MCComponents ----------------------------
(* Nine independent components, checked in one run: the eight of Components,  *)
(* and the pipelines that are put together from prepared answers.             *)
EXTENDS Components, TLC

CONSTANTS
    Commands, Sources, MaxReply, MaxNodes, MaxTokens, MaxArgs, MaxRepeat,
    MaxLeaves, MaxWraps, MaxScript

VARIABLES
    stack, leaves, wraps, script

Shell == INSTANCE MCComposedShell WITH Files <- Sources

\* The tickers of the run are slower than their debounce.
ASSUME TickersAreSlow == Timer!SlowTicker

\* In the trees of the run, excludes that prune match the whole subtree.
ASSUME SubtreesAreWhole == Inputs!WholeSubtrees

\* The instances that the constants are given; they depend on no constant that
\* is given one of them.
TimerValues    == INSTANCE MCGreenTimer WITH Timings <- {}
InputValues    == INSTANCE MCGreenInputs WITH Trees <- {}, Patterns <- {}
WatchValues    == INSTANCE MCGreenWatch WITH Dirs <- {}, Files <- {}, Include <- {}
ShellValues    == INSTANCE MCComposedShell WITH Commands <- <<>>, Files <- <<>>
SnapshotValues == INSTANCE MCHotSnapshot WITH Pool <- {}, MaxOutput <- MaxStored
PolicyValues   == INSTANCE MCCommandPolicy
                    WITH Paths <- <<>>, Readable <- {}, Sensitive <- {}, Numerals <- <<>>, Settings <- <<>>,
                         Starts <- {}, Words <- <<>>

SlowTicks       == TimerValues!SlowTicks
SmallTrees      == InputValues!SmallTrees
SubtreePatterns == InputValues!SubtreePatterns
Tree            == WatchValues!Tree
Leaves          == WatchValues!Leaves
PyOnly          == WatchValues!PyOnly
Literals        == {<<97>>, <<97, 97>>}
OneFile         == ShellValues!OneFile
AllCommands     == ShellValues!AllCommands
SmallPool       == SnapshotValues!SmallPool
SomePaths       == PolicyValues!SomePaths
ReadableNames   == PolicyValues!ReadableNames
SensitiveNames  == PolicyValues!SensitiveNames
SmallNumerals   == PolicyValues!SmallNumerals
SomeSettings    == PolicyValues!SomeSettings
AllStarts       == PolicyValues!AllStarts
StartWords      == PolicyValues!StartWords

Symmetry == Permutations(Readers) \cup Permutations(Values)

shellVars == <<stack, leaves, wraps, script>>
vars      == <<part, partVars, shellVars>>

NoShell == stack = Unused /\ leaves = Unused /\ wraps = Unused /\ script = Unused

Init ==
    \/ PartsInit /\ NoShell
    \/ NoPart /\ part = "shell" /\ Shell!Init

NextShell == part' = part /\ part = "shell" /\ Shell!Next

\* These come to an end.
Ended == part \in {"inputs", "watch", "reads", "shell", "snapshot", "policy"} /\ UNCHANGED vars

Next ==
    \/ PartsNext /\ UNCHANGED shellVars
    \/ NextShell /\ UNCHANGED partVars
    \/ Ended

Spec == Init /\ [][Next]_vars

\* Types: the type invariant of the component the behaviour belongs to.
TypeOK ==
    /\ PartsTyped
    /\ part = "shell" => Shell!TypeOK

\* Composed commands: a script is parsed as the shell grammar derives it.
ParseExact == part = "shell" => Shell!ParseExact

\* Composed commands: what is answered is what the shell would have printed,
\* where what is piped into a group has one reader.
ReplayExactAlone == part = "shell" => Shell!ReplayExactAlone

\* Composed commands: the production gate lets no command stand alone that
\* the shell would give the output of another.
GateSafe == part = "shell" => Shell!GateSafe
=============================================================================
