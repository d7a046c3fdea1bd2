---------------------------- MODULE CommandPolicy ----------------------------
(***************************************************************************)
(* Which command lines Squire may answer at all, and what it takes them to *)
(* mean: git's options before the subcommand, the family of a command, the *)
(* matchers of replayable commands, the plan of a read of one file.  A     *)
(* word of a command line is [flag, val]: a plain word has no flag, and    *)
(* -n3, -C5, --max-count=3 or -ba are a flag with its value attached.      *)
(* Long spellings of a flag stand under the short one.  The second half    *)
(* is how the programs themselves read the line.                           *)
(***************************************************************************)
EXTENDS Integers, Sequences, FiniteSets, SequencesExt

CONSTANTS
    Paths,         \* words that name files, with the names they are made of
    Readable,      \* names with an extension or of a manifest that is inspected
    Sensitive,     \* names that look like keys or secrets
    Numerals,      \* words that are numbers, with their value
    Settings,      \* words that set something for git: the key in small letters,
                   \* and whether the value has git run a program
    Starts,        \* command lines up to where the arguments begin
    Words,         \* the words that may follow each of them
    MaxArguments   \* bound on those

VARIABLES argv, start

Word == [flag : STRING, val : STRING]

W(val)       == [flag |-> "", val |-> val]
F(flag)      == [flag |-> flag, val |-> ""]
A(flag, val) == [flag |-> flag, val |-> val]

IsFlag(w) == w.flag # ""
\* What a word is as the value of the flag before it.
Text(w) == IF IsFlag(w) THEN w.flag ELSE w.val
\* The program of a line that calls it by its base name.
Name(line) == line[1].val
Number(val) == IF val \in DOMAIN Numerals THEN Numerals[val] ELSE -1
Root == <<"/", "r">>

-----------------------------------------------------------------------------
(* Paths. *)

IsAbs(parts) == parts # <<>> /\ parts[1] = "/"

\* filepath.Clean, part by part.
Cleaned(done, p) ==
    IF p = "." THEN done
    ELSE IF p # ".." \/ done = <<>> \/ done[Len(done)] = ".." THEN Append(done, p)
    ELSE IF done = <<"/">> THEN done
    ELSE SubSeq(done, 1, Len(done) - 1)

Clean(parts) ==
    LET done[i \in 0..Len(parts)] ==
            IF i = 0 THEN <<>> ELSE Cleaned(done[i - 1], parts[i])
    IN  done[Len(parts)]

PathOf(val) ==
    IF val = "" THEN <<>> ELSE IF val \in DOMAIN Paths THEN Paths[val] ELSE <<val>>

\* filepath.Base: ./git and /x/git are git.
Base(val) == LET p == PathOf(val) IN IF p = <<>> THEN "." ELSE p[Len(p)]

\* Every matcher takes the base of the first word, and looks at no more of it.
Called(line) == <<W(Base(line[1].val))>> \o Tail(line)

Hidden == {".git", ".squire", ".env", ".x"}

safeRelativeInspectionPath(parts) ==
    /\ parts # <<>> /\ ~IsAbs(parts)
    /\ \A i \in DOMAIN parts : parts[i] # ".." /\ parts[i] \notin Hidden
    /\ parts[1] # "-x"

isReplayableInspectionName(parts) ==
    parts[Len(parts)] \in Readable \ Sensitive

\* A file that may be inspected.
Inspected(w) ==
    ~IsFlag(w) /\ LET p == Clean(PathOf(w.val))
                  IN  safeRelativeInspectionPath(p) /\ isReplayableInspectionName(p)

InTree(w) == ~IsFlag(w) /\ safeRelativeInspectionPath(Clean(PathOf(w.val)))
Searched(w) == InTree(w) \/ (~IsFlag(w) /\ Clean(PathOf(w.val)) = <<>>)

-----------------------------------------------------------------------------
(* Git's options before the subcommand. *)

\* The key is looked at, the value is not.
HookSettings ==
    {v \in DOMAIN Settings : Settings[v].key \in {"core.hookspath", "core.fsmonitor"}}

safeGitConfigOverride(val) == val \in HookSettings

\* Mutant: each -C is taken from where the command was started.
FromRoot(cwd, val) == Clean(Root \o PathOf(val))

resolveGitCWD(cwd, val) ==
    IF IsAbs(PathOf(val)) THEN Clean(PathOf(val)) ELSE Clean(cwd \o PathOf(val))

Invocation(line, cwd, ok) == [argv |-> line, cwd |-> cwd, ok |-> ok]

\* The value of a -C or a -c; every other option is left to git.
Valued(s, flag, value) ==
    IF flag = "-C" THEN [s EXCEPT !.cwd = resolveGitCWD(s.cwd, value)]
    ELSE [s EXCEPT !.ok = flag = "-c" /\ safeGitConfigOverride(value)]

\* The next word: want is the flag whose value it is, rest are the words from the
\* subcommand on.
GitOption(s, w) ==
    IF ~s.ok THEN s
    ELSE IF s.rest # <<>> THEN [s EXCEPT !.rest = Append(s.rest, w)]
    ELSE IF s.want # "" THEN Valued([s EXCEPT !.want = ""], s.want, Text(w))
    ELSE IF ~IsFlag(w) THEN [s EXCEPT !.rest = <<w>>]
    ELSE IF w.val = "" /\ w.flag \in {"-C", "-c"} THEN [s EXCEPT !.want = w.flag]
    ELSE Valued(s, w.flag, w.val)

GitOptions(line) ==
    LET begin == [ok |-> TRUE, want |-> "", cwd |-> Root, rest |-> <<>>]
        state[i \in 0..Len(line) - 1] ==
            IF i = 0 THEN begin ELSE GitOption(state[i - 1], line[i + 1])
        end == state[Len(line) - 1]
    IN  IF end.ok /\ end.want = ""
        THEN Invocation(<<W("git")>> \o end.rest, end.cwd, TRUE)
        ELSE Invocation(line, Root, FALSE)

\* What cannot be normalized is judged as it stands.
normalizeGitInvocation(line) ==
    IF Name(line) # "git" THEN Invocation(line, Root, TRUE) ELSE GitOptions(line)

NormalizeInvocation(line) == normalizeGitInvocation(Called(line))

-----------------------------------------------------------------------------
(* Git commands; the line is normalized. *)

Git(sub, words) == <<W("git"), W(sub)>> \o words

\* Mutant: any git branch is taken for a question.
AnyBranch(line) == Len(line) > 1 /\ SubSeq(line, 1, 2) = Git("branch", <<>>)

isGitBranchShowCurrent(line) == line = Git("branch", <<F("--show-current")>>)

isGitMetadata(line) ==
    \/ isGitBranchShowCurrent(line)
    \/ line = Git("rev-parse", <<F("--abbrev-ref"), W("HEAD")>>)
    \/ \E w \in {W("HEAD"), F("--git-dir"), F("--show-toplevel")} :
          line = Git("rev-parse", <<w>>)

isGitStatusState(line) ==
    line \in {Git("status", <<F("--short")>>), Git("status", <<F("--porcelain")>>)}

isGitLsFiles(line) ==
    \/ line = Git("ls-files", <<>>)
    \/ Len(line) = 3 /\ line = Git("ls-files", <<line[3]>>) /\ InTree(line[3])

isGitHeadSubjectLog(line) == line = Git("log", <<A("-", "1"), F("--format")>>)

isGitReadOnlyDiff(line) ==
    \/ line \in {Git("diff", <<>>), Git("diff", <<F("--stat")>>), Git("diff", <<F("--check")>>)}
    \/ /\ Len(line) >= 4 /\ SubSeq(line, 1, 3) = Git("diff", <<F("--")>>)
       /\ \A i \in 4..Len(line) : InTree(line[i])

isGitRemoteMetadata(line) == line = Git("remote", <<F("-v")>>)

boundedGitLogLimit(val) == Number(val) \in 1..20

Globs == {"*.go"}

LogLimit(s, val) ==
    [s EXCEPT !.ok = s.ok /\ s.limit = 0 /\ boundedGitLogLimit(val),
              !.limit = Number(val), !.want = FALSE]

LogWord(s, w) ==
    IF s.want THEN LogLimit(s, Text(w))
    ELSE IF ~s.separator /\ w = F("--oneline") THEN [s EXCEPT !.oneline = TRUE]
    ELSE IF ~s.separator /\ w \in {F("-n"), F("--max-count")} THEN [s EXCEPT !.want = TRUE]
    ELSE IF ~s.separator /\ w.flag \in {"--max-count", "-"} THEN LogLimit(s, w.val)
    ELSE IF ~s.separator /\ w = F("--") THEN [s EXCEPT !.separator = TRUE]
    ELSE [s EXCEPT !.paths = s.paths + 1,
                   !.ok = s.ok /\ s.separator /\ Searched(w) /\ w.val \notin Globs]

\* One limit, --oneline, and paths that are no patterns after --.
isBoundedGitOnelineLog(line) ==
    LET begin == [ok |-> TRUE, limit |-> 0, oneline |-> FALSE, separator |-> FALSE,
                  want |-> FALSE, paths |-> 0]
        state[i \in 0..Len(line) - 2] ==
            IF i = 0 THEN begin ELSE LogWord(state[i - 1], line[i + 2])
        end == state[Len(line) - 2]
    IN  /\ Len(line) >= 6 /\ Name(line) = "git" /\ line[2] = W("log")
        /\ end.ok /\ end.oneline /\ end.separator /\ ~end.want
        /\ end.limit > 0 /\ end.paths > 0

isGitRepoState(line) ==
    isGitLsFiles(line) \/ isGitStatusState(line) \/ isGitReadOnlyDiff(line)

Mutations == {"add", "branch", "checkout", "commit", "stash"}

isGitMutation(line) ==
    /\ Name(line) = "git" /\ Len(line) > 1 /\ ~IsFlag(line[2])
    /\ line[2].val \in Mutations /\ ~isGitBranchShowCurrent(line)

-----------------------------------------------------------------------------
(* Reads of one file. *)

NoOperation == [kind |-> "none", path |-> ""]

Operation(kind, w) ==
    [kind |-> kind, path |-> w.val, count |-> 0, pattern |-> "",
     quiet |-> FALSE, number |-> FALSE]

\* head FILE, head -n N FILE, head -nN FILE and head -N FILE.
parseHeadTailArgs(line) ==
    CASE Len(line) = 2 -> [count |-> 10, path |-> line[2]]
      [] Len(line) = 3 /\ line[2].flag \in {"-n", "-"} ->
            [count |-> Number(line[2].val), path |-> line[3]]
      [] Len(line) = 4 /\ line[2] = F("-n") ->
            [count |-> Number(Text(line[3])), path |-> line[4]]
      [] OTHER -> [count |-> 0, path |-> W("")]

parseFixedGrepArgs(line) ==
    LET n == Len(line)
    IN  IF /\ SubSeq(line, 2, n - 2) \in
                {<<F("-F")>>, <<F("-F"), F("-q")>>, <<F("-q"), F("-F")>>}
           /\ ~IsFlag(line[n - 1]) /\ line[n - 1].val # "" /\ Inspected(line[n])
        THEN [Operation("grep", line[n]) EXCEPT !.pattern = line[n - 1].val, !.quiet = n = 5]
        ELSE NoOperation

\* Flags anywhere, each once; then a pattern and one file.
parseFixedRgArgs(line) ==
    LET plain == {i \in 2..Len(line) : ~IsFlag(line[i])}
        flags == {line[i] : i \in (2..Len(line)) \ plain}
    IN  IF /\ Len(line) \in 4..6 /\ Cardinality(plain) = 2
           /\ line[Min(plain)].val # "" /\ Inspected(line[Max(plain)])
           /\ flags \subseteq {F("-F"), F("-q"), F("-n")} /\ F("-F") \in flags
           /\ Cardinality(flags) = Len(line) - 3
        THEN [Operation("rg", line[Max(plain)]) EXCEPT !.pattern = line[Min(plain)].val,
                !.quiet = F("-q") \in flags, !.number = F("-n") \in flags]
        ELSE NoOperation

Selections == {"1,3p"}

parseWarmFileOperation(line) ==
    LET n == Len(line)
        prog == Name(line)
        head == parseHeadTailArgs(line)
    IN  CASE prog = "cat" /\ n = 2 /\ Inspected(line[2]) -> Operation("cat", line[2])
          [] /\ prog = "sed" /\ n = 4 /\ line[2] = F("-n")
             /\ ~IsFlag(line[3]) /\ line[3].val \in Selections /\ Inspected(line[4]) ->
                Operation("sed", line[4])
          [] /\ prog \in {"head", "tail"} /\ n \in 2..4
             /\ head.count \in 1..1000 /\ Inspected(head.path) ->
                [Operation(prog, head.path) EXCEPT !.count = head.count]
          [] prog = "nl" /\ n = 3 /\ line[2] = A("-b", "a") /\ Inspected(line[3]) ->
                Operation("nl", line[3])
          [] prog = "grep" /\ n \in 4..5 -> parseFixedGrepArgs(line)
          [] prog = "rg" /\ n \in 4..6 -> parseFixedRgArgs(line)
          [] OTHER -> NoOperation

isReplayableFileInspection(line) ==
    \/ parseWarmFileOperation(line) # NoOperation
    \/ Name(line) = "file" /\ Len(line) = 2 /\ Inspected(line[2])

-----------------------------------------------------------------------------
(* Searches, listings and probes. *)

ContextFlags == {"-C", "-A", "-B"}
RgSwitches   == {"-n", "-S", "-i", "--hidden", "-l", "-q", "-F"}

ValidRgValue(flag, val) ==
    (flag = "-g" /\ val # "") \/ (flag # "-g" /\ Number(val) \in 0..1000)

RgWord(s, w) ==
    IF s.want # "" THEN [s EXCEPT !.want = "", !.ok = s.ok /\ ValidRgValue(s.want, Text(w))]
    ELSE IF w.flag \in ContextFlags \cup {"-g"}
    THEN IF w.val = "" THEN [s EXCEPT !.want = w.flag]
         ELSE [s EXCEPT !.ok = s.ok /\ ValidRgValue(w.flag, w.val)]
    ELSE IF IsFlag(w) THEN [s EXCEPT !.ok = s.ok /\ w.val = "" /\ w.flag \in RgSwitches]
    ELSE IF s.pattern = <<>> THEN [s EXCEPT !.pattern = <<w.val>>, !.ok = s.ok /\ w.val # ""]
    ELSE [s EXCEPT !.paths = Append(s.paths, w.val), !.ok = s.ok /\ Searched(w)]

\* Flags and their values anywhere, then a pattern, then paths in the tree.
parseBoundedRgRepoArgs(line) ==
    LET begin == [ok |-> TRUE, want |-> "", pattern |-> <<>>, paths |-> <<>>]
        state[i \in 0..Len(line) - 1] ==
            IF i = 0 THEN begin ELSE RgWord(state[i - 1], line[i + 1])
        end == state[Len(line) - 1]
    IN  [end EXCEPT !.ok = end.ok /\ Name(line) = "rg" /\ end.want = "" /\ end.paths # <<>>]

isBoundedRgRepoSearch(line) == parseBoundedRgRepoArgs(line).ok

isDirectoryListing(line) ==
    LET below(w) == ~IsFlag(w) /\ LET p == Clean(PathOf(w.val))
                                  IN  ~IsAbs(p) /\ (p # <<>> => p[1] # "..")
    IN  /\ Name(line) = "ls"
        /\ \/ Len(line) = 1
           \/ Len(line) = 2 /\ (line[2] = F("-p") \/ below(line[2]))
           \/ Len(line) = 3 /\ line[2] = F("-p") /\ below(line[3])

isToolVersionProbe(line) ==
    \/ line \in {<<W("go"), W("version")>>, <<W("git"), W("version")>>}
    \/ Len(line) = 2 /\ line[2] = F("--version")
       /\ Name(line) \in {"git", "npm", "python", "rg", "cargo"}

isCommandPathLookup(line) == Len(line) = 2 /\ Name(line) = "which" /\ line[2] = W("go")

isStaticEnvironmentProbe(line) ==
    \/ Len(line) = 1 /\ Name(line) \in {"whoami", "uname"}
    \/ line = <<W("uname"), F("-a")>>

isPrintenvProbe(line) == Len(line) = 2 /\ Name(line) = "printenv" /\ line[2] = W("HOME")

isEnvironmentProbe(line) ==
    \/ isToolVersionProbe(line) \/ isCommandPathLookup(line)
    \/ isStaticEnvironmentProbe(line) \/ isPrintenvProbe(line)

isValidationBuildTest(line) ==
    \/ /\ Len(line) > 1 /\ line[2] = W("test")
       /\ Name(line) \in {"go", "npm", "cargo", "make"}
    \/ Name(line) = "node" /\ F("--test") \in ToSet(line)
    \/ Name(line) = "python" /\ Len(line) > 2 /\ line[2] = F("-m") /\ line[3] = W("pytest")

isPackageSetup(line) ==
    Len(line) > 1 /\ Name(line) \in {"npm", "go", "cargo"} /\ line[2] = W("install")

-----------------------------------------------------------------------------
(* What is allowed, and the decision. *)

IsFastPathAllowed(line) == isGitMetadata(line)

IsProofGatedReplayCandidate(line) ==
    \/ isGitRepoState(line) \/ isGitHeadSubjectLog(line)
    \/ isReplayableFileInspection(line) \/ isDirectoryListing(line)
    \/ isEnvironmentProbe(line) \/ isBoundedRgRepoSearch(line)

IsReplayAllowed(line) ==
    IsFastPathAllowed(line) \/ IsProofGatedReplayCandidate(line) \/ isBoundedGitOnelineLog(line)

ClassifyGit(line) ==
    IF \/ isGitMetadata(line) \/ isGitHeadSubjectLog(line)
       \/ isBoundedGitOnelineLog(line) \/ isGitRemoteMetadata(line) THEN "metadata"
    ELSE IF isGitRepoState(line) THEN "repo state"
    ELSE IF isGitMutation(line) THEN "mutation"
    ELSE "unknown"

isSearch(line) ==
    \/ line = <<W("rg"), F("--files")>> \/ parseWarmFileOperation(line).kind = "rg"
    \/ isBoundedRgRepoSearch(line) \/ isDirectoryListing(line)

Classify(line) ==
    IF isEnvironmentProbe(line) THEN "environment"
    ELSE IF Name(line) = "git" THEN ClassifyGit(line)
    ELSE IF isSearch(line) THEN "search"
    ELSE IF isReplayableFileInspection(line) THEN "inspection"
    ELSE IF isValidationBuildTest(line) THEN "validation"
    ELSE IF isPackageSetup(line) THEN "package setup"
    ELSE "unknown"

NeverFamilies == {"validation", "mutation", "package setup"}

\* Replayed with a valid observation, where the repository could be observed.
Decide(line, oracle, valid) ==
    IF Classify(line) \in NeverFamilies THEN "never"
    ELSE IF /\ oracle \/ Classify(line) \notin {"metadata", "repo state"}
            /\ IsProofGatedReplayCandidate(line) \/ IsFastPathAllowed(line)
            /\ valid
    THEN "replay"
    ELSE "native"

-----------------------------------------------------------------------------
(* How the programs themselves read the line. *)

Entered(at, p) ==
    IF p = "/" THEN <<"/">>
    ELSE IF p = "." THEN at
    ELSE IF p # ".." THEN Append(at, p)
    ELSE IF Len(at) > 1 THEN SubSeq(at, 1, Len(at) - 1)
    ELSE at

\* chdir, part by part.
Walk(cwd, parts) ==
    LET at[i \in 0..Len(parts)] == IF i = 0 THEN cwd ELSE Entered(at[i - 1], parts[i])
    IN  at[Len(parts)]

\* git takes -C and -c only as words of their own.
GitRead(s, w) ==
    IF ~s.ok THEN s
    ELSE IF s.words # <<>> THEN [s EXCEPT !.words = Append(s.words, w)]
    ELSE IF s.want = "-C"
    THEN [s EXCEPT !.want = "", !.cwd = Walk(s.cwd, PathOf(Text(w)))]
    ELSE IF s.want = "-c" THEN [s EXCEPT !.want = "", !.config = s.config \cup {Text(w)}]
    ELSE IF ~IsFlag(w) THEN [s EXCEPT !.words = <<w>>]
    ELSE IF w \in {F("-C"), F("-c")} THEN [s EXCEPT !.want = w.flag]
    ELSE [s EXCEPT !.ok = FALSE]

GitReads(line) ==
    LET begin == [ok |-> TRUE, want |-> "", cwd |-> Root, config |-> {}, words |-> <<>>]
        state[i \in 0..Len(line) - 1] ==
            IF i = 0 THEN begin ELSE GitRead(state[i - 1], line[i + 1])
        end == state[Len(line) - 1]
    IN  [end EXCEPT !.ok = end.ok /\ end.want = ""]

ValueFlags(prog) ==
    CASE prog \in {"head", "tail"} -> {"-n"}
      [] prog = "rg" -> {"-g", "-C", "-A", "-B", "--pre"}
      [] OTHER -> {}

Option(valued, s, w) ==
    IF s.want # "" THEN [s EXCEPT !.want = "", !.options = s.options \cup {<<s.want, Text(w)>>}]
    ELSE IF w.val = "" /\ w.flag \in valued THEN [s EXCEPT !.want = w.flag]
    ELSE IF IsFlag(w) THEN [s EXCEPT !.options = s.options \cup {<<w.flag, w.val>>}]
    ELSE [s EXCEPT !.operands = Append(s.operands, w.val)]

\* Options with their values, and what is left of the line.
Getopt(line) ==
    LET begin == [want |-> "", options |-> {}, operands |-> <<>>]
        state[i \in 0..Len(line) - 1] ==
            IF i = 0 THEN begin ELSE Option(ValueFlags(Name(line)), state[i - 1], line[i + 1])
    IN  state[Len(line) - 1]

Switch(g, flag) == <<flag, "">> \in g.options

\* The answer computed for a read of a file is the one the program was asked for.
SameRead(op, line) ==
    LET g == Getopt(line)
        counts == {Number(o[2]) : o \in {p \in g.options : p[1] \in {"-n", "-"}}}
    IN  /\ g.want = "" /\ g.operands[Len(g.operands)] = op.path
        /\ CASE op.kind = "cat" -> Len(g.operands) = 1 /\ g.options = {}
             [] op.kind = "sed" -> g.operands[1] \in Selections /\ g.options = {<<"-n", "">>}
             [] op.kind \in {"head", "tail"} ->
                    Len(g.operands) = 1 /\ {op.count} = IF counts = {} THEN {10} ELSE counts
             [] op.kind = "nl" -> Len(g.operands) = 1 /\ g.options = {<<"-b", "a">>}
             [] op.kind \in {"grep", "rg"} ->
                    /\ g.operands = <<op.pattern, op.path>> /\ Switch(g, "-F")
                    /\ op.quiet = Switch(g, "-q") /\ op.number = Switch(g, "-n")
                    /\ g.options \subseteq {<<o, "">> : o \in {"-F", "-q", "-n"}}

Questions == {W(sub) : sub \in {"status", "diff", "log", "rev-parse", "ls-files", "version"}}

\* What only looks, where the program is the tool of that name: listed by program,
\* and for git by subcommand.
OnlyLooks(line) ==
    /\ Name(line) = "git" =>
          LET g == GitReads(line)
          IN  \/ g.ok /\ g.words # <<>> /\ g.words[1] \in Questions
              \/ g.ok /\ g.words = <<W("branch"), F("--show-current")>>
              \/ line = <<W("git"), F("--version")>>
    /\ Name(line) = "sed" =>
          LET o == Getopt(line).operands IN o # <<>> /\ o[1] \in Selections
    /\ Name(line) = "rg" => \A o \in Getopt(line).options : o[1] # "--pre"
    /\ Name(line) \in {"go", "npm", "python", "node", "cargo", "make"} =>
          Len(line) = 2 /\ line[2] \in {W("version"), F("--version")}

\* git takes no value attached to -C or -c, and refuses the line.
Attached(line) == \E i \in DOMAIN line : line[i].flag \in {"-C", "-c"} /\ line[i].val # ""

\* A hooks path or a monitor of one's own: git runs what it names.
RunsAnother(line) ==
    Name(line) = "git" /\ \E v \in GitReads(line).config : v \in HookSettings /\ Settings[v].runs

\* The program is not looked up by its name: it may be any.
ByPath(line) == Len(PathOf(line[1].val)) > 1

-----------------------------------------------------------------------------
\* A path is absolute by its first part only; no number is spelled as nothing;
\* a command line begins with the name of its program.
PolicyAssumption ==
    /\ \A v \in DOMAIN Paths :
          Paths[v] \in Seq(STRING) /\ \A i \in 2..Len(Paths[v]) : Paths[v][i] # "/"
    /\ "" \notin DOMAIN Numerals /\ MaxArguments \in Nat
    /\ \A s \in Starts :
          /\ s \in Seq(Word) /\ s # <<>> /\ ~IsFlag(s[1])
          /\ Words[s] \subseteq Word

-----------------------------------------------------------------------------
Init == start \in Starts /\ argv = start

Add(w) ==
    /\ Len(argv) < Len(start) + MaxArguments
    /\ argv' = Append(argv, w)
    /\ UNCHANGED start

Next == \E w \in Words[start] : Add(w)

Spec == Init /\ [][Next]_<<argv, start>>

Invoked == NormalizeInvocation(argv)

\* Types: a command line that begins with one of Starts.
TypeOK ==
    /\ start \in Starts /\ SubSeq(argv, 1, Len(start)) = start
    /\ Len(argv) <= Len(start) + MaxArguments
    /\ \A i \in {Invoked} : i.cwd[1] = "/" /\ i.argv # <<>>

\* A line that may be answered, with what it is normalized to.
AsTool(invoked) ==
    IsReplayAllowed(invoked.argv) =>
        LET line == Called(argv)
            op   == parseWarmFileOperation(invoked.argv)
            rg   == parseBoundedRgRepoArgs(invoked.argv)
            g    == GitReads(line)
        IN  /\ Name(line) = "git" /\ ~Attached(line) /\ line # <<W("git"), F("--version")>> =>
                /\ g.ok /\ g.words = Tail(invoked.argv) /\ g.cwd = invoked.cwd
                /\ g.config \subseteq HookSettings
            /\ op # NoOperation => /\ SameRead(op, invoked.argv)
                                   /\ IsPrefix(Root, Walk(Root, PathOf(op.path)))
                                   /\ ToSet(Walk(Root, PathOf(op.path))) \cap Hidden = {}
            /\ rg.ok => /\ Getopt(line).operands = rg.pattern \o rg.paths
                        /\ \A i \in DOMAIN rg.paths :
                              IsPrefix(Root, Walk(Root, PathOf(rg.paths[i])))

\* Meaning: a command line that may be answered is understood as the tool of
\* that base name would read it.  Git's subcommand, its arguments and the
\* directory that a chain of -C leads to are those of the normalized line, and no
\* setting but of the hooks path and the monitor was dropped; a read of a file has
\* the same file, pattern, count and switches; and every file it names lies in the
\* tree.  Left out are -C and -c with the value attached, which git refuses.
ReadAsTool == AsTool(Invoked)

Harmless(words) == OnlyLooks(words) /\ Classify(words) \notin NeverFamilies \cup {"unknown"}

MayReplay(words) ==
    \/ IsReplayAllowed(words)
    \/ \E oracle, valid \in BOOLEAN : Decide(words, oracle, valid) = "replay"

\* What the line does as it was given: its program is found by its name, git
\* runs nothing that a setting names, and the whole of it only looks.
AsGiven(line) ==
    ~ByPath(line) /\ ~RunsAnother(Called(line)) /\ OnlyLooks(Called(line))

\* What the code does not look at.
OnTrust(line) == ByPath(line) \/ RunsAnother(Called(line)) \/ Attached(Called(line))

\* SQUIRE_CONTRACT.md: mutations, builds, tests, installs and unknown
\* operations are native.  Nothing with such an effect is ever decided to be
\* replayed: what the line is normalized to only looks, and so does the line
\* itself with all its options, except for three things that the code takes on
\* trust: that ./git or /x/cat is the tool of that name, that core.fsmonitor and
\* core.hooksPath name no program with an effect, and that git takes -Cd.
OnlyReads ==
    \A words \in {Invoked.argv} :
        MayReplay(words) => Harmless(words) /\ (AsGiven(argv) \/ OnTrust(argv))
=============================================================================
