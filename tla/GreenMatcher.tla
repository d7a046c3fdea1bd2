---------------------------- MODULE GreenMatcher ----------------------------
(***************************************************************************)
(* inputMatcher of internal/green: which paths a check's patterns match    *)
(* and which directories its walks enter.  A path is a sequence of names;  *)
(* a pattern is a sequence of segments, each "**", a literal name or a     *)
(* glob such as *.py, known by the names it matches.                       *)
(***************************************************************************)
EXTENDS Integers, Sequences, SequencesExt

Probe == "__squire_probe__"

Deep       == [kind |-> "deep", names |-> {}]
Name(n)    == [kind |-> "literal", names |-> {n}]
Glob(set)  == [kind |-> "glob", names |-> set]

\* A name is taken as it is written.
IsPattern(pattern) ==
    /\ pattern \in Seq([kind : {"deep", "literal", "glob"}, names : SUBSET STRING])
    /\ \A i \in DOMAIN pattern :
         pattern[i].kind = "literal" => \E n \in pattern[i].names : pattern[i].names = {n}

\* doublestar.Match: "**" matches any number of names, none included.  reached[i]
\* is how many names of the path the first i segments can have matched.
Match(pattern, path) ==
    LET reached[i \in 0..Len(pattern)] ==
            IF i = 0 THEN {0}
            ELSE IF pattern[i].kind = "deep"
            THEN {j \in 0..Len(path) : \E k \in reached[i - 1] : k <= j}
            ELSE {j \in 1..Len(path) : path[j] \in pattern[i].names /\ j - 1 \in reached[i - 1]}
    IN  Len(path) \in reached[Len(pattern)]

matches(include, exclude, path) ==
    /\ \E p \in include : Match(p, path)
    /\ \A p \in exclude : ~Match(p, path)

literalPatternPrefix(pattern) ==
    LET meta == {i \in DOMAIN pattern : pattern[i].kind # "literal"}
        stop == IF meta = {} THEN Len(pattern) + 1
                ELSE CHOOSE i \in meta : \A j \in meta : i <= j
    IN  [i \in 1..(stop - 1) |-> CHOOSE n \in pattern[i].names : TRUE]

\* Mutant: directories above the literal prefix are forgotten.
BelowPrefix(include, dir) ==
    \E p \in include : IsPrefix(literalPatternPrefix(p), dir)

\* The directory is the root, above the literal prefix, or at or below it.
couldContain(include, dir) ==
    \E p \in include : LET prefix == literalPatternPrefix(p)
                       IN  IsPrefix(dir, prefix) \/ IsPrefix(prefix, dir)

\* An exclude that matches the directory, or a name directly in it, prunes it.
excludesSubtree(exclude, dir) ==
    \E p \in exclude : Match(p, dir) \/ Match(p, Append(dir, Probe))

Relevant(include, exclude, dir) ==
    couldContain(include, dir) /\ ~excludesSubtree(exclude, dir)

\* Git's own directory is left out of every walk.
Git == <<".git">>
=============================================================================
