--------------------------- MODULE MCGreenInputs ----------------------------
(* Repositories and patterns for GreenInputs.                               *)
EXTENDS GreenInputs

Py == {"a.py", "b.py"}
Every == Py \cup {"src", "build", "sub", ".squire", "checks.toml", Probe}

\* In the first tree .git is a file, as it is in a linked worktree.
SmallTrees == {
    {<<"a.py">>, <<"src", "a.py">>, <<"src", "sub", "b.py">>, <<".git">>},
    {<<"src", "a.py">>, <<"build", "a.py">>, <<"build", "sub", "b.py">>,
     <<".squire", "checks.toml">>, <<".git", "a.py">>}}

AllPy  == <<Deep, Glob(Py)>>
SrcPy  == <<Name("src"), Deep, Glob(Py)>>
OneTop == <<Name("src"), Name("a.py")>>
GitFile == <<Name(".git")>>
SubPy  == <<Name("src"), Name("sub"), Glob(Py)>>

\* Excludes that end in "**" mean a whole subtree; *.py in one directory does
\* not match the probe.
SubtreeExcludes == {{}, {<<Name("build"), Deep>>}, {<<Deep, Name("sub"), Deep>>},
                    {<<Name("src"), Glob(Py)>>}}

\* build/* matches what is directly in build, and nothing below.
ShallowExcludes == {{<<Name("build"), Glob(Every)>>}}

Includes == {{AllPy}, {SrcPy}, {OneTop, SubPy, GitFile}}

SubtreePatterns == [include : Includes, exclude : SubtreeExcludes]
ShallowPatterns == [include : {{AllPy}}, exclude : ShallowExcludes]
=============================================================================
