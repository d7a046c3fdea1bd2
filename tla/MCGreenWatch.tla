---------------------------- MODULE MCGreenWatch ----------------------------
(* A tree for GreenWatch: one input in src, one in src/sub.                 *)
EXTENDS GreenWatch

Tree == {<<>>, <<"src">>, <<"src", "sub">>}
Leaves == {<<"src", "a.py">>, <<"src", "sub", "b.py">>}

\* src/**/*.py: no directory matches it.
PyOnly == {<<Name("src"), Deep, Glob({"a.py", "b.py"})>>}
=============================================================================
