-------------------------- MODULE MCComposedShell ---------------------------
EXTENDS ComposedShell, TLC

\* A file of three lines, the last one without a newline.
OneFile == [f |-> <<98, 10, 97, 10, 98>>]

Read(op)   == [kind |-> "read", file |-> "f", op |-> op]
Filter(op) == [kind |-> "filter", op |-> op]

\* cat f, nl -ba f, printf a, git diff --check, sed -n '2p;1p',
\* grep -F z, wc -l and sort.
SomeCommands ==
    [catf   |-> Read([kind |-> "cat"]),
     nlf    |-> Read([kind |-> "nl"]),
     printf |-> [kind |-> "printf", text |-> <<97>>],
     git    |-> [kind |-> "replay", prepared |-> TRUE,
                 out |-> [stdout |-> <<97>>, stderr |-> <<101>>, exit |-> 2]],
     sed    |-> Filter([kind |-> "sed",
                        selection |-> parseSedPrintSelection(
                            <<[start |-> 2, end |-> 0], [start |-> 1, end |-> 1]>>)]),
     grep   |-> Filter([kind |-> "grep", pattern |-> <<122>>, quiet |-> FALSE]),
     wc     |-> Filter([kind |-> "wc"]),
     sort   |-> Filter([kind |-> "sort"])]

\* The same, and grep -n '2p;1p', which finds nothing in what it is given.
AllCommands ==
    SomeCommands @@
    [grepn |-> [kind |-> "foreign", selection |-> SomeCommands.sed.op.selection,
                out |-> [stdout |-> <<>>, stderr |-> <<>>, exit |-> 1]]]
=============================================================================
