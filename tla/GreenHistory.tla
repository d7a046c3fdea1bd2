---------------------------- MODULE GreenHistory ----------------------------
(***************************************************************************)
(* Green with a history of the worlds each run has lived through, and the  *)
(* mapping under which it implements VerdictContract.                      *)
(***************************************************************************)
EXTENDS Green

VARIABLE span       \* span[k]: the worlds since k's mutation guard was started

Spanning(k) == pc[k] \in Guarding

HInit == Init /\ span = [k \in Checks |-> {}]

HNext ==
    /\ Next
    /\ span' = [k \in Checks |->
                   IF Spanning(k)' THEN span[k] \cup {tok'} ELSE {}]

HSpec == HInit /\ [][HNext]_<<vars, span>>

NoVerdict == [files |-> Blank, late |-> FALSE]

VerdictOf(k) ==
    IF recs[k].state \in Verdict
    THEN [files |-> recs[k].scope.toks, late |-> recs[k].late] ELSE NoVerdict

Contract == INSTANCE VerdictContract
                WITH world <- tok, judging <- span,
                     verdict <- [k \in Checks |-> VerdictOf(k)]

\* runCheck as a whole: two non-atomic proof walks, the native run and the
\* guard between them amount to judging the files at a single instant, as far
\* as the guard had been told by then of those that came meanwhile.
ImplementsContract == Contract!Spec
=============================================================================
