-------------------------- MODULE VerdictContract --------------------------
(***************************************************************************)
(* What Squire Green promises about one published verdict, without saying  *)
(* how: judging a check looks as if its proven files had been read all at  *)
(* once, at one instant between the moment the judgement began and the     *)
(* moment it was published.  A verdict that did not wait for the watcher's *)
(* last events promises this only of the files it found, and may have      *)
(* taken others for missing.  (docs/GREEN.md, Scheduling.)                 *)
(***************************************************************************)
EXTENDS Integers

CONSTANTS Checks, Files, Proven

VARIABLES
    world,      \* the files' identities now
    judging,    \* judging[k]: every world there was since k's judgement began
    verdict     \* verdict[k]: the files k's published verdict is about, and
                \* whether it was made before the watcher's events were in

None == [files |-> [f \in Files |-> -1], late |-> FALSE]

Seen(k, w, missing) ==
    [f \in Files |-> IF f \notin Proven[k] THEN -1 ELSE IF f \in missing THEN 0 ELSE w[f]]

\* The verdicts about one instant.
About(k, w) ==
    {[files |-> Seen(k, w, {}), late |-> FALSE]}
        \cup {[files |-> Seen(k, w, missing), late |-> TRUE] : missing \in SUBSET Files}

Without(lost) == [k \in Checks |-> IF k \in lost THEN None ELSE verdict[k]]

Init ==
    /\ world \in [Files -> Nat]
    /\ judging = [k \in Checks |-> {}]
    /\ verdict = [k \in Checks |-> None]

Change ==
    /\ judging' = [k \in Checks |->
                      IF judging[k] = {} THEN {} ELSE judging[k] \cup {world'}]
    /\ UNCHANGED verdict

Begin(k) ==
    /\ judging[k] = {} /\ judging' = [judging EXCEPT ![k] = {world}]
    /\ UNCHANGED <<world, verdict>>

\* Verdicts may be withdrawn at any time.
Withdraw ==
    /\ \E lost \in SUBSET Checks : verdict' = Without(lost)
    /\ UNCHANGED <<world, judging>>

\* The judgement ends: with a verdict about one of the instants it spans, with
\* none, or leaving what was published before.
End(k) ==
    /\ judging[k] # {} /\ judging' = [judging EXCEPT ![k] = {}]
    /\ \E lost \in SUBSET Checks :
       \E v \in {None, verdict[k]} \cup UNION {About(k, w) : w \in judging[k]} :
          verdict' = [Without(lost) EXCEPT ![k] = v]
    /\ UNCHANGED world

\* Every judgement in progress is lost.
Crash ==
    /\ judging' = [k \in Checks |-> {}]
    /\ UNCHANGED <<world, verdict>>

Next == Change \/ Crash \/ Withdraw \/ \E k \in Checks : Begin(k) \/ End(k)

Spec == Init /\ [][Next]_<<world, judging, verdict>>
=============================================================================
