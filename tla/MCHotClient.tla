---------------------------- MODULE MCHotClient ----------------------------
(* Two goroutines in one of two surroundings, which together hold what each *)
(* part of the client can meet and neither of which is too large: snapshots *)
(* that come and go over a changing command, with no maintainer; and a      *)
(* maintainer without a snapshot, asked two commands, one of which changes. *)
EXTENDS HotClient

CONSTANT Main       \* the command that may change

VARIABLE surroundings

AsksMain(g) == pc'[g] # "idle" => call'[g].command = Main

Within ==
    \/ /\ surroundings = "snapshots"
       /\ ~up' /\ \A g \in Callers : AsksMain(g)
    \/ /\ surroundings = "maintainer"
       /\ published' = 0 /\ \A c \in Commands \ {Main} : version'[c] = 1

MCInit == Init /\ surroundings \in {"snapshots", "maintainer"}
MCNext == Next /\ Within /\ UNCHANGED surroundings

MCSpec == MCInit /\ [][MCNext]_<<vars, surroundings>> /\ Fairness
=============================================================================
