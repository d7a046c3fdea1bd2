----------------------------- MODULE HotClient -----------------------------
(***************************************************************************)
(* One engine that answers commands from what a maintainer has prepared:   *)
(* first from the published snapshot, mapped into memory and shared by its *)
(* goroutines, then over the socket of the maintainer, on one connection   *)
(* the goroutines share too, with a pause after a failure and after a miss.*)
(*                                                                         *)
(* A command's inputs have a version, which an edit raises; an output      *)
(* carries the version it belongs to.  The engine's lock, hotCacheMu, is   *)
(* held over a whole lookup in the snapshot and over a whole round trip.   *)
(***************************************************************************)
EXTENDS Naturals, Sequences, FiniteSets

CONSTANTS
    Callers,        \* the goroutines
    Commands,
    None,
    MaxVersion,     \* bound on the versions of a command's inputs
    MaxPublished    \* bound on publications

ASSUME HotClientAssumption ==
    /\ None \notin Callers \cup Commands /\ Commands # {}
    /\ MaxVersion \in Nat \ {0} /\ MaxPublished \in Nat

Versions == 1..MaxVersion
Outputs  == [Commands -> 0..MaxVersion]     \* 0: no output is prepared

VARIABLES
    version,        \* the version of each command's inputs
    up, resident,   \* the maintainer: whether it serves, and what it has prepared
    file,           \* the snapshot: its stamp (size and mtime), 0 for no file,
    published,      \* and its entries; how many there have been
    mapping,        \* the engine's mapping of it: the stamp it is filed under,
                    \* the entries, and whether the region is still mapped
    lock,           \* the holder of hotCacheMu
    conn,           \* hotCacheClient: open here and at the maintainer, the
                    \* requests and the frames under way, and (history) whether
                    \* a request that failed on it has left it in place
    down, misses,   \* the pauses that have not ended: all requests, and by command
    pc, call        \* each goroutine: where it is, and its request

maintainer == <<up, resident>>
disk       == <<file, published>>
pauses     == <<down, misses>>
vars == <<version, maintainer, disk, mapping, lock, conn, pauses, pc, call>>

NoConn    == [open |-> FALSE, peer |-> FALSE, left |-> FALSE,
              requests |-> <<>>, frames |-> <<>>]
NoMapping == [stamp |-> 0, entries |-> [c \in Commands |-> 0], mapped |-> FALSE]

\* A frame of the maintainer; output 0 is a miss.  The command is not in it.
Frames == [command : Commands \cup {None}, output : 0..MaxVersion]
Idle   == [command |-> None, output |-> 0]

NoCall == [command |-> CHOOSE c \in Commands : TRUE, epoch |-> 0, stamp |-> 0,
           hadConn |-> FALSE, retry |-> FALSE]

Files    == [stamp : 0..MaxPublished, entries : Outputs]
Mappings == [stamp : 0..MaxPublished, entries : Outputs, mapped : BOOLEAN]
Conns == [open : BOOLEAN, peer : BOOLEAN, left : BOOLEAN,
          requests : Seq(Commands), frames : Seq(Frames)]
Calls == [command : Commands, epoch : 0..MaxVersion, stamp : 0..MaxPublished,
          hadConn : BOOLEAN, retry : BOOLEAN]
Places == {"idle", "stat", "look", "map", "decode", "skip", "trip", "dial", "send",
           "read", "failed", "missed", "hit"}

TypeOK ==
    /\ version \in [Commands -> Versions]
    /\ up \in BOOLEAN /\ resident \in Outputs
    /\ file \in Files
    /\ published \in 0..MaxPublished
    /\ mapping \in Mappings
    /\ lock \in Callers \cup {None}
    /\ conn \in Conns
    /\ down \in BOOLEAN /\ misses \subseteq Commands
    /\ pc \in [Callers -> Places] /\ call \in [Callers -> Calls]

Init ==
    /\ version = [c \in Commands |-> 1]
    /\ up = FALSE /\ resident = [c \in Commands |-> 0]
    /\ file = [stamp |-> 0, entries |-> [c \in Commands |-> 0]] /\ published = 0
    /\ mapping = NoMapping /\ lock = None /\ conn = NoConn
    /\ down = FALSE /\ misses = {}
    /\ pc = [g \in Callers |-> "idle"]
    /\ call = [g \in Callers |-> NoCall]

Goto(g, place) == pc' = [pc EXCEPT ![g] = place]

\* The snapshot has no answer.
Misses(g) == Goto(g, "skip") /\ call' = [call EXCEPT ![g].stamp = 0]

\* What is left to do concerns the command only.
Outcome(g, place) ==
    /\ Goto(g, place)
    /\ call' = [call EXCEPT ![g] = [NoCall EXCEPT !.command = call[g].command]]

\* The request ends; without an output its command runs natively.
Ends(g) == Goto(g, "idle") /\ call' = [call EXCEPT ![g] = NoCall]

(***************************************************************************)
(* The snapshot: tryHotSnapshotReplay, readHotSnapshotResponse.            *)
(***************************************************************************)
\* preparedHotProof: the epoch of the command's inputs as they are.
Ask(g, c) ==
    /\ pc[g] = "idle"
    /\ call' = [call EXCEPT ![g] = [NoCall EXCEPT !.command = c, !.epoch = version[c]]]
    /\ Goto(g, "stat")
    /\ UNCHANGED <<version, maintainer, disk, mapping, lock, conn, pauses>>

Stat(g) ==
    /\ pc[g] = "stat"
    /\ IF file.stamp = 0
       THEN Misses(g)
       ELSE Goto(g, "look") /\ call' = [call EXCEPT ![g].stamp = file.stamp]
    /\ UNCHANGED <<version, maintainer, disk, mapping, lock, conn, pauses>>

\* Mutant: a mapping is used as long as there is one.
LookOnce(g) ==
    /\ pc[g] = "look" /\ lock = None
    /\ lock' = g
    /\ Goto(g, IF mapping.mapped THEN "decode" ELSE "map")
    /\ UNCHANGED <<version, maintainer, disk, mapping, conn, pauses, call>>

\* Under the lock: a mapping filed under another stamp is unmapped.
Look(g) ==
    /\ pc[g] = "look" /\ lock = None
    /\ lock' = g
    /\ IF mapping.stamp = call[g].stamp
       THEN Goto(g, "decode") /\ UNCHANGED mapping
       ELSE Goto(g, "map") /\ mapping' = [NoMapping EXCEPT !.stamp = mapping.stamp]
    /\ UNCHANGED <<version, maintainer, disk, conn, pauses, call>>

\* Mutant: a file that cannot be opened leaves the old mapping filed.
MapKeeps(g) ==
    /\ pc[g] = "map"
    /\ IF file.stamp = 0
       THEN lock' = None /\ Misses(g) /\ UNCHANGED mapping
       ELSE /\ mapping' = [stamp |-> call[g].stamp, entries |-> file.entries, mapped |-> TRUE]
            /\ Goto(g, "decode") /\ UNCHANGED <<lock, call>>
    /\ UNCHANGED <<version, maintainer, disk, conn, pauses>>

\* What is mapped is the file of now, filed under the stamp of before.
Map(g) ==
    /\ pc[g] = "map"
    /\ IF file.stamp = 0
       THEN mapping' = NoMapping /\ lock' = None /\ Misses(g)
       ELSE /\ mapping' = [stamp |-> call[g].stamp, entries |-> file.entries, mapped |-> TRUE]
            /\ Goto(g, "decode") /\ UNCHANGED <<lock, call>>
    /\ UNCHANGED <<version, maintainer, disk, conn, pauses>>

\* decodeHotSnapshotResponse: an entry of the command under the same epoch.
InSnapshot(g) == mapping.entries[call[g].command] = call[g].epoch

Decode(g) ==
    /\ pc[g] = "decode"
    /\ lock' = None
    /\ IF InSnapshot(g) THEN Ends(g) ELSE Misses(g)
    /\ UNCHANGED <<version, maintainer, disk, mapping, conn, pauses>>

(***************************************************************************)
(* The socket: the rest of tryDaemonReplay, hotCacheRoundTrip.             *)
(***************************************************************************)
shouldSkipHotCache(g) ==
    /\ pc[g] = "skip" /\ lock = None
    /\ IF down \/ call[g].command \in misses
       THEN Ends(g)
       ELSE Goto(g, "trip") /\ UNCHANGED call
    /\ UNCHANGED <<version, maintainer, disk, mapping, lock, conn, pauses>>

hotCacheRoundTrip(g) ==
    /\ pc[g] = "trip" /\ lock = None
    /\ lock' = g
    /\ call' = [call EXCEPT ![g].hadConn = conn.open]
    /\ Goto(g, IF conn.open THEN "send" ELSE "dial")
    /\ UNCHANGED <<version, maintainer, disk, mapping, conn, pauses>>

\* There is a second try when the connection was a kept one, and no third.
Retries(g) == call[g].hadConn /\ ~call[g].retry

\* Mutant: the connection the first try failed on is kept for the second.
KeepConn(g) ==
    IF Retries(g)
    THEN /\ call' = [call EXCEPT ![g].retry = TRUE]
         /\ Goto(g, IF conn.open THEN "send" ELSE "dial") /\ UNCHANGED <<lock, conn>>
    ELSE Outcome(g, "failed") /\ lock' = None /\ conn' = NoConn

\* The first try's connection is closed.  The second try's is not: it stays, with
\* the request that failed on it still to be answered.
RoundTripError(g) ==
    /\ conn' = IF call[g].retry THEN [conn EXCEPT !.left = conn.open] ELSE NoConn
    /\ IF Retries(g)
       THEN call' = [call EXCEPT ![g].retry = TRUE] /\ Goto(g, "dial") /\ UNCHANGED lock
       ELSE Outcome(g, "failed") /\ lock' = None

Dial(g) ==
    /\ pc[g] = "dial"
    /\ \/ /\ up
          /\ conn' = [NoConn EXCEPT !.open = TRUE, !.peer = TRUE]
          /\ Goto(g, "send") /\ UNCHANGED <<lock, call>>
       \/ ~up /\ RoundTripError(g)
    /\ UNCHANGED <<version, maintainer, disk, mapping, pauses>>

Send(g) ==
    /\ pc[g] = "send"
    /\ \/ /\ conn.peer
          /\ conn' = [conn EXCEPT !.requests = Append(@, call[g].command)]
          /\ Goto(g, "read") /\ UNCHANGED <<lock, call>>
       \/ ~conn.peer /\ RoundTripError(g)
    /\ UNCHANGED <<version, maintainer, disk, mapping, pauses>>

\* Mutant: the frame is taken to name its command.
ReadNamed(g) ==
    /\ pc[g] = "read" /\ conn.frames # <<>>
    /\ conn' = [conn EXCEPT !.frames = Tail(@)] /\ lock' = None
    /\ call' = [call EXCEPT ![g].command = Head(conn.frames).command]
    /\ Goto(g, "missed")
    /\ UNCHANGED <<version, maintainer, disk, mapping, pauses>>

\* Whatever frame comes next is the answer: a frame does not say of what.
Read(g) ==
    /\ pc[g] = "read"
    /\ \/ /\ conn.frames # <<>>
          /\ conn' = [conn EXCEPT !.frames = Tail(@)]
          /\ lock' = None
          /\ Outcome(g, IF Head(conn.frames).output # 0 THEN "hit" ELSE "missed")
       \/ conn.frames = <<>> /\ ~conn.peer /\ RoundTripError(g)
    /\ UNCHANGED <<version, maintainer, disk, mapping, pauses>>

\* Ten milliseconds have passed, or the caller has gone.
TimesOut(g) ==
    /\ pc[g] \in {"dial", "read"}
    /\ RoundTripError(g)
    /\ UNCHANGED <<version, maintainer, disk, mapping, pauses>>

recordHotCacheUnavailable(g) ==
    /\ pc[g] = "failed" /\ lock = None
    /\ down' = TRUE /\ UNCHANGED misses
    /\ Ends(g)
    /\ UNCHANGED <<version, maintainer, disk, mapping, lock, conn>>

recordHotCacheMiss(g) ==
    /\ pc[g] = "missed" /\ lock = None
    /\ misses' = misses \cup {call[g].command} /\ UNCHANGED down
    /\ Ends(g)
    /\ UNCHANGED <<version, maintainer, disk, mapping, lock, conn>>

recordHotCacheHit(g) ==
    /\ pc[g] = "hit" /\ lock = None
    /\ down' = FALSE /\ misses' = misses \ {call[g].command}
    /\ Ends(g)
    /\ UNCHANGED <<version, maintainer, disk, mapping, lock, conn>>

\* Mutant: the pause after a failure is for good.
MissesEnd ==
    /\ \E c \in misses : misses' = misses \ {c}
    /\ UNCHANGED <<version, maintainer, disk, mapping, lock, conn, down, pc, call>>

\* A tenth of a second has passed.
PauseEnds ==
    /\ \/ down /\ down' = FALSE /\ UNCHANGED misses
       \/ \E c \in misses : misses' = misses \ {c} /\ UNCHANGED down
    /\ UNCHANGED <<version, maintainer, disk, mapping, lock, conn, pc, call>>

(***************************************************************************)
(* The maintainer and the publishers of the snapshot.                      *)
(***************************************************************************)
Edit(c) ==
    /\ version[c] < MaxVersion
    /\ version' = [version EXCEPT ![c] = @ + 1]
    /\ UNCHANGED <<maintainer, disk, mapping, lock, conn, pauses, pc, call>>

Prepare(c) ==
    /\ up /\ resident[c] # version[c]
    /\ resident' = [resident EXCEPT ![c] = version[c]]
    /\ UNCHANGED <<version, up, disk, mapping, lock, conn, pauses, pc, call>>

\* publishHotSnapshot of the maintainer, or of a session that warms: a new file
\* is renamed into place, with the entries of whenever they were collected, or
\* removed when there is none.
Publish ==
    /\ published < MaxPublished /\ published' = published + 1
    /\ \E entries \in Outputs :
          /\ \E c \in Commands : entries[c] # 0
          /\ \A c \in Commands : entries[c] <= version[c]
          /\ file' = [stamp |-> published', entries |-> entries]
    /\ UNCHANGED <<version, maintainer, mapping, lock, conn, pauses, pc, call>>

Remove ==
    /\ file.stamp # 0
    /\ file' = [stamp |-> 0, entries |-> [c \in Commands |-> 0]]
    /\ UNCHANGED <<version, maintainer, published, mapping, lock, conn, pauses, pc, call>>

\* handleHotCacheConn: the proof is taken when the request is read.
Answer ==
    /\ conn.peer /\ conn.requests # <<>>
    /\ LET c == Head(conn.requests)
           output == IF resident[c] = version[c] THEN version[c] ELSE 0
       IN  conn' = [conn EXCEPT !.requests = Tail(@),
                                !.frames = Append(@, [command |-> c, output |-> output])]
    /\ UNCHANGED <<version, maintainer, disk, mapping, lock, pauses, pc, call>>

\* Thirty seconds without a request: a frame that says miss, and the end.
IdleTimeout ==
    /\ conn.peer
    /\ conn' = [conn EXCEPT !.frames = Append(@, Idle), !.peer = FALSE, !.requests = <<>>]
    /\ UNCHANGED <<version, maintainer, disk, mapping, lock, pauses, pc, call>>

Starts ==
    /\ ~up /\ up' = TRUE
    /\ UNCHANGED <<version, resident, disk, mapping, lock, conn, pauses, pc, call>>

Stops ==
    /\ up /\ up' = FALSE
    /\ resident' = [c \in Commands |-> 0]
    /\ conn' = [conn EXCEPT !.peer = FALSE, !.requests = <<>>]
    /\ UNCHANGED <<version, disk, mapping, lock, pauses, pc, call>>

(***************************************************************************)
(* The specification.                                                      *)
(***************************************************************************)
CallerStep(g) ==
    \/ \E c \in Commands : Ask(g, c)
    \/ Stat(g) \/ Look(g) \/ Map(g) \/ Decode(g)
    \/ shouldSkipHotCache(g) \/ hotCacheRoundTrip(g) \/ Dial(g) \/ Send(g) \/ Read(g)
    \/ recordHotCacheUnavailable(g) \/ recordHotCacheMiss(g) \/ recordHotCacheHit(g)

Next ==
    \/ \E g \in Callers : CallerStep(g) \/ TimesOut(g)
    \/ PauseEnds
    \/ \E c \in Commands : Edit(c) \/ Prepare(c)
    \/ Publish \/ Remove \/ Answer \/ IdleTimeout \/ Starts \/ Stops

Spec == Init /\ [][Next]_vars

\* Goroutines run, and a mutex of Go passes to one that waits in the end; time
\* passes, and a maintainer that has a request answers it.
Fairness ==
    /\ \A g \in Callers : SF_vars(CallerStep(g))
    /\ WF_vars(PauseEnds) /\ WF_vars(Answer)

FairSpec == Spec /\ Fairness

(***************************************************************************)
(* The properties.                                                         *)
(***************************************************************************)
\* A frame does not say which request it answers, and a request that timed out is
\* still answered some time: the frame a caller reads is of its own request, and
\* no output in it is older than that request.  It is so on every connection but
\* one that a failed second try has left (ipc_cache.go:213 returns its error
\* without the close of line 209): from then on each caller gets the answer to
\* the request before its own, another command's included.
OwnAnswer ==
    \A g \in Callers :
        pc[g] = "read" /\ ~conn.left /\ conn.frames # <<>> /\ Head(conn.frames) # Idle =>
            LET frame == Head(conn.frames)
            IN  /\ frame.command = call[g].command
                /\ frame.output # 0 => frame.output >= call[g].epoch

\* No entry is read from a region that has been unmapped, by this goroutine or by
\* another: a process that did would be killed.
MappedRead == \A g \in Callers : pc[g] = "decode" => mapping.mapped /\ lock = g

\* A lookup during which the snapshot was not replaced is made in the snapshot
\* that is there, whatever versions other goroutines have mapped in between.
SnapshotFound ==
    \A g \in Callers :
        pc[g] = "decode" /\ call[g].stamp = file.stamp => mapping.entries = file.entries

\* The caller has an output.
Hit(g) == pc[g] = "hit" \/ (pc[g] = "decode" /\ InSnapshot(g))

Trouble ==
    \/ \E c \in Commands : Edit(c)
    \/ \E g \in Callers : TimesOut(g)
    \/ IdleTimeout \/ Stops

\* When a maintainer that knows the outputs stays and answers in time, every
\* caller gets outputs again: no pause, miss or failure of before, and no request
\* still unanswered on a connection that was left, keeps one away from it.  (Whose
\* outputs they are is OwnAnswer's question.)
EventuallyAnswered ==
    (<>[](up /\ resident = version) /\ <>[][~Trouble]_vars)
        => \A g \in Callers : []<>Hit(g)
=============================================================================
