-------------------------- MODULE HotClientProofs ---------------------------
(***************************************************************************)
(* Proofs about HotClient, for every number of goroutines, commands,       *)
(* versions and publications: type correctness, that no lookup reads a     *)
(* region that has been unmapped, that a lookup while the file stays is    *)
(* made in that file, and that the frame a caller reads is its own unless  *)
(* a failed second try has left the connection.                            *)
(***************************************************************************)
EXTENDS HotClient, SequenceTheorems, TLAPS

(***************************************************************************)
(* Type correctness.                                                       *)
(***************************************************************************)
LEMMA NoCallType == NoCall \in Calls
BY HotClientAssumption DEF NoCall, Calls

\* One field of the request of one goroutine changes.
LEMMA CallTypes ==
    ASSUME call \in [Callers -> Calls], NEW g \in Callers
    PROVE  /\ [call EXCEPT ![g] = NoCall] \in [Callers -> Calls]
           /\ \A b \in BOOLEAN : [call EXCEPT ![g].hadConn = b] \in [Callers -> Calls]
           /\ \A n \in 0..MaxPublished : [call EXCEPT ![g].stamp = n] \in [Callers -> Calls]
           /\ \A b \in BOOLEAN : [call EXCEPT ![g].retry = b] \in [Callers -> Calls]
           /\ call[g].command \in Commands
<1>1. ASSUME NEW b \in BOOLEAN PROVE [call[g] EXCEPT !.hadConn = b] \in Calls
  BY DEF Calls
<1>2. ASSUME NEW n \in 0..MaxPublished PROVE [call[g] EXCEPT !.stamp = n] \in Calls
  BY DEF Calls
<1>3. ASSUME NEW b \in BOOLEAN PROVE [call[g] EXCEPT !.retry = b] \in Calls
  BY DEF Calls
<1>4. call[g].command \in Commands
  BY DEF Calls
<1>q. QED BY <1>1, <1>2, <1>3, <1>4, NoCallType

LEMMA OutcomeType ==
    ASSUME call \in [Callers -> Calls], NEW g \in Callers, NEW place, Outcome(g, place)
    PROVE  call' \in [Callers -> Calls]
<1>1. [NoCall EXCEPT !.command = call[g].command] \in Calls
  BY NoCallType, CallTypes DEF Calls
<1>q. QED BY <1>1 DEF Outcome

LEMMA ErrorType ==
    ASSUME TypeOK, NEW g \in Callers, RoundTripError(g)
    PROVE  /\ conn' \in Conns /\ lock' \in Callers \cup {None}
           /\ pc' \in [Callers -> Places] /\ call' \in [Callers -> Calls]
<1>1. conn' \in Conns
  <2>1. conn.open \in BOOLEAN /\ NoConn \in Conns
    BY DEF TypeOK, NoConn, Conns
  <2>2. [conn EXCEPT !.left = conn.open] \in Conns
    BY <2>1 DEF TypeOK, Conns
  <2>q. QED BY <2>1, <2>2 DEF RoundTripError
<1>2. call' \in [Callers -> Calls]
  BY CallTypes, OutcomeType DEF RoundTripError, TypeOK
<1>3. pc' \in [Callers -> Places] /\ lock' \in Callers \cup {None}
  BY DEF RoundTripError, Outcome, TypeOK, Goto, Places
<1>q. QED BY <1>1, <1>2, <1>3

LEMMA MappingTypes ==
    ASSUME TypeOK
    PROVE  /\ NoMapping \in Mappings
           /\ [NoMapping EXCEPT !.stamp = mapping.stamp] \in Mappings
           /\ \A n \in 0..MaxPublished :
                 [stamp |-> n, entries |-> file.entries, mapped |-> TRUE] \in Mappings
<1>1. [c \in Commands |-> 0] \in Outputs /\ 0 \in 0..MaxPublished
  BY HotClientAssumption DEF Outputs
<1>2. mapping.stamp \in 0..MaxPublished /\ file.entries \in Outputs
  BY DEF TypeOK, Mappings, Files
<1>q. QED BY <1>1, <1>2 DEF NoMapping, Mappings

LEMMA TypeInit == Init => TypeOK
<1> SUFFICES ASSUME Init PROVE TypeOK
  OBVIOUS
<1>1. [c \in Commands |-> 0] \in Outputs /\ 0 \in 0..MaxPublished
  BY HotClientAssumption DEF Outputs
<1>2. file \in Files /\ mapping \in Mappings /\ conn \in Conns
  BY <1>1 DEF Init, NoMapping, NoConn, Files, Mappings, Conns
<1>3. call \in [Callers -> Calls] /\ pc \in [Callers -> Places]
  BY NoCallType DEF Init, Places
<1>4. version \in [Commands -> Versions] /\ resident \in Outputs
  BY <1>1, HotClientAssumption DEF Init, Versions
<1>q. QED BY <1>1, <1>2, <1>3, <1>4, HotClientAssumption DEF Init, TypeOK

\* The snapshot.
LEMMA TypeSnapshot ==
    ASSUME TypeOK, NEW g \in Callers,
           \/ \E c \in Commands : Ask(g, c)
           \/ Stat(g) \/ Look(g) \/ Map(g) \/ Decode(g)
    PROVE  TypeOK'
<1> USE DEF TypeOK, Goto, Misses, Ends, Places, maintainer, disk, pauses
<1>0. 0 \in 0..MaxPublished
  BY HotClientAssumption
<1>1. ASSUME NEW c \in Commands, Ask(g, c) PROVE TypeOK'
  <2>0. version[c] \in 0..MaxVersion
    BY DEF Versions
  <2>1. [NoCall EXCEPT !.command = c, !.epoch = version[c]] \in Calls
    BY <2>0, NoCallType DEF Calls
  <2>2. call' \in [Callers -> Calls]
    BY <1>1, <2>1 DEF Ask
  <2>3. pc' \in [Callers -> Places]
    BY <1>1 DEF Ask
  <2>q. QED BY <1>1, <2>2, <2>3 DEF Ask
<1>2. CASE Stat(g)
  <2>1. file.stamp \in 0..MaxPublished
    BY DEF Files
  <2>2. call' \in [Callers -> Calls]
    BY <1>0, <1>2, <2>1, CallTypes DEF Stat
  <2>3. pc' \in [Callers -> Places]
    BY <1>2 DEF Stat
  <2>q. QED BY <1>2, <2>2, <2>3 DEF Stat
<1>3. CASE Look(g)
  <2>1. mapping' \in Mappings
    BY <1>3, MappingTypes DEF Look
  <2>2. pc' \in [Callers -> Places]
    BY <1>3 DEF Look
  <2>q. QED BY <1>3, <2>1, <2>2 DEF Look
<1>4. CASE Map(g)
  <2>1. call[g].stamp \in 0..MaxPublished
    BY DEF Calls
  <2>2. mapping' \in Mappings
    BY <1>4, <2>1, MappingTypes DEF Map
  <2>3. call' \in [Callers -> Calls]
    BY <1>0, <1>4, CallTypes DEF Map
  <2>4. pc' \in [Callers -> Places] /\ lock' \in Callers \cup {None}
    BY <1>4 DEF Map
  <2>q. QED BY <1>4, <2>2, <2>3, <2>4 DEF Map
<1>5. CASE Decode(g)
  <2>1. call' \in [Callers -> Calls]
    BY <1>0, <1>5, CallTypes DEF Decode
  <2>2. pc' \in [Callers -> Places]
    BY <1>5 DEF Decode
  <2>q. QED BY <1>5, <2>1, <2>2 DEF Decode
<1>q. QED BY <1>1, <1>2, <1>3, <1>4, <1>5

\* The socket.
LEMMA TypeSocket ==
    ASSUME TypeOK, NEW g \in Callers,
           \/ shouldSkipHotCache(g) \/ hotCacheRoundTrip(g) \/ Dial(g) \/ Send(g)
           \/ Read(g) \/ TimesOut(g)
    PROVE  TypeOK'
<1> USE DEF TypeOK, maintainer, disk, pauses
<1>1. CASE shouldSkipHotCache(g)
  BY <1>1, CallTypes DEF shouldSkipHotCache, Ends, Goto, Places
<1>2. CASE hotCacheRoundTrip(g)
  <2>1. conn.open \in BOOLEAN
    BY DEF Conns
  <2>2. call' \in [Callers -> Calls]
    BY <1>2, <2>1, CallTypes DEF hotCacheRoundTrip
  <2>3. pc' \in [Callers -> Places]
    BY <1>2 DEF hotCacheRoundTrip, Goto, Places
  <2>q. QED BY <1>2, <2>2, <2>3 DEF hotCacheRoundTrip
<1>3. CASE Dial(g)
  <2>1. CASE RoundTripError(g)
    BY <1>3, <2>1, ErrorType DEF Dial
  <2>2. CASE ~RoundTripError(g)
    <3>1. [NoConn EXCEPT !.open = TRUE, !.peer = TRUE] \in Conns
      <4>1. NoConn \in Conns
        BY DEF NoConn, Conns
      <4>2. [NoConn EXCEPT !.open = TRUE] \in Conns
        BY <4>1 DEF Conns
      <4>q. QED BY <4>2 DEF Conns
    <3>2. conn' \in Conns /\ UNCHANGED <<lock, call>>
      BY <1>3, <2>2, <3>1 DEF Dial
    <3>3. pc' \in [Callers -> Places]
      BY <1>3, <2>2 DEF Dial, Goto, Places
    <3>q. QED BY <1>3, <3>2, <3>3 DEF Dial
  <2>q. QED BY <2>1, <2>2
<1>4. CASE Send(g)
  <2>1. CASE RoundTripError(g)
    BY <1>4, <2>1, ErrorType DEF Send
  <2>2. CASE ~RoundTripError(g)
    <3>1. call[g].command \in Commands /\ conn.requests \in Seq(Commands)
      BY CallTypes DEF Conns
    <3>2. Append(conn.requests, call[g].command) \in Seq(Commands)
      BY <3>1
    <3>3. conn' \in Conns
      BY <1>4, <2>2, <3>2 DEF Send, Conns
    <3>4. pc' \in [Callers -> Places] /\ UNCHANGED <<lock, call>>
      BY <1>4, <2>2 DEF Send, Goto, Places
    <3>q. QED BY <1>4, <3>3, <3>4 DEF Send
  <2>q. QED BY <2>1, <2>2
<1>5. CASE Read(g)
  <2>1. CASE RoundTripError(g)
    BY <1>5, <2>1, ErrorType DEF Read
  <2>2. CASE ~RoundTripError(g)
    <3>1. conn.frames # <<>> /\ conn' = [conn EXCEPT !.frames = Tail(@)]
      BY <1>5, <2>2 DEF Read
    <3>2. conn.frames \in Seq(Frames)
      BY DEF Conns
    <3>3. Head(conn.frames) \in Frames /\ Tail(conn.frames) \in Seq(Frames)
      BY <3>1, <3>2
    <3>4. conn' \in Conns
      BY <3>1, <3>3 DEF Conns
    <3>6. call' \in [Callers -> Calls]
      BY <1>5, <2>2, OutcomeType DEF Read
    <3>7. pc' \in [Callers -> Places] /\ lock' = None
      BY <1>5, <2>2 DEF Read, Outcome, Goto, Places
    <3>q. QED BY <1>5, <3>4, <3>6, <3>7 DEF Read
  <2>q. QED BY <2>1, <2>2
<1>6. CASE TimesOut(g)
  BY <1>6, ErrorType DEF TimesOut
<1>q. QED BY <1>1, <1>2, <1>3, <1>4, <1>5, <1>6

\* The pauses.
LEMMA TypeRecord ==
    ASSUME TypeOK, NEW g \in Callers,
           recordHotCacheUnavailable(g) \/ recordHotCacheMiss(g) \/ recordHotCacheHit(g)
    PROVE  TypeOK'
<1>1. call' \in [Callers -> Calls]
  BY CallTypes DEF TypeOK, recordHotCacheUnavailable, recordHotCacheMiss,
     recordHotCacheHit, Ends
<1>2. pc' \in [Callers -> Places]
  BY DEF TypeOK, recordHotCacheUnavailable, recordHotCacheMiss, recordHotCacheHit,
     Ends, Goto, Places
<1>3. call[g].command \in Commands
  BY DEF TypeOK, Calls
<1>4. down' \in BOOLEAN /\ misses' \subseteq Commands
  BY <1>3 DEF TypeOK, recordHotCacheUnavailable, recordHotCacheMiss, recordHotCacheHit
<1>5. UNCHANGED <<version, maintainer, disk, mapping, lock, conn>>
  BY DEF recordHotCacheUnavailable, recordHotCacheMiss, recordHotCacheHit
<1>q. QED BY <1>1, <1>2, <1>4, <1>5 DEF TypeOK, maintainer, disk

\* The maintainer has closed the connection.
LEMMA ClosedType ==
    ASSUME conn \in Conns
    PROVE  \A frames \in Seq(Frames) :
              [conn EXCEPT !.frames = frames, !.peer = FALSE, !.requests = <<>>] \in Conns
<1> TAKE frames \in Seq(Frames)
<1>1. <<>> \in Seq(Commands) /\ FALSE \in BOOLEAN
  OBVIOUS
<1>2. [conn EXCEPT !.frames = frames] \in Conns
  BY DEF Conns
<1>3. [conn EXCEPT !.frames = frames, !.peer = FALSE] \in Conns
  BY <1>1, <1>2 DEF Conns
<1>q. QED BY <1>1, <1>3 DEF Conns

\* The maintainer, the publishers and time.
LEMMA TypeOthers ==
    ASSUME TypeOK,
           \/ PauseEnds
           \/ \E c \in Commands : Edit(c) \/ Prepare(c)
           \/ Publish \/ Remove \/ Answer \/ IdleTimeout \/ Starts \/ Stops
    PROVE  TypeOK'
<1> USE HotClientAssumption DEF TypeOK, maintainer, disk, pauses
<1>1. CASE PauseEnds
  BY <1>1 DEF PauseEnds
<1>2. ASSUME NEW c \in Commands, Edit(c) PROVE TypeOK'
  <2>1. version[c] + 1 \in Versions
    BY <1>2 DEF Edit, Versions
  <2>2. version' \in [Commands -> Versions]
    BY <1>2, <2>1 DEF Edit
  <2>q. QED BY <1>2, <2>2 DEF Edit
<1>3. ASSUME NEW c \in Commands, Prepare(c) PROVE TypeOK'
  <2>1. resident' \in Outputs
    BY <1>3 DEF Prepare, Versions, Outputs
  <2>q. QED BY <1>3, <2>1 DEF Prepare
<1>4. CASE Publish
  <2>1. published' \in 0..MaxPublished
    BY <1>4 DEF Publish
  <2>2. file' \in Files
    BY <1>4, <2>1 DEF Publish, Files
  <2>q. QED BY <1>4, <2>1, <2>2 DEF Publish
<1>5. CASE Remove
  <2>1. file' \in Files
    BY <1>5 DEF Remove, Files, Outputs
  <2>q. QED BY <1>5, <2>1 DEF Remove
<1>6. CASE Answer
  <2>1. conn.requests # <<>> /\ conn.requests \in Seq(Commands)
    BY <1>6 DEF Answer, Conns
  <2>2. Head(conn.requests) \in Commands /\ Tail(conn.requests) \in Seq(Commands)
    BY <2>1
  <2>3. \A c \in Commands : version[c] \in 0..MaxVersion
    BY DEF Versions
  <2>4. PICK frame \in Frames : conn' = [conn EXCEPT !.requests = Tail(@),
                                                     !.frames = Append(@, frame)]
    <3> DEFINE c == Head(conn.requests)
               frame == [command |-> c, output |-> IF resident[c] = version[c] THEN version[c] ELSE 0]
    <3>1. 0 \in 0..MaxVersion
      OBVIOUS
    <3>2. frame \in Frames
      BY <2>2, <2>3, <3>1 DEF Frames
    <3>q. QED BY <1>6, <3>2 DEF Answer
  <2>5. Append(conn.frames, frame) \in Seq(Frames)
    <3>1. conn.frames \in Seq(Frames)
      BY DEF Conns
    <3>q. QED BY <3>1
  <2>6. conn' \in Conns
    BY <2>2, <2>4, <2>5 DEF Conns
  <2>q. QED BY <1>6, <2>6 DEF Answer
<1>7. CASE IdleTimeout
  <2>1. Idle \in Frames
    BY DEF Idle, Frames
  <2>2. Append(conn.frames, Idle) \in Seq(Frames)
    <3>1. conn.frames \in Seq(Frames)
      BY DEF Conns
    <3>q. QED BY <2>1, <3>1
  <2>3. conn' \in Conns
    BY <1>7, <2>2, ClosedType DEF IdleTimeout
  <2>q. QED BY <1>7, <2>3 DEF IdleTimeout
<1>8. CASE Starts
  BY <1>8 DEF Starts
<1>9. CASE Stops
  <2>1. conn' \in Conns
    <3>1. conn' = [conn EXCEPT !.peer = FALSE, !.requests = <<>>] /\ <<>> \in Seq(Commands)
      BY <1>9 DEF Stops
    <3>2. [conn EXCEPT !.peer = FALSE] \in Conns
      BY DEF Conns
    <3>q. QED BY <3>1, <3>2 DEF Conns
  <2>2. resident' \in Outputs
    BY <1>9 DEF Stops, Outputs
  <2>q. QED BY <1>9, <2>1, <2>2 DEF Stops
<1>q. QED BY <1>1, <1>2, <1>3, <1>4, <1>5, <1>6, <1>7, <1>8, <1>9

LEMMA TypeStep == TypeOK /\ [Next]_vars => TypeOK'
<1> SUFFICES ASSUME TypeOK, [Next]_vars PROVE TypeOK'
  OBVIOUS
<1>1. ASSUME NEW g \in Callers, CallerStep(g) \/ TimesOut(g) PROVE TypeOK'
  BY <1>1, TypeSnapshot, TypeSocket, TypeRecord DEF CallerStep
<1>2. CASE UNCHANGED vars
  BY <1>2 DEF TypeOK, vars, maintainer, disk, pauses
<1>q. QED BY <1>1, <1>2, TypeOthers DEF Next

\* Every variable of HotClient keeps its type.
THEOREM TypeCorrect == Spec => []TypeOK
BY TypeInit, TypeStep, PTL DEF Spec

(***************************************************************************)
(* The lock and the mapping.                                               *)
(***************************************************************************)
\* Whoever is within a lookup or a round trip holds the lock.
Holding == {"map", "decode", "dial", "send", "read"}
Locked  == \A g \in Callers : pc[g] \in Holding => lock = g

\* A mapping is filed under a stamp only while it is mapped, or while the holder
\* of the lock is about to map it again or to drop it.
Filed ==
    /\ \A g \in Callers : pc[g] \in {"look", "map", "decode"} => call[g].stamp # 0
    /\ \A g \in Callers : pc[g] = "decode" => mapping.mapped
    /\ mapping.stamp # 0 /\ ~mapping.mapped => \E g \in Callers : pc[g] = "map"

LockInv == Locked /\ Filed

LEMMA LockInit == Init => LockInv
BY DEF Init, LockInv, Locked, Filed, Holding, NoMapping

\* A step of g from a place that needs no lock, or to one, leaves the others to
\* themselves.
LEMMA LockSnapshot ==
    ASSUME TypeOK, LockInv, NEW g \in Callers,
           \/ \E c \in Commands : Ask(g, c)
           \/ Stat(g) \/ Look(g) \/ Map(g) \/ Decode(g)
    PROVE  LockInv'
<1> USE DEF TypeOK, LockInv, Locked, Filed, Holding, Goto, Misses, Ends, disk
<1>0. None \notin Callers
  BY HotClientAssumption
<1>1. CASE \E c \in Commands : Ask(g, c)
  BY <1>1 DEF Ask
<1>2. CASE Stat(g)
  BY <1>2 DEF Stat, Calls
<1>3. CASE Look(g)
  <2>1. \A h \in Callers : pc[h] \notin Holding
    BY <1>0, <1>3 DEF Look
  <2>2. Locked'
    BY <1>3, <2>1 DEF Look
  <2>3. CASE mapping.stamp = call[g].stamp
    <3>1. call[g].stamp # 0
      BY <1>3 DEF Look
    <3>2. mapping.mapped
      BY <2>1, <2>3, <3>1
    <3>q. QED BY <1>3, <2>1, <2>2, <2>3, <3>2 DEF Look
  <2>4. CASE mapping.stamp # call[g].stamp
    <3>1. pc' = [pc EXCEPT ![g] = "map"] /\ UNCHANGED call
      BY <1>3, <2>4 DEF Look
    <3>q. QED BY <1>3, <2>1, <2>2, <3>1 DEF Look
  <2>q. QED BY <2>3, <2>4
<1>4. CASE Map(g)
  <2>1. \A h \in Callers : h # g => pc[h] \notin Holding
    BY <1>4 DEF Map
  <2>2. CASE file.stamp = 0
    <3>1. mapping'.stamp = 0
      BY <1>4, <2>2 DEF Map, NoMapping
    <3>q. QED BY <1>4, <2>1, <2>2, <3>1 DEF Map
  <2>3. CASE file.stamp # 0
    <3>1. mapping'.mapped
      BY <1>4, <2>3 DEF Map
    <3>q. QED BY <1>4, <2>1, <2>3, <3>1 DEF Map
  <2>q. QED BY <2>2, <2>3
<1>5. CASE Decode(g)
  <2>1. \A h \in Callers : h # g => pc[h] \notin Holding
    BY <1>5 DEF Decode
  <2>2. mapping.mapped
    BY <1>5 DEF Decode
  <2>q. QED BY <1>5, <2>1, <2>2 DEF Decode
<1>q. QED BY <1>1, <1>2, <1>3, <1>4, <1>5

LEMMA LockError ==
    ASSUME TypeOK, LockInv, NEW g \in Callers, RoundTripError(g), UNCHANGED mapping,
           pc[g] \in {"dial", "send", "read"}
    PROVE  LockInv'
<1> USE DEF TypeOK, LockInv, Locked, Filed, Holding, Goto
<1>1. \A h \in Callers : h # g => pc[h] \notin Holding
  OBVIOUS
<1>2. pc'[g] \in {"dial", "failed"} /\ \A h \in Callers : h # g => pc'[h] = pc[h] /\ call'[h] = call[h]
  BY DEF RoundTripError, Outcome
<1>3. Locked'
  BY <1>1, <1>2 DEF RoundTripError, Outcome
<1>q. QED BY <1>1, <1>2, <1>3

LEMMA LockSocket ==
    ASSUME TypeOK, LockInv, NEW g \in Callers,
           \/ shouldSkipHotCache(g) \/ hotCacheRoundTrip(g) \/ Dial(g) \/ Send(g)
           \/ Read(g) \/ TimesOut(g)
           \/ recordHotCacheUnavailable(g) \/ recordHotCacheMiss(g) \/ recordHotCacheHit(g)
    PROVE  LockInv'
<1> USE DEF TypeOK, LockInv, Locked, Filed, Holding, Goto, Ends
<1>0. None \notin Callers
  BY HotClientAssumption
<1>1. CASE shouldSkipHotCache(g)
  BY <1>1 DEF shouldSkipHotCache
<1>2. CASE hotCacheRoundTrip(g)
  BY <1>0, <1>2 DEF hotCacheRoundTrip
<1>3. CASE Dial(g)
  BY <1>3, LockError DEF Dial
<1>4. CASE Send(g)
  BY <1>4, LockError DEF Send
<1>5. CASE Read(g)
  BY <1>5, LockError DEF Read, Outcome
<1>6. CASE TimesOut(g)
  BY <1>6, LockError DEF TimesOut
<1>7. CASE recordHotCacheUnavailable(g) \/ recordHotCacheMiss(g) \/ recordHotCacheHit(g)
  BY <1>7 DEF recordHotCacheUnavailable, recordHotCacheMiss, recordHotCacheHit
<1>q. QED BY <1>1, <1>2, <1>3, <1>4, <1>5, <1>6, <1>7

LEMMA LockStep == TypeOK /\ LockInv /\ [Next]_vars => LockInv'
<1> SUFFICES ASSUME TypeOK, LockInv, [Next]_vars PROVE LockInv'
  OBVIOUS
<1>1. ASSUME NEW g \in Callers, CallerStep(g) \/ TimesOut(g) PROVE LockInv'
  BY <1>1, LockSnapshot, LockSocket DEF CallerStep
<1>2. ASSUME UNCHANGED <<mapping, lock, pc, call>> PROVE LockInv'
  BY <1>2 DEF LockInv, Locked, Filed
<1>3. CASE PauseEnds \/ Publish \/ Remove \/ Answer \/ IdleTimeout \/ Starts \/ Stops
  BY <1>2, <1>3 DEF PauseEnds, Publish, Remove, Answer, IdleTimeout, Starts, Stops
<1>4. CASE \E c \in Commands : Edit(c) \/ Prepare(c)
  BY <1>2, <1>4 DEF Edit, Prepare
<1>5. CASE UNCHANGED vars
  BY <1>2, <1>5 DEF vars
<1>q. QED BY <1>1, <1>3, <1>4, <1>5 DEF Next

\* Every lookup reads a region that is mapped, and holds the lock under which it
\* would be unmapped.
THEOREM ReadsMapped == Spec => []MappedRead
<1>1. TypeOK /\ LockInv => MappedRead
  BY DEF LockInv, Locked, Filed, Holding, MappedRead
<1>q. QED BY <1>1, TypeInit, TypeStep, LockInit, LockStep, PTL DEF Spec

(***************************************************************************)
(* The stamps.                                                             *)
(***************************************************************************)
\* A stamp is never used again, so that what is filed under the stamp of the
\* file there is was mapped while it was there.
StampInv ==
    /\ file.stamp <= published /\ mapping.stamp <= published
    /\ \A g \in Callers : call[g].stamp <= published
    /\ mapping.mapped /\ mapping.stamp = file.stamp /\ file.stamp # 0
          => mapping.entries = file.entries
    /\ \A g \in Callers : pc[g] = "decode" => mapping.stamp = call[g].stamp

LEMMA StampInit == Init => StampInv
BY HotClientAssumption DEF Init, StampInv, NoMapping, NoCall

\* Steps that touch neither the file nor the mapping.
LEMMA StampFrame ==
    ASSUME TypeOK, StampInv, UNCHANGED <<disk, mapping>>, NEW g \in Callers,
           call'[g].stamp <= published, pc'[g] # "decode",
           \A h \in Callers : h # g => pc'[h] = pc[h] /\ call'[h] = call[h]
    PROVE  StampInv'
BY DEF StampInv, disk

LEMMA StampSnapshot ==
    ASSUME TypeOK, LockInv, StampInv, NEW g \in Callers,
           \/ \E c \in Commands : Ask(g, c)
           \/ Stat(g) \/ Look(g) \/ Map(g) \/ Decode(g)
    PROVE  StampInv'
<1> USE DEF TypeOK, Goto, Misses, Ends, disk
<1>0. None \notin Callers /\ published \in Nat /\ NoCall.stamp = 0
  BY HotClientAssumption DEF NoCall
<1>t. \A n \in {0, file.stamp} : [call EXCEPT ![g].stamp = n][g].stamp = n
  BY DEF Calls
<1>1. ASSUME NEW c \in Commands, Ask(g, c) PROVE StampInv'
  <2>1. [NoCall EXCEPT !.command = c, !.epoch = version[c]].stamp = 0
    BY DEF NoCall
  <2>2. call'[g].stamp = 0 /\ pc'[g] # "decode"
    BY <1>1, <2>1 DEF Ask
  <2>3. call'[g].stamp <= published
    BY <1>0, <2>2
  <2>4. \A h \in Callers : h # g => pc'[h] = pc[h] /\ call'[h] = call[h]
    BY <1>1 DEF Ask
  <2>q. QED BY <1>1, <2>2, <2>3, <2>4, StampFrame DEF Ask
<1>2. CASE Stat(g)
  <2>1. call'[g].stamp \in {0, file.stamp} /\ pc'[g] # "decode"
    BY <1>2, <1>t DEF Stat
  <2>2. \A h \in Callers : h # g => pc'[h] = pc[h] /\ call'[h] = call[h]
    BY <1>2 DEF Stat
  <2>3. call'[g].stamp <= published
    BY <1>0, <2>1 DEF StampInv
  <2>q. QED BY <1>2, <2>1, <2>2, <2>3, StampFrame DEF Stat
<1>3. CASE Look(g)
  <2>1. \A h \in Callers : pc[h] # "decode"
    BY <1>0, <1>3 DEF Look, LockInv, Locked, Holding
  <2>2. CASE mapping.stamp = call[g].stamp
    BY <1>3, <2>1, <2>2 DEF Look, StampInv
  <2>3. CASE mapping.stamp # call[g].stamp
    <3>1. ~mapping'.mapped /\ mapping'.stamp = mapping.stamp
      BY <1>3, <2>3 DEF Look, NoMapping
    <3>2. \A h \in Callers : pc'[h] # "decode"
      BY <1>3, <2>1, <2>3 DEF Look
    <3>q. QED BY <1>3, <3>1, <3>2 DEF Look, StampInv
  <2>q. QED BY <2>2, <2>3
<1>4. CASE Map(g)
  <2>1. \A h \in Callers : h # g => pc[h] # "decode"
    BY <1>4 DEF Map, LockInv, Locked, Holding
  <2>2. CASE file.stamp = 0
    <3>1. ~mapping'.mapped /\ mapping'.stamp = 0
      BY <1>4, <2>2 DEF Map, NoMapping
    <3>2. \A h \in Callers : pc'[h] # "decode"
      BY <1>4, <2>1, <2>2 DEF Map
    <3>3. call'[g].stamp = 0 /\ \A h \in Callers : h # g => call'[h] = call[h]
      BY <1>4, <1>t, <2>2 DEF Map
    <3>q. QED BY <1>0, <1>4, <3>1, <3>2, <3>3 DEF Map, StampInv
  <2>3. CASE file.stamp # 0
    <3>1. /\ mapping'.stamp = call[g].stamp /\ mapping'.entries = file.entries
          /\ UNCHANGED call
      BY <1>4, <2>3 DEF Map
    <3>2. \A h \in Callers : pc'[h] = "decode" => h = g
      BY <1>4, <2>1, <2>3 DEF Map
    <3>q. QED BY <1>4, <3>1, <3>2 DEF Map, StampInv
  <2>q. QED BY <2>2, <2>3
<1>5. CASE Decode(g)
  <2>1. call'[g].stamp = 0 /\ pc'[g] # "decode"
    BY <1>0, <1>5, <1>t DEF Decode
  <2>2. \A h \in Callers : h # g => pc'[h] = pc[h] /\ call'[h] = call[h]
    BY <1>5 DEF Decode
  <2>q. QED BY <1>0, <1>5, <2>1, <2>2, StampFrame DEF Decode
<1>q. QED BY <1>1, <1>2, <1>3, <1>4, <1>5

LEMMA StampSocket ==
    ASSUME TypeOK, StampInv, NEW g \in Callers,
           \/ shouldSkipHotCache(g) \/ hotCacheRoundTrip(g) \/ Dial(g) \/ Send(g)
           \/ Read(g) \/ TimesOut(g)
           \/ recordHotCacheUnavailable(g) \/ recordHotCacheMiss(g) \/ recordHotCacheHit(g)
    PROVE  StampInv'
<1> USE DEF TypeOK, Goto, Ends
<1>0. NoCall.stamp = 0 /\ published \in Nat
  BY HotClientAssumption DEF NoCall
<1>1. call'[g].stamp \in {0, call[g].stamp}
  <2>1. \A b \in BOOLEAN : [call EXCEPT ![g].hadConn = b][g].stamp = call[g].stamp
    BY DEF Calls
  <2>2. /\ [call EXCEPT ![g].retry = TRUE][g].stamp = call[g].stamp
        /\ [NoCall EXCEPT !.command = call[g].command].stamp = 0
    BY <1>0 DEF Calls, NoCall
  <2>3. conn.open \in BOOLEAN
    BY DEF Conns
  <2>4. CASE shouldSkipHotCache(g) \/ hotCacheRoundTrip(g)
    BY <1>0, <2>1, <2>3, <2>4 DEF shouldSkipHotCache, hotCacheRoundTrip
  <2>5. CASE RoundTripError(g)
    BY <2>2, <2>5 DEF RoundTripError, Outcome
  <2>6. CASE ~RoundTripError(g) /\ (Dial(g) \/ Send(g) \/ TimesOut(g))
    BY <2>6 DEF Dial, Send, TimesOut
  <2>7. CASE ~RoundTripError(g) /\ Read(g)
    BY <2>2, <2>7 DEF Read, Outcome
  <2>8. CASE recordHotCacheUnavailable(g) \/ recordHotCacheMiss(g) \/ recordHotCacheHit(g)
    BY <1>0, <2>8 DEF recordHotCacheUnavailable, recordHotCacheMiss, recordHotCacheHit
  <2>q. QED BY <2>4, <2>5, <2>6, <2>7, <2>8
<1>2. /\ UNCHANGED <<disk, mapping>> /\ pc'[g] # "decode"
      /\ \A h \in Callers : h # g => pc'[h] = pc[h] /\ call'[h] = call[h]
  <2>1. CASE RoundTripError(g) /\ UNCHANGED <<disk, mapping>>
    BY <2>1 DEF RoundTripError, Outcome
  <2>2. CASE Read(g) /\ ~RoundTripError(g)
    BY <2>2 DEF Read, Outcome
  <2>3. CASE (Dial(g) \/ Send(g)) /\ ~RoundTripError(g)
    BY <2>3 DEF Dial, Send
  <2>4. CASE shouldSkipHotCache(g) \/ hotCacheRoundTrip(g)
    BY <2>4 DEF shouldSkipHotCache, hotCacheRoundTrip
  <2>5. CASE recordHotCacheUnavailable(g) \/ recordHotCacheMiss(g) \/ recordHotCacheHit(g)
    BY <2>5 DEF recordHotCacheUnavailable, recordHotCacheMiss, recordHotCacheHit
  <2>6. Dial(g) \/ Send(g) \/ Read(g) \/ TimesOut(g) => UNCHANGED <<disk, mapping>>
    BY DEF Dial, Send, Read, TimesOut
  <2>7. TimesOut(g) => RoundTripError(g)
    BY DEF TimesOut
  <2>q. QED BY <2>1, <2>2, <2>3, <2>4, <2>5, <2>6, <2>7
<1>4. call'[g].stamp <= published
  BY <1>0, <1>1 DEF StampInv
<1>q. QED BY <1>2, <1>4, StampFrame

LEMMA StampStep == TypeOK /\ LockInv /\ StampInv /\ [Next]_vars => StampInv'
<1> SUFFICES ASSUME TypeOK, LockInv, StampInv, [Next]_vars PROVE StampInv'
  OBVIOUS
<1>1. ASSUME NEW g \in Callers, CallerStep(g) \/ TimesOut(g) PROVE StampInv'
  BY <1>1, StampSnapshot, StampSocket DEF CallerStep
<1>2. ASSUME UNCHANGED <<disk, mapping, pc, call>> PROVE StampInv'
  BY <1>2 DEF StampInv, disk
<1>3. CASE PauseEnds \/ Answer \/ IdleTimeout \/ Starts \/ Stops
  BY <1>2, <1>3 DEF PauseEnds, Answer, IdleTimeout, Starts, Stops
<1>4. CASE \E c \in Commands : Edit(c) \/ Prepare(c)
  BY <1>2, <1>4 DEF Edit, Prepare
<1>5. CASE Publish
  <2>1. published \in Nat /\ mapping.stamp \in Nat /\ \A g \in Callers : call[g].stamp \in Nat
    BY DEF TypeOK, Mappings, Calls
  <2>2. published' = published + 1 /\ file'.stamp = published + 1 /\ UNCHANGED <<mapping, pc, call>>
    BY <1>5 DEF Publish
  <2>q. QED BY <2>1, <2>2 DEF StampInv
<1>6. CASE Remove
  <2>1. file'.stamp = 0 /\ UNCHANGED <<published, mapping, pc, call>> /\ published \in Nat
    BY <1>6 DEF Remove, TypeOK
  <2>q. QED BY <2>1 DEF StampInv
<1>7. CASE UNCHANGED vars
  BY <1>2, <1>7 DEF vars
<1>q. QED BY <1>1, <1>3, <1>4, <1>5, <1>6, <1>7 DEF Next

\* A lookup during which the file stays is made in that very file.
THEOREM SnapshotsFound == Spec => []SnapshotFound
<1>1. TypeOK /\ LockInv /\ StampInv => SnapshotFound
  BY DEF LockInv, Filed, StampInv, SnapshotFound
<1>q. QED BY <1>1, TypeInit, TypeStep, LockInit, LockStep, StampInit, StampStep, PTL DEF Spec

(***************************************************************************)
(* The connection.                                                         *)
(***************************************************************************)
\* A frame that answers the request of g.
Own(frame, g) ==
    /\ frame.command = call[g].command
    /\ frame.output # 0 => frame.output >= call[g].epoch

\* While nobody waits for an answer, nothing is under way but the farewell of a
\* maintainer that has gone.
Quiet ==
    /\ conn.requests = <<>>
    /\ conn.frames = <<>> \/ (conn.frames = <<Idle>> /\ ~conn.peer)

\* While g waits, its request is under way, or the answer, or neither will come.
Waiting(g) ==
    \/ conn.requests = <<call[g].command>> /\ conn.frames = <<>> /\ conn.peer
    \/ conn.requests = <<>> /\ conn.frames \in {<<>>, <<Idle>>} /\ ~conn.peer
    \/ /\ conn.requests = <<>>
       /\ \E frame \in Frames :
             /\ Own(frame, g)
             /\ conn.frames = <<frame>> \/ (conn.frames = <<frame, Idle>> /\ ~conn.peer)

\* A connection that no failed second try has left holds no more than this.
Clean ==
    /\ (\A g \in Callers : pc[g] # "read") => Quiet
    /\ \A g \in Callers : pc[g] = "read" => Waiting(g)

ConnInv ==
    /\ \A g \in Callers : call[g].epoch <= version[call[g].command]
    /\ conn.left => conn.open
    /\ \A g \in Callers : pc[g] \in {"send", "read"} => conn.open
    /\ ~conn.left => Clean

\* Frames and requests come one or two at a time.
LEMMA ShortSequences ==
    ASSUME NEW a, NEW b
    PROVE  /\ Head(<<a>>) = a /\ Tail(<<a>>) = <<>>
           /\ Head(<<a, b>>) = a /\ Tail(<<a, b>>) = <<b>>
           /\ Append(<<>>, a) = <<a>> /\ Append(<<a>>, b) = <<a, b>>
           /\ <<a>> # <<>> /\ <<a, b>> # <<>>
<1>1. Head(<<a>>) = a /\ Tail(<<a>>) = <<>> /\ <<a>> # <<>>
  OBVIOUS
<1>2. Head(<<a, b>>) = a /\ <<a, b>> # <<>>
  OBVIOUS
<1>3. Tail(<<a, b>>) = <<b>>
  <2>1. <<a, b>> \in Seq({a, b}) /\ <<b>> \in Seq({a, b}) /\ <<a, b>> # <<>>
    OBVIOUS
  <2>2. /\ Tail(<<a, b>>) \in Seq({a, b}) /\ Len(Tail(<<a, b>>)) = 1
        /\ Tail(<<a, b>>)[1] = b
    BY <2>1, HeadTailProperties
  <2>q. QED BY <2>1, <2>2, SeqEqual
<1>4. Append(<<>>, a) = <<a>>
  OBVIOUS
<1>5. Append(<<a>>, b) = <<a, b>>
  <2>1. <<a>> \in Seq({a, b}) /\ <<a, b>> \in Seq({a, b}) /\ Len(<<a>>) = 1 /\ Len(<<a, b>>) = 2
    OBVIOUS
  <2>2. /\ Append(<<a>>, b) \in Seq({a, b}) /\ Len(Append(<<a>>, b)) = 2
        /\ Append(<<a>>, b)[1] = a /\ Append(<<a>>, b)[2] = b
    BY <2>1, AppendProperties
  <2>3. \A i \in 1..2 : Append(<<a>>, b)[i] = <<a, b>>[i]
    <3>1. <<a, b>>[1] = a /\ <<a, b>>[2] = b
      OBVIOUS
    <3>2. \A i \in 1..2 : i = 1 \/ i = 2
      OBVIOUS
    <3>q. QED BY <2>2, <3>1, <3>2
  <2>4. Len(Append(<<a>>, b)) = Len(<<a, b>>)
    BY <2>1, <2>2
  <2>q. QED BY <2>1, <2>2, <2>3, <2>4, SeqEqual
<1>q. QED BY <1>1, <1>2, <1>3, <1>4, <1>5

LEMMA ConnInit == Init => ConnInv
<1> SUFFICES ASSUME Init PROVE ConnInv
  OBVIOUS
<1>1. \A g \in Callers : call[g].epoch = 0 /\ call[g].command \in Commands
  BY NoCallType DEF Init, NoCall, Calls
<1>q. QED BY <1>1 DEF Init, ConnInv, Clean, Quiet, NoConn

\* Steps of g that leave the connection alone.
LEMMA ConnFrame ==
    ASSUME TypeOK, ConnInv, NEW g \in Callers, UNCHANGED <<conn, version>>,
           pc[g] # "read", pc'[g] # "read", pc'[g] = "send" => pc[g] = "send" \/ conn.open,
           call'[g].epoch <= version[call'[g].command],
           \A h \in Callers : h # g => pc'[h] = pc[h] /\ call'[h] = call[h]
    PROVE  ConnInv'
<1>1. Quiet => Quiet'
  BY DEF Quiet
<1>2. \A h \in Callers : h # g /\ Waiting(h) => Waiting(h)'
  BY DEF Waiting, Own
<1>3. Clean => Clean'
  BY <1>1, <1>2 DEF Clean
<1>q. QED BY <1>3 DEF ConnInv

LEMMA NoCallEpoch ==
    ASSUME TypeOK PROVE NoCall.epoch <= version[NoCall.command]
BY NoCallType DEF NoCall, TypeOK, Calls, Versions

\* The fields of a request other than its command and epoch.
LEMMA CallFields ==
    ASSUME TypeOK, NEW g \in Callers, NEW x
    PROVE  /\ [call EXCEPT ![g].hadConn = x][g].epoch = call[g].epoch
           /\ [call EXCEPT ![g].hadConn = x][g].command = call[g].command
           /\ [call EXCEPT ![g].stamp = x][g].epoch = call[g].epoch
           /\ [call EXCEPT ![g].stamp = x][g].command = call[g].command
           /\ [call EXCEPT ![g].retry = x][g].epoch = call[g].epoch
           /\ [call EXCEPT ![g].retry = x][g].command = call[g].command
BY DEF TypeOK, Calls

\* What a step of g does to its request.
LEMMA CallKept ==
    ASSUME TypeOK, ConnInv, NEW g \in Callers,
           \/ UNCHANGED call
           \/ call' = [call EXCEPT ![g] = NoCall]
           \/ call' = [call EXCEPT ![g] = [NoCall EXCEPT !.command = call[g].command]]
           \/ \E x : \/ call' = [call EXCEPT ![g].hadConn = x]
                    \/ call' = [call EXCEPT ![g].stamp = x]
                    \/ call' = [call EXCEPT ![g].retry = x]
    PROVE  /\ call'[g].epoch <= version[call'[g].command]
           /\ \A h \in Callers : h # g => call'[h] = call[h]
<1>1. \/ call'[g] = NoCall
      \/ call'[g].epoch = 0 /\ call'[g].command = call[g].command
      \/ call'[g].epoch = call[g].epoch /\ call'[g].command = call[g].command
  <2>1. CASE call' = [call EXCEPT ![g] = NoCall]
    BY <2>1 DEF TypeOK
  <2>0. CASE call' = [call EXCEPT ![g] = [NoCall EXCEPT !.command = call[g].command]]
    <3>1. /\ [NoCall EXCEPT !.command = call[g].command].epoch = 0
          /\ [NoCall EXCEPT !.command = call[g].command].command = call[g].command
      BY DEF NoCall
    <3>q. QED BY <2>0, <3>1 DEF TypeOK
  <2>2. ASSUME NEW x, \/ call' = [call EXCEPT ![g].hadConn = x]
                     \/ call' = [call EXCEPT ![g].stamp = x]
                     \/ call' = [call EXCEPT ![g].retry = x]
        PROVE  call'[g].epoch = call[g].epoch /\ call'[g].command = call[g].command
    <3>1. CASE call' = [call EXCEPT ![g].hadConn = x]
      BY <3>1, CallFields
    <3>2. CASE call' = [call EXCEPT ![g].stamp = x]
      BY <3>2, CallFields
    <3>3. CASE call' = [call EXCEPT ![g].retry = x]
      BY <3>3, CallFields
    <3>q. QED BY <2>2, <3>1, <3>2, <3>3
  <2>q. QED BY <2>0, <2>1, <2>2
<1>2. \A h \in Callers : h # g => call'[h] = call[h]
  BY DEF TypeOK
<1>3. 0 <= version[call[g].command]
  BY DEF TypeOK, Calls, Versions
<1>q. QED BY <1>1, <1>2, <1>3, NoCallEpoch DEF ConnInv

LEMMA ConnSnapshot ==
    ASSUME TypeOK, ConnInv, NEW g \in Callers,
           \/ \E c \in Commands : Ask(g, c)
           \/ Stat(g) \/ Look(g) \/ Map(g) \/ Decode(g)
           \/ shouldSkipHotCache(g) \/ hotCacheRoundTrip(g)
           \/ recordHotCacheUnavailable(g) \/ recordHotCacheMiss(g) \/ recordHotCacheHit(g)
    PROVE  ConnInv'
<1>1. ASSUME NEW c \in Commands, Ask(g, c) PROVE ConnInv'
  <2>1. LET r == [NoCall EXCEPT !.command = c, !.epoch = version[c]]
        IN  r.epoch = version[c] /\ r.command = c
    BY DEF NoCall
  <2>2. call'[g].epoch = version[c] /\ call'[g].command = c
    BY <1>1, <2>1 DEF Ask, TypeOK
  <2>3. call'[g].epoch <= version[call'[g].command]
    BY <2>2 DEF TypeOK, Versions
  <2>4. /\ pc[g] # "read" /\ pc'[g] # "read" /\ UNCHANGED <<conn, version>>
        /\ pc'[g] = "send" => conn.open
        /\ \A h \in Callers : h # g => pc'[h] = pc[h] /\ call'[h] = call[h]
    BY <1>1 DEF Ask, Goto, TypeOK
  <2>q. QED BY <2>3, <2>4, ConnFrame
<1>2. ASSUME ~\E c \in Commands : Ask(g, c) PROVE ConnInv'
  <2>1. \/ UNCHANGED call
        \/ call' = [call EXCEPT ![g] = NoCall]
        \/ \E x : \/ call' = [call EXCEPT ![g].hadConn = x]
                 \/ call' = [call EXCEPT ![g].stamp = x]
    BY <1>2 DEF Stat, Look, Map, Decode, shouldSkipHotCache, hotCacheRoundTrip,
           recordHotCacheUnavailable, recordHotCacheMiss, recordHotCacheHit, Ends, Misses
  <2>2. /\ call'[g].epoch <= version[call'[g].command]
        /\ \A h \in Callers : h # g => call'[h] = call[h]
    BY <2>1, CallKept
  <2>3. /\ pc[g] # "read" /\ pc'[g] # "read" /\ UNCHANGED <<conn, version>>
        /\ pc'[g] = "send" => conn.open
        /\ \A h \in Callers : h # g => pc'[h] = pc[h]
    BY <1>2 DEF Stat, Look, Map, Decode, shouldSkipHotCache, hotCacheRoundTrip,
           recordHotCacheUnavailable, recordHotCacheMiss, recordHotCacheHit, Ends, Misses,
           Goto, TypeOK
  <2>q. QED BY <2>2, <2>3, ConnFrame
<1>q. QED BY <1>1, <1>2

\* Nobody else is within a round trip.
LEMMA Alone ==
    ASSUME LockInv, NEW g \in Callers, pc[g] \in {"dial", "send", "read"}
    PROVE  \A h \in Callers : h # g => pc[h] # "read"
BY DEF LockInv, Locked, Holding

LEMMA ConnError ==
    ASSUME TypeOK, LockInv, ConnInv, NEW g \in Callers, RoundTripError(g),
           UNCHANGED version, pc[g] \in {"dial", "send", "read"}
    PROVE  ConnInv'
<1>1. \A h \in Callers : pc'[h] \notin {"send", "read"}
  BY DEF RoundTripError, Outcome, Goto, TypeOK, LockInv, Locked, Holding
<1>2. /\ conn'.left => conn'.open
      /\ ~conn'.left => Quiet'
  <2>1. CASE conn' = NoConn
    BY <2>1 DEF Quiet, NoConn
  <2>2. CASE conn' = [conn EXCEPT !.left = conn.open]
    <3>1. /\ conn'.left = conn.open /\ conn'.open = conn.open
          /\ conn'.requests = conn.requests /\ conn'.frames = conn.frames
          /\ conn'.peer = conn.peer
      BY <2>2 DEF TypeOK, Conns
    <3>2. ~conn.open => Quiet
      BY Alone DEF ConnInv, Clean
    <3>q. QED BY <3>1, <3>2 DEF Quiet
  <2>q. QED BY <2>1, <2>2 DEF RoundTripError
<1>3. /\ call'[g].epoch <= version[call'[g].command]
      /\ \A h \in Callers : h # g => call'[h] = call[h]
  <2>1. \/ call' = [call EXCEPT ![g] = [NoCall EXCEPT !.command = call[g].command]]
        \/ \E x : call' = [call EXCEPT ![g].retry = x]
    BY DEF RoundTripError, Outcome
  <2>q. QED BY <2>1, CallKept
<1>q. QED BY <1>1, <1>2, <1>3 DEF ConnInv, Clean

LEMMA ConnSocket ==
    ASSUME TypeOK, LockInv, ConnInv, NEW g \in Callers,
           Dial(g) \/ Send(g) \/ Read(g) \/ TimesOut(g)
    PROVE  ConnInv'
<1>0. ASSUME RoundTripError(g) PROVE ConnInv'
  <2>1. UNCHANGED version /\ pc[g] \in {"dial", "send", "read"}
    BY DEF Dial, Send, Read, TimesOut
  <2>q. QED BY <1>0, <2>1, ConnError
<1>1. \A h \in Callers : h # g => pc[h] # "read"
  BY Alone DEF Dial, Send, Read, TimesOut
<1>2. CASE Dial(g) /\ ~RoundTripError(g)
  <2>1. Quiet' /\ UNCHANGED <<call, version>> /\ \A h \in Callers : pc'[h] # "read"
    BY <1>1, <1>2 DEF Dial, NoConn, Quiet, Goto, TypeOK
  <2>2. conn'.open
    BY <1>2 DEF Dial, NoConn
  <2>q. QED BY <2>1, <2>2 DEF ConnInv, Clean
<1>3. CASE Send(g) /\ ~RoundTripError(g)
  <2>1. /\ pc[g] = "send" /\ conn.peer /\ UNCHANGED <<call, version>>
        /\ conn' = [conn EXCEPT !.requests = Append(@, call[g].command)]
        /\ pc' = [pc EXCEPT ![g] = "read"]
    BY <1>3 DEF Send, Goto
  <2>2. conn'.left = conn.left /\ conn'.open = conn.open /\ conn.open
    BY <2>1 DEF ConnInv, TypeOK, Conns
  <2>3. \A h \in Callers : pc'[h] = "read" <=> h = g
    BY <1>1, <2>1 DEF TypeOK
  <2>4. ASSUME ~conn.left PROVE Clean'
    <3>1. conn.requests = <<>> /\ conn.frames = <<>>
      BY <1>1, <2>1, <2>4 DEF ConnInv, Clean, Quiet
    <3>2. conn'.requests = <<call[g].command>> /\ conn'.frames = <<>> /\ conn'.peer
      BY <2>1, <3>1 DEF TypeOK, Conns
    <3>3. Waiting(g)'
      BY <2>1, <3>2 DEF Waiting
    <3>q. QED BY <2>3, <3>3 DEF Clean
  <2>q. QED BY <2>1, <2>2, <2>4 DEF ConnInv
<1>4. CASE Read(g) /\ ~RoundTripError(g)
  <2>1. /\ pc[g] = "read" /\ conn.frames # <<>> /\ UNCHANGED version
        /\ conn' = [conn EXCEPT !.frames = Tail(@)]
        /\ pc' = [pc EXCEPT ![g] = "hit"] \/ pc' = [pc EXCEPT ![g] = "missed"]
        /\ call' = [call EXCEPT ![g] = [NoCall EXCEPT !.command = call[g].command]]
    BY <1>4 DEF Read, Outcome, Goto
  <2>2. conn'.left = conn.left /\ conn'.open = conn.open /\ conn.open
    BY <2>1 DEF ConnInv, TypeOK, Conns
  <2>3. \A h \in Callers : pc'[h] # "read"
    BY <1>1, <2>1 DEF TypeOK
  <2>4. ASSUME ~conn.left PROVE Clean'
    <3>1. Waiting(g)
      BY <2>1, <2>4 DEF ConnInv, Clean
    <3>2. /\ conn.requests = <<>>
          /\ \/ Tail(conn.frames) = <<>>
             \/ Tail(conn.frames) = <<Idle>> /\ ~conn.peer
      <4>1. CASE conn.frames = <<Idle>>
        BY <2>1, <3>1, <4>1, ShortSequences DEF Waiting
      <4>2. CASE conn.frames # <<Idle>>
        <5>1. PICK frame \in Frames :
                 conn.frames = <<frame>> \/ (conn.frames = <<frame, Idle>> /\ ~conn.peer)
          BY <2>1, <3>1, <4>2 DEF Waiting
        <5>2. conn.requests = <<>>
          BY <2>1, <3>1 DEF Waiting
        <5>3. Tail(<<frame>>) = <<>> /\ Tail(<<frame, Idle>>) = <<Idle>>
          BY ShortSequences
        <5>q. QED BY <5>1, <5>2, <5>3, Zenon
      <4>q. QED BY <4>1, <4>2
    <3>3. Quiet'
      BY <2>1, <3>2 DEF Quiet, TypeOK, Conns
    <3>q. QED BY <2>3, <3>3 DEF Clean
  <2>5. /\ call'[g].epoch <= version[call'[g].command]
        /\ \A h \in Callers : h # g => call'[h] = call[h]
    BY <2>1, CallKept
  <2>6. \A h \in Callers : pc'[h] = pc[h] \/ pc'[h] \in {"hit", "missed"}
    BY <2>1 DEF TypeOK
  <2>q. QED BY <2>1, <2>2, <2>4, <2>5, <2>6 DEF ConnInv
<1>5. CASE TimesOut(g)
  BY <1>0, <1>5 DEF TimesOut
<1>q. QED BY <1>0, <1>2, <1>3, <1>4, <1>5

LEMMA Answered ==
    ASSUME NEW g \in Callers, NEW f \in Frames, conn'.requests = <<>>, conn'.frames = <<f>>,
           f.command = call'[g].command, f.output # 0 => f.output >= call'[g].epoch
    PROVE  Waiting(g)'
<1>1. Own(f, g)'
  BY DEF Own
<1>q. QED BY <1>1 DEF Waiting

\* The maintainer answers with the version it finds, which is no older than the
\* one the caller found.
LEMMA ConnAnswer == ASSUME TypeOK, ConnInv, ~conn.left, Answer PROVE Clean'
<1>1. PICK h \in Callers : pc[h] = "read"
  BY DEF ConnInv, Clean, Quiet, Answer
<1> DEFINE c == Head(conn.requests)
           output == IF resident[c] = version[c] THEN version[c] ELSE 0
           answer == [command |-> c, output |-> output]
<1>2. /\ conn.requests # <<>> /\ UNCHANGED <<version, pc, call>>
      /\ conn' = [conn EXCEPT !.requests = Tail(@), !.frames = Append(@, answer)]
  BY DEF Answer
<1>3. \A g \in Callers : pc[g] = "read" =>
         conn.requests = <<call[g].command>> /\ conn.frames = <<>>
  BY <1>2 DEF ConnInv, Clean, Waiting
<1>4. c = call[h].command /\ c \in Commands /\ Tail(conn.requests) = <<>>
  <2>1. conn.requests = <<call[h].command>> /\ call[h].command \in Commands
    BY <1>1, <1>3 DEF TypeOK, Calls
  <2>q. QED BY <2>1, ShortSequences
<1>5. answer \in Frames
  <2>1. version[c] \in 0..MaxVersion /\ 0 \in 0..MaxVersion
    BY <1>4, HotClientAssumption DEF TypeOK, Versions
  <2>q. QED BY <1>4, <2>1 DEF Frames
<1>6. conn'.requests = <<>> /\ conn'.frames = <<answer>>
  <2> HIDE DEF answer
  <2>1. conn'.requests = Tail(conn.requests) /\ conn'.frames = Append(conn.frames, answer)
    BY <1>2 DEF TypeOK, Conns
  <2>q. QED BY <1>1, <1>3, <1>4, <2>1, ShortSequences
<1>7. ASSUME NEW g \in Callers, pc[g] = "read" PROVE Waiting(g)'
  <2>1. c = call[g].command
    BY <1>3, <1>7, ShortSequences
  <2>2. call[g].epoch <= version[c]
    BY <2>1 DEF ConnInv
  <2>3. answer.command = c /\ (answer.output # 0 => answer.output = version[c])
    OBVIOUS
  <2> HIDE DEF answer, c
  <2>4. /\ answer.command = call'[g].command
        /\ answer.output # 0 => answer.output >= call'[g].epoch
    BY <1>2, <1>4, <2>1, <2>2, <2>3 DEF TypeOK, Versions, Calls
  <2>q. QED BY <1>5, <1>6, <2>4, Answered
<1>q. QED BY <1>1, <1>2, <1>7 DEF Clean

\* The maintainer closes the connection, with a farewell or without.
LEMMA ConnCloses ==
    ASSUME TypeOK, ConnInv, ~conn.left, IdleTimeout \/ Stops PROVE Clean'
<1>1. /\ UNCHANGED <<version, pc, call>>
      /\ conn'.requests = <<>> /\ ~conn'.peer
      /\ \/ conn.peer /\ conn'.frames = Append(conn.frames, Idle)
         \/ conn'.frames = conn.frames
  BY DEF IdleTimeout, Stops, TypeOK, Conns
<1>2. Quiet => Quiet'
  BY <1>1 DEF Quiet
<1>3. ASSUME NEW g \in Callers, Waiting(g) PROVE Waiting(g)'
  <2>1. CASE conn.frames \in {<<>>, <<Idle>>} /\ (conn.frames = <<Idle>> => ~conn.peer)
    <3>1. conn'.frames \in {<<>>, <<Idle>>}
      BY <1>1, <2>1, ShortSequences
    <3>q. QED BY <1>1, <3>1 DEF Waiting
  <2>2. CASE \E frame \in Frames :
                /\ Own(frame, g)
                /\ conn.frames = <<frame>> \/ (conn.frames = <<frame, Idle>> /\ ~conn.peer)
    <3>1. PICK frame \in Frames :
             /\ Own(frame, g)
             /\ conn.frames = <<frame>> \/ (conn.frames = <<frame, Idle>> /\ ~conn.peer)
      BY <2>2
    <3>2. Own(frame, g)'
      BY <1>1, <3>1 DEF Own
    <3>3. conn'.frames = <<frame>> \/ conn'.frames = <<frame, Idle>>
      BY <1>1, <3>1, ShortSequences
    <3>q. QED BY <1>1, <3>2, <3>3 DEF Waiting
  <2>q. QED BY <1>3, <2>1, <2>2 DEF Waiting
<1>q. QED BY <1>1, <1>2, <1>3 DEF ConnInv, Clean

\* Whatever the maintainer does, the connection is as open and as left as before.
LEMMA ConnPeer ==
    ASSUME TypeOK, ConnInv, Answer \/ IdleTimeout \/ Stops PROVE ConnInv'
<1>1. UNCHANGED <<version, pc, call>> /\ conn'.left = conn.left /\ conn'.open = conn.open
  BY DEF Answer, IdleTimeout, Stops, TypeOK, Conns
<1>2. ~conn.left => Clean'
  BY ConnAnswer, ConnCloses
<1>q. QED BY <1>1, <1>2 DEF ConnInv

LEMMA ConnStep == TypeOK /\ LockInv /\ ConnInv /\ [Next]_vars => ConnInv'
<1> SUFFICES ASSUME TypeOK, LockInv, ConnInv, [Next]_vars PROVE ConnInv'
  OBVIOUS
<1>1. ASSUME NEW g \in Callers, CallerStep(g) \/ TimesOut(g) PROVE ConnInv'
  BY <1>1, ConnSnapshot, ConnSocket DEF CallerStep
<1>2. ASSUME UNCHANGED <<conn, version, pc, call>> PROVE ConnInv'
  BY <1>2 DEF ConnInv, Clean, Quiet, Waiting, Own
<1>3. CASE PauseEnds \/ Publish \/ Remove \/ Starts
  BY <1>2, <1>3 DEF PauseEnds, Publish, Remove, Starts
<1>4. ASSUME NEW c \in Commands, Prepare(c) PROVE ConnInv'
  BY <1>2, <1>4 DEF Prepare
<1>5. ASSUME NEW c \in Commands, Edit(c) PROVE ConnInv'
  <2>1. /\ version' = [version EXCEPT ![c] = @ + 1]
        /\ UNCHANGED <<conn, pc, call>>
    BY <1>5 DEF Edit
  <2>2. \A d \in Commands : version[d] \in Nat /\ version'[d] >= version[d]
    BY <2>1 DEF TypeOK, Versions
  <2>3. \A g \in Callers : call[g].command \in Commands /\ call[g].epoch \in Nat
    BY DEF TypeOK, Calls
  <2>4. \A g \in Callers : call'[g].epoch <= version'[call'[g].command]
    BY <2>1, <2>2, <2>3 DEF ConnInv, TypeOK, Versions
  <2>q. QED BY <2>1, <2>4 DEF ConnInv, Clean, Quiet, Waiting, Own
<1>6. CASE UNCHANGED vars
  BY <1>2, <1>6 DEF vars
<1>q. QED BY <1>1, <1>3, <1>4, <1>5, <1>6, ConnPeer DEF Next

\* The frame a caller reads answers its own request, however many requests timed
\* out before on whatever connections, and is no older than the request, unless a
\* failed second try has left this connection.
THEOREM AnswersOwn == Spec => []OwnAnswer
<1>1. TypeOK /\ ConnInv => OwnAnswer
  <2> SUFFICES ASSUME TypeOK, ConnInv, NEW g \in Callers, pc[g] = "read",
                      ~conn.left, conn.frames # <<>>, Head(conn.frames) # Idle
               PROVE  Own(Head(conn.frames), g)
    BY DEF OwnAnswer, Own
  <2>1. Waiting(g)
    BY DEF ConnInv, Clean
  <2>2. PICK frame \in Frames : Own(frame, g) /\ conn.frames \in {<<frame>>, <<frame, Idle>>}
    <3>1. conn.frames \notin {<<>>, <<Idle>>}
      BY ShortSequences
    <3>q. QED BY <2>1, <3>1 DEF Waiting
  <2>q. QED BY <2>2, ShortSequences
<1>q. QED BY <1>1, TypeInit, TypeStep, LockInit, LockStep, ConnInit, ConnStep, PTL DEF Spec
=============================================================================
