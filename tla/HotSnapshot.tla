---------------------------- MODULE HotSnapshot -----------------------------
(***************************************************************************)
(* The snapshot file of the replay cache: which prepared answers the       *)
(* maintainer puts into it, in what order, how they are laid out, and how  *)
(* a foreground process finds one by binary search without decoding the    *)
(* rest.  A file is a sequence of units: the header, the entries, the      *)
(* bytes.  A hash stands for what it is taken of; keys and epochs are      *)
(* numbers in the order of their hashes, 0 being no hash at all.           *)
(***************************************************************************)
EXTENDS Integers, Sequences, FiniteSets, SequencesExt

CONSTANTS
    Pool,          \* what may be prepared
    MaxPrepared,   \* bound on the answers prepared before a publication
    MaxEntries,    \* hotSnapshotMaxEntries
    MaxBytes,      \* hotSnapshotMaxBytes, in units
    MaxOutput,     \* maxFastPathOutputBytes
    MaxFile,       \* maxReplayableInspectionFileBytes
    MaxCorpus      \* maxRepoSearchCorpusBytes and gitHistoryCorpusMaxBytes

VARIABLES prepared, file, published

vars == <<prepared, file, published>>

Limit == [exact |-> MaxOutput, warm |-> MaxFile, corpus |-> MaxCorpus]

Kinds == DOMAIN Limit

NoFile == <<>>
Zero   == [unit |-> "zero"]
Size(item) == Len(item.stdout) + Len(item.stderr)

-----------------------------------------------------------------------------
(* Which answers are kept. *)

hotSnapshotCandidatePriority(item) ==
    CASE item.class = "demanded"  -> 995
      [] item.class = "metadata"  -> 1000
      [] item.class = "status"    -> 980
      [] item.class = "ls-files"  -> 970
      [] item.class = "diff"      -> 960
      [] item.class = "corpus"    -> 940
      [] item.class = "cat"       -> 930
      [] item.class = "sed"       -> 925
      [] item.class = "head"      -> 920
      [] item.class = "search"    -> 910
      [] item.class = "ls"        -> 900
      [] item.class = "warm"      -> 850
      [] item.class = "file"      -> 800
      [] item.class = "list"      -> 780
      [] item.class = "env"       -> 700
      [] OTHER                    -> 500

\* Mutant: sizes are left to the encoder.
AnySize(item) == item.hashed /\ item.epoch # 0

Usable(item) ==
    /\ item.hashed /\ item.epoch # 0
    /\ item.kind = "exact"  => item.key # 0 /\ Size(item) <= MaxOutput
    /\ item.kind = "warm"   => Size(item) <= MaxFile
    /\ item.kind = "corpus" => Size(item) \in 1..MaxCorpus

Outranks(a, b) ==
    LET p == hotSnapshotCandidatePriority(a)
        q == hotSnapshotCandidatePriority(b)
    IN  \/ p > q
        \/ p = q /\ a.preparedAt > b.preparedAt
        \/ p = q /\ a.preparedAt = b.preparedAt /\ a.wall > b.wall

betterHotSnapshotCandidate(a, b) ==
    \/ Outranks(a, b)
    \/ ~Outranks(b, a) /\ Size(a) < Size(b)

SameProof(a, b) == a.kind = b.kind /\ a.key = b.key /\ a.epoch = b.epoch

dedupeHotSnapshotCandidates(items) ==
    {a \in items : ~\E b \in items : SameProof(a, b) /\ betterHotSnapshotCandidate(b, a)}

InOrder(a, b) == a.key < b.key \/ (a.key = b.key /\ a.epoch < b.epoch)

Precedes(a, b) == Outranks(a, b) \/ (~Outranks(b, a) /\ InOrder(a, b))

\* The best of them, in the order of their keys.
hotSnapshotCandidates(items) ==
    LET usable == dedupeHotSnapshotCandidates({i \in items : Usable(i)})
        kept   == {a \in usable : Cardinality({b \in usable : Precedes(b, a)}) < MaxEntries}
    IN  {s \in SetToSeqs(kept) : \A i, j \in DOMAIN s : i < j => ~InOrder(s[j], s[i])}

\* A key is the hash of a command or, with a prefix of its own, of what a file or
\* a corpus is kept under.  Two answers for one proof never tie, or the one that
\* is kept would depend on the order they are listed in.
PoolAssumption ==
    /\ MaxEntries \in Nat /\ MaxBytes \in Nat
    /\ MaxOutput \in Nat /\ MaxFile \in 0..MaxOutput /\ MaxCorpus \in Nat
    /\ \A i \in Pool :
          /\ i.kind \in Kinds /\ i.key \in Nat /\ i.epoch \in Nat
          /\ i.stdout \in Seq(Nat) /\ i.stderr \in Seq(Nat)
          /\ i.preparedAt \in Nat /\ i.wall \in Nat
          /\ i.kind # "exact" => i.key # 0
    /\ \A i, j \in Pool : i.key = j.key => i.kind = j.kind
    /\ \A i, j \in Pool : SameProof(i, j) /\ i # j =>
          betterHotSnapshotCandidate(i, j) \/ betterHotSnapshotCandidate(j, i)

-----------------------------------------------------------------------------
(* The file. *)

Bytes(s) == [i \in DOMAIN s |-> [unit |-> "byte", value |-> s[i]]]

Entry(item, at) ==
    [unit |-> "entry", key |-> item.key, epoch |-> item.epoch,
     stdoutHash |-> item.stdout, stderrHash |-> item.stderr,
     stdoutOffset |-> at, stdoutLen |-> Len(item.stdout),
     stderrOffset |-> at + Len(item.stdout), stderrLen |-> Len(item.stderr),
     exit |-> item.exit, kind |-> item.kind]

Fits(item) ==
    Size(item) <= MaxOutput \/ (item.kind # "exact" /\ Size(item) <= Limit[item.kind])

\* An answer too large for its kind leaves a hole; too much of them, no file.
encodeHotSnapshot(items) ==
    LET payloadOffset == 1 + Len(items)
        payload[i \in 0..Len(items)] ==
            IF i = 0 THEN <<>>
            ELSE IF ~Fits(items[i]) THEN payload[i - 1]
            ELSE payload[i - 1] \o Bytes(items[i].stdout) \o Bytes(items[i].stderr)
        entries == [i \in 1..Len(items) |->
                       IF Fits(items[i]) THEN Entry(items[i], payloadOffset + Len(payload[i - 1]))
                       ELSE Zero]
        total == payloadOffset + Len(payload[Len(items)])
    IN  IF items = <<>> \/ Len(items) > MaxEntries \/ total > MaxBytes THEN NoFile
        ELSE <<[unit |-> "header", count |-> Len(items),
                payloadOffset |-> payloadOffset, totalSize |-> total]>>
             \o entries \o payload[Len(items)]

-----------------------------------------------------------------------------
(* Looking an answer up. *)

\* A part of the file that was never written reads as zero.
KeyAt(data, i) == LET u == data[1 + i] IN IF u.unit = "entry" THEN u.key ELSE 0

Narrowed(data, key, range) ==
    LET mid == (range.lo + range.hi) \div 2
    IN  IF range.lo >= range.hi THEN range
        ELSE IF KeyAt(data, mid + 1) < key THEN [range EXCEPT !.lo = mid + 1]
        ELSE [range EXCEPT !.hi = mid]

\* The first entry, counted from 0, whose key is not below the key: range[i] is
\* where the search has got to after i rounds.
hotSnapshotCommandRange(data, count, key) ==
    LET range[i \in 0..count] ==
            IF i = 0 THEN [lo |-> 0, hi |-> count] ELSE Narrowed(data, key, range[i - 1])
    IN  range[count].lo

NoAnswer == [hit |-> FALSE, stdout |-> <<>>, stderr |-> <<>>, exit |-> 0]

Contents(units) == [i \in DOMAIN units |-> IF units[i].unit = "byte" THEN units[i].value ELSE 0]

\* Mutant: the bytes are not compared with their hashes.
ReadUnhashed(data, entry, kind, max) ==
    IF entry.kind = kind /\ entry.stderrOffset + entry.stderrLen <= Len(data)
    THEN [hit |-> TRUE, exit |-> entry.exit,
          stdout |-> Contents(SubSeq(data, entry.stdoutOffset + 1, entry.stdoutOffset + entry.stdoutLen)),
          stderr |-> Contents(SubSeq(data, entry.stderrOffset + 1, entry.stderrOffset + entry.stderrLen))]
    ELSE NoAnswer

\* One matching entry, checked against the file it is in.
Read(data, entry, kind, max) ==
    LET stdout == Contents(SubSeq(data, entry.stdoutOffset + 1, entry.stdoutOffset + entry.stdoutLen))
        stderr == Contents(SubSeq(data, entry.stderrOffset + 1, entry.stderrOffset + entry.stderrLen))
    IN  IF /\ entry.kind = kind
           /\ entry.stdoutLen + entry.stderrLen <= max
           /\ entry.stdoutOffset >= data[1].payloadOffset
           /\ entry.stderrOffset >= data[1].payloadOffset
           /\ entry.stdoutOffset + entry.stdoutLen <= Len(data)
           /\ entry.stderrOffset + entry.stderrLen <= Len(data)
           /\ stdout = entry.stdoutHash /\ stderr = entry.stderrHash
        THEN [hit |-> TRUE, stdout |-> stdout, stderr |-> stderr, exit |-> entry.exit]
        ELSE NoAnswer

HeaderValid(data) ==
    /\ Len(data) \in 1..MaxBytes /\ data[1].unit = "header"
    /\ data[1].count <= MaxEntries
    /\ data[1].payloadOffset = 1 + data[1].count
    /\ data[1].payloadOffset <= Len(data)
    /\ data[1].totalSize = Len(data)

\* The entries from start on that have the key; the first with the epoch counts.
decodeHotSnapshotPayload(data, key, epoch, kind, max) ==
    IF ~HeaderValid(data) \/ key = 0 \/ epoch = 0 THEN NoAnswer
    ELSE LET count == data[1].count
             start == hotSnapshotCommandRange(data, count, key)
             own   == {i \in (start + 1)..count :
                         \A j \in (start + 1)..i : KeyAt(data, j) = key}
             match == {i \in own : data[1 + i].epoch = epoch}
         IN  IF match = {} THEN NoAnswer
             ELSE Read(data, data[1 + Min(match)], kind, max)

Lookup(key, epoch, kind) ==
    IF file = NoFile THEN NoAnswer
    ELSE decodeHotSnapshotPayload(file, key, epoch, kind, Limit[kind])

-----------------------------------------------------------------------------
Init == prepared = {} /\ file = NoFile /\ published = {}

Prepare(item) ==
    /\ Cardinality(prepared) < MaxPrepared /\ item \notin prepared
    /\ prepared' = prepared \cup {item}
    /\ UNCHANGED <<file, published>>

\* A new file replaces the old one whole; without one the old one is removed.
publishHotSnapshot ==
    /\ \E items \in hotSnapshotCandidates(prepared) :
           /\ published # prepared \/ file # encodeHotSnapshot(items)
           /\ file' = encodeHotSnapshot(items)
    /\ published' = prepared
    /\ UNCHANGED prepared

Whole ==
    /\ file # NoFile
    /\ \E items \in hotSnapshotCandidates(published) : file = encodeHotSnapshot(items)

\* What a machine that goes down soon after may leave: nothing was synced.
Truncated == \E n \in 1..(Len(file) - 1) : file' = SubSeq(file, 1, n)
Unwritten == \E i \in DOMAIN file : file' = [file EXCEPT ![i] = Zero]
Damage == Whole /\ (Truncated \/ Unwritten) /\ UNCHANGED <<prepared, published>>

Next == (\E item \in Pool : Prepare(item)) \/ publishHotSnapshot \/ Damage

Spec == Init /\ [][Next]_vars

-----------------------------------------------------------------------------
Places == {<<i.key, i.epoch, i.kind>> : i \in Pool}

Answer(item) ==
    [hit |-> TRUE, stdout |-> item.stdout, stderr |-> item.stderr, exit |-> item.exit]

\* Types: answers from the pool, in a file within its bounds.
TypeOK ==
    /\ prepared \subseteq Pool /\ published \subseteq Pool
    /\ Len(file) <= MaxBytes
    /\ \A i \in DOMAIN file : file[i].unit \in {"header", "entry", "byte", "zero"}

\* Looking up in a whole file: of all the answers that were fit to be
\* published for a proof, the best is found, exactly as prepared, unless
\* MaxEntries others precede it; a proof none of them has is a miss.
FoundExact ==
    Whole => \A p \in Places :
        LET fit  == {i \in published : Usable(i)}
            own  == {i \in fit : <<i.key, i.epoch, i.kind>> = p}
            best(i) == \A j \in fit : SameProof(i, j) /\ i # j => betterHotSnapshotCandidate(i, j)
            above(i) == {j \in fit : best(j) /\ Precedes(j, i)}
            found == Lookup(p[1], p[2], p[3])
        IN  IF found.hit
            THEN \E i \in own : best(i) /\ found = Answer(i) /\ Cardinality(above(i)) < MaxEntries
            ELSE \A i \in own : best(i) => Cardinality(above(i)) >= MaxEntries

\* Damaged files: however little of the file reached the disk, what is found
\* was prepared for that very proof; everything else is a miss.
NeverAnother ==
    \A p \in Places :
        LET found == Lookup(p[1], p[2], p[3])
        IN  found.hit => \E i \in published :
                <<i.key, i.epoch, i.kind>> = p /\ found = Answer(i)
=============================================================================
