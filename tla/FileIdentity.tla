---------------------------- MODULE FileIdentity ----------------------------
(***************************************************************************)
(* readRegularIdentity of internal/green/proof.go: several goroutines hash *)
(* one path, sharing a digest cache, while the file is rewritten in place, *)
(* replaced by rename, removed and given old modification times.           *)
(*                                                                         *)
(* Every version of the file has the same size and mode; its content is a  *)
(* sequence of chunks, each read by one call.                              *)
(***************************************************************************)
EXTENDS Integers, Sequences

CONSTANTS
    Readers,        \* goroutines inside readRegularIdentity
    Chunks,         \* file.Read calls one pass takes
    Values,         \* contents of a chunk
    ChangeTime,     \* fileChangeToken holds inode and ctime; else mtime only
    MaxNow          \* bound on the file system's clock

IdentityAssumption ==
    Chunks \in Nat \ {0} /\ ChangeTime \in BOOLEAN /\ Values # {} /\ MaxNow \in Nat

VARIABLES
    now,        \* the file system's clock
    inodes,     \* every inode the path ever named: [content, mtime, ctime]
    path,       \* the inode the path names, or NoFile
    cache,      \* regularFileDigestCache at this path: [signal, digest], or NoEntry
    pc, outer, inner, opened, hash, pos, digest,   \* locals of each reader
    seen        \* history: the versions there were since the reader's call began

file    == <<now, inodes, path>>
stats   == <<outer, inner, opened>>
hashing == <<hash, pos>>
vars    == <<file, cache, pc, stats, hashing, digest, seen>>

NoFile == 0
NoStat == [ino |-> NoFile, mtime |-> 0, ctime |-> 0]
Content == [1..Chunks -> Values]

Stat(i) == [ino |-> i, mtime |-> inodes[i].mtime, ctime |-> inodes[i].ctime]

\* Where there is no change time the token is the modification time and size.
fileChangeToken(s) == IF ChangeTime THEN <<s.ino, s.ctime>> ELSE <<s.mtime>>

\* Mutant: the cache trusts the modification time.
SignalOfMtime(s) == <<s.mtime>>

regularFileCacheSignal(s) == <<s.mtime, fileChangeToken(s)>>

sameFileSnapshot(s, t) ==
    s.ino = t.ino /\ s.mtime = t.mtime /\ fileChangeToken(s) = fileChangeToken(t)

NoEntry == [signal |-> <<>>, digest |-> <<>>]
NoHash == <<>>

Version(i) == [content |-> inodes[i].content, token |-> fileChangeToken(Stat(i))]
Versions   == IF path = NoFile THEN {} ELSE {Version(path)}

Init ==
    /\ now = 1 /\ path = 1
    /\ \E c \in Content : inodes = <<[content |-> c, mtime |-> 1, ctime |-> 1]>>
    /\ cache = NoEntry
    /\ pc = [r \in Readers |-> "idle"]
    /\ outer = [r \in Readers |-> NoStat] /\ inner = outer /\ opened = outer
    /\ hash = [r \in Readers |-> NoHash] /\ digest = hash
    /\ pos = [r \in Readers |-> 0]
    /\ seen = [r \in Readers |-> {}]

(***************************************************************************)
(* The file.  Every change of an inode or of its name stamps a new ctime.  *)
(***************************************************************************)
Witness ==
    seen' = [r \in Readers |-> IF pc[r] = "idle" THEN {} ELSE seen[r] \cup Versions']

Tick == now < MaxNow /\ now' = now + 1

Rewrite(n, v) ==
    /\ Tick /\ path # NoFile
    /\ inodes' = [inodes EXCEPT ![path] =
                     [content |-> [@.content EXCEPT ![n] = v], mtime |-> now + 1, ctime |-> now + 1]]
    /\ UNCHANGED <<path, cache, pc, stats, hashing, digest>>
    /\ Witness

RestoreMtime(t) ==
    /\ Tick /\ path # NoFile
    /\ inodes' = [inodes EXCEPT ![path] =
                     [content |-> @.content, mtime |-> t, ctime |-> now + 1]]
    /\ UNCHANGED <<path, cache, pc, stats, hashing, digest>>
    /\ Witness

\* Another file, with a modification time of its own, is renamed over the path.
Replace(c, t) ==
    /\ Tick
    /\ inodes' = [i \in DOMAIN inodes \cup {now + 1} |->
                     IF i = now + 1 THEN [content |-> c, mtime |-> t, ctime |-> now + 1]
                     ELSE inodes[i]]
    /\ path' = now + 1
    /\ UNCHANGED <<cache, pc, stats, hashing, digest>>
    /\ Witness

Remove ==
    /\ now < MaxNow /\ path # NoFile /\ path' = NoFile
    /\ UNCHANGED <<now, inodes, cache, pc, stats, hashing, digest>>
    /\ Witness

(***************************************************************************)
(* One call of readRegularIdentity.                                        *)
(***************************************************************************)
Return(r) ==
    /\ pc' = [pc EXCEPT ![r] = "idle"]
    /\ outer' = [outer EXCEPT ![r] = NoStat] /\ inner' = [inner EXCEPT ![r] = NoStat]
    /\ opened' = [opened EXCEPT ![r] = NoStat]
    /\ hash' = [hash EXCEPT ![r] = NoHash] /\ digest' = [digest EXCEPT ![r] = NoHash]
    /\ pos' = [pos EXCEPT ![r] = 0]
    /\ seen' = [seen EXCEPT ![r] = {}]

\* Any step whose stat, open or comparison does not come out right returns an error.
Fail(r) == Return(r) /\ UNCHANGED <<file, cache>>

Call(r) ==
    /\ pc[r] = "idle" /\ path # NoFile
    /\ pc' = [pc EXCEPT ![r] = "inner"]
    /\ outer' = [outer EXCEPT ![r] = Stat(path)]
    /\ seen' = [seen EXCEPT ![r] = Versions]
    /\ UNCHANGED <<file, cache, inner, opened, hashing, digest>>

\* digestRegularFile takes a stat of its own.
StatInner(r) ==
    /\ pc[r] = "inner" /\ path # NoFile
    /\ pc' = [pc EXCEPT ![r] = "lookup"]
    /\ inner' = [inner EXCEPT ![r] = Stat(path)]
    /\ UNCHANGED <<file, cache, outer, opened, hashing, digest, seen>>

Hit(r) == cache.signal = regularFileCacheSignal(inner[r])

Lookup(r) ==
    /\ pc[r] = "lookup"
    /\ IF Hit(r)
       THEN pc' = [pc EXCEPT ![r] = "after"] /\ digest' = [digest EXCEPT ![r] = cache.digest]
       ELSE pc' = [pc EXCEPT ![r] = "open"] /\ UNCHANGED digest
    /\ UNCHANGED <<file, cache, stats, hashing, seen>>

Open(r) ==
    /\ pc[r] = "open" /\ path # NoFile /\ path = inner[r].ino
    /\ pc' = [pc EXCEPT ![r] = "read"]
    /\ opened' = [opened EXCEPT ![r] = Stat(path)]
    /\ UNCHANGED <<file, cache, outer, inner, hashing, digest, seen>>

\* The open file keeps its inode, whatever happens to the path.
Read(r) ==
    /\ pc[r] = "read" /\ pos[r] < Chunks
    /\ pos' = [pos EXCEPT ![r] = pos[r] + 1]
    /\ hash' = [hash EXCEPT ![r] = Append(hash[r], inodes[opened[r].ino].content[pos[r] + 1])]
    /\ UNCHANGED <<file, cache, pc, stats, digest, seen>>

\* The digest is cached under the signal of the inner stat.
Hashed(r) ==
    /\ pc[r] = "read" /\ pos[r] = Chunks
    /\ sameFileSnapshot(opened[r], Stat(opened[r].ino))
    /\ pc' = [pc EXCEPT ![r] = "after"]
    /\ digest' = [digest EXCEPT ![r] = hash[r]]
    /\ cache' = [signal |-> regularFileCacheSignal(inner[r]), digest |-> hash[r]]
    /\ UNCHANGED <<file, stats, hashing, seen>>

\* Mutant: the last comparison asks only whether the file is the same one.
SameInode(r) == path # NoFile /\ outer[r].ino = path

Unchanged(r) == path # NoFile /\ sameFileSnapshot(outer[r], Stat(path))

Confirm(r) ==
    /\ pc[r] = "after" /\ Unchanged(r)
    /\ pc' = [pc EXCEPT ![r] = "done"]
    /\ UNCHANGED <<file, cache, stats, hashing, digest, seen>>

Deny(r) ==
    /\ \/ pc[r] = "inner" /\ path = NoFile
       \/ pc[r] = "open" /\ path # inner[r].ino
       \/ /\ pc[r] = "read" /\ pos[r] = Chunks
          /\ ~sameFileSnapshot(opened[r], Stat(opened[r].ino))
       \/ pc[r] = "after" /\ ~Unchanged(r)
    /\ Fail(r)

\* The identity goes into a proof.
Finished(r) == pc[r] = "done" /\ Return(r) /\ UNCHANGED <<file, cache>>

Writer ==
    \/ \E n \in 1..Chunks, v \in Values : Rewrite(n, v)
    \/ \E t \in 1..MaxNow : t <= now /\ RestoreMtime(t)
    \/ \E c \in Content, t \in 1..MaxNow : t <= now /\ Replace(c, t)
    \/ Remove

Reader(r) ==
    \/ Call(r) \/ StatInner(r) \/ Lookup(r) \/ Open(r) \/ Read(r) \/ Hashed(r)
    \/ Confirm(r) \/ Deny(r) \/ Finished(r)

Next == Writer \/ \E r \in Readers : Reader(r)

Spec == Init /\ [][Next]_vars

StatType == [ino : Nat, mtime : Nat, ctime : Nat]

\* Every variable keeps its type, and a reader's open inode exists.
TypeOK ==
    /\ now \in Nat /\ path \in DOMAIN inodes \cup {NoFile}
    /\ \A i \in DOMAIN inodes :
           i \in Nat \ {0} /\ inodes[i] \in [content : Content, mtime : Nat, ctime : Nat]
    /\ pc \in [Readers -> {"idle", "inner", "lookup", "open", "read", "after", "done"}]
    /\ outer \in [Readers -> StatType] /\ inner \in [Readers -> StatType]
    /\ opened \in [Readers -> StatType]
    /\ pos \in [Readers -> 0..Chunks]
    /\ \A r \in Readers : /\ Len(hash[r]) = pos[r]
                          /\ pc[r] = "read" => opened[r].ino \in DOMAIN inodes

\* File hash reuse: an entry whose signal any version of the file answers to
\* holds that version's digest, whoever stored it and whatever was written,
\* replaced or back-dated between its stat and its last read.
CacheHonest ==
    cache # NoEntry => \A i \in DOMAIN inodes :
        cache.signal = regularFileCacheSignal(Stat(i)) => cache.digest = inodes[i].content

\* An identity that is returned is one the path really had during the call: the
\* digest and the change token belong to one version, read from disk or cached.
IdentityWitnessed ==
    \A r \in Readers : pc[r] = "done" =>
        [content |-> digest[r], token |-> fileChangeToken(outer[r])] \in seen[r]
=============================================================================
