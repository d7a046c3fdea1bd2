----------------------------- MODULE LineSlices -----------------------------
(***************************************************************************)
(* What Squire answers from the bytes of a proven file: cat, sed -n, head, *)
(* tail, nl -ba, grep -F and rg -F, computed without running them.  Lines  *)
(* are cut in two ways, with an index of line starts prepared beforehand   *)
(* and by scanning; a hit must not depend on which one was at hand.  Bytes *)
(* are their codes; the two bytes \: that delimit a logical page for nl    *)
(* are the one symbol Page, and padding before a line number is left out.  *)
(* The second half says what the commands themselves print.                *)
(***************************************************************************)
EXTENDS Integers, Sequences, FiniteSets, SequencesExt

CONSTANTS
    MaxRanges,     \* maxLineSelectionRanges
    MaxLine,       \* maxLineSelectionLine
    MaxWidth,      \* maxLineSelectionRangeWidth
    MaxOutput      \* maxFileInspectionOutputBytes

NUL  == 0
NL   == 10
TAB  == 9
Page == 92

Digits(n) == <<48 + n>>
Colon     == 58

Failed      == [ok |-> FALSE, stdout |-> <<>>, exit |-> 0]
Result(out) == [ok |-> TRUE, stdout |-> out, exit |-> 0]
Bounded(out, max) == IF max > 0 /\ Len(out) > max THEN Failed ELSE Result(out)

Copies(s, n) == FlattenSeq([i \in 1..n |-> s])

-----------------------------------------------------------------------------
(* Selections: ordered ranges of lines. *)

\* A clause is [start, end], end being 0 when it names one line.
parseSedPrintSelection(clauses) ==
    LET end(c) == IF c.end = 0 THEN c.start ELSE c.end
    IN  IF /\ Len(clauses) \in 1..MaxRanges
           /\ \A i \in DOMAIN clauses :
                /\ clauses[i].start \in 1..MaxLine
                /\ end(clauses[i]) \in clauses[i].start..MaxLine
                /\ end(clauses[i]) - clauses[i].start <= MaxWidth
        THEN [i \in DOMAIN clauses |->
                [start |-> clauses[i].start, end |-> end(clauses[i])]]
        ELSE <<>>

singleLineSelection(start, end) == <<[start |-> start, end |-> end]>>

valid(selection) ==
    /\ Len(selection) \in 1..MaxRanges
    /\ \A i \in DOMAIN selection :
         selection[i].start > 0 /\ selection[i].end >= selection[i].start

\* Mutant: the ranges are taken to be in order.
LastEnd(selection) == selection[Len(selection)].end

maxEnd(selection) == Max({selection[i].end : i \in DOMAIN selection})

matchCount(selection, line) ==
    Cardinality({i \in DOMAIN selection :
                    line \in selection[i].start..selection[i].end})

-----------------------------------------------------------------------------
(* Lines, scanned and indexed. *)

\* The end of the line that begins at a position, its newline included.
LineEnd(bytes, from) ==
    Min({Len(bytes)} \cup {i \in from..Len(bytes) : bytes[i] = NL})

\* The next line, from where the one before it ended.
NextLine(bytes, s) ==
    IF s.from > Len(bytes) THEN s
    ELSE LET end == LineEnd(bytes, s.from)
         IN  [lines |-> Append(s.lines, SubSeq(bytes, s.from, end)), from |-> end + 1]

Scan(bytes) ==
    LET cut[n \in 0..Len(bytes)] ==
            IF n = 0 THEN [lines |-> <<>>, from |-> 1] ELSE NextLine(bytes, cut[n - 1])
    IN  cut[Len(bytes)].lines

Begins(bytes, i) == i = 1 \/ bytes[i - 1] = NL

\* Mutant: a newline at the very end starts a line of its own.
StartsAtEnd(bytes) ==
    LET starts[i \in 0..Len(bytes) + 1] ==
            IF i = 0 THEN <<>>
            ELSE IF Begins(bytes, i) THEN Append(starts[i - 1], i) ELSE starts[i - 1]
    IN  starts[Len(bytes) + 1]

lineStartsForContent(bytes) ==
    LET starts[i \in 0..Len(bytes)] ==
            IF i = 0 THEN <<>>
            ELSE IF Begins(bytes, i) THEN Append(starts[i - 1], i) ELSE starts[i - 1]
    IN  starts[Len(bytes)]

lineEndOffset(bytes, starts, i) ==
    IF i < Len(starts) THEN starts[i + 1] - 1 ELSE Len(bytes)

Body(line) == IF line[Len(line)] = NL THEN SubSeq(line, 1, Len(line) - 1) ELSE line

\* starts is <<>> where no index was prepared.
sedPrintSelectionBytesIndexed(bytes, starts, selection, max) ==
    IF ~valid(selection) THEN Failed
    ELSE IF bytes = <<>> THEN Result(<<>>)
    ELSE LET lines == IF starts # <<>>
                      THEN [n \in DOMAIN starts |->
                                SubSeq(bytes, starts[n], lineEndOffset(bytes, starts, n))]
                      ELSE Scan(bytes)
         IN  Bounded(FlattenSeq([n \in 1..Min({maxEnd(selection), Len(lines)}) |->
                                    Copies(lines[n], matchCount(selection, n))]), max)

tailLineBytesIndexed(bytes, starts, count) ==
    IF count < 1 \/ bytes = <<>> THEN <<>>
    ELSE IF starts # <<>>
    THEN LET first == IF Len(starts) > count THEN Len(starts) - count + 1 ELSE 1
         IN  SubSeq(bytes, starts[first], lineEndOffset(bytes, starts, Len(starts)))
    ELSE LET lines == Scan(bytes)
             first == IF Len(lines) > count THEN Len(lines) - count + 1 ELSE 1
         IN  FlattenSeq(SubSeq(lines, first, Len(lines)))

isDefaultNLLogicalPageDelimiter(body) ==
    Len(body) \in 1..3 /\ \A i \in DOMAIN body : body[i] = Page

\* nl ends an unterminated line on Linux.
numberedLineSelectionBytes(bytes, selection, max) ==
    LET lines == Scan(bytes)
        Closed(line) == IF line[Len(line)] = NL THEN line ELSE Append(line, NL)
    IN  IF ~valid(selection) THEN Failed
        ELSE IF \E n \in DOMAIN lines : isDefaultNLLogicalPageDelimiter(Body(lines[n]))
        THEN Failed
        ELSE IF lines = <<>> THEN Result(<<>>)
        ELSE Bounded(FlattenSeq([n \in 1..Min({maxEnd(selection), Len(lines)}) |->
                        Copies(Digits(n) \o <<TAB>> \o Closed(lines[n]),
                               matchCount(selection, n))]), max)

numberedAllLinesBytes(bytes, max) ==
    numberedLineSelectionBytes(bytes, singleLineSelection(1, Len(bytes) + 1), max)

Holds(body, pattern) ==
    \E i \in 1..(Len(body) - Len(pattern) + 1) :
        SubSeq(body, i, i + Len(pattern) - 1) = pattern

\* Lines that hold the pattern, each ended by a newline and perhaps numbered.
Matching(bytes, pattern, quiet, number) ==
    LET lines == Scan(bytes)
        found == {n \in DOMAIN lines : Holds(Body(lines[n]), pattern)}
    IN  [matched |-> pattern # <<>> /\ found # {},
         stdout |-> IF quiet \/ pattern = <<>> THEN <<>>
                    ELSE FlattenSeq([n \in DOMAIN lines |->
                            IF n \notin found THEN <<>>
                            ELSE (IF number THEN Append(Digits(n), Colon) ELSE <<>>)
                                 \o Append(Body(lines[n]), NL)])]

fixedGrepOutput(bytes, pattern, quiet) == Matching(bytes, pattern, quiet, FALSE)

fixedRgOutput(bytes, pattern, quiet, number) == Matching(bytes, pattern, quiet, number)

Binary(bytes) == NUL \in ToSet(bytes)

\* What grep and rg say of binary files is left to them.
Search(bytes, m) ==
    IF Binary(bytes) THEN Failed
    ELSE [ok |-> TRUE, stdout |-> IF m.matched THEN m.stdout ELSE <<>>,
          exit |-> IF m.matched THEN 0 ELSE 1]

warmFileCommandOutputIndexed(bytes, starts, op) ==
    CASE op.kind = "cat"  -> Result(bytes)
      [] op.kind = "sed"  -> sedPrintSelectionBytesIndexed(bytes, starts, op.selection, MaxOutput)
      [] op.kind = "head" -> sedPrintSelectionBytesIndexed(
                                bytes, starts, singleLineSelection(1, op.count), 0)
      [] op.kind = "tail" -> Result(tailLineBytesIndexed(bytes, starts, op.count))
      [] op.kind = "nl"   -> numberedAllLinesBytes(bytes, MaxOutput)
      [] op.kind = "grep" -> Search(bytes, fixedGrepOutput(bytes, op.pattern, op.quiet))
      [] op.kind = "rg"   -> Search(bytes, fixedRgOutput(bytes, op.pattern, op.quiet, op.number))

\* Whole answers larger than the limit are misses.
Answered(bytes, starts, op) ==
    LET r == warmFileCommandOutputIndexed(bytes, starts, op)
    IN  IF Len(r.stdout) > MaxOutput THEN Failed ELSE r

-----------------------------------------------------------------------------
(* The commands themselves, by what a line is. *)

\* The number of the line a byte belongs to.
LineOf(bytes, i) == 1 + Cardinality({j \in 1..(i - 1) : bytes[j] = NL})

TextOf(bytes, n) ==
    LET own == {i \in DOMAIN bytes : LineOf(bytes, i) = n}
    IN  SubSeq(bytes, Min(own), Max(own))

LineCount(bytes) == IF bytes = <<>> THEN 0 ELSE LineOf(bytes, Len(bytes))

Terminated(bytes) == bytes = <<>> \/ bytes[Len(bytes)] = NL

Close(line) == IF Terminated(line) THEN line ELSE Append(line, NL)

\* sed prints a line for every clause that holds it, and separates what it
\* prints: a line without a newline gets one before anything follows it.
NativeSed(bytes, selection) ==
    LET cycle == [n \in 1..LineCount(bytes) |->
                    FlattenSeq([i \in DOMAIN selection |->
                        IF n \in selection[i].start..selection[i].end
                        THEN <<TextOf(bytes, n)>> ELSE <<>>])]
        printed == FlattenSeq(cycle)
    IN  FlattenSeq([k \in DOMAIN printed |->
                        IF k < Len(printed) THEN Close(printed[k]) ELSE printed[k]])

\* Of a binary file grep and rg say that it matches, and no more.
Notice == <<66>>

NativeSearch(bytes, op, number) ==
    LET found == {n \in 1..LineCount(bytes) : Holds(Body(TextOf(bytes, n)), op.pattern)}
        shown(n) == (IF number THEN Append(Digits(n), Colon) ELSE <<>>)
                    \o Close(TextOf(bytes, n))
    IN  [stdout |-> IF op.quiet \/ found = {} THEN <<>>
                    ELSE IF Binary(bytes) THEN Notice
                    ELSE FlattenSeq([n \in 1..LineCount(bytes) |->
                            IF n \in found THEN shown(n) ELSE <<>>]),
         exit |-> IF found = {} THEN 1 ELSE 0]

Native(bytes, op) ==
    LET count == LineCount(bytes)
        Lines(from, to) == FlattenSeq([k \in 1..(to - from + 1) |-> TextOf(bytes, from + k - 1)])
        Zero(out) == [stdout |-> out, exit |-> 0]
    IN  CASE op.kind = "cat"  -> Zero(bytes)
          [] op.kind = "sed"  -> Zero(NativeSed(bytes, op.selection))
          [] op.kind = "head" -> Zero(Lines(1, Min({op.count, count})))
          [] op.kind = "tail" -> Zero(Lines(IF count > op.count THEN count - op.count + 1
                                            ELSE 1, count))
          [] op.kind = "nl"   -> Zero(FlattenSeq([n \in 1..count |->
                                    Digits(n) \o <<TAB>> \o Close(TextOf(bytes, n))]))
          [] op.kind = "grep" -> NativeSearch(bytes, op, FALSE)
          [] op.kind = "rg"   -> NativeSearch(bytes, op, op.number)
=============================================================================
