----------------------------- MODULE LineReads ------------------------------
(***************************************************************************)
(* Every read of every small file: a file is any sequence of bytes, and    *)
(* the operation one that the parser of warm file operations accepts.      *)
(***************************************************************************)
EXTENDS LineSlices

CONSTANTS
    Alphabet,      \* the bytes a file is made of
    MaxLength,     \* bytes in a file
    Needles        \* what grep and rg look for

ReadsAssumption ==
    /\ Alphabet \subseteq Nat /\ <<>> \notin Needles
    /\ MaxRanges \in Nat \ {0}
    /\ MaxLine \in Nat /\ MaxWidth \in Nat /\ MaxOutput \in Nat /\ MaxLength \in Nat

VARIABLES content, operation

Clauses == [start : 1..(MaxLine + 1), end : 0..(MaxLine + 1)]

Operations ==
    [kind : {"cat", "nl"}]
    \cup [kind : {"head", "tail"}, count : 1..MaxLine]
    \cup [kind : {"sed"},
          selection : {parseSedPrintSelection(<<c, d>>) : c, d \in Clauses}
                      \cup {parseSedPrintSelection(<<c>>) : c \in Clauses}]
    \cup [kind : {"grep"}, pattern : Needles, quiet : BOOLEAN]
    \cup [kind : {"rg"}, pattern : Needles, quiet : BOOLEAN, number : BOOLEAN]

Init == content = <<>> /\ operation \in Operations

\* A file is any sequence of bytes.
Grow(b) ==
    /\ Len(content) < MaxLength
    /\ content' = Append(content, b)
    /\ UNCHANGED operation

Next == \E b \in Alphabet : Grow(b)

Spec == Init /\ [][Next]_<<content, operation>>

\* Types: the file is bytes, the operation one of those the parser accepts.
TypeOK ==
    /\ content \in Seq(Alphabet) /\ Len(content) <= MaxLength
    /\ operation \in Operations

\* sed printing an unterminated last line more than once.
RepeatsOpenLine ==
    /\ operation.kind = "sed" /\ ~Terminated(content)
    /\ matchCount(operation.selection, LineCount(content)) > 1

\* Answers from file bytes: with and without the index of line starts an
\* operation gives the same answer, it is what the command itself prints and
\* exits with, and it is refused only for a page delimiter under nl, for a NUL
\* byte under grep and rg, for its size, or for a selection sed would not take.
\* A last line without newline, ranges out of order, overlapping or past the end,
\* and empty files are where the two ways of cutting lines could part.
ReadExact ==
    LET indexed == Answered(content, lineStartsForContent(content), operation)
        scanned == Answered(content, <<>>, operation)
        native  == Native(content, operation)
    IN  /\ indexed = scanned
        /\ (indexed.ok /\ ~RepeatsOpenLine) =>
             indexed.stdout = native.stdout /\ indexed.exit = native.exit
        /\ ~indexed.ok =>
             \/ Len(native.stdout) > MaxOutput
             \/ operation.kind = "nl" /\ Page \in ToSet(content)
             \/ operation.kind \in {"grep", "rg"} /\ Binary(content)
             \/ operation.kind = "sed" /\ operation.selection = <<>>
             \/ RepeatsOpenLine

\* Fused pipelines: nl -ba FILE | sed -n RANGES answered in one pass is what
\* the second command prints from what the first one does.
FusedExact ==
    operation.kind = "sed" =>
        LET fused == numberedLineSelectionBytes(content, operation.selection, 0)
            all   == numberedAllLinesBytes(content, 0)
        IN  IF operation.selection = <<>> THEN ~fused.ok
            ELSE /\ fused.ok = all.ok
                 /\ fused.ok => fused.stdout = NativeSed(all.stdout, operation.selection)
=============================================================================
