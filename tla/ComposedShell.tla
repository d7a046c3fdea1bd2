---------------------------- MODULE ComposedShell ----------------------------
(***************************************************************************)
(* A script such as  cat f | head -n 1; git diff  answered without a       *)
(* shell: tokens, the parser, the evaluation of the plan from proven       *)
(* files, replayed commands and pure filters, and the gate of the          *)
(* production runtime.  A simple command is one word; Commands says what   *)
(* it is.  Go's nil and empty slices differ here: a command with nil input *)
(* is evaluated as a source, one with empty input as a filter.             *)
(***************************************************************************)
EXTENDS LineSlices

CONSTANTS
    Commands,      \* what the words used as commands are
    Files,         \* the files that are prepared, with their bytes
    MaxReply,      \* maxFastPathOutputBytes
    MaxNodes,      \* composedShellMaxNodes
    MaxTokens,     \* composedShellMaxTokens
    MaxArgs,       \* composedShellMaxArgs
    MaxRepeat,     \* iterations of a loop, 64 in the code
    MaxLeaves, MaxWraps, MaxScript  \* bounds: commands, redirects and loops, tokens

VARIABLES stack, leaves, wraps, script

Nil == [nil |-> TRUE, bytes |-> <<>>]
Made(bytes)  == [nil |-> FALSE, bytes |-> bytes]
\* append([]byte(nil), bytes...) and a bytes.Buffer are nil when empty.
Fresh(bytes) == [nil |-> bytes = <<>>, bytes |-> bytes]

-----------------------------------------------------------------------------
(* Tokens and the parser. *)

Word(w) == [kind |-> "word", text |-> w]
Sign(s) == [kind |-> s, text |-> ""]
Redirect(fd) == [kind |-> "redirect", text |-> fd]

Exec(argv)        == [kind |-> "exec", argv |-> argv]
Join(kind, l, r)  == [kind |-> kind, left |-> l, right |-> r]
RedirNull(n, fd)  == [kind |-> "redirect", left |-> n, fd |-> fd]
For(n, repeat)    == [kind |-> "for", left |-> n, repeat |-> repeat]

composedShellTokenCanEnd(tokens) ==
    tokens # <<>> /\ tokens[Len(tokens)].kind \in {"word", ")", "redirect"}

\* A newline ends a command that can end; elsewhere it is white space.
tokenizeComposedShell(pieces) ==
    FoldLeft(LAMBDA tokens, p :
                IF p.kind # "newline" THEN Append(tokens, p)
                ELSE IF composedShellTokenCanEnd(tokens) THEN Append(tokens, Sign(";"))
                ELSE tokens,
             <<>>, pieces)

NoParse == [ok |-> FALSE, node |-> <<>>, pos |-> 0]
Parsed(node, pos) == [ok |-> TRUE, node |-> node, pos |-> pos]

peekKind(t, p, kind) == p <= Len(t) /\ t[p].kind = kind
peekWord(t, p, text) == peekKind(t, p, "word") /\ t[p].text = text

\* The first position from p on that is past every token of the kind.
Skip(t, p, kind) ==
    Min({Len(t) + 1} \cup {i \in p..Len(t) : t[i].kind # kind})

Reserved == {"in", "do", "done"}

\* Words with an equals sign: neither a program nor the variable of a loop.
Assignments == {"v=w"}

RECURSIVE parseSequence(_, _), parseFor(_, _), parsePrimary(_, _), Chain(_, _, _),
          SequenceRest(_, _), Redirects(_, _)

Redirects(t, r) ==
    IF ~r.ok \/ ~peekKind(t, r.pos, "redirect") THEN r
    ELSE Redirects(t, Parsed(RedirNull(r.node, t[r.pos].text), r.pos + 1))

parseFor(t, p) ==
    LET words == p + 3
        semi  == Skip(t, words, "word")
        do    == Skip(t, semi, ";")
        body  == parseSequence(t, Skip(t, do + 1, ";"))
        done  == Skip(t, body.pos, ";")
    IN  IF /\ peekKind(t, p + 1, "word") /\ t[p + 1].text \notin Assignments
           /\ peekWord(t, p + 2, "in")
           /\ semi - words \in 1..MaxRepeat /\ peekKind(t, semi, ";")
           /\ \A i \in words..(semi - 1) : t[i].text \notin Reserved
           /\ peekWord(t, do, "do") /\ body.ok /\ peekWord(t, done, "done")
        THEN Parsed(For(body.node, semi - words), done + 1)
        ELSE NoParse

parsePrimary(t, p) ==
    Redirects(t,
        IF peekKind(t, p, "(")
        THEN LET inner == parseSequence(t, p + 1)
             IN  IF inner.ok /\ peekKind(t, inner.pos, ")")
                 THEN Parsed(inner.node, inner.pos + 1) ELSE NoParse
        ELSE IF peekWord(t, p, "for") THEN parseFor(t, p)
        ELSE LET end == Skip(t, p, "word")
             IN  IF end - p \in 1..MaxArgs /\ t[p].text \notin Assignments
                 THEN Parsed(Exec([i \in 1..(end - p) |-> t[p + i - 1].text]), end)
                 ELSE NoParse)

\* Mutant: && binds as tightly as |.
FlatOperand(op, t, p) == parsePrimary(t, p)

\* What an operator joins: && joins pipelines, | joins primaries.
OperandOf(op, t, p) ==
    IF op = "&&" THEN Chain("|", t, parsePrimary(t, p)) ELSE parsePrimary(t, p)

\* Operators of one kind associate to the left.
Chain(op, t, l) ==
    IF ~l.ok \/ ~peekKind(t, l.pos, op) THEN l
    ELSE LET r == OperandOf(op, t, l.pos + 1)
         IN  IF r.ok THEN Chain(op, t, Parsed(Join(op, l.node, r.node), r.pos)) ELSE NoParse

parsePipeline(t, p) == Chain("|", t, parsePrimary(t, p))

parseAnd(t, p) == Chain("&&", t, parsePipeline(t, p))

SequenceRest(t, l) ==
    LET next == Skip(t, l.pos, ";")
        r    == parseAnd(t, next)
    IN  IF ~l.ok \/ ~peekKind(t, l.pos, ";") THEN l
        ELSE IF next > Len(t) \/ peekKind(t, next, ")") \/ peekWord(t, next, "done")
        THEN Parsed(l.node, next)
        ELSE IF r.ok THEN SequenceRest(t, Parsed(Join(";", l.node, r.node), r.pos))
        ELSE NoParse

parseSequence(t, p) == SequenceRest(t, parseAnd(t, p))

RECURSIVE Size(_)
Size(n) == CASE n.kind = "exec" -> 1
             [] n.kind \in {"redirect", "for"} -> 1 + Size(n.left)
             [] OTHER -> 1 + Size(n.left) + Size(n.right)

Whole(t, r) ==
    IF t # <<>> /\ Len(t) <= MaxTokens /\ r.ok /\ r.pos = Len(t) + 1 /\ Size(r.node) <= MaxNodes
    THEN r ELSE NoParse

ParseTokens(t) == Whole(t, parseSequence(t, 1))

parseComposedShell(pieces) == ParseTokens(tokenizeComposedShell(pieces))

-----------------------------------------------------------------------------
(* Evaluation.  A command is
     [kind |-> "read", file, op]       a direct command on one file,
     [kind |-> "filter", op]           the same without a file,
     [kind |-> "printf", text], [kind |-> "pwd", text],
     [kind |-> "foreign", selection, out]  another program with the arguments
                                           -n RANGES, as in  grep -n 1p,
     [kind |-> "replay", out, prepared] any other replayable command,
     [kind |-> "unknown", out]         what is never replayed;
   out is the [stdout, stderr, exit] it has when it runs. *)

Miss == [ok |-> FALSE, stdout |-> Nil, stderr |-> <<>>, exit |-> 0, mixed |-> FALSE]
Hit(stdout, stderr, exit) ==
    [ok |-> TRUE, stdout |-> stdout, stderr |-> stderr, exit |-> exit, mixed |-> FALSE]

Unknown == [kind |-> "unknown", out |-> [stdout |-> <<>>, stderr |-> <<>>, exit |-> 127]]
Meaning(argv) ==
    IF Len(argv) = 1 /\ argv[1] \in DOMAIN Commands THEN Commands[argv[1]] ELSE Unknown

Before(a, b) ==
    \/ Len(a) < Len(b) /\ a = SubSeq(b, 1, Len(a))
    \/ \E i \in 1..Min({Len(a), Len(b)}) :
         a[i] < b[i] /\ \A j \in 1..(i - 1) : a[j] = b[j]

sortComposedShellLines(bytes) ==
    LET bodies == [n \in DOMAIN Scan(bytes) |-> Body(Scan(bytes)[n])]
        sorted == SortSeq(bodies, Before)
    IN  FlattenSeq([n \in DOMAIN sorted |-> Append(sorted[n], NL)])

formatComposedShellWCLineCount(bytes) ==
    Append(Digits(Cardinality({i \in DOMAIN bytes : bytes[i] = NL})), NL)

\* Only a command without a file is a filter.
evalComposedShellFilter(c, bytes) ==
    LET some(out, exit) == Hit(Fresh(out), <<>>, exit)
        Slice(r) == IF r.ok THEN some(r.stdout, 0) ELSE Miss
    IN  IF c.kind # "filter" THEN Miss
        ELSE CASE c.op.kind = "cat"  -> some(bytes, 0)
               [] c.op.kind = "head" ->
                    some(sedPrintSelectionBytesIndexed(
                            bytes, <<>>, singleLineSelection(1, c.op.count), 0).stdout, 0)
               [] c.op.kind = "tail" -> some(tailLineBytesIndexed(bytes, <<>>, c.op.count), 0)
               [] c.op.kind = "sed"  ->
                    Slice(sedPrintSelectionBytesIndexed(bytes, <<>>, c.op.selection, MaxReply))
               [] c.op.kind = "grep" ->
                    LET r == Search(bytes, fixedGrepOutput(bytes, c.op.pattern, c.op.quiet))
                    IN  IF r.ok THEN some(r.stdout, r.exit) ELSE Miss
               [] c.op.kind = "wc"   -> some(formatComposedShellWCLineCount(bytes), 0)
               [] c.op.kind = "sort" ->
                    LET out == sortComposedShellLines(bytes)
                    IN  IF Binary(bytes) \/ Len(out) > MaxReply THEN Miss ELSE some(out, 0)

\* Mutant: a command without a file and without input reads nothing.
SourceOrFilter(c) ==
    IF c.kind = "filter" THEN evalComposedShellFilter(c, <<>>) ELSE Miss

\* A direct command that is replay-allowed, from its proven file or its
\* replayed observation; printf and pwd are computed.
evalComposedShellSource(c) ==
    CASE c.kind \in {"printf", "pwd"} -> Hit(Made(c.text), <<>>, 0)
      [] c.kind = "read" ->
            IF c.file \notin DOMAIN Files THEN Miss
            ELSE LET bytes == Files[c.file]
                     r == IF c.op.kind = "nl" THEN numberedAllLinesBytes(bytes, MaxReply)
                          ELSE Answered(bytes, lineStartsForContent(bytes), c.op)
                 IN  IF r.ok THEN Hit(Fresh(r.stdout), <<>>, r.exit) ELSE Miss
      [] c.kind = "replay" ->
            IF c.prepared THEN Hit(Fresh(c.out.stdout), c.out.stderr, c.out.exit) ELSE Miss
      [] OTHER -> Miss

\* The arguments are read, the program is not.
parseComposedShellFilterSed(c) ==
    CASE c.kind = "filter" /\ c.op.kind = "sed" -> c.op.selection
      [] c.kind = "foreign" -> c.selection
      [] OTHER -> <<>>

\* nl -ba FILE | sed -n RANGES in one pass over the file.
evalComposedNumberedRange(left, right) ==
    LET from == Meaning(left.argv)
        selection == parseComposedShellFilterSed(Meaning(right.argv))
        r    == numberedLineSelectionBytes(Files[from.file], selection, MaxOutput)
    IN  IF /\ left.kind = "exec" /\ right.kind = "exec"
           /\ from.kind = "read" /\ from.op.kind = "nl" /\ from.file \in DOMAIN Files
           /\ selection # <<>> /\ r.ok
        THEN Hit(Fresh(r.stdout), <<>>, 0) ELSE Miss

\* Mutant: the first command's exit status is the whole's.
FirstExit(l, r, stdout) ==
    [ok |-> l.ok /\ r.ok, stdout |-> stdout, stderr |-> l.stderr \o r.stderr,
     exit |-> l.exit, mixed |-> l.mixed \/ r.mixed]

Both(l, r, stdout) ==
    [ok |-> l.ok /\ r.ok, stdout |-> stdout, stderr |-> l.stderr \o r.stderr,
     exit |-> r.exit, mixed |-> l.mixed \/ r.mixed]

concatComposedShellResults(l, r) == Both(l, r, Made(l.stdout.bytes \o r.stdout.bytes))

\* piped tells a command that a shell would give the output of another; it
\* changes nothing but mixed, which records that one was run as a source.
RECURSIVE evalComposedShellNode(_, _, _)
evalComposedShellNode(n, input, piped) ==
    CASE n.kind = "exec" ->
            IF ~input.nil THEN evalComposedShellFilter(Meaning(n.argv), input.bytes)
            ELSE [evalComposedShellSource(Meaning(n.argv)) EXCEPT !.mixed = piped]
      [] n.kind = "|" ->
            LET fused == evalComposedNumberedRange(n.left, n.right)
                left  == evalComposedShellNode(n.left, input, piped)
                right == evalComposedShellNode(n.right, left.stdout, TRUE)
            IN  IF input.nil /\ fused.ok THEN fused
                ELSE IF ~left.ok THEN Miss
                ELSE IF ~right.ok THEN Miss
                ELSE Both(left, right, Fresh(right.stdout.bytes))
      [] n.kind \in {"&&", ";"} ->
            LET left  == evalComposedShellNode(n.left, input, piped)
                right == evalComposedShellNode(n.right, input, piped)
            IN  IF ~left.ok THEN Miss
                ELSE IF n.kind = "&&" /\ left.exit # 0 THEN left
                ELSE IF ~right.ok THEN Miss
                ELSE concatComposedShellResults(left, right)
      [] n.kind = "redirect" ->
            LET r == evalComposedShellNode(n.left, input, piped)
            IN  IF ~r.ok THEN Miss
                ELSE IF n.fd = 1 THEN [r EXCEPT !.stdout = Nil]
                ELSE [r EXCEPT !.stderr = <<>>]
      [] n.kind = "for" ->
            LET r == evalComposedShellNode(n.left, Nil, piped)
            IN  IF ~input.nil \/ ~r.ok THEN Miss
                ELSE FoldLeft(concatComposedShellResults, Hit(Nil, <<>>, 0),
                              [i \in 1..n.repeat |-> r])

Replied(r) == IF r.ok /\ Len(r.stdout.bytes) + Len(r.stderr) <= MaxReply THEN r ELSE Miss

ReplayComposedShell(plan) == Replied(evalComposedShellNode(plan, Nil, FALSE))

\* The gate of the production runtime.
Gated == {"read", "replay", "pwd"}

RECURSIVE productionRuntimePlanAllowed(_, _)
productionRuntimePlanAllowed(n, hasInput) ==
    CASE n.kind = "exec" ->
            LET c == Meaning(n.argv)
            IN  IF hasInput THEN evalComposedShellFilter(c, <<>>).ok
                ELSE c.kind \in Gated
      [] n.kind = "|" -> /\ productionRuntimePlanAllowed(n.left, hasInput)
                         /\ productionRuntimePlanAllowed(n.right, TRUE)
      [] n.kind \in {"&&", ";"} -> /\ productionRuntimePlanAllowed(n.left, hasInput)
                                   /\ productionRuntimePlanAllowed(n.right, hasInput)
      [] n.kind = "redirect" -> productionRuntimePlanAllowed(n.left, hasInput)
      [] OTHER -> FALSE

-----------------------------------------------------------------------------
(* The shell: what a script reads from its input is gone for what follows. *)

Ranked(lines) ==
    [k \in DOMAIN lines |-> CHOOSE i \in DOMAIN lines :
        k = 1 + Cardinality({j \in DOMAIN lines : \/ Before(lines[j], lines[i])
                                                  \/ lines[j] = lines[i] /\ j < i})]

NativeFilter(op, bytes) ==
    CASE op.kind = "wc"   -> [stdout |-> Append(Digits(Len(SelectSeq(bytes, LAMBDA b : b = NL))), NL),
                              exit |-> 0]
      [] op.kind = "sort" ->
            LET lines == [n \in 1..LineCount(bytes) |-> Body(TextOf(bytes, n))]
            IN  [stdout |-> FlattenSeq([k \in DOMAIN lines |->
                                Append(lines[Ranked(lines)[k]], NL)]), exit |-> 0]
      [] OTHER -> Native(bytes, op)

Ran(r, stderr, rest) ==
    [stdout |-> r.stdout, stderr |-> stderr, exit |-> r.exit, rest |-> rest]

NativeCommand(c, input) ==
    CASE c.kind = "filter" -> Ran(NativeFilter(c.op, input), <<>>, <<>>)
      [] c.kind = "read" /\ c.file \in DOMAIN Files ->
            Ran(Native(Files[c.file], c.op), <<>>, input)
      [] c.kind \in {"printf", "pwd"} -> Ran([stdout |-> c.text, exit |-> 0], <<>>, input)
      [] c.kind = "foreign" -> Ran(c.out, c.out.stderr, <<>>)
      [] c.kind \in {"replay", "unknown"} -> Ran(c.out, c.out.stderr, input)
      [] OTHER -> Ran(Unknown.out, <<>>, input)

After(l, r) == [stdout |-> l.stdout \o r.stdout, stderr |-> l.stderr \o r.stderr,
                exit |-> r.exit, rest |-> r.rest]

RECURSIVE Shell(_, _)
Shell(n, input) ==
    CASE n.kind = "exec" -> NativeCommand(Meaning(n.argv), input)
      [] n.kind = "|" ->
            LET left  == Shell(n.left, input)
                right == Shell(n.right, left.stdout)
            IN  [right EXCEPT !.stderr = left.stderr \o right.stderr, !.rest = left.rest]
      [] n.kind \in {"&&", ";"} ->
            LET left == Shell(n.left, input)
            IN  IF n.kind = "&&" /\ left.exit # 0 THEN left
                ELSE After(left, Shell(n.right, left.rest))
      [] n.kind = "redirect" ->
            IF n.fd = 1 THEN [Shell(n.left, input) EXCEPT !.stdout = <<>>]
            ELSE [Shell(n.left, input) EXCEPT !.stderr = <<>>]
      [] n.kind = "for" ->
            LET nothing == [stdout |-> <<>>, stderr |-> <<>>, exit |-> 0, rest |-> input]
                once(r) == After(r, Shell(n.left, r.rest))
            IN  FoldLeft(LAMBDA r, i : once(r), nothing, [i \in 1..n.repeat |-> i])

\* How many commands of a plan read what is piped into it.
RECURSIVE ReadersOf(_)
ReadersOf(n) ==
    CASE n.kind = "exec" -> IF Meaning(n.argv).kind \in {"filter", "foreign"} THEN 1 ELSE 0
      [] n.kind \in {"|", "redirect"} -> ReadersOf(n.left)
      [] n.kind = "for" -> n.repeat * ReadersOf(n.left)
      [] OTHER -> ReadersOf(n.left) + ReadersOf(n.right)

RECURSIVE SoleReader(_)
SoleReader(n) ==
    CASE n.kind = "exec" -> TRUE
      [] n.kind \in {"redirect", "for"} -> SoleReader(n.left)
      [] OTHER -> /\ SoleReader(n.left) /\ SoleReader(n.right)
                  /\ n.kind = "|" => ReadersOf(n.right) <= 1

\* A pipe from nl into a program that is given sed's arguments and is not sed.
RECURSIVE TakenForSed(_)
TakenForSed(n) ==
    CASE n.kind = "exec" -> FALSE
      [] n.kind \in {"redirect", "for"} -> TakenForSed(n.left)
      [] OTHER ->
            \/ TakenForSed(n.left) \/ TakenForSed(n.right)
            \/ /\ n.kind = "|" /\ n.left.kind = "exec" /\ n.right.kind = "exec"
               /\ Meaning(n.left.argv).kind = "read" /\ Meaning(n.left.argv).op.kind = "nl"
               /\ Meaning(n.right.argv).kind = "foreign"

-----------------------------------------------------------------------------
(* The grammar: a plan as a script, with the parentheses it needs, and the   *)
(* plans a sequence of tokens stands for.                                    *)

Level == [kind \in {";", "&&", "|"} |-> CASE kind = ";" -> 0 [] kind = "&&" -> 1 [] OTHER -> 2]

RECURSIVE Render(_, _)
Render(n, level) ==
    CASE n.kind = "exec" -> [i \in DOMAIN n.argv |-> Word(n.argv[i])]
      [] n.kind = "redirect" -> Append(Render(n.left, 3), Redirect(n.fd))
      [] n.kind = "for" ->
            <<Word("for"), Word("x"), Word("in")>> \o [i \in 1..n.repeat |-> Word("i")]
            \o <<Sign(";"), Word("do")>> \o Render(n.left, 0) \o <<Sign(";"), Word("done")>>
      [] OTHER ->
            LET own  == Level[n.kind]
                text == Render(n.left, own) \o <<Sign(n.kind)>> \o Render(n.right, own + 1)
            IN  IF own < level THEN <<Sign("(")>> \o text \o <<Sign(")")>> ELSE text

\* The same with newlines for semicolons, and after every operator.
Spread(pieces) ==
    FlattenSeq([i \in DOMAIN pieces |->
        IF pieces[i].kind = ";" THEN <<Sign("newline"), Sign("newline")>>
        ELSE IF pieces[i].kind \in {"|", "&&", "("} THEN <<pieces[i], Sign("newline")>>
        ELSE <<pieces[i]>>])

\* The plans that the tokens from i to j are, by the shell's grammar.
Derived(t) ==
    LET Split(op, ls, rs, i, j) ==
            UNION {{Join(op, l, r) : l \in ls[k - 1], r \in rs[k + 1]} :
                      k \in {m \in (i + 1)..(j - 1) : t[m].kind = op}}
        derive[nt \in {"list", "seq", "&&", "|", "primary"}, i, j \in 0..(Len(t) + 1)] ==
            IF i > j THEN {}
            ELSE CASE nt = "list" -> derive["seq", i, j] \cup
                        (IF t[j].kind = ";" THEN derive["seq", i, j - 1] ELSE {})
              [] nt = "seq" -> derive["&&", i, j] \cup
                    Split(";", [m \in i..j |-> derive["seq", i, m]],
                               [m \in i..j |-> derive["&&", m, j]], i, j)
              [] nt = "&&" -> derive["|", i, j] \cup
                    Split("&&", [m \in i..j |-> derive["&&", i, m]],
                                [m \in i..j |-> derive["|", m, j]], i, j)
              [] nt = "|" -> derive["primary", i, j] \cup
                    Split("|", [m \in i..j |-> derive["|", i, m]],
                               [m \in i..j |-> derive["primary", m, j]], i, j)
              [] nt = "primary" ->
                    (IF (\A m \in i..j : t[m].kind = "word") /\ t[i].text \notin Assignments
                     THEN {Exec([m \in 1..(j - i + 1) |-> t[i + m - 1].text])} ELSE {})
                    \cup (IF t[i].kind = "(" /\ t[j].kind = ")"
                          THEN derive["list", i + 1, j - 1] ELSE {})
                    \cup (IF t[j].kind = "redirect"
                          THEN {RedirNull(n, t[j].text) : n \in derive["primary", i, j - 1]}
                          ELSE {})
    IN  derive["list", 1, Len(t)]

-----------------------------------------------------------------------------
(* Plans are put together from commands; scripts token by token. *)

Init == stack = <<>> /\ leaves = 0 /\ wraps = 0 /\ script = <<>>

Command(w) ==
    /\ script = <<>> /\ leaves < MaxLeaves
    /\ leaves' = leaves + 1 /\ stack' = Append(stack, Exec(<<w>>))
    /\ UNCHANGED <<wraps, script>>

Compose(kind) ==
    LET k == Len(stack)
    IN  /\ k > 1
        /\ stack' = Append(SubSeq(stack, 1, k - 2), Join(kind, stack[k - 1], stack[k]))
        /\ UNCHANGED <<leaves, wraps, script>>

Wrap(n) ==
    /\ stack # <<>> /\ wraps < MaxWraps /\ n.left = stack[Len(stack)]
    /\ wraps' = wraps + 1
    /\ stack' = [stack EXCEPT ![Len(stack)] = n]
    /\ UNCHANGED <<leaves, script>>

Silence == stack # <<>> /\ \E fd \in {1, 2} : Wrap(RedirNull(stack[Len(stack)], fd))
Repeat  == stack # <<>> /\ Wrap(For(stack[Len(stack)], 2))

Token(p) ==
    /\ stack = <<>> /\ Len(script) < MaxScript
    /\ script' = Append(script, p)
    /\ UNCHANGED <<stack, leaves, wraps>>

Next ==
    \/ \E w \in DOMAIN Commands : Command(w)
    \/ \E kind \in {"|", "&&", ";"} : Compose(kind)
    \/ Silence \/ Repeat
    \/ \E p \in {Word("w"), Word("v=w"), Sign("|"), Sign("&&"), Sign(";"), Sign("("), Sign(")"),
                 Redirect(1)} : Token(p)

Spec == Init /\ [][Next]_<<stack, leaves, wraps, script>>

Plan == stack[1]
Complete == Len(stack) = 1

-----------------------------------------------------------------------------
\* Types: a stack of plans within the bounds, or a script.
TypeOK ==
    /\ leaves \in 0..MaxLeaves /\ wraps \in 0..MaxWraps
    /\ Len(stack) <= leaves /\ Len(script) <= MaxScript
    /\ \A i \in DOMAIN stack : Size(stack[i]) <= 2 * leaves + wraps

\* Parser: a plan written as a script, on one line or spread over several,
\* is read back as itself, so | binds tighter than &&, and && than ;, each to
\* the left; and a sequence of tokens is taken exactly when the grammar
\* derives it, as the plan the grammar gives.  The exception is a repeated
\* semicolon, which the code skips and a shell refuses.
ParseExact ==
    /\ Complete =>
        LET text == Render(Plan, 0)
        IN  \A t \in {text, Spread(text)} : parseComposedShell(t).node = Plan
    /\ (\A i \in 1..(Len(script) - 1) : ~(script[i].kind = ";" /\ script[i + 1].kind = ";")) =>
        Derived(script) = {r.node : r \in {parseComposedShell(script)} \ {NoParse}}

Agree(r, s) ==
    r.ok => r.stdout.bytes = s.stdout /\ r.stderr = s.stderr /\ r.exit = s.exit

Exact(plan) == Agree(ReplayComposedShell(plan), Shell(plan, <<>>))

\* Composed commands: whatever is answered without a shell is what the shell
\* would have printed and exited with, through every nesting of pipes, lists,
\* redirects and loops, as long as what is piped into a group is read by one
\* command of it (ReplayExact below says it without that condition), and as long
\* as nl is piped into no program that is given sed's arguments and is not sed
\* (composed_shell.go:645 does not look at its name).  Plans that pass the gate of
\* the production runtime need the first condition only.
ReplayExactAlone ==
    /\ Complete /\ SoleReader(Plan)
    /\ productionRuntimePlanAllowed(Plan, FALSE) \/ ~TakenForSed(Plan)
    => Exact(Plan)

\* SQUIRE_CONTRACT.md: a hit preserves exact stdout, stderr, and exit status.
ReplayExact == Complete => Exact(Plan)

\* Gate: in a plan the production runtime lets through, a command that a
\* shell would give the output of another is never answered as if it stood
\* alone, even when that output is empty and the evaluator sees no input.
GateSafe ==
    Complete /\ productionRuntimePlanAllowed(Plan, FALSE) =>
        ~ReplayComposedShell(Plan).mixed
=============================================================================
