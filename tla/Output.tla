------------------------------- MODULE Output -------------------------------
(***************************************************************************)
(* What the model gets to see of a tool's output: reduced by meaning, then *)
(* cut to a size, when the engine ingests a tool result and when it        *)
(* reports a completion check that failed.                                 *)
(*                                                                         *)
(* A text is a sequence of units: characters of a few kinds (digits, a     *)
(* letter, a progress bar's character, one of two bytes, a newline), the   *)
(* two section headers, and the markers that reduction and cutting leave.  *)
(* The counts that the markers tell and blanks inside lines are left out.  *)
(***************************************************************************)
EXTENDS Naturals, Sequences, SequencesExt, FiniteSetsExt

CONSTANTS
    Stdouts, Stderrs,            \* what commands print
    PathLists,                   \* what glob finds
    StdoutHead, StdoutTail, RunMin, GlobMax,    \* the reducer's thresholds
    MaxLines, MaxBytes, HeadLines, TailLines    \* TruncateConfig

VARIABLES
    tool,        \* the tool whose result was ingested, or "check", or "none"
    raw,         \* its output
    stderr,      \* what the command wrote to standard error
    view,        \* what the model sees
    withheld,    \* the record says that something is missing
    sidecar      \* the full output beside the transcript, <<>> when there is none

vars == <<tool, raw, stderr, view, withheld, sidecar>>

Digits == {"1", "2", "3"}
OutHeader == <<"--- stdout ---">>
ErrHeader == <<"--- stderr ---">>
Reduced == <<"[reduced]">>
Elided == <<"[elided]">>

(***************************************************************************)
(* Texts and lines.  A text may lack its last newline; lines never tell.   *)
(***************************************************************************)
Lines(text) ==
    LET upTo[i \in 0 .. Len(text)] ==
            IF i = 0 THEN <<>>
            ELSE LET before == upTo[i - 1] IN
                 IF i = 1 \/ text[i - 1] = "\n"
                 THEN Append(before, IF text[i] = "\n" THEN <<>> ELSE <<text[i]>>)
                 ELSE IF text[i] = "\n" THEN before
                 ELSE Append(Front(before), Append(Last(before), text[i])) IN
    upTo[Len(text)]

Text(lines) ==
    LET upTo[k \in 0 .. Len(lines)] ==
            IF k = 0 THEN <<>> ELSE upTo[k - 1] \o Append(lines[k], "\n") IN
    upTo[Len(lines)]

Bytes(text) == Len(text) + Cardinality({i \in DOMAIN text : text[i] = "wide"})

FirstLine(lines, header) == Min({Len(lines) + 1} \cup {i \in DOMAIN lines : lines[i] = header})

HeadAndTail(lines, head, tail, marker) ==
    SubSeq(lines, 1, head) \o <<marker>> \o SubSeq(lines, Len(lines) - tail + 1, Len(lines))

(***************************************************************************)
(* Reduction by meaning.                                                   *)
(***************************************************************************)
Shape(u) == IF u \in Digits THEN "#" ELSE u
Repeats(line, i) == i > 1 /\ Shape(line[i]) = Shape(line[i - 1]) /\ Shape(line[i]) \in {"#", "="}
\* What a line is compared by: a number is a "#", a bar one character of it.
Normalized(line) ==
    LET upTo[i \in 0 .. Len(line)] ==
            IF i = 0 THEN <<>>
            ELSE upTo[i - 1] \o (IF Repeats(line, i) THEN <<>> ELSE <<Shape(line[i])>>) IN
    upTo[Len(line)]

\* A long run of near-identical lines keeps its first and its last.
Collapsed(lines) ==
    LET similar == {i \in 1 .. Len(lines) - 1 : Normalized(lines[i]) = Normalized(lines[i + 1])}
        starts  == {i \in DOMAIN lines : i - 1 \notin similar}
        ends    == DOMAIN lines \ similar
        long(i) == \E j \in starts, k \in ends :
                      /\ j <= i /\ i <= k /\ k - j + 1 >= RunMin
                      /\ ends \cap (j .. k - 1) = {}
        upTo[i \in 0 .. Len(lines)] ==
            IF i = 0 THEN <<>>
            ELSE upTo[i - 1] \o (IF ~long(i) \/ i \in ends THEN <<lines[i]>>
                                 ELSE IF i \in starts THEN <<lines[i], Reduced>> ELSE <<>>) IN
    upTo[Len(lines)]

ReducedStdout(lines) ==
    LET collapsed == Collapsed(lines) IN
    IF Len(collapsed) > StdoutHead + StdoutTail
    THEN HeadAndTail(collapsed, StdoutHead, StdoutTail, Reduced)
    ELSE collapsed

\* Without a header there is no section: what follows one section's header
\* is that section up to the other's.
LastErrHeader(lines) ==
    Max({0} \cup {i \in DOMAIN lines : lines[i] = ErrHeader})
ErrAt(lines) == FirstLine(lines, ErrHeader)

ReduceBash(text) ==
    LET lines == Lines(text)
        outAt == FirstLine(lines, OutHeader)
        errAt == ErrAt(lines)
        out   == SubSeq(lines, outAt + 1, errAt - 1)
        kept  == ReducedStdout(out)
        header == SubSeq(lines, 1, (IF outAt <= Len(lines) THEN outAt ELSE errAt) - 1)
        body  == IF outAt <= Len(lines) THEN <<OutHeader>> \o kept ELSE <<>> IN
    IF kept = out THEN text
    ELSE Text(header \o body \o SubSeq(lines, errAt, Len(lines)))

ReduceGlob(text) ==
    LET lines == Lines(text) IN
    IF Len(lines) <= GlobMax THEN text
    ELSE Text(HeadAndTail(lines, GlobMax \div 2, GlobMax - GlobMax \div 2, Reduced))

ReduceOutput(name, text) ==
    CASE name = "bash" -> ReduceBash(text)
      [] name = "glob" -> ReduceGlob(text)
      [] OTHER -> text

(***************************************************************************)
(* Cutting to a size, by lines and then by bytes.                          *)
(***************************************************************************)
ElideLines(text) ==
    LET lines == Lines(text)
        head  == Min({HeadLines, Len(lines)})
        tail  == Min({TailLines, Len(lines) - head}) IN
    IF head + tail = Len(lines) THEN text ELSE Text(HeadAndTail(lines, head, tail, Elided))

\* The longest beginning and the longest end of a text that fit a budget.
HeadEnd(text, budget) == Max({i \in 0 .. Len(text) : Bytes(SubSeq(text, 1, i)) <= budget})
TailStart(text, budget) ==
    Min({i \in 1 .. Len(text) + 1 : Bytes(SubSeq(text, i, Len(text))) <= budget})

HeadBudget == (MaxBytes * HeadLines) \div Max({HeadLines + TailLines, 1})
TailBudget == MaxBytes - HeadBudget

ElideBytes(text) ==
    LET head == SubSeq(text, 1, HeadEnd(text, HeadBudget))
        break == IF head # <<>> /\ Last(head) = "\n" THEN <<>> ELSE <<"\n">> IN
    IF TailStart(text, TailBudget) <= Len(head) + 1 THEN text
    ELSE head \o break \o Append(Elided, "\n")
              \o SubSeq(text, TailStart(text, TailBudget), Len(text))

TruncateOutput(text) ==
    LET lineCut == Len(Lines(text)) > MaxLines
        byLines == IF lineCut THEN ElideLines(text) ELSE text
        byteCut == Bytes(byLines) > MaxBytes IN
    [content   |-> IF byteCut THEN ElideBytes(byLines) ELSE byLines,
     truncated |-> lineCut \/ byteCut]

Init ==
    /\ tool = "none"
    /\ raw = <<>> /\ stderr = <<>> /\ view = <<>>
    /\ withheld = FALSE /\ sidecar = <<>>

(***************************************************************************)
(* Ingesting a result, and reporting a failed check.                       *)
(***************************************************************************)
WithNewline(text) == IF text # <<>> /\ Last(text) # "\n" THEN Append(text, "\n") ELSE text
Section(header, text) == IF text = <<>> THEN <<>> ELSE Append(header, "\n") \o text

Withheld(text, reduced, cut) == reduced # text \/ cut.truncated

\* A sidecar that cannot be written is done without.
Ingest(name, text) ==
    LET reduced == ReduceOutput(name, text)
        cut     == TruncateOutput(reduced) IN
    /\ tool = "none"
    /\ tool' = name
    /\ raw' = text
    /\ view' = cut.content
    /\ withheld' = Withheld(text, reduced, cut)
    /\ sidecar' \in {<<>>, IF Withheld(text, reduced, cut) THEN text ELSE <<>>}

BashResult(out, err) ==
    /\ Ingest("bash", <<"exit", "\n">> \o Section(OutHeader, WithNewline(out))
                                       \o Section(ErrHeader, WithNewline(err)))
    /\ stderr' = err

GlobResult(paths) == Ingest("glob", paths) /\ stderr' = <<>>
OtherResult(text) == Ingest("read_file", text) /\ stderr' = <<>>

\* A completion check's reason: nothing of it is kept elsewhere.
CheckFails(out, err) ==
    /\ tool = "none"
    /\ tool' = "check"
    /\ raw' = <<"exit", "\n">> \o Section(OutHeader, out) \o Section(ErrHeader, err)
    /\ stderr' = err
    /\ view' = TruncateOutput(ReduceOutput("bash", raw')).content
    /\ withheld' = FALSE /\ sidecar' = <<>>

Next ==
    \/ \E out \in Stdouts, err \in Stderrs : BashResult(out, err) \/ CheckFails(out, err)
    \/ \E paths \in PathLists : GlobResult(paths)
    \/ \E text \in Stdouts : OtherResult(text)

Spec == Init /\ [][Next]_vars

(***************************************************************************)
(* Properties.                                                             *)
(***************************************************************************)
Markers == {Reduced, Elided}

\* `part` is `whole` with some members left out.
Within(part, whole) ==
    LET matched[i \in 0 .. Len(whole)] ==
            IF i = 0 THEN 0
            ELSE LET n == matched[i - 1] IN
                 IF n < Len(part) /\ part[n + 1] = whole[i] THEN n + 1 ELSE n IN
    matched[Len(whole)] = Len(part)

EndsWith(text, end) ==
    Len(end) <= Len(text) /\ SubSeq(text, Len(text) - Len(end) + 1, Len(text)) = end

\* Reduction by meaning never drops a line of standard error, reorders lines
\* or makes one up: whatever the command printed, headers among it.
ErrorsSurvive ==
    tool = "bash" =>
        LET reduced == ReduceOutput("bash", raw) IN
        /\ EndsWith(reduced, WithNewline(stderr))
        /\ Within(SelectSeq(Lines(reduced), LAMBDA l : l \notin Markers), Lines(raw))

\* Nothing is withheld from the model silently: a result of which it does
\* not see everything is recorded as such, and the sidecar, if it could be
\* written, is the whole output.
NothingLostSilently ==
    tool \in {"bash", "glob", "read_file"} =>
        /\ view # raw => withheld
        /\ sidecar # <<>> => sidecar = raw

\* However long the output and its lines, the model sees no more than the
\* limit and one marker on lines of its own.
ViewIsBounded == Bytes(view) <= MaxBytes + 3
=============================================================================
