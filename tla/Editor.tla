------------------------------- MODULE Editor -------------------------------
(***************************************************************************)
(* The input box of the terminal frontend: a buffer of one or more logical *)
(* lines, a cursor in it, and the history of what was sent.                *)
(*                                                                         *)
(* The buffer is a sequence of characters of a few kinds: a letter, a wide *)
(* one, a combining mark, a space, a newline.  A mark joins the cluster of *)
(* the character before it, unless that is a newline; positions count      *)
(* characters where the code counts bytes.                                 *)
(***************************************************************************)
EXTENDS Naturals, Sequences, SequencesExt, FiniteSetsExt

CONSTANTS
    Typed,       \* the characters a user types
    Pastes,      \* the texts a user pastes
    MaxLength,   \* bound on the buffer
    MaxSent,     \* bound on the texts sent
    MaxHistory   \* bound on the history

EditorAssumption == Typed \subseteq STRING /\ Pastes \subseteq Seq(STRING)

VARIABLES
    buf, cursor,
    history,
    browsing,    \* the entry on show, 0 when the buffer is the user's own
    stash,       \* the user's own text while an entry is on show
    draft        \* what the user had typed when browsing began

vars == <<buf, cursor, history, browsing, stash, draft>>

(***************************************************************************)
(* Clusters, columns and lines of a text.                                  *)
(***************************************************************************)
Blank == {" ", "\n"}

Boundary(s, i) == i \in {0, Len(s)} \/ s[i + 1] # "mark" \/ s[i] = "\n"
Boundaries(s) == {i \in 0 .. Len(s) : Boundary(s, i)}

PrevBoundary(s, i) == Max({0} \cup {b \in Boundaries(s) : b < i})
NextBoundary(s, i) == Min({Len(s)} \cup {b \in Boundaries(s) : b > i})

ColumnsOf(c) == CASE c = "mark" -> 0 [] c = "wide" -> 2 [] OTHER -> 1
Width(s) == FoldLeft(LAMBDA n, c : n + ColumnsOf(c), 0, s)

IsSpace(s) == s # <<>> /\ \A i \in DOMAIN s : s[i] \in Blank

\* Where in a line the cursor comes to stand, moved there in column `col`.
ByteAtCol(line, col) ==
    Min({Len(line)} \cup {i \in Boundaries(line) : Width(SubSeq(line, 1, i)) >= col})

LineStart(s, i) == Max({0} \cup {j \in 1 .. i : s[j] = "\n"})
LineEnd(s, i) == Min({Len(s)} \cup {j \in i .. Len(s) - 1 : s[j + 1] = "\n"})

Trimmed(s) ==
    LET kept == {i \in DOMAIN s : s[i] \notin Blank} IN
    IF kept = {} THEN <<>> ELSE SubSeq(s, Min(kept), Max(kept))

\* Over spaces, then over a word; the positions passed are cluster boundaries.
WordLeft ==
    LET stops == {b \in Boundaries(buf) : b < cursor} \cup {cursor}
        overSpace(b) == IsSpace(SubSeq(buf, PrevBoundary(buf, b) + 1, b))
        word == Min({p \in stops : \A b \in stops : b > p => overSpace(b)}) IN
    Min({p \in stops : p <= word /\ \A b \in stops : p < b /\ b <= word => ~overSpace(b)})

WordRight ==
    LET stops == {b \in Boundaries(buf) : b > cursor} \cup {cursor}
        overSpace(b) == IsSpace(SubSeq(buf, b + 1, NextBoundary(buf, b)))
        gap == Max({p \in stops : \A b \in stops : b < p => ~overSpace(b)}) IN
    Max({p \in stops : p >= gap /\ \A b \in stops : gap <= b /\ b < p => overSpace(b)})

Init ==
    /\ buf = <<>> /\ cursor = 0
    /\ history = <<>>
    /\ browsing = 0
    /\ stash = <<>>
    /\ draft = <<>>

(***************************************************************************)
(* Editing.  An edit of a recalled entry makes it the user's own text; what *)
(* had been put aside is not looked at again.                              *)
(***************************************************************************)
LeaveHistory == browsing' = 0 /\ stash' = <<>> /\ draft' = <<>>

Replace(from, to, text) ==
    /\ buf' = SubSeq(buf, 1, from) \o text \o SubSeq(buf, to + 1, Len(buf))
    /\ cursor' = from + Len(text)
    /\ LeaveHistory
    /\ UNCHANGED history

Insert(text) == Len(buf) + Len(text) <= MaxLength /\ Replace(cursor, cursor, text)
Backspace == Replace(PrevBoundary(buf, cursor), cursor, <<>>)
Delete == Replace(cursor, NextBoundary(buf, cursor), <<>>)
DeleteWordBack == Replace(WordLeft, cursor, <<>>)
KillToEnd == Replace(cursor, LineEnd(buf, cursor), <<>>)
Clear == Replace(0, Len(buf), <<>>)

(***************************************************************************)
(* Motion.                                                                 *)
(***************************************************************************)
MoveTo(position) == cursor' = position /\ UNCHANGED <<buf, history, browsing, stash, draft>>

Left == MoveTo(PrevBoundary(buf, cursor))
Right == MoveTo(NextBoundary(buf, cursor))
Home == MoveTo(LineStart(buf, cursor))
End == MoveTo(LineEnd(buf, cursor))
WordMotion == MoveTo(WordLeft) \/ MoveTo(WordRight)

Column == Width(SubSeq(buf, LineStart(buf, cursor) + 1, cursor))
InLine(start, end) == MoveTo(start + ByteAtCol(SubSeq(buf, start + 1, end), Column))

Show(text, entry) ==
    /\ buf' = text /\ cursor' = Len(text)
    /\ browsing' = entry
    /\ UNCHANGED history

StashedAlways == buf
\* What is put aside when an entry is shown.
Stashed == IF browsing = 0 THEN buf ELSE stash

HistoryPrev ==
    /\ history # <<>>
    /\ LET entry == IF browsing = 0 THEN Len(history) ELSE Max({1, browsing - 1}) IN
       Show(history[entry], entry)
    /\ stash' = Stashed
    /\ draft' = IF browsing = 0 THEN buf ELSE draft

HistoryNext ==
    /\ browsing # 0
    /\ IF browsing < Len(history)
       THEN Show(history[browsing + 1], browsing + 1) /\ UNCHANGED <<stash, draft>>
       ELSE Show(stash, 0) /\ stash' = <<>> /\ draft' = <<>>

\* At the first and the last line the arrows go through the history.
Up ==
    LET start == LineStart(buf, cursor) IN
    IF start = 0 THEN HistoryPrev ELSE InLine(LineStart(buf, start - 1), start - 1)

Down ==
    LET end == LineEnd(buf, cursor) IN
    IF end = Len(buf) THEN HistoryNext ELSE InLine(end + 1, LineEnd(buf, end + 1))

\* Enter: what is sent is remembered, unless it was the last thing sent.
Submit ==
    LET sent == Trimmed(buf) IN
    /\ Len(history) < MaxHistory /\ Len(sent) <= MaxSent
    /\ buf' = <<>> /\ cursor' = 0
    /\ LeaveHistory
    /\ history' = IF sent = <<>> \/ (history # <<>> /\ Last(history) = sent) THEN history
                  ELSE Append(history, sent)

Motion == Left \/ Right \/ Home \/ End \/ WordMotion \/ Up \/ Down

Next ==
    \/ \E text \in {<<c>> : c \in Typed} \cup Pastes : Insert(text)
    \/ Backspace \/ Delete \/ DeleteWordBack \/ KillToEnd \/ Clear
    \/ Motion
    \/ Submit

Spec == Init /\ [][Next]_vars

(***************************************************************************)
(* Properties.                                                             *)
(***************************************************************************)
OnBoundary == Boundary(buf, cursor)

\* A key that only moves never leaves the cursor inside a cluster it was not
\* in, whatever the widths of the lines it moves between; and going down
\* past the newest entry brings back the text that was being typed when
\* browsing began, however far back the user went.
KeepsText ==
    /\ (buf' = buf /\ OnBoundary) => OnBoundary'
    /\ (browsing' = 0 /\ HistoryNext) => buf' = draft

MotionsKeepText == [][KeepsText]_vars

(***************************************************************************)
(* The invariant: the cursor is in the text, what is on show is in the     *)
(* history, and while it is, what was put aside is what was being typed.   *)
(***************************************************************************)
EditorInv ==
    /\ buf \in Seq(STRING) /\ cursor \in 0 .. Len(buf)
    /\ history \in Seq(Seq(STRING)) /\ browsing \in 0 .. Len(history)
    /\ stash \in Seq(STRING)
    /\ browsing # 0 => stash = draft
=============================================================================
