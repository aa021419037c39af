---------------------------- MODULE SessionFile -----------------------------
(***************************************************************************)
(* One session's transcript file and the processes that append to it: a    *)
(* run that records events one by one, each in two writes (the line, then  *)
(* its newline) and a sync; the panic hook, which appends a line of its    *)
(* own beside whatever the run is writing; kills, between any two writes;  *)
(* and the launches that resume the file, because they are asked to or     *)
(* because it reads as interrupted.                                        *)
(*                                                                         *)
(* The file is a sequence of pieces: a whole record, the torn start of     *)
(* one, or a newline.                                                      *)
(***************************************************************************)
EXTENDS Naturals, Sequences, FiniteSets

CONSTANTS
    Runs,        \* processes that may have the file open at once
    MaxRecords,  \* bound on the records written
    MaxRuns      \* bound on the processes started

VARIABLES
    file,
    run,         \* for each process: whether it has the file open
    writing,     \* for each writer, the record its next newline completes, or NoRecord
    acked,       \* the records whose writer returned: synced to disk
    nextId,
    runs,
    tears,       \* appends a kill cut short
    overlaps     \* appends begun in the middle of another's

vars == <<file, run, writing, acked, nextId, runs, tears, overlaps>>

NoRecord == [id |-> 0, kind |-> "none"]
Newline == [id |-> 0, kind |-> "newline"]
Torn == [id |-> 0, kind |-> "torn"]
Kinds == {"event", "end", "abnormal"}

\* A run's own appends and those of its panic hook come from two threads.
Writers == Runs \X {"engine", "hook"}

(***************************************************************************)
(* Reading: a line is what lies between newlines; it yields a record when  *)
(* it is one whole record, and is skipped with a warning otherwise.  The   *)
(* last line need not end.                                                 *)
(***************************************************************************)
StartsLine(i) == i = 1 \/ file[i - 1] = Newline
EndsLine(i) == i = Len(file) \/ file[i + 1] = Newline
Readable(i) == file[i].kind \in Kinds /\ StartsLine(i) /\ EndsLine(i)
Records == {i \in DOMAIN file : Readable(i)}

\* A session is interrupted when its last record is not a clean end.
Interrupted ==
    \E i \in Records : (\A j \in Records : j <= i) /\ file[i].kind # "end"

Init ==
    /\ file = <<>>
    /\ run = [r \in Runs |-> FALSE]
    /\ writing = [w \in Writers |-> NoRecord]
    /\ acked = {}
    /\ nextId = 1
    /\ runs = 0
    /\ tears = 0
    /\ overlaps = 0

\* The first launch creates the file; later ones open it because the user
\* asked to resume it, or said yes to the offer made when it reads as
\* interrupted.
Open(r, offered) ==
    /\ ~run[r] /\ runs < MaxRuns
    /\ \A side \in {"engine", "hook"} : writing[<<r, side>>] = NoRecord
    /\ offered => Interrupted
    /\ run' = [run EXCEPT ![r] = TRUE]
    /\ runs' = runs + 1
    /\ UNCHANGED <<file, writing, acked, nextId, tears, overlaps>>

\* The first of the two writes.
Append1(w, kind) ==
    /\ writing[w] = NoRecord
    /\ nextId <= MaxRecords
    /\ LET record == [id |-> nextId, kind |-> kind] IN
       /\ file' = Append(file, record)
       /\ writing' = [writing EXCEPT ![w] = record]
    /\ nextId' = nextId + 1
    /\ overlaps' = IF \E v \in Writers \ {w} : writing[v] # NoRecord THEN overlaps + 1
                   ELSE overlaps
    /\ UNCHANGED <<run, acked, runs, tears>>

Record(r) == run[r] /\ Append1(<<r, "engine">>, "event")

\* A panic of any thread runs the hook; the engine may go on beside it.
PanicHook(r) == run[r] /\ Append1(<<r, "hook">>, "abnormal")

\* The user leaves: the engine's last record.
RecordEnd(r) == run[r] /\ Append1(<<r, "engine">>, "end")

\* The second write and the sync.
WithoutNewline(w) == file
WithNewline(w) == Append(file, Newline)

Append2(w) ==
    /\ writing[w] # NoRecord
    /\ file' = WithNewline(w)
    /\ acked' = acked \cup {writing[w]}
    /\ writing' = [writing EXCEPT ![w] = NoRecord]
    /\ run' = IF writing[w].kind = "end" THEN [run EXCEPT ![w[1]] = FALSE] ELSE run
    /\ UNCHANGED <<nextId, runs, tears, overlaps>>

\* A kill, or a panic that ends the process: an append under way stays
\* without its newline, and its line may be cut short when it was the last
\* thing written.
Kill(r) ==
    /\ run[r] \/ writing[<<r, "hook">>] # NoRecord
    /\ LET cut == {w \in {r} \X {"engine", "hook"} : writing[w] # NoRecord} IN
       /\ \/ UNCHANGED file
          \/ /\ \E w \in cut : file[Len(file)] = writing[w]
             /\ file' = [file EXCEPT ![Len(file)] = Torn]
       /\ writing' = [w \in Writers |-> IF w \in cut THEN NoRecord ELSE writing[w]]
       /\ tears' = tears + Cardinality(cut)
    /\ run' = [run EXCEPT ![r] = FALSE]
    /\ UNCHANGED <<acked, nextId, runs, overlaps>>

Next ==
    \/ \E r \in Runs, offered \in BOOLEAN : Open(r, offered)
    \/ \E r \in Runs : Record(r) \/ PanicHook(r) \/ RecordEnd(r) \/ Kill(r)
    \/ \E w \in Writers : Append2(w)

Spec == Init /\ [][Next]_vars

(***************************************************************************)
(* Properties.                                                             *)
(***************************************************************************)
\* What was acknowledged is read back, but for one record after each append
\* a kill cut short (it shares its line with the torn one) and two for each
\* append begun inside another's.
LossIsBounded ==
    Cardinality({a \in acked : ~\E i \in Records : file[i] = a}) <= tears + 2 * overlaps

\* While no append was cut short or overlapped, a file reads as interrupted
\* exactly when the last record a run acknowledged is not a clean end,
\* whatever ends earlier runs recorded in it.
InterruptedTellsTrue ==
    (tears = 0 /\ overlaps = 0 /\ \A w \in Writers : writing[w] = NoRecord) =>
        (Interrupted <=> \E a \in acked : a.kind # "end" /\ \A b \in acked : b.id <= a.id)

(***************************************************************************)
(* The invariant.  A piece that is no newline and whose writer neither     *)
(* returned nor is at work is dead: a kill left it.  Two pieces with no    *)
(* newline between them are joined; a join costs its right piece, and its  *)
(* left one too unless that is dead.                                       *)
(***************************************************************************)
Whole(i) == file[i].kind \in Kinds
Pending(i) == \E w \in Writers : writing[w] = file[i]
Dead == {i \in DOMAIN file : file[i] # Newline /\ file[i] \notin acked /\ ~Pending(i)}
Joined == {i \in DOMAIN file : i + 1 \in DOMAIN file /\ file[i] # Newline /\ file[i + 1] # Newline}

\* The pieces are a sequence; numbers grow along it.
Numbered ==
    /\ \E S : file \in Seq(S)
    /\ nextId \in Nat \ {0} /\ tears \in Nat /\ overlaps \in Nat
    /\ \A i \in DOMAIN file :
          \/ file[i] \in {Newline, Torn}
          \/ Whole(i) /\ file[i].id \in Nat \ {0} /\ file[i].id < nextId
    /\ \A i, j \in DOMAIN file : Whole(i) /\ Whole(j) /\ i < j => file[i].id < file[j].id

\* What a writer is at is in the file, and what was acknowledged is, with
\* something behind it.
Written ==
    /\ writing = [w \in Writers |-> writing[w]]
    /\ \A w \in Writers : writing[w] # NoRecord =>
          writing[w].kind \in Kinds /\ \E i \in DOMAIN file : file[i] = writing[w]
    /\ \A w \in Writers : writing[w] \notin acked
    /\ \A v, w \in Writers : writing[v] = writing[w] /\ writing[v] # NoRecord => v = w
    /\ \A a \in acked : a.kind \in Kinds /\ \E i \in DOMAIN file : file[i] = a
    /\ \A i \in DOMAIN file : file[i] \in acked => i + 1 \in DOMAIN file

Costs ==
    /\ Cardinality(Dead) <= tears
    /\ Cardinality(Joined \ Dead) <= overlaps

FileInv == Numbered /\ Written /\ Costs
=============================================================================
