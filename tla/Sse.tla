-------------------------------- MODULE Sse ---------------------------------
(* The server-sent-events parser: bytes arrive in chunks of any size, a frame*)
(* ends at a blank line, and a scan resumes just before where the last ended.*)
(* A byte is a line feed "n", a carriage return "r", the data of a data line *)
(* "d", or a byte of a comment line "c": what a field's name spells is not   *)
(* told apart further.                                                       *)
(* (emberly-providers sse.rs; wire.rs sse_stream_from_body)                  *)
EXTENDS Integers, Sequences

CONSTANTS
    MaxFrameBytes,  \* MAX_FRAME_BYTES: the longest unterminated frame kept
    MaxBytes,       \* bound: bytes of the body
    MaxChunk        \* bound: bytes of a chunk

SseAssumption ==
    /\ MaxFrameBytes \in Nat \ {0} /\ MaxBytes \in Nat /\ MaxChunk \in Nat \ {0}

Bytes == {"d", "c", "n", "r"}
MAX_SEP_LEN == 4

VARIABLES
    received,    \* the bytes of all chunks so far
    buf, scanned, overflowed,   \* SseParser
    dispatched,  \* the data of the events dispatched so far
    ended        \* the body ended: finish was called

vars == <<received, buf, scanned, overflowed, dispatched, ended>>

Init ==
    /\ received = <<>> /\ buf = <<>> /\ scanned = 0 /\ overflowed = FALSE
    /\ dispatched = <<>> /\ ended = FALSE

------------------------------------------------------------------------------
(* Frames                                                                    *)

Drop(s, n) == SubSeq(s, n + 1, Len(s))
Take(s, n) == SubSeq(s, 1, n)
LeastOf(S) == CHOOSE x \in S : \A y \in S : x <= y

(* find_subslice: the offsets at which needle occurs in s.                   *)
Offsets(s, needle) ==
    {i \in 0..(Len(s) - Len(needle)) : SubSeq(s, i + 1, i + Len(needle)) = needle}

Separators == {<<"n", "n">>, <<"r", "n", "r", "n">>}

(* find_frame_boundary: the first separator of either kind.                  *)
HasBoundary(s) == \E sep \in Separators : Offsets(s, sep) # {}
Boundary(s) ==
    LET at == LeastOf(UNION {Offsets(s, sep) : sep \in Separators}) IN
    [offset |-> at,
     length |-> IF at \in Offsets(s, <<"n", "n">>) THEN 2 ELSE 4]

(* parse_frame: the data of the frame is the lines that are data lines, each *)
(* up to its line feed and less a trailing carriage return; a frame without  *)
(* one is no event.                                                          *)
LineStarts(frame) == {i \in 1..Len(frame) : i = 1 \/ frame[i - 1] = "n"}
LineEnd(frame, i) ==
    LET stop == LeastOf({j \in i..Len(frame) + 1 : j > Len(frame) \/ frame[j] = "n"}) IN
    IF frame[stop - 1] = "r" THEN stop - 2 ELSE stop - 1
DataLines(frame) == {i \in LineStarts(frame) : frame[i] = "d"}
EventOf(frame) ==
    IF DataLines(frame) = {} THEN <<>>
    ELSE <<[i \in DataLines(frame) |-> SubSeq(frame, i, LineEnd(frame, i))]>>

\* Mutant: the scan resumes one byte back, enough for the short separator.
ResumeAtShort(from) == IF from > 1 THEN from - 1 ELSE 0
(* Where push resumes: a separator may straddle the end of the last scan.    *)
ResumeAt(from) == IF from > MAX_SEP_LEN - 1 THEN from - (MAX_SEP_LEN - 1) ELSE 0

(* A round of push's loop over buffer b, its scan starting at from; scan is  *)
(* what the rounds after it make of what is left.                            *)
ScanFrom(b, from, scan) ==
    IF ~HasBoundary(Drop(b, from)) THEN [events |-> <<>>, rest |-> b]
    ELSE LET found == Boundary(Drop(b, from))
             end == from + found.offset
             later == scan[Drop(b, end + found.length)] IN
         [events |-> EventOf(Take(b, end)) \o later.events, rest |-> later.rest]

Scan[b \in Seq(Bytes)] == ScanFrom(b, 0, Scan)

(* A frame that has not ended is longer than the parser will keep.           *)
TooLong(scan) == Len(scan.rest) > MaxFrameBytes

(* push, and the stream that ends after an overflow.                         *)
Push(chunk) ==
    /\ ~ended /\ ~overflowed
    /\ Len(received) + Len(chunk) <= MaxBytes
    /\ received' = received \o chunk
    /\ LET scan == ScanFrom(buf \o chunk, ResumeAt(scanned), Scan) IN
       /\ dispatched' = dispatched \o scan.events
       /\ overflowed' = TooLong(scan)
       /\ buf' = IF TooLong(scan) THEN <<>> ELSE scan.rest
       /\ scanned' = IF TooLong(scan) THEN 0 ELSE Len(scan.rest)
    /\ UNCHANGED ended

(* finish: what is left is a frame of its own.                               *)
Finish ==
    /\ ~ended /\ ~overflowed
    /\ ended' = TRUE
    /\ dispatched' = dispatched \o EventOf(buf)
    /\ buf' = <<>> /\ scanned' = 0
    /\ UNCHANGED <<received, overflowed>>

Chunks == UNION {[1..n -> Bytes] : n \in 1..MaxChunk}

Next == (\E chunk \in Chunks : Push(chunk)) \/ Finish

Spec == Init /\ [][Next]_vars

------------------------------------------------------------------------------
(* Properties                                                                *)

IsPrefixOf(s, t) == Len(s) <= Len(t) /\ Take(t, Len(s)) = s

(* What a parser given the body as one piece dispatches.                     *)
OfWholeBody ==
    LET scan == Scan[received] IN
    scan.events \o (IF ended THEN EventOf(scan.rest) ELSE <<>>)

(* Where chunks are cut makes no difference to what is dispatched, separators*)
(* cut in two and mixed line ends included (sse.rs push, scanned).           *)
ChunksMakeNoDifference ==
    /\ ~overflowed => dispatched = OfWholeBody
    /\ overflowed => IsPrefixOf(dispatched, OfWholeBody)

(* No peer makes the parser keep more than a frame's worth of bytes, and an  *)
(* overflow loses no event that was complete (sse.rs MAX_FRAME_BYTES).       *)
BufferIsBounded == Len(buf) <= MaxFrameBytes

------------------------------------------------------------------------------
(* The invariant                                                             *)

\* What was dispatched and what is kept are what one scan of the whole body
\* gives; nothing that is kept holds a separator.
SseInv ==
    /\ received \in Seq(Bytes) /\ buf \in Seq(Bytes)
    /\ ~HasBoundary(buf) /\ scanned = Len(buf) /\ Len(buf) <= MaxFrameBytes
    /\ ~overflowed /\ ~ended => Scan[received] = [events |-> dispatched, rest |-> buf]
    /\ overflowed => ~ended /\ dispatched = Scan[received].events
    /\ ~overflowed => dispatched = OfWholeBody
=============================================================================
