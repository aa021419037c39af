-------------------------------- MODULE Wire ---------------------------------
(****************************************************************************)
(* What comes in from the network and from MCP servers, and what is sent:   *)
(* an MCP server's lines, which this module extends, event-stream frames, a *)
(* streamed answer, request bodies.  The parts share nothing, so one run    *)
(* checks them side by side: part says which of them a behaviour is of.     *)
(* The variables of McpClient move in its part only; those of another part  *)
(* are the first of x1 to x12.                                              *)
(****************************************************************************)
EXTENDS McpClient, FiniteSets

CONSTANTS
    MaxFrameBytes, MaxBytes, MaxChunk, MaxAttempts, ToolCalls, MaxFragments,
    MaxThoughts, MaxBlocks, MaxMessages, OutputLimits

VARIABLES part, x1, x2, x3, x4, x5, x6, x7, x8, x9, x10, x11, x12

others == <<x1, x2, x3, x4, x5, x6, x7, x8, x9, x10, x11, x12>>
wires == <<vars, part, others>>

Frames == INSTANCE Sse WITH
    received <- x1, buf <- x2, scanned <- x3, overflowed <- x4,
    dispatched <- x5, ended <- x6
TheAnswer == INSTANCE Streams WITH
    wire <- x1, server <- x2, answer <- x3, mapper <- x4, queue <- x5,
    started <- x6, out <- x7, phase <- x8, drops <- x9, message <- x10,
    usage <- x11, lastError <- x12, MaxCalls <- ToolCalls
Bodies == INSTANCE Requests WITH
    messages <- x1, provider <- x2, limit <- x3, levels <- x4, effort <- x5,
    open <- x6, body <- x7, MaxCalls <- ToolCalls

ASSUME WireAssumption ==
    Frames!SseAssumption /\ TheAnswer!StreamsAssumption /\ McpClientAssumption

\* The variables that a part does not use.
Unused == "unused"

WireInit ==
    /\ Init
    /\ \/ /\ part = "mcp"
          /\ x1 = Unused /\ x2 = Unused /\ x3 = Unused /\ x4 = Unused
          /\ x5 = Unused /\ x6 = Unused /\ x7 = Unused /\ x8 = Unused
          /\ x9 = Unused /\ x10 = Unused /\ x11 = Unused /\ x12 = Unused
       \/ /\ part = "sse" /\ Frames!Init
          /\ x7 = Unused /\ x8 = Unused /\ x9 = Unused /\ x10 = Unused
          /\ x11 = Unused /\ x12 = Unused
       \/ /\ part = "streams" /\ TheAnswer!Init
       \/ /\ part = "requests" /\ Bodies!Init
          /\ x8 = Unused /\ x9 = Unused /\ x10 = Unused /\ x11 = Unused
          /\ x12 = Unused

\* A step of one part.
OfMcp(A) == part = "mcp" /\ A /\ UNCHANGED <<part, others>>
OfSse(A) == part = "sse" /\ A /\ UNCHANGED <<part, vars, x7, x8, x9, x10, x11, x12>>
OfStreams(A) == part = "streams" /\ A /\ UNCHANGED <<part, vars>>
OfRequests(A) ==
    /\ part = "requests" /\ A
    /\ UNCHANGED <<part, vars, x8, x9, x10, x11, x12>>

WireNext ==
    \/ OfMcp(Next)
    \/ OfSse(Frames!Next)
    \/ OfStreams(TheAnswer!Next)
    \/ OfRequests(Bodies!Next)

WireFairness ==
    /\ WF_wires(OfStreams(TheAnswer!TimesOut))
    /\ WF_wires(OfStreams(TheAnswer!TakeEvent))
    /\ WF_wires(OfStreams(TheAnswer!TakeError))
    /\ WF_wires(OfStreams(TheAnswer!Commit))
    /\ WF_wires(OfStreams(TheAnswer!Retry))
    /\ WF_wires(OfStreams(TheAnswer!GiveUp))
    /\ \A c \in Callers : SF_wires(OfMcp(Acquire(c)))
    /\ \A c \in Callers : WF_wires(OfMcp(Write(c)))
    /\ \A c \in Callers : WF_wires(OfMcp(WriteFails(c)))
    /\ \A c \in Callers : WF_wires(OfMcp(ReadEnds(c)))
    /\ \A c \in Callers : WF_wires(OfMcp(TimesOut(c)))

WireSpec == WireInit /\ [][WireNext]_wires /\ WireFairness

------------------------------------------------------------------------------
\* Where chunks are cut makes no difference to the events an answer's body
\* yields, and no peer makes the parser keep more than a frame (sse.rs push).
FramesAreWhole ==
    part = "sse" => Frames!ChunksMakeNoDifference /\ Frames!BufferIsBounded

\* What is committed as an answer is the whole of it, from one attempt, with
\* its one thought ready to be replayed and its usage counted (turn.rs
\* consume_stream, openai.rs and anthropic.rs mappers).
AnswerIsWhole ==
    part = "streams" =>
        TheAnswer!CommittedIsWhole /\ TheAnswer!OneThoughtReplays
            /\ TheAnswer!UsageIsCounted

\* A provider that falls silent, before its first byte or in the middle, does
\* not hold the turn (wire.rs StreamTimeouts).
TurnEnds == <>(part = "streams" => ~TheAnswer!Streaming)

\* A request is one the provider takes: the budget for thinking fits, every
\* call has its one result before the assistant speaks again, and no answer is
\* left empty, on either wire and across model switches (anthropic.rs and
\* openai.rs build_body).
RequestsAreAccepted ==
    part = "requests" =>
        Bodies!BudgetFits /\ Bodies!ResultsFollowCalls /\ Bodies!NoEmptyAnswer
==============================================================================
