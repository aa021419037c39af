----------------------------- MODULE McpClient ------------------------------
(* The client of one tool server: callers on several engines share it, a     *)
(* lock lets one at a time write its request and read lines until its answer *)
(* comes, the window closes or its engine cancels it.  A line travels in two *)
(* halves, so a cancelled call can leave half a request in the pipe or half  *)
(* an answer read.  The server is external and owes nothing.                 *)
(* (emberly-core mcp_client.rs; emberly-tools mcp.rs McpTool)                *)
EXTENDS Integers, Sequences

CONSTANTS
    Callers,     \* the engines that hold the client: the session's and its subagents'
    MaxCalls,    \* bound: calls made in all
    MaxSaid,     \* bound: lines the server says of its own accord
    PipeRoom,    \* half lines that fit in the server's input pipe
    ServerAsks   \* does the server send requests of its own, numbered from 1

McpClientAssumption ==
    /\ {MaxCalls, MaxSaid, PipeRoom} \subseteq Nat
    /\ ServerAsks \in BOOLEAN

None == "none"

VARIABLES
    nextId,      \* the next request's id
    call,        \* each caller's latest call: where it is, its id, the id of the request
                 \* whose answer it returned, 0 if that was no whole answer
    holder,      \* who holds the io lock
    partial,     \* the part of a line the holder's read_line has consumed
    input,       \* the pipe to the server
    output,      \* the pipe from it
    server       \* the line it is reading, the answer it is in the middle of, requests to
                 \* answer, lines said, is it gone

vars == <<nextId, call, holder, partial, input, output, server>>

NoCall == [at |-> "idle", id |-> 0, answered |-> 0]

Init ==
    /\ nextId = 1
    /\ call = [c \in Callers |-> NoCall]
    /\ holder = None
    /\ partial = <<>> /\ input = <<>> /\ output = <<>>
    /\ server = [line |-> <<>>, mid |-> 0, todo |-> {}, said |-> 0, gone |-> FALSE]

(* A half line: of a request, an answer, or something else with or without an*)
(* id of its own.                                                            *)
Half(kind, id, n) == [kind |-> kind, id |-> id, half |-> n]
Line(kind, id) == <<Half(kind, id, 1), Half(kind, id, 2)>>

------------------------------------------------------------------------------
(* The callers                                                               *)

At(c, where) == call[c].at = where
Goes(c, where) == call' = [call EXCEPT ![c].at = where]

(* call: the id is taken before the lock is asked for, so two callers may    *)
(* send out of order.                                                        *)
Begin(c) ==
    /\ call[c].at \in {"idle", "answered", "failed"} /\ nextId <= MaxCalls
    /\ nextId' = nextId + 1
    /\ call' = [call EXCEPT ![c] = [at |-> "waiting", id |-> nextId, answered |-> 0]]
    /\ UNCHANGED <<holder, partial, input, output, server>>

Acquire(c) ==
    /\ At(c, "waiting") /\ holder = None
    /\ holder' = c /\ Goes(c, "writing")
    /\ UNCHANGED <<nextId, partial, input, output, server>>

(* write_all, which may stop after a part and waits while the pipe is full.  *)
Write(c) ==
    /\ call[c].at \in {"writing", "written half"} /\ ~server.gone
    /\ Len(input) < PipeRoom
    /\ input' = Append(input, Half("request", call[c].id, IF At(c, "writing") THEN 1 ELSE 2))
    /\ Goes(c, IF At(c, "writing") THEN "written half" ELSE "reading")
    /\ UNCHANGED <<nextId, holder, partial, output, server>>

Releases == holder' = None /\ partial' = <<>>
Fails(c) == Goes(c, "failed") /\ Releases

WriteFails(c) ==
    /\ call[c].at \in {"writing", "written half"} /\ server.gone
    /\ Fails(c) /\ UNCHANGED <<nextId, input, output, server>>

\* Two halves of one answer, and not of two.
WholeAnswer(line) == line = Line("answer", line[1].id)

\* Mutant: the first response read is taken for the answer.
IsAnswerAny(c, line) == Len(line) = 2 /\ line[1].kind \in {"answer", "asks"}
(* A line that is whole and bears the request's id.                          *)
IsAnswer(c, line) ==
    Len(line) = 2 /\ line[1].kind \in {"answer", "asks"} /\ line[1].id = call[c].id

(* read_matching_response: a line at a time, whatever is not the answer      *)
(* skipped.  What a canceled read had consumed is gone, so the next may begin*)
(* in the middle of a line, which then does not parse.                       *)
Read(c) ==
    /\ At(c, "reading") /\ output # <<>>
    /\ output' = Tail(output)
    /\ LET line == Append(partial, Head(output)) IN
       IF Head(output).half = 1
       THEN partial' = line /\ UNCHANGED <<call, holder>>
       ELSE IF IsAnswer(c, line)
       THEN /\ Releases
            /\ call' = [call EXCEPT ![c].at = "answered",
                          ![c].answered = IF WholeAnswer(line) THEN line[1].id ELSE 0]
       ELSE partial' = <<>> /\ UNCHANGED <<call, holder>>
    /\ UNCHANGED <<nextId, input, server>>

(* The server closed its end.                                                *)
ReadEnds(c) ==
    /\ At(c, "reading") /\ output = <<>> /\ server.gone
    /\ Fails(c) /\ UNCHANGED <<nextId, input, output, server>>

\* Mutant: the window is only looked at between two lines.
TimesOutBetweenLines(c) ==
    /\ At(c, "reading") /\ partial = <<>>
    /\ Fails(c) /\ UNCHANGED <<nextId, input, output, server>>
(* RESPONSE_TIMEOUT bounds the whole of the wait for the answer.             *)
TimesOut(c) ==
    /\ At(c, "reading")
    /\ Fails(c) /\ UNCHANGED <<nextId, input, output, server>>

(* The user cancels the turn: the tool's future is dropped where it stands.  *)
Cancel(c) ==
    /\ call[c].at \in {"waiting", "writing", "written half", "reading"}
    /\ Goes(c, "idle")
    /\ IF holder = c THEN Releases ELSE UNCHANGED <<holder, partial>>
    /\ UNCHANGED <<nextId, input, output, server>>

------------------------------------------------------------------------------
(* The server                                                                *)

Unmoved == UNCHANGED <<nextId, call, holder, partial>>

(* A request is a line of its own two halves; anything spliced does not parse*)
ServerReads ==
    /\ ~server.gone /\ input # <<>>
    /\ input' = Tail(input)
    /\ LET line == Append(server.line, Head(input)) IN
       server' = IF Head(input).half = 1 THEN [server EXCEPT !.line = line]
                 ELSE [server EXCEPT !.line = <<>>,
                         !.todo = IF Len(line) = 2 THEN @ \union {line[1].id} ELSE @]
    /\ UNCHANGED output /\ Unmoved

(* Answers come in any order, after any delay, some in two parts.            *)
Sends(lines, mid, todo, said) ==
    /\ ~server.gone /\ output' = output \o lines
    /\ server' = [server EXCEPT !.mid = mid, !.todo = todo, !.said = said]
    /\ UNCHANGED input /\ Unmoved
ServerAnswers(id) ==
    /\ server.mid = 0 /\ id \in server.todo
    /\ \/ Sends(Line("answer", id), 0, server.todo \ {id}, server.said)
       \/ Sends(<<Half("answer", id, 1)>>, id, server.todo \ {id}, server.said)
ServerGoesOn ==
    /\ server.mid # 0
    /\ Sends(<<Half("answer", server.mid, 2)>>, 0, server.todo, server.said)
(* Notifications, log lines, and requests of its own where it makes some.    *)
ServerSays(kind, id) ==
    /\ server.mid = 0 /\ server.said < MaxSaid
    /\ kind = "note" => id = 0
    /\ kind = "asks" => ServerAsks /\ id = server.said + 1
    /\ Sends(Line(kind, id), 0, server.todo, server.said + 1)
ServerGoes ==
    /\ ~server.gone /\ server' = [server EXCEPT !.gone = TRUE]
    /\ UNCHANGED <<input, output>> /\ Unmoved

Server ==
    \/ ServerReads
    \/ (\E id \in 1..MaxCalls : ServerAnswers(id)) \/ ServerGoesOn
    \/ \E id \in 0..MaxSaid : ServerSays("note", id) \/ ServerSays("asks", id)
    \/ ServerGoes

Next ==
    \/ \E c \in Callers :
          \/ Begin(c) \/ Acquire(c) \/ Write(c) \/ WriteFails(c)
          \/ Read(c) \/ ReadEnds(c) \/ TimesOut(c) \/ Cancel(c)
    \/ Server

(* The lock is handed over in order, so a caller that waits is served; the   *)
(* timer fires; nothing is asked of the server.                              *)
Fairness ==
    \A c \in Callers :
        /\ SF_vars(Acquire(c))
        /\ WF_vars(Write(c)) /\ WF_vars(WriteFails(c))
        /\ WF_vars(ReadEnds(c)) /\ WF_vars(TimesOut(c))

Spec == Init /\ [][Next]_vars /\ Fairness

------------------------------------------------------------------------------
(* Properties                                                                *)

(* A call returns the answer to its own request, and the whole of it,        *)
(* whatever earlier calls left in the pipes: late answers, half lines, log   *)
(* lines (mcp_client.rs read_matching_response, "never corrupts another      *)
(* call's response").                                                        *)
AnswersMatch ==
    \A c \in Callers : At(c, "answered") => call[c].answered = call[c].id

Waits(c) == At(c, "waiting")
Returned(c) == call[c].at \in {"idle", "answered", "failed"}

(* A hung server does not hang the harness: while requests fit in its pipe,  *)
(* every call ends, the calls behind a stuck one included (mcp_client.rs     *)
(* RESPONSE_TIMEOUT).                                                        *)
CallsReturn == \A c \in Callers : Waits(c) ~> Returned(c)
=============================================================================
