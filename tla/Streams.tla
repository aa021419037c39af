------------------------------ MODULE Streams -------------------------------
(* One turn's answer on its way from a provider to the conversation: the     *)
(* frames of a chat-completions or a messages stream, the mapper that turns  *)
(* them into normalized events, and the engine that assembles them, commits  *)
(* the answer, retries a dropped stream or gives up.  A frame arrives whole: *)
(* module Sse is about how it is cut.                                        *)
(* (emberly-providers openai.rs, anthropic.rs, wire.rs; engine/turn.rs)      *)
EXTENDS Integers, Sequences, FiniteSets

CONSTANTS
    MaxAttempts,   \* RetryPolicy.max_attempts
    MaxCalls,      \* bound: tool calls of an answer
    MaxFragments,  \* bound: argument fragments of a call
    MaxThoughts,   \* bound: reasoning blocks of an answer
    MaxBlocks      \* bound: content blocks of a messages stream

StreamsAssumption ==
    {MaxAttempts, MaxCalls, MaxFragments, MaxThoughts, MaxBlocks} \subseteq Nat

Wires == {"openai", "anthropic"}
Nothing == -1   \* no block is open, no signature was sent

VARIABLES
    wire,      \* the provider's wire format
    server,    \* how far it is: its stage, the open block and its kind, blocks so far,
               \* has it reported usage, is the body over
    answer,    \* the answer it meant: text, thoughts, calls, is it complete
    mapper,    \* OpenAiMapper or AnthropicMapper
    queue,     \* the normalized events not yet taken
    started,   \* has a chunk arrived (which window applies)
    out,       \* TurnOutput, the calls assembled so far, saw_done
    phase,     \* streaming, or how the turn ended
    drops,     \* drop_attempts
    message,   \* the assistant message committed
    usage,     \* tokens: reported by the server, counted by the session
    lastError  \* the error a stream ended in

vars == <<wire, server, answer, mapper, queue, started, out, phase, drops, message, usage, lastError>>

NoAnswer == [text |-> 0, thoughts |-> <<>>, calls |-> <<>>, complete |-> FALSE]
NoMessage == [text |-> 0, thoughts |-> <<>>, calls |-> <<>>]
NewServer == [stage |-> "head", open |-> Nothing, kind |-> "none", blocks |-> 0, over |-> FALSE]
NewMapper == [ids |-> <<>>, sigs |-> <<>>, finished |-> FALSE]
NewOut == [text |-> 0, reasoning |-> <<>>, signature |-> Nothing, redacted |-> FALSE,
           calls |-> <<>>, done |-> FALSE]

(* A fresh request: nothing of an earlier attempt is kept.                   *)
OpenStream ==
    /\ server' = NewServer /\ answer' = NoAnswer /\ mapper' = NewMapper
    /\ queue' = <<>> /\ started' = FALSE /\ out' = NewOut

Init ==
    /\ wire \in Wires
    /\ server = NewServer /\ answer = NoAnswer /\ mapper = NewMapper
    /\ queue = <<>> /\ started = FALSE /\ out = NewOut
    /\ phase = "streaming" /\ drops = 0 /\ message = NoMessage
    /\ usage = [reported |-> 0, counted |-> 0] /\ lastError = "none"

------------------------------------------------------------------------------
(* Mapping frames                                                            *)

Ev(kind, id, says) == [kind |-> kind, id |-> id, says |-> says]

\* Mutant: a call without an id has the empty one.
CallIdEmpty(index, given) == IF given THEN <<"server", index>> ELSE <<"">>
(* The id of a call new on the wire: the server's, or one made of its index. *)
CallId(index, given) == IF given THEN <<"server", index>> ELSE <<"call", index>>

Knows(f, index) == index \in DOMAIN f
With(f, index, value) == [i \in DOMAIN f \union {index} |-> IF i = index THEN value ELSE f[i]]
Without(f, index) == [i \in DOMAIN f \ {index} |-> f[i]]

(* OpenAiMapper.finish: Done, at most once.  The ends of calls it also sends *)
(* are left out: the engine does nothing at one.                             *)
Finish(m) == IF m.finished THEN <<>> ELSE <<Ev("done", <<>>, 0)>>

(* A chunk of the body holds a frame: it is mapped, and the stream reads on  *)
(* only when all events of the last one have been taken.                     *)
Arrives(stage, events) ==
    /\ phase = "streaming" /\ queue = <<>> /\ ~server.over
    /\ queue' = events /\ started' = TRUE
    /\ UNCHANGED <<wire, out, phase, drops, message, lastError>>
    /\ server.stage \in stage
Says(stage) == server' = [server EXCEPT !.stage = stage]
Reports(n) == usage' = [usage EXCEPT !.reported = @ + n]

------------------------------------------------------------------------------
(* A chat-completions stream                                                 *)

OpenAi == wire = "openai"
Deltas == {"head", "deltas"}

OpenAiText ==
    /\ OpenAi /\ answer.text = 0
    /\ Arrives(Deltas, <<Ev("text", <<>>, 0)>>)
    /\ Says("deltas") /\ answer' = [answer EXCEPT !.text = 1] /\ UNCHANGED <<mapper, usage>>

(* Reasoning comes without a signature, as one trail.                        *)
OpenAiReasoning ==
    /\ OpenAi /\ answer.thoughts = <<>> /\ MaxThoughts > 0
    /\ Arrives(Deltas, <<Ev("reasoning", <<>>, 0)>>)
    /\ Says("deltas")
    /\ answer' = [answer EXCEPT !.thoughts =
                     <<[text |-> <<0>>, signature |-> Nothing, redacted |-> FALSE]>>]
    /\ UNCHANGED <<mapper, usage>>

(* A chunk of the call at index: the first names it, and may give its id;    *)
(* each may carry a fragment of its arguments.                               *)
OpenAiCall(index, given, fragment) ==
    LET new == ~Knows(mapper.ids, index)
        id == IF new THEN CallId(index, given) ELSE mapper.ids[index]
        sofar == IF new THEN 0 ELSE answer.calls[index + 1]
    IN
    /\ OpenAi /\ index < MaxCalls /\ index <= Len(answer.calls)
    /\ given => new
    /\ sofar + fragment <= MaxFragments /\ (new \/ fragment = 1)
    /\ Arrives(Deltas,
         (IF new THEN <<Ev("call_start", id, 0)>> ELSE <<>>)
           \o (IF fragment = 1 THEN <<Ev("call_delta", id, <<index, sofar + 1>>)>> ELSE <<>>))
    /\ mapper' = [mapper EXCEPT !.ids = With(@, index, id)]
    /\ Says("deltas")
    /\ answer' = [answer EXCEPT !.calls =
                     IF new THEN Append(@, fragment) ELSE [@ EXCEPT ![index + 1] = sofar + fragment]]
    /\ UNCHANGED usage

(* finish_reason, which some servers leave out, the usage that may follow it,*)
(* and the end marker: either of the two terminals completes the answer.     *)
OpenAiFinish ==
    /\ OpenAi /\ Arrives({"deltas"}, Finish(mapper))
    /\ mapper' = [mapper EXCEPT !.finished = TRUE]
    /\ Says("reason") /\ answer' = [answer EXCEPT !.complete = TRUE] /\ UNCHANGED usage
OpenAiUsage ==
    /\ OpenAi /\ Arrives({"deltas", "reason"}, <<Ev("usage", <<>>, 1)>>)
    /\ Says("usage") /\ Reports(1) /\ UNCHANGED <<mapper, answer>>
OpenAiDoneMarker ==
    /\ OpenAi /\ Arrives({"deltas", "reason", "usage"}, Finish(mapper))
    /\ mapper' = [mapper EXCEPT !.finished = TRUE]
    /\ Says("silent") /\ answer' = [answer EXCEPT !.complete = TRUE] /\ UNCHANGED usage

------------------------------------------------------------------------------
(* A messages stream: one content block at a time                            *)

Anthropic == wire = "anthropic"

MessageStart ==
    /\ Anthropic /\ Arrives({"head"}, <<>>)
    /\ Says("deltas") /\ UNCHANGED <<mapper, answer, usage>>

(* content_block_start: a redacted block is all there is of it, a placeholder*)
(* to show and its data to replay.                                           *)
BlockStart(kind) ==
    LET index == server.blocks
        id == <<"server", index>>
    IN
    /\ Anthropic /\ server.open = Nothing /\ server.blocks < MaxBlocks
    /\ kind = "text" => answer.text = 0
    /\ kind = "tool_use" => Len(answer.calls) < MaxCalls
    /\ kind \in {"thinking", "redacted"} => Len(answer.thoughts) < MaxThoughts
    /\ Arrives({"deltas"},
         CASE kind = "tool_use" -> <<Ev("call_start", id, 0)>>
           [] kind = "redacted" -> <<Ev("reasoning", <<>>, index), Ev("redacted", <<>>, index)>>
           [] OTHER -> <<>>)
    /\ mapper' = [mapper EXCEPT
                    !.ids = IF kind = "tool_use" THEN With(@, index, id) ELSE @,
                    !.sigs = IF kind = "thinking" THEN With(@, index, Nothing) ELSE @]
    /\ server' = [server EXCEPT !.open = index, !.kind = kind, !.blocks = @ + 1]
    /\ answer' =
         CASE kind = "tool_use" -> [answer EXCEPT !.calls = Append(@, 0)]
           [] kind = "thinking" -> [answer EXCEPT !.thoughts =
                Append(@, [text |-> <<>>, signature |-> Nothing, redacted |-> FALSE])]
           [] kind = "redacted" -> [answer EXCEPT !.thoughts =
                Append(@, [text |-> <<>>, signature |-> index, redacted |-> TRUE])]
           [] OTHER -> answer
    /\ UNCHANGED usage

InBlock(kind, events) ==
    Anthropic /\ server.open # Nothing /\ server.kind = kind /\ Arrives({"deltas"}, events)
LastThought == answer.thoughts[Len(answer.thoughts)]
Thinks(thought) == answer' = [answer EXCEPT !.thoughts[Len(answer.thoughts)] = thought]

TextDelta ==
    /\ answer.text = 0 /\ InBlock("text", <<Ev("text", <<>>, 0)>>)
    /\ answer' = [answer EXCEPT !.text = 1] /\ UNCHANGED <<server, mapper, usage>>
(* input_json_delta                                                          *)
ArgumentsDelta ==
    LET call == Len(answer.calls) IN
    /\ server.kind = "tool_use" => answer.calls[call] < MaxFragments
    /\ InBlock("tool_use", <<Ev("call_delta", mapper.ids[server.open],
                                <<call - 1, answer.calls[call] + 1>>)>>)
    /\ answer' = [answer EXCEPT !.calls[call] = @ + 1]
    /\ UNCHANGED <<server, mapper, usage>>
ThinkingDelta ==
    /\ server.kind = "thinking" => LastThought.text = <<>>
    /\ InBlock("thinking", <<Ev("reasoning", <<>>, server.open)>>)
    /\ Thinks([LastThought EXCEPT !.text = <<server.open>>])
    /\ UNCHANGED <<server, mapper, usage>>
SignatureDelta ==
    /\ server.kind = "thinking" => LastThought.signature = Nothing
    /\ InBlock("thinking", <<>>)
    /\ mapper' = [mapper EXCEPT !.sigs = With(@, server.open, server.open)]
    /\ Thinks([LastThought EXCEPT !.signature = server.open])
    /\ UNCHANGED <<server, usage>>

(* content_block_stop: the signature a thinking block gathered.              *)
Flushed(m, index) == IF Knows(m.sigs, index) THEN <<Ev("signature", <<>>, m.sigs[index])>> ELSE <<>>

BlockStop ==
    /\ Anthropic /\ server.open # Nothing
    /\ server.kind = "thinking" => LastThought.signature # Nothing
    /\ Arrives({"deltas"}, Flushed(mapper, server.open))
    /\ mapper' = [mapper EXCEPT !.sigs = Without(@, server.open)]
    /\ server' = [server EXCEPT !.open = Nothing, !.kind = "none"]
    /\ UNCHANGED <<answer, usage>>

MessageDelta ==
    /\ Anthropic /\ server.open = Nothing
    /\ Arrives({"deltas"}, <<Ev("usage", <<>>, 1)>>)
    /\ Says("reason") /\ Reports(1) /\ UNCHANGED <<mapper, answer>>
MessageStop ==
    /\ Anthropic /\ Arrives({"reason"}, <<Ev("done", <<>>, 0)>>)
    /\ Says("silent") /\ answer' = [answer EXCEPT !.complete = TRUE]
    /\ UNCHANGED <<mapper, usage>>

------------------------------------------------------------------------------
(* Either stream may bring a frame that maps to nothing, or an error, and    *)
(* its body may end, break or fall silent at any point.                      *)

Ping ==
    /\ ~started /\ Arrives({"head", "deltas"}, <<>>)
    /\ UNCHANGED <<server, mapper, answer, usage>>
ServerError ==
    /\ Arrives({"head", "deltas", "reason", "usage"}, <<Ev("error", <<>>, "api")>>)
    /\ Says("silent") /\ UNCHANGED <<mapper, answer, usage>>

BodyEnds(events) ==
    /\ phase = "streaming" /\ queue = <<>> /\ ~server.over
    /\ server' = [server EXCEPT !.over = TRUE] /\ queue' = events
    /\ UNCHANGED <<wire, answer, mapper, started, out, phase, drops, message, usage, lastError>>

EndOfBody == BodyEnds(<<>>)
TransportError == BodyEnds(<<Ev("error", <<>>, "connect")>>)
\* Mutant: only a stream that has started can stall.
TimesOutOnceStarted == started /\ BodyEnds(<<Ev("error", <<>>, "timeout")>>)
(* The first-chunk window before anything has arrived, the idle one after.   *)
TimesOut == BodyEnds(<<Ev("error", <<>>, "timeout")>>)

Body ==
    \/ OpenAiText \/ OpenAiReasoning
    \/ \E index \in 0..Len(answer.calls), given \in BOOLEAN, fragment \in 0..1 :
          OpenAiCall(index, given, fragment)
    \/ OpenAiFinish \/ OpenAiUsage \/ OpenAiDoneMarker
    \/ MessageStart \/ (\E kind \in {"text", "tool_use", "thinking", "redacted"} : BlockStart(kind))
    \/ TextDelta \/ ArgumentsDelta \/ ThinkingDelta \/ SignatureDelta \/ BlockStop
    \/ MessageDelta \/ MessageStop
    \/ Ping \/ ServerError \/ EndOfBody \/ TransportError

------------------------------------------------------------------------------
(* The engine: consume_stream and handle_stream_event                        *)

AppendTo(call, ev) == IF call.id = ev.id THEN [call EXCEPT !.args = Append(@, ev.says)] ELSE call
(* The first call with the id takes the fragment.                            *)
WithFragment(calls, ev) ==
    LET own == {i \in DOMAIN calls : calls[i].id = ev.id}
    IN [i \in DOMAIN calls |->
          IF own # {} /\ i = CHOOSE j \in own : \A k \in own : j <= k
          THEN AppendTo(calls[i], ev) ELSE calls[i]]

Assembled(o, ev) ==
    CASE ev.kind = "text" -> [o EXCEPT !.text = @ + 1]
      [] ev.kind = "reasoning" -> [o EXCEPT !.reasoning = Append(@, ev.says)]
      [] ev.kind = "signature" -> [o EXCEPT !.signature = ev.says, !.redacted = FALSE]
      [] ev.kind = "redacted" -> [o EXCEPT !.signature = ev.says, !.redacted = TRUE]
      [] ev.kind = "call_start" -> [o EXCEPT !.calls = Append(@, [id |-> ev.id, args |-> <<>>])]
      [] ev.kind = "call_delta" -> [o EXCEPT !.calls = WithFragment(@, ev)]
      [] ev.kind = "done" -> [o EXCEPT !.done = TRUE]
      [] OTHER -> o

Taking == phase = "streaming" /\ queue # <<>> /\ queue' = Tail(queue)

TakeEvent ==
    /\ Taking /\ Head(queue).kind # "error"
    /\ out' = Assembled(out, Head(queue))
    /\ usage' = IF Head(queue).kind = "usage" THEN [usage EXCEPT !.counted = @ + 1] ELSE usage
    /\ UNCHANGED <<wire, server, answer, mapper, started, phase, drops, message, lastError>>

(* StreamEnd::Errored: the turn ends there, whatever has been assembled.     *)
TakeError ==
    /\ Taking /\ Head(queue).kind = "error"
    /\ phase' = "errored" /\ lastError' = Head(queue).says
    /\ UNCHANGED <<wire, server, answer, mapper, started, out, drops, message, usage>>

(* push_assistant_message: nothing is pushed for reasoning alone; reasoning  *)
(* goes first, with the signature last seen and no text if that was redacted.*)
Thought(o) == [text |-> IF o.redacted THEN <<>> ELSE o.reasoning,
               signature |-> o.signature, redacted |-> o.redacted]
HasReasoning(o) == o.reasoning # <<>> \/ o.signature # Nothing
Pushed(o, calls) ==
    IF o.text = 0 /\ calls = <<>> THEN NoMessage
    ELSE [text |-> o.text, calls |-> calls,
          thoughts |-> IF HasReasoning(o) THEN <<Thought(o)>> ELSE <<>>]

BodyRead == phase = "streaming" /\ queue = <<>> /\ server.over

(* StreamEnd::Done.                                                          *)
Commit ==
    /\ BodyRead /\ out.done
    /\ phase' = "committed" /\ message' = Pushed(out, out.calls)
    /\ UNCHANGED <<wire, server, answer, mapper, queue, started, out, drops, usage, lastError>>

(* StreamEnd::Dropped: the whole turn again from the unchanged history, or,  *)
(* the attempts exhausted, an error to the user.                             *)
Retry ==
    /\ BodyRead /\ ~out.done
    /\ drops + 1 < MaxAttempts /\ drops' = drops + 1
    /\ OpenStream
    /\ UNCHANGED <<wire, phase, message, usage, lastError>>
GiveUp ==
    /\ BodyRead /\ ~out.done
    /\ drops + 1 >= MaxAttempts /\ drops' = drops + 1
    /\ phase' = "surfaced"
    /\ UNCHANGED <<wire, server, answer, mapper, queue, started, out, message, usage, lastError>>

(* StreamEnd::Interrupted: the partial text is kept, its calls are not.      *)
Cancel ==
    /\ phase = "streaming"
    /\ phase' = "interrupted" /\ message' = Pushed(out, <<>>)
    /\ UNCHANGED <<wire, server, answer, mapper, queue, started, out, drops, usage, lastError>>

Next ==
    \/ Body \/ TimesOut
    \/ TakeEvent \/ TakeError \/ Commit \/ Retry \/ GiveUp \/ Cancel

(* The timer of each read fires if nothing comes, and the engine's loop goes *)
(* on; a provider owes nothing.                                              *)
Fairness ==
    /\ WF_vars(TimesOut)
    /\ WF_vars(TakeEvent) /\ WF_vars(TakeError)
    /\ WF_vars(Commit) /\ WF_vars(Retry) /\ WF_vars(GiveUp)

Spec == Init /\ [][Next]_vars /\ Fairness

------------------------------------------------------------------------------
(* Properties                                                                *)

Fragments(j, n) == [k \in 1..n |-> <<j - 1, k>>]

(* What is committed as an answer is the whole of the answer the provider    *)
(* meant: never one cut short, never one stitched from two attempts, every   *)
(* call with its own fragments in order (openai.rs OpenAiMapper, turn.rs     *)
(* consume_stream).                                                          *)
CommittedIsWhole ==
    phase = "committed" =>
        /\ answer.complete
        /\ message.text = answer.text
        /\ Len(message.calls) = Len(answer.calls)
        /\ \A j \in DOMAIN message.calls :
              message.calls[j].args = Fragments(j, answer.calls[j])

(* The one reasoning block of an answer is what the next request replays,    *)
(* text, signature and redaction together (turn.rs push_assistant_message).  *)
OneThoughtReplays ==
    phase = "committed" /\ message # NoMessage /\ Len(answer.thoughts) = 1 =>
        message.thoughts = <<IF answer.thoughts[1].redacted
                             THEN [answer.thoughts[1] EXCEPT !.text = <<>>]
                             ELSE answer.thoughts[1]>>

(* An answer is committed only when its body has been read to the end, so    *)
(* the usage some servers report after the finish is counted, once           *)
(* (turn.rs handle_stream_event, Done).                                      *)
UsageIsCounted ==
    /\ phase = "committed" => server.over
    /\ queue = <<>> /\ phase # "interrupted" => usage.counted = usage.reported

Streaming == phase = "streaming"

(* A provider that falls silent, before its first byte or in the middle,     *)
(* does not hold the turn (wire.rs StreamTimeouts).                          *)
TurnEnds == <>~Streaming

------------------------------------------------------------------------------
(* The invariant: were the events that wait taken, the engine would have what*)
(* the provider has said so far.                                             *)

\* What the engine has once it took the events that wait.
After(o, events) ==
    IF events = <<>> THEN o
    ELSE IF Len(events) = 1 THEN Assembled(o, events[1])
    ELSE Assembled(Assembled(o, events[1]), events[2])

\* Each call bears an id of its own, and the one its next fragment will bear
\* if there is one.
CallsTold(o) ==
    /\ Len(o.calls) = Len(answer.calls)
    /\ \A j \in 1..Len(o.calls) : o.calls[j].args = Fragments(j, answer.calls[j])
    /\ \A j, k \in 1..Len(o.calls) : o.calls[j].id = o.calls[k].id => j = k
    /\ OpenAi =>
        /\ DOMAIN mapper.ids = 0..(Len(o.calls) - 1)
        /\ \A j \in 1..Len(o.calls) : mapper.ids[j - 1] = o.calls[j].id /\ o.calls[j].id[2] = j - 1
    /\ Anthropic =>
        /\ \A j \in 1..Len(o.calls) : o.calls[j].id[2] < server.blocks
        /\ server.kind = "tool_use" =>
              /\ o.calls # <<>> /\ o.calls[Len(o.calls)].id = mapper.ids[server.open]

\* Of no thought nothing is there; of the only one all of it, but for a
\* signature that its block still gathers.
ThoughtsTold(o) ==
    /\ answer.thoughts = <<>> => o.reasoning = <<>> /\ o.signature = Nothing /\ ~o.redacted
    /\ Len(answer.thoughts) = 1 =>
        LET thought == answer.thoughts[1] IN
        /\ o.redacted = thought.redacted
        /\ thought.redacted =>
              o.signature = thought.signature /\ o.signature # Nothing /\ server.kind # "thinking"
        /\ ~thought.redacted =>
              /\ o.reasoning = thought.text
              /\ IF server.kind = "thinking"
                 THEN o.signature = Nothing /\ mapper.sigs[server.open] = thought.signature
                 ELSE o.signature = thought.signature /\ HasReasoning(o)

\* All that was said: the text, the end, the calls and the thought.
Told(o) ==
    /\ o.text = answer.text /\ o.done = answer.complete
    /\ CallsTold(o) /\ ThoughtsTold(o)

\* A block is open or none is, and only a thinking block gathers a signature.
BlocksInOrder ==
    /\ server.open = Nothing <=> server.kind = "none"
    /\ server.open # Nothing => Anthropic /\ server.open \in 0..(server.blocks - 1)
    /\ \A i \in DOMAIN mapper.sigs : server.kind = "thinking" /\ i = server.open
    /\ server.kind = "thinking" => answer.thoughts # <<>> /\ server.open \in DOMAIN mapper.sigs
    /\ OpenAi => mapper.finished = answer.complete /\ Len(answer.thoughts) <= 1
    /\ answer.complete => server.stage \in {"reason", "usage", "silent"}
    /\ answer.complete \/ server.stage = "reason" => server.kind = "none"

\* Usage is counted when its event is taken.
UsageFollows ==
    usage.reported =
        usage.counted + IF queue # <<>> /\ Head(queue).kind = "usage" THEN 1 ELSE 0

\* The state's types; a mapper's tables have the indexes the wire gave.
Ids == {"server", "call"} \X Nat
StreamsTypeOK ==
    /\ wire \in Wires /\ started \in BOOLEAN /\ drops \in Nat
    /\ server \in [stage : {"head", "deltas", "reason", "usage", "silent"}, open : Int,
                    kind : {"none", "text", "tool_use", "thinking", "redacted"},
                    blocks : Nat, over : BOOLEAN]
    /\ answer \in [text : {0, 1}, calls : Seq(Nat), complete : BOOLEAN,
                    thoughts : Seq([text : Seq(Nat), signature : Int, redacted : BOOLEAN])]
    /\ mapper = [ids |-> mapper.ids, sigs |-> mapper.sigs, finished |-> mapper.finished]
    /\ mapper.finished \in BOOLEAN /\ DOMAIN mapper.ids \subseteq Nat
    /\ \A i \in DOMAIN mapper.ids : mapper.ids[i] \in Ids
    /\ \A i \in DOMAIN mapper.sigs : mapper.sigs[i] \in Int
    /\ out \in [text : Nat, reasoning : Seq(Nat), signature : Int, redacted : BOOLEAN,
                 calls : Seq([id : Ids, args : Seq(Nat \X Nat)]), done : BOOLEAN]
    /\ usage \in [reported : Nat, counted : Nat]

\* What an event says is of the kind the engine keeps.
EventOK(e) ==
    /\ e.kind = "reasoning" => e.says \in Nat
    /\ e.kind \in {"signature", "redacted"} => e.says \in Int
    /\ e.kind = "call_start" => e.id \in Ids
    /\ e.kind = "call_delta" => e.says \in Nat \X Nat

\* Two events arrive together only where they are of one call or one thought.
QueueInOrder ==
    \/ queue = <<>>
    \/ \E e : queue = <<e>> /\ EventOK(e)
    \/ \E e, f : /\ queue = <<e, f>> /\ e.kind \in {"call_start", "reasoning"}
                 /\ f.kind \in {"call_delta", "redacted"} /\ EventOK(e) /\ EventOK(f)

\* Together; what is committed was over and taken to its last event.
StreamsInv ==
    /\ StreamsTypeOK /\ QueueInOrder /\ BlocksInOrder /\ Told(After(out, queue))
    /\ phase # "interrupted" => UsageFollows
    /\ phase = "committed" =>
        out.done /\ queue = <<>> /\ server.over /\ message = Pushed(out, out.calls)
==============================================================================
