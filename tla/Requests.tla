------------------------------ MODULE Requests ------------------------------
(***************************************************************************)
(* What a session's conversation becomes on the wire of the two providers  *)
(* it may be sent to, turn by turn, the user switching between them.       *)
(*                                                                         *)
(* A block is a pair of its kind and the number of the call it belongs to, *)
(* 0 for none.  A thought is "signed", "redacted" or "unsigned": only      *)
(* Anthropic signs.  The wire format is modelled up to the entries'        *)
(* roles, the order of their parts, and the options the formats constrain. *)
(***************************************************************************)
EXTENDS Naturals, Sequences, SequencesExt, FiniteSetsExt

CONSTANTS
    MaxMessages,   \* bound on the conversation
    MaxCalls,      \* bound on the calls of an answer
    OutputLimits   \* what models declare as their largest answer

VARIABLES
    messages,      \* the conversation, in the harness's own form
    provider,      \* the provider of the active profile
    limit,         \* its model's largest answer
    levels,        \* its model declares efforts
    effort,        \* the session's effort
    open,          \* the calls of the last answer that have no result yet
    body           \* the last request body sent

vars == <<messages, provider, limit, levels, effort, open, body>>

Providers == {"anthropic", "openai"}
Efforts == {"none", "low", "medium", "high", "max"}
Thoughts == {"signed", "redacted", "unsigned"}
Media == {"image", "document"}
NoBody == [wire |-> "none", messages |-> <<>>, max |-> 0, thinking |-> 0, effort |-> "none"]

Message(role, content) == [role |-> role, content |-> content]
Kinds(content) == {content[i][1] : i \in DOMAIN content}
OfKinds(content, kinds) == SelectSeq(content, LAMBDA b : b[1] \in kinds)

(***************************************************************************)
(* Anthropic: results are parts of a user's entry; an effort is a budget   *)
(* of tokens for thinking, which must leave room for the answer.           *)
(***************************************************************************)
EffortBudgetTarget(e) ==
    CASE e = "low" -> 2048 [] e = "medium" -> 8192 [] e = "high" -> 16384 [] e = "max" -> 32768

Reserve == 1024
Least == 1024

\* The budget, 0 when none fits.
ThinkingBudget(e, max) ==
    IF max < Reserve + Least THEN 0
    ELSE Max({Least, Min({max - Reserve, EffortBudgetTarget(e)})})

BlockToAnthropic(b) ==
    CASE b[1] = "use" -> <<"tool_use", b[2]>>
      [] b[1] = "result" -> <<"tool_result", b[2]>>
      [] b[1] = "redacted" -> <<"redacted_thinking", 0>>
      [] b[1] \in {"signed", "unsigned"} -> <<"thinking", IF b[1] = "signed" THEN 1 ELSE 0>>
      [] OTHER -> b

MessageToAnthropic(m) ==
    Message(IF m.role = "assistant" THEN "assistant" ELSE "user",
            [i \in DOMAIN m.content |-> BlockToAnthropic(m.content[i])])

AnthropicBody ==
    LET max == Max({1, limit}) IN
    [wire     |-> "anthropic",
     messages |-> [i \in DOMAIN messages |-> MessageToAnthropic(messages[i])],
     max      |-> max,
     thinking |-> IF levels /\ effort # "none" THEN ThinkingBudget(effort, max) ELSE 0,
     effort   |-> "none"]

(***************************************************************************)
(* OpenAI: a result is an entry of its own; thoughts are left out; only a  *)
(* user's entry has room for images and documents.                         *)
(***************************************************************************)
\* The first result of a message stands for it.
ToolResultFields(m) ==
    LET results == OfKinds(m.content, {"result"}) IN
    <<"tool_call_id", IF results = <<>> THEN 0 ELSE Head(results)[2]>>

AssistantDroppingCalls(m) ==
    IF "text" \in Kinds(m.content) THEN OfKinds(m.content, {"text"}) ELSE OfKinds(m.content, {"use"})
AssistantContent(m) == OfKinds(m.content, {"text"}) \o OfKinds(m.content, {"use"})

MessageToOpenai(m) ==
    Message(m.role,
            CASE m.role = "tool" -> <<ToolResultFields(m)>>
              [] m.role = "assistant" -> AssistantContent(m)
              [] m.role = "user" -> OfKinds(m.content, {"text"} \cup Media))

ReasoningEffortValue(e) == IF e = "max" THEN "high" ELSE e

OpenaiBody ==
    [wire     |-> "openai",
     messages |-> [i \in DOMAIN messages |-> MessageToOpenai(messages[i])],
     max      |-> limit,
     thinking |-> 0,
     effort   |-> IF levels THEN ReasoningEffortValue(effort) ELSE "none"]

Init ==
    /\ messages = <<>> /\ open = <<>>
    /\ provider \in Providers
    /\ limit \in OutputLimits
    /\ levels \in BOOLEAN
    /\ effort \in Efforts
    /\ body = NoBody

Push(ms) ==
    /\ Len(messages) + Len(ms) <= MaxMessages
    /\ messages' = messages \o ms
    /\ UNCHANGED <<provider, limit, levels, effort>>

\* The turn's request, with everything said so far.
Waiting == messages # <<>> /\ Last(messages).role # "assistant" /\ open = <<>>

SendRequest ==
    /\ Waiting /\ body = NoBody
    /\ body' = IF provider = "anthropic" THEN AnthropicBody ELSE OpenaiBody
    /\ UNCHANGED <<messages, provider, limit, levels, effort, open>>

\* A message of the user and an image attached to it, which a model that
\* has no vision is told of in a text.
UserInput(attached) ==
    /\ open = <<>> /\ body = NoBody
    /\ Push(<<Message("user", <<<<"text", 0>>>> \o attached)>>)
    /\ UNCHANGED <<open, body>>

\* The answer: a thought, a text, calls.  Nothing is kept of a thought alone.
Answer(thought, text, calls) ==
    /\ body # NoBody
    /\ body' = NoBody
    /\ (thought \in {"signed", "redacted"} => body.wire = "anthropic")
    /\ (thought = "unsigned" => body.wire = "openai")
    /\ LET ids     == [i \in 1 .. calls |-> <<"use", Len(messages) * 10 + i>>]
           content == (IF thought = "none" THEN <<>> ELSE <<<<thought, 0>>>>)
                      \o (IF text THEN <<<<"text", 0>>>> ELSE <<>>) \o ids IN
       IF ~text /\ calls = 0 THEN UNCHANGED <<messages, provider, limit, levels, effort, open>>
       ELSE /\ Push(<<Message("assistant", content)>>)
            /\ open' = [i \in 1 .. calls |-> ids[i][2]]

\* A call's result; what it shows is a user's message of its own after it.
ToolResult(shows) ==
    /\ open # <<>>
    /\ Push(<<Message("tool", <<<<"result", Head(open)>>>>)>>
            \o (IF shows = "none" THEN <<>> ELSE <<Message("user", <<<<shows, 0>>>>)>>))
    /\ open' = Tail(open)
    /\ UNCHANGED body

\* /model, which falls back on the new model's own effort, and /effort,
\* between turns.
SwitchModel(p, l, declares, default) ==
    /\ open = <<>> /\ body = NoBody
    /\ provider' = p /\ limit' = l /\ levels' = declares /\ effort' = default
    /\ UNCHANGED <<messages, open, body>>

SetEffort(e) ==
    /\ open = <<>> /\ body = NoBody
    /\ levels /\ e # effort
    /\ effort' = e
    /\ UNCHANGED <<messages, provider, limit, levels, open, body>>

Next ==
    \/ SendRequest
    \/ \E attached \in {<<>>, <<<<"image", 0>>>>, <<<<"text", 0>>>>} : UserInput(attached)
    \/ \E thought \in Thoughts \cup {"none"}, text \in BOOLEAN, calls \in 0 .. MaxCalls :
          Answer(thought, text, calls)
    \/ \E shows \in Media \cup {"none"} : ToolResult(shows)
    \/ \E p \in Providers, l \in OutputLimits, declares \in BOOLEAN, default \in Efforts :
          SwitchModel(p, l, declares, default)
    \/ \E e \in Efforts \ {"none"} : SetEffort(e)

Spec == Init /\ [][Next]_vars

(***************************************************************************)
(* Properties.                                                             *)
(***************************************************************************)
Used(m) == {m.content[i][2] : i \in {j \in DOMAIN m.content : m.content[j][1] \in {"use", "tool_use"}}}
Resulted(m) ==
    {m.content[i][2] : i \in {j \in DOMAIN m.content : m.content[j][1] \in {"tool_result", "tool_call_id"}}}

\* A budget for thinking is at least what the provider asks for and leaves
\* room for the answer, whatever the model's limit and the effort.
BudgetFits == body.thinking # 0 => 1024 <= body.thinking /\ body.thinking < body.max

\* On both wires, wherever the conversation began, every call that the
\* assistant made is there and has one result, after it and before the
\* assistant speaks again; and no result is there without its call.
ResultsFollowCalls ==
    \A i \in DOMAIN body.messages :
        LET until == Min({Len(body.messages) + 1} \cup
                         {j \in DOMAIN body.messages : j > i /\ body.messages[j].role = "assistant"}) IN
        body.messages[i].role = "assistant" =>
            /\ Used(body.messages[i]) = UNION {Resulted(body.messages[j]) : j \in i + 1 .. until - 1}
            /\ Used(body.messages[i]) = {b[2] : b \in {c \in Range(messages[i].content) : c[1] = "use"}}

\* No answer's entry is left empty, which a provider would refuse again at
\* every retry.
NoEmptyAnswer ==
    \A i \in DOMAIN body.messages : body.messages[i].content # <<>>
=============================================================================
