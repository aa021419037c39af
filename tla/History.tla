------------------------------- MODULE History -------------------------------
(* One session's transcript, the conversation derived from it, and the cache *)
(* of that derivation: what a turn appends and pushes, what compaction and   *)
(* the sliding window cut away, and what a resume after a clean exit or a    *)
(* crash restores.  (engine/turn.rs, engine/context.rs, engine/session.rs,   *)
(* engine/mod.rs, resume.rs, view_cache.rs)                                  *)
(*                                                                          *)
(* A message is known by the transcript record it came from, so that a view  *)
(* and the log can be compared: rec is the index of that record, and 0 for a *)
(* message that no record holds (an image or document a tool returned, the   *)
(* report of a failed completion check).                                     *)
EXTENDS Integers, Sequences, SequencesExt, FiniteSets

CONSTANTS
    KeepRecentTurns, WindowTurns,   \* ContextConfig
    AutoCompact,      \* ContextConfig.auto_compact
    Attachments,      \* may a tool return an image or a document
    BareReasoning,    \* may a completion be reasoning and nothing else
    Checks,           \* are completion checks registered
    MaxCalls,         \* bound: tool calls of one completion
    MaxLog,           \* bound: records of the transcript when a handler starts
    MaxLives          \* bound: times the session is opened

ASSUME HistoryAssumption ==
    /\ {KeepRecentTurns, WindowTurns, MaxCalls, MaxLog} \subseteq Nat
    /\ MaxLives \in Nat \ {0}
    /\ {AutoCompact, Attachments, BareReasoning, Checks} \subseteq BOOLEAN

VARIABLES
    phase,      \* idle, streaming, tools, canceling, halted, ending, away
    todo,       \* calls of the batch that have no result yet, in order
    log,        \* the transcript
    view,       \* the derived state a ViewCache holds; what it last was while
                \* the session is away
    cache,      \* the sidecar file: [len, view], or absent
    pending,    \* ContextState.pending
    autoArmed,  \* ContextState.auto_armed
    lives,      \* times the session was opened
    offRecord   \* history: the conversation holds a message that no record
                \* does, or lacks one that a record holds

vars == <<phase, todo, log, view, cache, pending, autoArmed, lives, offRecord>>
Absent == [len |-> 0]

------------------------------------------------------------------------------
(* Messages, turns and their numbers                                         *)

UserMessage(rec) == [role |-> "user", rec |-> rec, calls |-> {}]
AssistantMessage(rec, calls) == [role |-> "assistant", rec |-> rec, calls |-> calls]
ToolMessage(rec, call) == [role |-> "tool", rec |-> rec, calls |-> {call}]
Synthetic == UserMessage(0)

(* push_conversation_message: a user message starts a turn.                  *)
Push(v, message) ==
    LET starts == v.messages = <<>> \/ message.role = "user"
    IN  [v EXCEPT !.messages = Append(@, message),
                  !.turnMap = Append(@, IF starts THEN v.nextTurn ELSE Last(@)),
                  !.nextTurn = IF starts THEN @ + 1 ELSE @]

(* group_turn_starts of the messages after the first from ones, as indices   *)
(* of the whole conversation.                                                *)
TurnStarts(messages, from) ==
    {i \in (from + 1)..Len(messages) : i = from + 1 \/ messages[i].role = "user"}

\* Mutant: the last messages are kept, and not the last turns.
CutBeforeMessages(messages, from, kept) ==
    IF Len(messages) <= from + kept THEN from ELSE Len(messages) - kept

(* How many messages the conversation has before its last `kept` turns, the  *)
(* first from ones never being part of a turn.                               *)
CutBefore(messages, from, kept) ==
    LET starts == TurnStarts(messages, from)
    IN  IF Cardinality(starts) <= kept THEN from
        ELSE IF kept = 0 THEN Len(messages)
        ELSE (CHOOSE i \in starts : Cardinality({j \in starts : j >= i}) = kept) - 1

(* build_turn_map, the numbering of a replayed conversation.                 *)
BuildTurnMap(messages) ==
    [i \in DOMAIN messages |->
        Cardinality({j \in 2..i : messages[j].role = "user"})]

Splice(s, from, to, x) == SubSeq(s, 1, from) \o <<x>> \o SubSeq(s, to + 1, Len(s))

(* windowed_messages: the pinned prefix, a marker for what is left out, and  *)
(* the last turns.                                                           *)
Sent(v) ==
    LET wanted == IF v.compacted THEN 2 ELSE 1
        pinned == IF Len(v.messages) < wanted THEN Len(v.messages) ELSE wanted
        to == CutBefore(v.messages, pinned, WindowTurns)
    IN  IF to = pinned THEN v.messages
        ELSE SubSeq(v.messages, 1, pinned) \o <<Synthetic>>
                 \o SubSeq(v.messages, to + 1, Len(v.messages))

------------------------------------------------------------------------------
(* Replaying the transcript                                                  *)

Record(type) == [type |-> type]
\* A record that is no part of the conversation: session_start, title, error,
\* check, halt, mode, abnormal_exit.
Other == Record("other")
Result(call) == [type |-> "result", call |-> call]
\* Mutant: the recorded range is one message short.
CompactionShort(from, to, trigger) ==
    [type |-> "compaction", from |-> from, to |-> to - 1, trigger |-> trigger,
     off |-> offRecord]
\* off is history: offRecord when the range was taken.
Compaction(from, to, trigger) ==
    [type |-> "compaction", from |-> from, to |-> to, trigger |-> trigger,
     off |-> offRecord]

AtMost(n, bound) == IF n < bound THEN n ELSE bound

(* One record's part in rebuild_conversation: the calls that immediately     *)
(* follow an answer or another call are folded into its message.             *)
ReplayRecord(records, messages, i) ==
    LET r == records[i]
        folds == i > 1 /\ records[i - 1].type \in {"assistant", "call"}
    IN  CASE r.type = "user" -> Append(messages, UserMessage(i))
          [] r.type = "assistant" -> Append(messages, AssistantMessage(i, {}))
          [] r.type = "call" ->
                IF folds
                THEN [messages EXCEPT ![Len(messages)].calls = @ \cup {i}]
                ELSE Append(messages, AssistantMessage(i, {i}))
          [] r.type = "result" -> Append(messages, ToolMessage(i, r.call))
          [] r.type = "compaction" ->
                LET from == AtMost(r.from, Len(messages))
                    to == AtMost(r.to, Len(messages))
                IN  IF from <= to THEN Splice(messages, from, to, UserMessage(i))
                    ELSE messages
          [] OTHER -> messages

Replay(records) ==
    LET upTo[n \in 0..Len(records)] ==
            IF n = 0 THEN <<>> ELSE ReplayRecord(records, upTo[n - 1], n)
    IN  upTo[Len(records)]

(* AdoptedState::replayed                                                    *)
Replayed(records) ==
    LET messages == Replay(records)
        numbers == BuildTurnMap(messages)
    IN  [messages |-> messages, turnMap |-> numbers,
         nextTurn |-> IF messages = <<>> THEN 0 ELSE Last(numbers) + 1,
         compacted |-> \E i \in DOMAIN records : records[i].type = "compaction",
         taskRecorded |-> TRUE]

Fresh == [messages |-> <<>>, turnMap |-> <<>>, nextTurn |-> 0, compacted |-> FALSE,
          taskRecorded |-> FALSE]

\* Mutant: a cache is trusted when the transcript has grown since.
CacheNotNewer == cache # Absent /\ cache.len <= Len(log)
(* try_load_view_cache's guard.                                              *)
CacheValid == cache # Absent /\ cache.len = Len(log)

------------------------------------------------------------------------------

Init ==
    /\ phase = "idle" /\ todo = <<>>
    /\ log = <<Other>>
    /\ view = Fresh /\ cache = Absent
    /\ pending = "none" /\ autoArmed = TRUE
    /\ lives = 1 /\ offRecord = FALSE

WriteViewCache == cache' = [len |-> Len(log'), view |-> view']

(* request_compaction: Manual outranks Auto.                                 *)
Request(requested, trigger) == IF requested = "manual" THEN requested ELSE trigger

(* emit_context_usage: the automatic trigger fires when usage is over the    *)
(* threshold and the latch is armed; under it the latch is armed again.      *)
UsageFrom(requested, armed) ==
    \E over \in IF AutoCompact THEN BOOLEAN ELSE {FALSE} :
        /\ autoArmed' = IF AutoCompact THEN ~over ELSE armed
        /\ pending' = IF over /\ armed THEN Request(requested, "auto") ELSE requested
EmitContextUsage == UsageFrom(pending, autoArmed)

SameUsage == UNCHANGED <<pending, autoArmed>>
Room == Len(log) < MaxLog

(* record_user_message, and its push.                                        *)
UserRecords ==
    IF view.taskRecorded THEN <<Record("user")>>
    ELSE <<Record("user"), Other>>
PushUser(before) ==
    /\ log' = log \o before \o UserRecords
    /\ view' = [Push(view, UserMessage(Len(log) + Len(before) + 1))
                   EXCEPT !.taskRecorded = TRUE]

UserInput ==
    /\ phase = "idle" /\ Room
    /\ PushUser(<<>>) /\ EmitContextUsage
    /\ phase' = "streaming"
    /\ UNCHANGED <<todo, cache, lives, offRecord>>

(* push_assistant_message: the records it writes for an answer with or       *)
(* without text or reasoning and this many calls, and what it pushes.        *)
AnswerRecords(answered, calls) ==
    (IF answered THEN <<Record("assistant")>> ELSE <<>>)
        \o [i \in 1..calls |-> Record("call")]
CallsFrom(answered) == Len(log) + (IF answered THEN 1 ELSE 0)
CallRecords(answered, calls) == {CallsFrom(answered) + i : i \in 1..calls}

PushAnswer(answered, calls) ==
    /\ log' = log \o AnswerRecords(answered, calls)
    /\ IF answered \/ calls > 0
       THEN view' = Push(view, AssistantMessage(Len(log) + 1, CallRecords(answered, calls)))
       ELSE view' = view
    /\ UNCHANGED offRecord

(* A reasoning-only completion is recorded and not pushed.                   *)
RecordReasoning ==
    /\ BareReasoning
    /\ log' = Append(log, Record("assistant"))
    /\ view' = view /\ offRecord' = TRUE

(* The stream ends well and the model asks for tools.                        *)
AnswerWithCalls(answered, calls) ==
    /\ phase = "streaming" /\ Room /\ calls > 0
    /\ PushAnswer(answered, calls) /\ EmitContextUsage
    /\ todo' = [i \in 1..calls |-> CallsFrom(answered) + i]
    /\ phase' = "tools"
    /\ UNCHANGED <<cache, lives>>

(* It claims to be done, or the user interrupts it: the turn ends, unless    *)
(* completion checks are to run first.                                       *)
Answer(answered) ==
    /\ phase = "streaming" /\ Room
    /\ PushAnswer(answered, 0) \/ RecordReasoning
    /\ EmitContextUsage
    /\ \/ phase' = "ending"
       \/ Checks /\ phase' = "checking"
    /\ UNCHANGED <<todo, cache, lives>>

(* The stream cannot be opened, fails or is dropped: this is recorded, and   *)
(* the request is retried or the turn ends.                                  *)
StreamFails ==
    /\ phase = "streaming" /\ Room
    /\ log' = Append(log, Other)
    /\ phase' \in {"streaming", "ending"}
    /\ SameUsage /\ UNCHANGED <<todo, view, cache, lives, offRecord>>

(* ingest_tool_result; an image or document follows as a user message of its *)
(* own.  After the last result the turn goes on, or the loop guardrail halts *)
(* it.                                                                       *)
IngestToolResult(attached) ==
    /\ phase = "tools" /\ Room
    /\ log' = Append(log, Result(Head(todo)))
    /\ LET pushed == Push(view, ToolMessage(Len(log) + 1, Head(todo)))
       IN  view' = IF attached THEN Push(pushed, Synthetic) ELSE pushed
    /\ offRecord' = (offRecord \/ attached)
    /\ todo' = Tail(todo)
    /\ EmitContextUsage
    /\ \/ todo' # <<>> /\ phase' = "tools"
       \/ todo' = <<>> /\ phase' \in {"streaming", "halted"}
    /\ UNCHANGED <<cache, lives>>

CancelTools ==
    /\ phase = "tools" /\ phase' = "canceling"
    /\ UNCHANGED <<todo, log, view, cache, pending, autoArmed, lives, offRecord>>

(* push_canceled_result, for the canceled call and each one behind it.       *)
PushCanceledResult ==
    /\ phase = "canceling" /\ Room
    /\ log' = Append(log, Result(Head(todo)))
    /\ view' = Push(view, ToolMessage(Len(log) + 1, Head(todo)))
    /\ todo' = Tail(todo)
    /\ phase' = IF todo' = <<>> THEN "ending" ELSE "canceling"
    /\ SameUsage /\ UNCHANGED <<cache, lives, offRecord>>

(* The completion checks ran; a failure is reported to the model in a user   *)
(* message, and the turn goes on or halts.                                   *)
ChecksEnd ==
    /\ phase = "checking" /\ Room
    /\ log' = Append(log, Other)
    /\ \/ /\ phase' = "ending"
          /\ SameUsage /\ UNCHANGED <<view, offRecord>>
       \/ /\ view' = Push(view, Synthetic) /\ offRecord' = TRUE
          /\ EmitContextUsage
          /\ phase' \in {"streaming", "halted"}
    /\ UNCHANGED <<todo, cache, lives>>

(* The user resolves a halt of the loop or of the gate; steering is a user   *)
(* message.                                                                  *)
ResolveHalt ==
    /\ phase = "halted" /\ Room
    /\ \/ /\ log' = Append(log, Other)
          /\ phase' \in {"streaming", "ending"}
          /\ SameUsage /\ UNCHANGED view
       \/ /\ PushUser(<<Other>>) /\ EmitContextUsage
          /\ phase' = "streaming"
    /\ UNCHANGED <<todo, cache, lives, offRecord>>

(* /compact while a turn runs.                                               *)
CompactCommand ==
    /\ phase \in {"streaming", "tools", "halted"}
    /\ pending' = Request(pending, "manual")
    /\ UNCHANGED <<phase, todo, log, view, cache, autoArmed, lives, offRecord>>

------------------------------------------------------------------------------
(* The boundary between turns                                                *)

\* Mutant: the conversation is numbered anew.
CompactedRenumbering(from, to, rec) ==
    LET messages == Splice(view.messages, from, to, UserMessage(rec))
        numbers == BuildTurnMap(messages)
    IN  [view EXCEPT !.messages = messages, !.turnMap = numbers,
                     !.nextTurn = Last(numbers) + 1, !.compacted = TRUE]

(* The rebuilt conversation: the messages after the first from ones and up   *)
(* to the to-th give way to the summary, which takes a number of its own.    *)
CompactedView(from, to, rec) ==
    [view EXCEPT !.messages = Splice(@, from, to, UserMessage(rec)),
                 !.turnMap = Splice(@, from, to, view.nextTurn),
                 !.nextTurn = @ + 1, !.compacted = TRUE]

(* compact: everything between the original task and the recent turns gives  *)
(* way to a summary, or to a placeholder when there is none; a conversation  *)
(* without a middle stays as it is.                                          *)
Compact(trigger, requested) ==
    LET from == IF view.messages = <<>> THEN 0 ELSE 1
        to == CutBefore(view.messages, from, KeepRecentTurns)
    IN  IF to <= from
        THEN /\ pending' = requested
             /\ UNCHANGED <<log, view, autoArmed>>
        ELSE /\ log' = Append(log, Compaction(from, to, trigger))
             /\ view' = CompactedView(from, to, Len(log) + 1)
             /\ UsageFrom(requested, autoArmed)

(* The turn is over: a queued compaction runs, and the cache catches up with *)
(* the transcript.                                                           *)
TurnEnd ==
    /\ phase = "ending"
    /\ phase' = "idle"
    /\ IF pending = "none" THEN UNCHANGED <<log, view, pending, autoArmed>>
       ELSE Compact(pending, "none")
    /\ WriteViewCache
    /\ UNCHANGED <<todo, lives, offRecord>>

IdleCompact ==
    /\ phase = "idle" /\ Room
    /\ Compact("manual", pending)
    /\ IF log' # log THEN WriteViewCache ELSE UNCHANGED cache
    /\ UNCHANGED <<phase, todo, lives, offRecord>>

(* A mode, model or effort change is recorded between turns.                 *)
IdleWrite ==
    /\ phase = "idle" /\ Room
    /\ log' = Append(log, Other) /\ view' = view /\ WriteViewCache
    /\ SameUsage /\ UNCHANGED <<phase, todo, lives, offRecord>>

(* end_departing_session, and the end of run.                                *)
EndSession ==
    /\ phase = "idle"
    /\ log' = Append(log, Record("end")) /\ view' = view /\ WriteViewCache
    /\ phase' = "away"
    /\ SameUsage /\ UNCHANGED <<todo, lives, offRecord>>

------------------------------------------------------------------------------
(* Crash and resume                                                          *)

(* The process dies between two handlers; the panic hook may still append an *)
(* abnormal_exit.                                                            *)
Crash ==
    /\ phase # "away"
    /\ log' \in {log, Append(log, Other)}
    /\ phase' = "away" /\ todo' = <<>>
    /\ SameUsage /\ UNCHANGED <<view, cache, lives, offRecord>>

(* It dies while it writes the records of an answer.                         *)
CrashAnswering(answered, calls) ==
    /\ phase = "streaming" /\ Room
    /\ \E n \in 1..Len(AnswerRecords(answered, calls)) :
          log' = log \o SubSeq(AnswerRecords(answered, calls), 1, n)
    /\ phase' = "away" /\ offRecord' = TRUE
    /\ SameUsage /\ UNCHANGED <<todo, view, cache, lives>>

(* The sidecar is deleted, or unreadable.                                    *)
LoseCache ==
    /\ phase = "away" /\ cache # Absent
    /\ cache' = Absent
    /\ UNCHANGED <<phase, todo, log, view, pending, autoArmed, lives, offRecord>>

(* resume_session, and a launch with a session to resume.                    *)
ResumeSession ==
    /\ phase = "away" /\ lives < MaxLives
    /\ lives' = lives + 1
    /\ view' = IF CacheValid THEN cache.view ELSE Replayed(log)
    /\ offRecord' = (CacheValid /\ offRecord)
    /\ UsageFrom("none", TRUE)
    /\ phase' = "idle"
    /\ UNCHANGED <<todo, log, cache>>

------------------------------------------------------------------------------

\* The session is left for good.
Left == phase = "away" /\ lives = MaxLives /\ UNCHANGED vars
\* The bound on the transcript ends a turn where it is.
Full == phase # "away" /\ ~Room /\ UNCHANGED vars

Next ==
    \/ UserInput \/ StreamFails \/ CancelTools \/ PushCanceledResult
    \/ \E answered \in BOOLEAN :
          \/ Answer(answered)
          \/ \E calls \in 1..MaxCalls : AnswerWithCalls(answered, calls)
          \/ \E calls \in 0..MaxCalls : CrashAnswering(answered, calls)
    \/ \E attached \in {FALSE, Attachments} : IngestToolResult(attached)
    \/ ChecksEnd \/ ResolveHalt \/ CompactCommand
    \/ TurnEnd \/ IdleCompact \/ IdleWrite \/ EndSession
    \/ Crash \/ LoseCache \/ ResumeSession
    \/ Left \/ Full

Spec == Init /\ [][Next]_vars

------------------------------------------------------------------------------
(* Properties                                                                *)

Phase == {"idle", "streaming", "tools", "canceling", "checking", "halted", "ending", "away"}
MessageSet == [role : {"user", "assistant", "tool"}, rec : Nat, calls : SUBSET Nat]
RecordTypes == {"other", "user", "assistant", "call", "result", "compaction", "end"}
IsView(v) ==
    /\ v.messages \in Seq(MessageSet)
    /\ v.turnMap \in [DOMAIN v.messages -> Nat]
    /\ v.nextTurn \in Nat
    /\ v.compacted \in BOOLEAN /\ v.taskRecorded \in BOOLEAN

TypeOK ==
    /\ phase \in Phase
    /\ todo \in Seq(Nat)
    /\ \A i \in DOMAIN log : log[i].type \in RecordTypes
    /\ IsView(view)
    /\ cache # Absent => cache.len \in 1..Len(log) /\ IsView(cache.view)
    /\ pending \in {"none", "auto", "manual"} /\ autoArmed \in BOOLEAN
    /\ lives \in 1..MaxLives /\ offRecord \in BOOLEAN

(* FR-3, HistoryState: a turn number names one turn, also after compactions  *)
(* and resumes: every message but a user's bears the number of the message   *)
(* before it, no two users' messages bear the same, and the next number is   *)
(* new.                                                                      *)
NumbersNameTurns ==
    LET m == view.messages
    IN  /\ \A i \in DOMAIN m : view.turnMap[i] < view.nextTurn
        /\ \A i \in DOMAIN m : i > 1 /\ m[i].role # "user"
                => view.turnMap[i] = view.turnMap[i - 1]
        /\ \A i, j \in DOMAIN m : i < j /\ m[j].role = "user"
                => view.turnMap[i] # view.turnMap[j]

(* HC-7, resume.rs rebuild_conversation: as long as the live conversation    *)
(* and the transcript hold the same messages, replaying the transcript gives *)
(* the live conversation, in the middle of a batch, across compactions and   *)
(* across earlier crashes and resumes.                                       *)
ReplayFaithful ==
    phase # "away" /\ ~offRecord /\ (\A i \in DOMAIN log :
            log[i].type = "compaction" => ~log[i].off)
        => Replay(log) = view.messages

FirstUser == CHOOSE i \in DOMAIN log :
    log[i].type = "user" /\ \A j \in 1..(i - 1) : log[j].type # "user"
Recorded(type) == {i \in DOMAIN log : log[i].type = type}

(* FR-3, context.rs pinned_count: what the model is sent starts with the     *)
(* original task, and, once something was compacted, the latest summary      *)
(* comes next; neither compaction, nor the window, nor a resume loses them.  *)
PinnedAreSent ==
    Recorded("user") # {} /\ phase # "away" =>
        /\ view.messages # <<>> /\ Sent(view)[1].rec = FirstUser
        /\ Recorded("compaction") # {} =>
              /\ Len(Sent(view)) >= 2
              /\ \A i \in Recorded("compaction") : Sent(view)[2].rec >= i
              /\ log[Sent(view)[2].rec].type = "compaction"

Uses(s, c) == {i \in DOMAIN s : s[i].role = "assistant" /\ c \in s[i].calls}
Results(s, c) == {i \in DOMAIN s : s[i].role = "tool" /\ c \in s[i].calls}
CallsOf(s) == UNION {s[i].calls : i \in DOMAIN s}
AnsweredCalls == {log[i].call : i \in Recorded("result")}

\* Every tool_use has its tool_result later on, and every result its use.
Paired(s, calls) ==
    \A c \in CallsOf(s) \cap calls :
        \E i \in Uses(s, c) : \E j \in Results(s, c) : i < j

\* No synthetic user message between the results of one batch, nor a
\* compaction computed over a conversation the transcript does not hold.
BatchesWhole ==
    /\ \A i \in 2..Len(view.messages) :
          view.messages[i].role = "tool" => view.messages[i - 1].rec # 0
    /\ \A i \in Recorded("compaction") : ~log[i].off

(* What the provider is sent is valid: neither the window nor a compaction   *)
(* nor a replay separates a tool call from its result, for every call that   *)
(* got one.  (An image in the middle of a batch can.)                        *)
AnsweredPairsAreSent ==
    phase = "streaming" /\ BatchesWhole => Paired(Sent(view), AnsweredCalls)

(* turn.rs run_tool_calls: every call the transcript holds has its result    *)
(* when the model is asked again and when the turn is over, whatever was     *)
(* canceled, unless a crash cut its turn.                                    *)
BatchesAnswered ==
    lives = 1 /\ phase \in {"streaming", "ending", "idle"}
        => Recorded("call") \subseteq AnsweredCalls

(* FR-5, view_cache.rs and session.rs: a cache that is loaded holds what the *)
(* conversation was when the session was last alive, also after a crash; and *)
(* after a clean end it is always loaded, unless the file is gone.           *)
ResumeRestoresView ==
    [][phase = "away" /\ phase' = "idle"
           /\ (CacheValid \/ (cache # Absent /\ Last(log).type = "end"))
           => view' = view]_vars

(* HistoryState, "turn 12 means the same thing all session": no step gives   *)
(* another number to a message that stays, save for a replay.                *)
NumbersKept ==
    [][phase = "away" \/ \A i \in DOMAIN view.messages, j \in DOMAIN view'.messages :
          view.messages[i].rec = view'.messages[j].rec /\ view.messages[i].rec # 0
              => view.turnMap[i] = view'.turnMap[j]]_vars

(* FR-4, "a user /compact is never downgraded": a compaction the user asked  *)
(* for while a turn runs is done as the user's when the turn ends.           *)
ManualKept ==
    [][pending = "manual" /\ phase # "away" /\ phase' # "away" =>
          \/ pending' = "manual"
          \/ phase = "ending" /\ \A i \in (Len(log) + 1)..Len(log') :
                log'[i].type = "compaction" /\ log'[i].trigger = "manual"]_vars

(* view_cache.rs:5-9, "the replay fallback is always correct": the messages  *)
(* of the conversation that are in the transcript are those a replay gives.  *)
InTranscript(messages) == SelectSeq(messages, LAMBDA m : m.rec # 0)
ReplayAlwaysCorrect ==
    phase # "away" => InTranscript(view.messages) = Replay(log)

(* What the model is sent is a whole conversation: it begins with the task   *)
(* and the summary, and calls and results come in pairs, through windows,    *)
(* compactions, cancels, replays and crashes.  (context.rs, turn.rs)         *)
SentIsWhole == PinnedAreSent /\ AnsweredPairsAreSent /\ BatchesAnswered

(* A compaction keeps what the user refers to by name: the turn map stays in *)
(* step with the messages, its numbers name one turn each and stay with it,  *)
(* and a compaction the user asked for is done as the user's.                *)
(* (context.rs, HistoryState and compact)                                    *)
CompactionKeeps == [](TypeOK /\ NumbersNameTurns) /\ NumbersKept /\ ManualKept
==============================================================================
