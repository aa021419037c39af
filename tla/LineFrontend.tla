---------------------------- MODULE LineFrontend ----------------------------
(* The line-mode frontend: one reader of standard input whose next line is   *)
(* the answer to the open prompt, a slash command or a message, in that      *)
(* order, and which on /quit or end of input stops sending but goes on       *)
(* showing events until the engine closes its side.  The engine is what the  *)
(* frontend meets of it: asks raised by a tool call, halts, and commands     *)
(* that each stage takes or drops.                                           *)
(* (line.rs run, on_slash, parse_*; engine/mod.rs run, turn.rs, guardrail.rs)*)
EXTENDS Integers, Sequences, FiniteSets

CONSTANTS
    MaxLines,     \* bound: lines typed
    MaxPrompts,   \* bound: prompts raised
    MaxBatches    \* bound: tool calls of the session

LineAssumption ==
    {MaxLines, MaxPrompts, MaxBatches} \subseteq Nat

Asks == {"permission", "ask"}
Halts == {"loop", "gate"}
Scopes == {"user", "project"}

(* What a line may say: words that allow or resume, the two empty or         *)
(* stopping answers, other text, and slash commands by what they do.         *)
Commands == {"/cancel", "/mode", "/memory", "/memory delete", "/help", "/typo", "/quit"}
Lines == {"yes", "go", "", "words"} \union Commands

(* Pending: a prompt, or the scope whose entry a confirmation would remove.  *)
NoPending == [kind |-> "none", id |-> 0]

VARIABLES
    typed,       \* lines read from standard input and not yet taken
    stdin,       \* has standard input not ended
    pending,     \* the prompt the next line answers
    open,        \* is commands_tx still held
    done,        \* has run returned
    mode,        \* LineState.mode
    listed,      \* LineState.mem_user and mem_project: the scopes that list the entry
    commands, events,
    engine,      \* phase, the prompt it waits on, has the call seen commands close
    safetyMode,  \* the engine's mode
    confined,    \* is OS confinement active: the auto modes need it
    stored,      \* the scopes that hold the entry
    made,        \* bounds: lines, prompts and batches so far
    lost         \* history: an ask met no frontend

line == <<typed, stdin, pending, open, done, mode, listed>>
eng == <<engine, safetyMode, confined, stored>>
vars == <<line, commands, events, eng, made, lost>>

Init ==
    /\ typed = <<>> /\ stdin = TRUE /\ pending = NoPending /\ open = TRUE /\ done = FALSE
    /\ mode = "normal" /\ listed = {}
    /\ commands = <<>> /\ events = <<>>
    /\ engine = [phase |-> "idle", waits |-> NoPending, gone |-> FALSE]
    /\ safetyMode = "normal" /\ confined \in BOOLEAN /\ stored \in SUBSET Scopes
    /\ made = [lines |-> 0, prompts |-> 0, batches |-> 0]
    /\ lost = FALSE

------------------------------------------------------------------------------
(* Reading a line                                                            *)

next_mode == [normal |-> "edits", edits |-> "auto", auto |-> "normal"]

(* parse_permission_answer: only a deliberate yes allows.                    *)
PermissionAnswer(text) == IF text = "yes" THEN "allow" ELSE "deny"
(* parse_ask_answer: an empty line declines.                                 *)
AskAnswer(text) == IF text = "" THEN "declined" ELSE "answered"
(* parse_loop_resolution, parse_gate_resolution: an empty line stops.        *)
Resolution(text) == CASE text = "go" -> "resume" [] text = "" -> "stop" [] OTHER -> "steer"

Command(type, id, says) == [type |-> type, id |-> id, says |-> says]

(* The commands a line that answers prompt p sends.                          *)
AnswerCommands(p, text) ==
    CASE p.kind = "permission" -> <<Command("PermissionAnswer", p.id, PermissionAnswer(text))>>
      [] p.kind = "ask" -> <<Command("AskUserAnswer", p.id, AskAnswer(text))>>
      [] p.kind = "loop" -> <<Command("ResolveLoop", 0, Resolution(text))>>
      [] p.kind = "gate" -> <<Command("ResolveCompletionGate", 0, Resolution(text))>>
      [] OTHER ->   \* MemoryDelete: the harness removes, then lists again
           IF text = "yes"
           THEN <<Command("MemoryRemove", 0, p.kind), Command("MemoryList", 0, "")>>
           ELSE <<>>

(* resolve_memory_scope: the user's entry comes first.                       *)
ScopeOf(scopes) == IF "user" \in scopes THEN "user" ELSE "project"

(* on_slash: what a command line sends, or asks, or whether it leaves.  Help,*)
(* a typo and a usage error are Done: they only write.                       *)
SlashCommands(text) ==
    CASE text = "/cancel" -> <<Command("Cancel", 0, "")>>
      [] text = "/mode" -> <<Command("SetMode", 0, next_mode[mode])>>
      [] text = "/memory" -> <<Command("MemoryList", 0, "")>>
      [] OTHER -> <<>>
SlashAwaits(text) ==
    IF text = "/memory delete" /\ listed # {}
    THEN [kind |-> ScopeOf(listed), id |-> 0] ELSE NoPending

(* A line is typed, or standard input ends.                                  *)
Type(text) ==
    /\ stdin /\ made.lines < MaxLines
    /\ typed' = Append(typed, text)
    /\ made' = [made EXCEPT !.lines = @ + 1]
    /\ UNCHANGED <<stdin, pending, open, done, mode, listed, commands, events, eng, lost>>
EndOfInput ==
    /\ stdin /\ stdin' = FALSE
    /\ UNCHANGED <<typed, pending, open, done, mode, listed, commands, events, eng, made, lost>>

(* The open prompt takes the line, whatever it says.                         *)
TakeAnswer ==
    /\ pending # NoPending
    /\ commands' = commands \o AnswerCommands(pending, Head(typed))
    /\ pending' = NoPending /\ UNCHANGED open

TakeSlash ==
    /\ pending = NoPending /\ Head(typed) \in Commands
    /\ commands' = commands \o SlashCommands(Head(typed))
    /\ pending' = SlashAwaits(Head(typed))
    /\ open' = (Head(typed) # "/quit")

TakeMessage ==
    /\ pending = NoPending /\ Head(typed) \notin Commands
    /\ commands' = IF Head(typed) = "" THEN commands
                   ELSE Append(commands, Command("UserInput", 0, ""))
    /\ UNCHANGED <<pending, open>>

TakeLine ==
    /\ ~done /\ open /\ typed # <<>>
    /\ typed' = Tail(typed)
    /\ TakeAnswer \/ TakeSlash \/ TakeMessage
    /\ UNCHANGED <<stdin, done, mode, listed, events, eng, made, lost>>

(* The reader's channel is closed and empty: stop sending.                   *)
TakeEnd ==
    /\ ~done /\ open /\ ~stdin /\ typed = <<>>
    /\ open' = FALSE
    /\ UNCHANGED <<typed, stdin, pending, done, mode, listed, commands, events, eng, made, lost>>

------------------------------------------------------------------------------
(* Showing an event                                                          *)

Event(type, id, says) == [type |-> type, id |-> id, says |-> says]

\* Mutant: a prompt that arrives while one is open does not replace it.
PendingAfterFirst(e) ==
    IF e.type \in Asks \union Halts /\ pending = NoPending
    THEN [kind |-> e.type, id |-> e.id] ELSE pending
PendingAfter(e) ==
    IF e.type \in Asks \union Halts THEN [kind |-> e.type, id |-> e.id] ELSE pending

ModeAfter(e) == IF e.type = "ModeChanged" THEN e.says ELSE mode

ShowEvent ==
    /\ ~done /\ events # <<>>
    /\ pending' = PendingAfter(Head(events))
    /\ mode' = ModeAfter(Head(events))
    /\ listed' = IF Head(events).type = "MemoryEntries" THEN Head(events).says ELSE listed
    /\ events' = Tail(events)
    /\ UNCHANGED <<typed, stdin, open, done, commands, eng, made, lost>>

(* The engine closed its events.                                             *)
Return ==
    /\ ~done /\ events = <<>> /\ engine.phase = "ended"
    /\ done' = TRUE
    /\ UNCHANGED <<typed, stdin, pending, open, mode, listed, commands, events, eng, made, lost>>

------------------------------------------------------------------------------
(* The engine                                                                *)

Emit(e) == events' = Append(events, e)
InTurn == engine.phase \in {"stream", "tool", "halt"}
Waiting == engine.waits # NoPending
EngineGone == ~open /\ commands = <<>>
To(phase) == engine' = [phase |-> phase, waits |-> NoPending, gone |-> FALSE]

(* set_mode: an auto mode needs confinement; the mode it is in is no change. *)
SetMode(requested) ==
    IF requested # "normal" /\ ~confined
    THEN Emit(Event("Notice", 0, "")) /\ UNCHANGED safetyMode
    ELSE /\ safetyMode' = requested
         /\ IF requested = safetyMode THEN UNCHANGED events
            ELSE Emit(Event("ModeChanged", 0, requested))

(* The commands every stage but an opening stream takes.                     *)
TakeModeCommand(c) ==
    /\ c.type = "SetMode" /\ SetMode(c.says)
    /\ UNCHANGED <<engine, confined, stored, lost>>

(* Between turns: a message starts one, the memory store is listed or loses  *)
(* an entry, answers and Cancel are strays.                                  *)
IdleCommand(c) ==
    \/ TakeModeCommand(c)
    \/ c.type = "UserInput" /\ To("stream") /\ UNCHANGED <<events, safetyMode, confined, stored, lost>>
    \/ /\ c.type = "MemoryList" /\ Emit(Event("MemoryEntries", 0, stored))
       /\ UNCHANGED <<engine, safetyMode, confined, stored, lost>>
    \/ /\ c.type = "MemoryRemove" /\ stored' = stored \ {c.says}
       /\ UNCHANGED <<events, engine, safetyMode, confined, lost>>
    \/ /\ c.type \notin {"SetMode", "UserInput", "MemoryList", "MemoryRemove"}
       /\ UNCHANGED <<events, engine, safetyMode, confined, stored, lost>>

EndTurn == To("idle") /\ Emit(Event("TurnEnded", 0, ""))

(* The answer the running stage waits for, by id where it has one.           *)
Answers(c) ==
    \/ c.type = "PermissionAnswer" /\ engine.waits = [kind |-> "permission", id |-> c.id]
    \/ c.type = "AskUserAnswer" /\ engine.waits = [kind |-> "ask", id |-> c.id]
    \/ c.type = "ResolveLoop" /\ engine.waits.kind = "loop"
    \/ c.type = "ResolveCompletionGate" /\ engine.waits.kind = "gate"

(* During a turn: Cancel, a mode toggle and the awaited answer are taken;    *)
(* everything else is dropped, a message included.                           *)
TurnCommand(c) ==
    \/ TakeModeCommand(c)
    \/ c.type = "Cancel" /\ EndTurn /\ UNCHANGED <<safetyMode, confined, stored, lost>>
    \/ /\ Answers(c)
       /\ \/ engine.phase = "tool" /\ engine' = [engine EXCEPT !.waits = NoPending] /\ UNCHANGED events
          \/ engine.phase = "halt" /\ c.says # "stop" /\ To("stream") /\ UNCHANGED events
          \/ engine.phase = "halt" /\ c.says = "stop" /\ EndTurn
       /\ UNCHANGED <<safetyMode, confined, stored, lost>>
    \/ /\ c.type \notin {"SetMode", "Cancel"} /\ ~Answers(c)
       /\ UNCHANGED <<events, engine, safetyMode, confined, stored, lost>>

TakeCommand ==
    /\ commands # <<>> /\ commands' = Tail(commands)
    /\ \/ engine.phase = "idle" /\ IdleCommand(Head(commands))
       \/ InTurn /\ TurnCommand(Head(commands))
    /\ UNCHANGED <<line, made>>

(* A call or the halt after it raises a prompt and waits.                    *)
Raise(kind) ==
    /\ made.prompts < MaxPrompts
    /\ \/ engine.phase = "tool" /\ kind \in Asks /\ ~Waiting
       \/ engine.phase = "stream" /\ kind \in Halts
    /\ LET id == IF kind \in Asks THEN made.prompts + 1 ELSE 0 IN
       /\ engine' = [engine EXCEPT !.phase = IF kind \in Asks THEN @ ELSE "halt",
                                   !.waits = [kind |-> kind, id |-> id]]
       /\ Emit(Event(kind, id, ""))
    /\ made' = [made EXCEPT !.prompts = @ + 1]
    /\ lost' = (lost \/ engine.gone)
    /\ UNCHANGED <<line, commands, safetyMode, confined, stored>>

(* A stream ends in a tool call or ends the turn; a call ends once answered. *)
StreamToTool ==
    /\ engine.phase = "stream" /\ made.batches < MaxBatches
    /\ made' = [made EXCEPT !.batches = @ + 1]
    /\ To("tool")
    /\ UNCHANGED <<line, commands, events, safetyMode, confined, stored, lost>>
StreamToEnd ==
    /\ engine.phase = "stream" /\ EndTurn
    /\ UNCHANGED <<line, commands, safetyMode, confined, stored, made, lost>>
ToolEnds ==
    /\ engine.phase = "tool" /\ ~Waiting /\ To("stream")
    /\ UNCHANGED <<line, commands, events, safetyMode, confined, stored, made, lost>>

\* Mutant: what the call waits on is kept when the commands close.
CallClosedKeeping ==
    /\ EngineGone /\ engine.phase = "tool" /\ ~engine.gone
    /\ engine' = [engine EXCEPT !.gone = TRUE]
    /\ UNCHANGED <<line, commands, events, safetyMode, confined, stored, made, lost>>
(* The commands are closed: a call denies what it waits on and reads no more,*)
(* a halt stops, an idle engine ends the session.                            *)
CallClosed ==
    /\ EngineGone /\ engine.phase = "tool" /\ ~engine.gone
    /\ engine' = [engine EXCEPT !.waits = NoPending, !.gone = TRUE]
    /\ UNCHANGED <<line, commands, events, safetyMode, confined, stored, made, lost>>
HaltClosed ==
    /\ EngineGone /\ engine.phase = "halt" /\ EndTurn
    /\ UNCHANGED <<line, commands, safetyMode, confined, stored, made, lost>>
SessionCloses ==
    /\ EngineGone /\ engine.phase = "idle" /\ To("ended")
    /\ UNCHANGED <<line, commands, events, safetyMode, confined, stored, made, lost>>

EngineStep ==
    \/ TakeCommand \/ (\E k \in Asks \union Halts : Raise(k))
    \/ StreamToTool \/ StreamToEnd \/ ToolEnds
    \/ CallClosed \/ HaltClosed \/ SessionCloses

------------------------------------------------------------------------------

Next ==
    \/ \E text \in Lines : Type(text)
    \/ EndOfInput \/ TakeLine \/ TakeEnd \/ ShowEvent \/ Return
    \/ EngineStep

(* The two arms of the frontend's select are served in turn, and the engine's*)
(* loop never stops while it can go on; nobody has to type.                  *)
Fairness ==
    /\ WF_vars(TakeLine) /\ WF_vars(TakeEnd) /\ WF_vars(ShowEvent) /\ WF_vars(Return)
    /\ WF_vars(EngineStep)

Spec == Init /\ [][Next]_vars /\ Fairness

------------------------------------------------------------------------------
(* Properties                                                                *)

Settled == commands = <<>> /\ events = <<>>

(* When everything sent has been shown and taken, the prompt the next line   *)
(* answers is the one the engine waits on: no delete confirmation, canceled  *)
(* call or earlier prompt is left in its place (line.rs run, pending).       *)
ParkedPromptIsPending ==
    open /\ Settled /\ Waiting => pending = engine.waits

(* "/mode always proposes the next one from what actually took effect": once *)
(* settled, the frontend's mode is the engine's, refused toggles included.   *)
ModeMirrorSettles == Settled => mode = safetyMode

(* run returns only after the engine closed its side and all it said was     *)
(* shown: leaving never cuts off a reply in flight.                          *)
DrainsToTheEnd == done => engine.phase = "ended" /\ events = <<>>

Leaving == ~open
Left == done \/ lost

(* /quit and the end of input end the session, unless a tool call asks when  *)
(* there is no one left to answer (engine/turn.rs:348).                      *)
LeavingEnds == Leaving ~> Left

------------------------------------------------------------------------------
(* The invariant                                                             *)

Prompts == Asks \union Halts

\* A call waits on an ask, a halt on its own prompt; all else waits on nothing.
WaitsInPlace ==
    /\ engine = [phase |-> engine.phase, waits |-> engine.waits, gone |-> engine.gone]
    /\ Waiting =>
         \/ engine.phase = "tool" /\ engine.waits.kind \in Asks
         \/ engine.phase = "halt" /\ engine.waits.kind \in Halts
    /\ Waiting => engine.waits = [kind |-> engine.waits.kind, id |-> engine.waits.id]

\* The prompt that the engine waits on is the last on its way, or nothing is on
\* its way and it is the open one, or its answer is on its way.
LastPrompt(i) ==
    /\ events[i].type = engine.waits.kind /\ events[i].id = engine.waits.id
    /\ \A j \in (i + 1)..Len(events) : events[j].type \notin Prompts
Reached ==
    Waiting =>
        \/ \E i \in DOMAIN events : LastPrompt(i)
        \/ pending = engine.waits /\ \A i \in DOMAIN events : events[i].type \notin Prompts
        \/ \E i \in DOMAIN commands : Answers(commands[i])

\* The mode is that of the last change on its way, or the one shown.
LastMode(i) ==
    /\ events[i].type = "ModeChanged" /\ events[i].says = safetyMode
    /\ \A j \in (i + 1)..Len(events) : events[j].type # "ModeChanged"
ModeFollows ==
    \/ \E i \in DOMAIN events : LastMode(i)
    \/ mode = safetyMode /\ \A i \in DOMAIN events : events[i].type # "ModeChanged"

LineInv ==
    /\ \E S : commands \in Seq(S)
    /\ \E S : events \in Seq(S)
    /\ WaitsInPlace /\ Reached /\ ModeFollows /\ DrainsToTheEnd
=============================================================================
