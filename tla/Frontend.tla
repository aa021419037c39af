------------------------------ MODULE Frontend ------------------------------
(* The terminal frontend: one keyboard shared by a palette, a stack of       *)
(* overlays, four prompt slots, a wizard and the editor; the events that     *)
(* open and close them; and the engine as the frontend meets it: it reads    *)
(* every command between turns, few during one, none in some stages of one.  *)
(* (app/keys.rs, prompts.rs, pickers.rs, actions.rs, events.rs, overlays.rs, *)
(* session.rs, agents.rs, skills.rs; tui.rs; engine/mod.rs run)              *)
EXTENDS Integers, Sequences, FiniteSets

CONSTANTS
    Capacity,     \* bound: commands or events under way (the code: 256)
    MaxInputs,    \* bound: messages sent
    MaxPrompts,   \* bound: prompts raised
    MaxRequests,  \* bound: requests sent
    MaxSwitches,  \* bound: session switches sent
    MaxActs,      \* bound: messages, requests and switches in all
    MaxOverlays   \* bound: overlays on the stack

FrontendAssumption ==
    /\ {MaxInputs, MaxPrompts, MaxRequests, MaxSwitches, MaxActs, MaxOverlays} \subseteq Nat
    /\ Capacity \in Nat \ {0}

Asks == {"permission", "ask"}
Halts == {"loop_halt", "completion_gate"}
Kinds == Asks \union Halts
Sessions == 0..MaxSwitches

(* A prompt is known by its id; a halt has none.  The serial is a history    *)
(* variable: no two prompts share one.                                       *)
NoPrompt == [id |-> 0, serial |-> 0]

(* The commands an engine takes between turns only, by what they ask for:    *)
(* SetEffort, SwitchModel or ReloadConfig (nothing here tells them apart),   *)
(* MemoryList, InspectSkill or MemoryView, InspectAgent, AttachImage.        *)
Requests == {"setting", "memory", "body", "agent", "attach"}

VARIABLES
    slots,     \* Prompts: of each kind, the prompt on the screen
    overlays,  \* what the stacked overlays show, the top one last
    palette,   \* is the command palette open
    wizard,    \* is the setup wizard open
    busy,      \* MotionState.busy
    staged,    \* the length of App.pending_attachments
    view,      \* the session on the screen
    commands, events,
    engine,    \* the engine: phase, kind and prompt it is parked at, session,
               \* pending_attachments, next_permission_id, next_ask_id
    sent,      \* bounds: messages, prompts, requests and switches so far
    history    \* misdirected: an answer resumed another request than it was
               \* given to; astray: a switch failed, or met a turn and was dropped;
               \* early: a switch was sent before the last turn's end was shown

surface == <<slots, overlays, palette, wizard>>
vars == <<surface, busy, staged, view, commands, events, engine, sent, history>>

Init ==
    /\ slots = [k \in Kinds |-> NoPrompt]
    /\ overlays = <<>> /\ palette = FALSE /\ wizard = FALSE
    /\ busy = FALSE /\ staged = 0 /\ view = 0
    /\ commands = <<>> /\ events = <<>>
    /\ engine = [phase |-> "idle", kind |-> "none", prompt |-> NoPrompt, session |-> 0,
                 staged |-> 0, nextPermission |-> 1, nextAsk |-> 1]
    /\ sent = [inputs |-> 0, prompts |-> 0, requests |-> 0, switches |-> 0]
    /\ history = [misdirected |-> FALSE, astray |-> FALSE, early |-> FALSE]

------------------------------------------------------------------------------
(* Sending                                                                   *)

Command(type) == [type |-> type, kind |-> "none", prompt |-> NoPrompt, arg |-> "none"]
Event(type) == [type |-> type, kind |-> "none", prompt |-> NoPrompt]
Send(c) == Len(commands) < Capacity /\ commands' = Append(commands, c)
Emits(e) == Len(events) < Capacity /\ events' = Append(events, e)
Count(field, limit) ==
    /\ sent[field] < limit
    /\ field # "prompts" => sent.inputs + sent.requests + sent.switches < MaxActs
    /\ sent' = [sent EXCEPT ![field] = @ + 1]

Request(what) ==
    /\ Count("requests", MaxRequests)
    /\ Send([Command("Request") EXCEPT !.arg = what])

------------------------------------------------------------------------------
(* The keyboard                                                              *)

\* Mutant: between turns the editor comes before the prompts.
FocusOnEditorWhenIdle ==
    CASE palette -> "palette"
      [] ~palette /\ overlays # <<>> -> "overlay"
      [] ~palette /\ overlays = <<>> /\ busy /\ slots["permission"] # NoPrompt -> "permission"
      [] OTHER -> "editor"
(* on_key: the surface that takes the next key.                              *)
Focus ==
    CASE palette -> "palette"
      [] ~palette /\ overlays # <<>> -> "overlay"
      [] OTHER ->
           CASE slots["permission"] # NoPrompt -> "permission"
             [] slots["permission"] = NoPrompt /\ slots["ask"] # NoPrompt -> "ask"
             [] OTHER ->
                  CASE slots["loop_halt"] # NoPrompt -> "loop_halt"
                    [] slots["loop_halt"] = NoPrompt /\ slots["completion_gate"] # NoPrompt
                         -> "completion_gate"
                    [] OTHER -> IF wizard THEN "wizard" ELSE "editor"

(* The surfaces of which the last frame left a region to click on: each      *)
(* modal layer clears those below it, and only the base layer registers the  *)
(* conversation and the sidebar.                                             *)
Regions ==
    CASE palette -> {"palette"}
      [] ~palette /\ overlays # <<>> -> {"overlay"}
      [] OTHER -> IF \E k \in Kinds : slots[k] # NoPrompt
                  THEN {k \in {"permission"} : slots[k] # NoPrompt}
                  ELSE {"editor"} \ (IF wizard THEN {"editor"} ELSE {})

(* A key goes to the focused surface, a click to one with a region.          *)
At(surfaces) == ({Focus} \union Regions) \intersect surfaces # {}

Top == overlays[Len(overlays)]
PushOverlay(o) == Len(overlays) < MaxOverlays /\ overlays' = Append(overlays, o)
Pop == SubSeq(overlays, 1, Len(overlays) - 1)

(* A decision key of the prompt that has the keyboard: it clears the slot    *)
(* and answers by the prompt's id.  The steering field of a halt is between  *)
(* two keys of its own and sends the same command.                           *)
Decide ==
    /\ \E kind \in Kinds : \E answer \in {"resume", "stop"} :
           /\ At({kind})
           /\ answer = "stop" => kind \in Halts
           /\ Send([type |-> "Answer", kind |-> kind, prompt |-> slots[kind], arg |-> answer])
           /\ slots' = [slots EXCEPT ![kind] = NoPrompt]
    /\ UNCHANGED <<overlays, palette, wizard, busy, staged, view, events, engine, sent, history>>

(* Enter on a message: the staged images go with it.                         *)
SubmitMessage ==
    /\ Focus = "editor"
    /\ Count("inputs", MaxInputs)
    /\ Send(Command("UserInput"))
    /\ busy' = TRUE /\ staged' = 0
    /\ UNCHANGED <<surface, view, events, engine, history>>

(* Esc or Ctrl-C during a turn, or the command of the palette at any time.   *)
SendCancel ==
    /\ (Focus = "editor" /\ busy) \/ Focus = "palette"
    /\ Send(Command("Cancel"))
    /\ palette' = FALSE
    /\ UNCHANGED <<slots, overlays, wizard, busy, staged, view, events, engine, sent, history>>

TogglePalette ==
    /\ Focus \in {"editor", "palette"}
    /\ palette' = ~palette
    /\ UNCHANGED <<slots, overlays, wizard, busy, staged, view, commands, events, engine,
                   sent, history>>

(* run_command, from the palette or as a slash command: what opens at once   *)
(* (the rows of the skills, agents and mcp lists, or a text of which nothing *)
(* is chosen), and what asks the engine.                                     *)
OpenOverlay ==
    /\ At({"editor", "palette"})
    /\ \E o \in {"sessions", "models", "rows"} : PushOverlay(o)
    /\ palette' = FALSE
    /\ UNCHANGED <<slots, wizard, busy, staged, view, commands, events, engine, sent, history>>

RunRequest ==
    /\ At({"editor", "palette"})
    /\ \E what \in {"setting", "memory", "attach"} : Request(what)
    /\ palette' = FALSE
    /\ UNCHANGED <<slots, overlays, wizard, busy, staged, view, events, engine, history>>

(* Esc or q on an overlay; Enter on a row that changes nothing, or on one    *)
(* that a running turn forbids.                                              *)
DismissOverlay ==
    /\ Focus = "overlay"
    /\ overlays' = Pop
    /\ UNCHANGED <<slots, palette, wizard, busy, staged, view, commands, events, engine,
                   sent, history>>

(* Enter on a skill or an agent asks for its text, the list stays.           *)
InspectRow ==
    /\ At({"overlay"})
    /\ Top = "rows"
    /\ \E what \in {"body", "agent"} : Request(what)
    /\ UNCHANGED <<surface, busy, staged, view, events, engine, history>>

(* Enter in the model picker: another profile, or the wizard.                *)
PickModel ==
    /\ At({"overlay"}) /\ Top = "models"
    /\ overlays' = Pop
    /\ \/ /\ ~busy /\ Request("setting")
          /\ UNCHANGED wizard
       \/ /\ wizard' = TRUE
          /\ UNCHANGED <<commands, sent>>
    /\ UNCHANGED <<slots, palette, busy, staged, view, events, engine, history>>

(* The wizard ends by Esc, or by Enter, which writes the profile and asks    *)
(* for a reload.                                                             *)
LeaveWizard ==
    /\ Focus = "wizard"
    /\ wizard' = FALSE
    /\ Request("setting") \/ UNCHANGED <<commands, sent>>
    /\ UNCHANGED <<slots, overlays, palette, busy, staged, view, events, engine, history>>

(* agent_watch_ticker: an activity overlay on top is asked for again.        *)
WatchAgent ==
    /\ overlays # <<>> /\ Top = "activity"
    /\ Request("agent")
    /\ UNCHANGED <<surface, busy, staged, view, events, engine, history>>

------------------------------------------------------------------------------
(* Session switches                                                          *)

\* Mutant: the prompts are part of the view that is cleared.
ResetAll(s) ==
    /\ view' = s /\ overlays' = <<>> /\ staged' = 0
    /\ slots' = [k \in Kinds |-> NoPrompt]
(* reset_for_switch: neither the prompt slots nor busy, palette or wizard.   *)
ResetForSwitch(s) ==
    /\ view' = s /\ overlays' = <<>> /\ staged' = 0
    /\ UNCHANGED slots

(* Both ways to switch are refused while busy.                               *)
MaySwitch == ~busy

(* A message waits, its turn runs, or the turn's end is not yet shown.  The  *)
(* end of an earlier turn may have cleared busy all the same.                *)
TurnUnderWay ==
    \/ engine.phase # "idle"
    \/ \E i \in DOMAIN commands : commands[i].type = "UserInput"
    \/ \E i \in DOMAIN events : events[i].type = "TurnEnded"

(* /new by name, palette, or Enter on another session of the picker: the     *)
(* view turns over as soon as the command is sent.                           *)
SwitchSession ==
    /\ \/ At({"editor", "palette"})
       \/ At({"overlay"}) /\ Top = "sessions"
    /\ MaySwitch
    /\ Count("switches", MaxSwitches)
    /\ \E s \in Sessions \ {view} :
           /\ s <= sent.switches + 1
           /\ Send([Command("Switch") EXCEPT !.arg = s])
           /\ ResetForSwitch(s)
    /\ palette' = FALSE
    /\ history' = [history EXCEPT !.early = @ \/ TurnUnderWay]
    /\ UNCHANGED <<wizard, busy, events, engine>>

------------------------------------------------------------------------------
(* apply_event                                                               *)

TurnEnded == Head(events).type = "TurnEnded"

(* A prompt takes its slot whatever is in it and whatever covers it.         *)
ShowPrompt ==
    /\ Head(events).type = "Prompt"
    /\ slots' = [slots EXCEPT ![Head(events).kind] = Head(events).prompt]
    /\ UNCHANGED <<overlays, busy, staged>>

ApplyTurnEnded ==
    /\ TurnEnded
    /\ busy' = FALSE
    /\ UNCHANGED <<slots, overlays, staged>>

ShowAttachment ==
    /\ Head(events).type = "ImageAttached"
    /\ staged' = staged + 1
    /\ UNCHANGED <<slots, overlays, busy>>

(* MemoryEntries refreshes an open inspector; a body opens on top of all;    *)
(* an activity opens unless one is on top.                                   *)
ShowReply ==
    /\ LET type == Head(events).type
           kept == \/ type = "MemoryEntries" /\ \E i \in DOMAIN overlays : overlays[i] = "memory"
                   \/ type = "AgentActivity" /\ overlays # <<>> /\ Top = "activity"
           shown == CASE type = "MemoryEntries" -> "memory"
                      [] type = "Body" -> "text"
                      [] OTHER -> "activity"
       IN  /\ type \in {"MemoryEntries", "Body", "AgentActivity"}
           /\ IF kept THEN UNCHANGED overlays ELSE PushOverlay(shown)
    /\ UNCHANGED <<slots, busy, staged>>

ApplyEvent ==
    /\ events # <<>>
    /\ events' = Tail(events)
    /\ ShowPrompt \/ ApplyTurnEnded \/ ShowAttachment \/ ShowReply
    /\ UNCHANGED <<palette, wizard, view, commands, engine, sent, history>>

------------------------------------------------------------------------------
(* The engine                                                                *)

Taken(phase) == engine.phase = phase /\ commands # <<>> /\ commands' = Tail(commands)
ByTheWay == UNCHANGED <<surface, busy, staged, view, sent>>
\* Mutant: a turn that a halt stopped ends without a word.
EndTurnQuietly ==
    /\ IF engine.kind \in Halts THEN UNCHANGED events ELSE Emits(Event("TurnEnded"))
    /\ engine' = [engine EXCEPT !.phase = "idle", !.kind = "none", !.prompt = NoPrompt]
(* finish_turn, however the turn ends.                                       *)
EndTurn ==
    /\ Emits(Event("TurnEnded"))
    /\ engine' = [engine EXCEPT !.phase = "idle", !.kind = "none", !.prompt = NoPrompt]
Reply(what) ==
    CASE what = "memory" -> Emits(Event("MemoryEntries"))
      [] what = "body" -> Emits(Event("Body"))
      [] what = "agent" -> Emits(Event("AgentActivity"))
      [] OTHER -> UNCHANGED events

(* The run loop between turns.  Answers and Cancel are strays there.  A      *)
(* switch may fail, and the engine stays where it is.                        *)
TakeAtIdle ==
    /\ Taken("idle")
    /\ LET c == Head(commands) IN
       \/ /\ c.type = "UserInput"
          /\ engine' = [engine EXCEPT !.phase = "deaf", !.staged = 0]
          /\ UNCHANGED <<events, history>>
       \/ /\ c.type = "Switch"
          /\ engine' = [engine EXCEPT !.session = c.arg, !.staged = 0, !.nextPermission = 1]
          /\ UNCHANGED <<events, history>>
       \/ /\ c.type = "Switch"
          /\ history' = [history EXCEPT !.astray = TRUE]
          /\ UNCHANGED <<events, engine>>
       \/ /\ c.type = "Request" /\ c.arg # "attach"
          /\ Reply(c.arg)
          /\ UNCHANGED <<engine, history>>
       \/ /\ c.type = "Request" /\ c.arg = "attach"
          /\ engine' = [engine EXCEPT !.staged = @ + 1]
          /\ Emits(Event("ImageAttached"))
          /\ UNCHANGED history
       \/ /\ c.type \in {"Cancel", "Answer"}
          /\ UNCHANGED <<events, engine, history>>
    /\ ByTheWay

(* The select loops of a stream and of a tool call, and the two halts: an    *)
(* answer to what the engine is parked at, Cancel, and nothing else.         *)
Matches(c) ==
    /\ c.type = "Answer" /\ engine.kind = c.kind
    /\ (c.kind \in Asks => c.prompt.id = engine.prompt.id)
Resumed(c) ==
    /\ history' = [history EXCEPT !.misdirected =
                      @ \/ (c.kind \in Asks /\ c.prompt # engine.prompt)]
    /\ IF c.kind \in Halts /\ c.arg = "stop"
       THEN EndTurn
       ELSE /\ engine' = [engine EXCEPT !.kind = "none", !.prompt = NoPrompt,
                             !.phase = IF c.kind \in Asks THEN "hearing" ELSE "deaf"]
            /\ UNCHANGED events

TakeInTurn ==
    /\ Taken("hearing")
    /\ LET c == Head(commands) IN
       \/ Matches(c) /\ Resumed(c)
       \/ c.type = "Cancel" /\ EndTurn /\ UNCHANGED history
       \/ /\ ~Matches(c) /\ c.type # "Cancel"
          /\ history' = [history EXCEPT !.astray = @ \/ c.type = "Switch"]
          /\ UNCHANGED <<events, engine>>
    /\ ByTheWay

(* Opening a stream, waiting to retry and running checks read no commands.   *)
HearsAgain ==
    /\ engine.phase = "deaf"
    /\ engine' = [engine EXCEPT !.phase = "hearing"]
    /\ UNCHANGED <<surface, busy, staged, view, commands, events, sent, history>>
TurnsDeaf ==
    /\ engine.phase = "hearing" /\ engine.kind = "none"
    /\ engine' = [engine EXCEPT !.phase = "deaf"]
    /\ UNCHANGED <<surface, busy, staged, view, commands, events, sent, history>>
TurnEnds ==
    /\ engine.phase = "deaf"
    /\ EndTurn
    /\ UNCHANGED <<surface, busy, staged, view, commands, sent, history>>

IdOf(kind) == CASE kind = "permission" -> engine.nextPermission
                [] kind = "ask" -> engine.nextAsk
                [] OTHER -> 0
(* take_permission_id and take_ask_id: the former restarts with a session.   *)
Park(kind) ==
    LET prompt == [id |-> IdOf(kind), serial |-> sent.prompts + 1] IN
    /\ engine.kind = "none"
    /\ engine.phase = IF kind \in Asks THEN "hearing" ELSE "deaf"
    /\ Count("prompts", MaxPrompts)
    /\ Emits([Event("Prompt") EXCEPT !.kind = kind, !.prompt = prompt])
    /\ engine' = [engine EXCEPT !.phase = "hearing", !.kind = kind, !.prompt = prompt,
                     !.nextPermission = IF kind = "permission" THEN @ + 1 ELSE @,
                     !.nextAsk = IF kind = "ask" THEN @ + 1 ELSE @]
    /\ UNCHANGED <<surface, busy, staged, view, commands, history>>
Parks == \E kind \in Kinds : Park(kind)

Next ==
    \/ Decide \/ SubmitMessage \/ SendCancel \/ TogglePalette \/ OpenOverlay \/ RunRequest
    \/ DismissOverlay \/ InspectRow \/ PickModel \/ LeaveWizard \/ WatchAgent
    \/ SwitchSession \/ ApplyEvent
    \/ TakeAtIdle \/ TakeInTurn \/ HearsAgain \/ TurnsDeaf \/ TurnEnds \/ Parks

Spec == Init /\ [][Next]_vars

------------------------------------------------------------------------------
(* Properties                                                                *)

(* An answer to a permission request or to a question resumes the request it *)
(* was given to, although ids repeat over sessions and a prompt outlives its *)
(* request and its session, unless a switch was sent before the last turn's  *)
(* end was shown.                                                            *)
AnswersMeetTheirRequest == history.misdirected => history.early

(* "The mouse adds no new authority" (tui.rs): what a click can reach, the   *)
(* next key reaches.                                                         *)
ClicksReachWhatKeysReach == Regions \subseteq {Focus}

(* What the engine is parked at is on the screen, or covered there, or on    *)
(* its way, unless a command that ends the wait is.                          *)
ParkedPromptIsShown ==
    engine.kind # "none" =>
        \/ slots[engine.kind] = engine.prompt
        \/ \E i \in DOMAIN events : events[i].prompt = engine.prompt
        \/ \E i \in DOMAIN commands : commands[i].type = "Cancel" \/ Matches(commands[i])

(* Across replies, overlays and session switches, what the engine waits for  *)
(* stays before the user (app/session.rs reset_for_switch), and clicks get   *)
(* at it no sooner than keys (app/keys.rs on_click).                         *)
PromptReachesUser == ParkedPromptIsShown /\ ClicksReachWhatKeysReach

(* Once nothing is under way the spinner rests, and the view is that of the  *)
(* engine's session, unless a switch failed or met a turn.                   *)
SettledViewAgrees ==
    engine.phase = "idle" /\ commands = <<>> /\ events = <<>> =>
        ~busy /\ (history.astray \/ view = engine.session)
==============================================================================
