------------------------------ MODULE TurnLoop -------------------------------
(* One session's turns as the engine drives them and the user sees them: the *)
(* completion stream with its retries, the tool batches, the loop guardrail  *)
(* and the completion gate that stop a turn, the commands each of these      *)
(* stages reads or drops, and the frontend's idea of what goes on.           *)
(* (engine/turn.rs run_turn, engine/guardrail.rs, engine/mod.rs run, and the *)
(* frontend's app/keys.rs, app/events.rs and app/prompts.rs)                 *)
(*                                                                          *)
(* A provider is configured; what the messages say is left out, and so is    *)
(* what a tool batch does beyond what the guardrail looks at.  The asks      *)
(* served while a tool runs are the subject of Gates.                        *)
EXTENDS Integers, Sequences, FiniteSets

CONSTANTS
    Sig, Result, File,   \* tool signatures, result hashes and files of a batch
    GuardrailOn,         \* LoopConfig.enabled
    RepeatWindow, MaxNoProgress,      \* LoopConfig
    ChecksRegistered,    \* are completion checks registered
    MaxAttempts,         \* RetryPolicy.max_attempts
    MaxGateAttempts,     \* CompletionConfig.max_attempts
    MaxCommands, MaxEvents    \* bounds: what may be under way when the user acts

\* What a halt's answer does: steering resumes with a message, and finishing
\* stops with the override on record.
Resolution == {"resume", "stop"}
NoSig == "none"          \* last_sig is None
Nobody == "none"         \* no halt is shown

ASSUME TurnLoopAssumption ==
    /\ {GuardrailOn, ChecksRegistered} \subseteq BOOLEAN
    /\ {RepeatWindow, MaxNoProgress, MaxAttempts, MaxGateAttempts} \subseteq Nat \ {0}
    /\ {MaxCommands, MaxEvents} \subseteq Nat
    /\ Sig # {} /\ Result # {} /\ NoSig \notin Sig

VARIABLES
    phase,          \* idle, opening, streaming, tools, loopHalt, checking,
                    \* gateHalt, closed
    opens,          \* attempts to open the current stream so far
    drops,          \* drop_attempts of the turn
    seenFiles, seenResults, lastSig, sameSig, noProgress,   \* GuardrailState
    gateAttempts,   \* CompletionState.attempts
    commands, events,            \* the two channels, in order
    frontendOpen,
    busy,                        \* the frontend believes a turn runs
    loopPrompt, gatePrompt,      \* its halt surfaces: none, live or stale
    spinning        \* history: batches of this turn without anything new since
                    \* something new was last seen or the user last decided

guardVars == <<seenFiles, seenResults, lastSig, sameSig, noProgress, spinning>>
retryVars == <<opens, drops>>
uiVars == <<frontendOpen, busy, loopPrompt, gatePrompt>>
vars == <<phase, retryVars, guardVars, gateAttempts, commands, events, uiVars>>

InTurn == phase \notin {"idle", "closed"}

Init ==
    /\ phase = "idle" /\ opens = 0 /\ drops = 0
    /\ seenFiles = {} /\ seenResults = {} /\ lastSig = NoSig
    /\ sameSig = 0 /\ noProgress = 0 /\ gateAttempts = 0
    /\ commands = <<>> /\ events = <<>>
    /\ frontendOpen = TRUE /\ busy = FALSE
    /\ loopPrompt = Nobody /\ gatePrompt = Nobody
    /\ spinning = 0

------------------------------------------------------------------------------
(* Commands and events are [type, res, live]: res is a halt's resolution,    *)
(* and live is history: the command or event is about the halt the engine    *)
(* is parked in now.                                                        *)

Note(type) == [type |-> type, res |-> "none", live |-> type \in {"LoopHalted", "GateHalted"}]

Emit(type) == events' = IF frontendOpen THEN Append(events, Note(type)) ELSE events
Take == commands' = Tail(commands)

(* The engine leaves a halt: what is under way about it is now out of date.  *)
Outdated(queue) == [i \in DOMAIN queue |-> [queue[i] EXCEPT !.live = FALSE]]
OutdatedPrompt(p) == IF p = "live" THEN "stale" ELSE p
OutdatePrompts ==
    /\ loopPrompt' = OutdatedPrompt(loopPrompt)
    /\ gatePrompt' = OutdatedPrompt(gatePrompt)
    /\ UNCHANGED <<frontendOpen, busy>>

TurnEnds == phase' = "idle" /\ Emit("TurnEnded")

(* run_turn starts: drop_attempts is local to it.                            *)
RunTurn ==
    /\ phase' = "opening" /\ opens' = 0 /\ drops' = 0 /\ spinning' = 0
    /\ UNCHANGED <<seenFiles, seenResults, lastSig, sameSig, noProgress>>

MayRetry(attempts) == attempts < MaxAttempts

------------------------------------------------------------------------------
(* The completion stream                                                     *)

(* open_stream_with_retry: no command is read while it opens or waits.       *)
OpenStream ==
    /\ phase = "opening"
    /\ \/ phase' = "streaming" /\ opens' = 0 /\ UNCHANGED events
       \/ MayRetry(opens + 1) /\ opens' = opens + 1 /\ UNCHANGED <<phase, events>>
       \/ TurnEnds /\ opens' = 0         \* not retryable, or retried enough
    /\ UNCHANGED <<drops, guardVars, gateAttempts, commands, uiVars>>

\* Mutant: drops are not counted over the turn.
StreamEndsUncounted ==
    /\ phase = "streaming"
    /\ \/ phase' = "tools" /\ UNCHANGED events
       \/ IF ChecksRegistered THEN phase' = "checking" /\ UNCHANGED events ELSE TurnEnds
       \/ TurnEnds
       \/ IF MayRetry(1) THEN phase' = "opening" /\ UNCHANGED events ELSE TurnEnds
    /\ UNCHANGED <<retryVars, guardVars, gateAttempts, commands, uiVars>>

(* The stream ends: with tool calls, with a claim to be done, with an error, *)
(* or dropped before Done, which retries the turn from unchanged history.    *)
StreamEnds ==
    /\ phase = "streaming"
    /\ \/ phase' = "tools" /\ UNCHANGED <<drops, events>>
       \/ /\ IF ChecksRegistered THEN phase' = "checking" /\ UNCHANGED events ELSE TurnEnds
          /\ UNCHANGED drops
       \/ TurnEnds /\ UNCHANGED drops
       \/ /\ drops' = drops + 1
          /\ IF MayRetry(drops + 1) THEN phase' = "opening" /\ UNCHANGED events ELSE TurnEnds
    /\ UNCHANGED <<opens, guardVars, gateAttempts, commands, uiVars>>

(* consume_stream and run_one_tool_call read commands as they come: Cancel   *)
(* ends the turn, anything else that is not about a prompt is dropped.       *)
TurnCommand(stage) ==
    /\ phase = stage /\ commands # <<>>
    /\ IF Head(commands).type = "Cancel" THEN TurnEnds ELSE UNCHANGED <<phase, events>>
    /\ Take
    /\ UNCHANGED <<retryVars, guardVars, gateAttempts, uiVars>>

StreamCommand == TurnCommand("streaming")
ToolsCommand == TurnCommand("tools")

------------------------------------------------------------------------------
(* The loop guardrail                                                        *)

(* A counter only ever compared with its bound is held there: Stop leaves    *)
(* the streaks and the attempts as they are, turn after turn.                *)
UpTo(bound, n) == IF n < bound THEN n ELSE bound

\* Mutant: another signature starts both streaks anew.
StreaksBySignature(sig) ==
    /\ noProgress' = IF lastSig = sig THEN UpTo(MaxNoProgress, noProgress + 1) ELSE 1
    /\ sameSig' = IF lastSig = sig THEN UpTo(RepeatWindow, sameSig + 1) ELSE 1
    /\ lastSig' = sig

(* evaluate_loop's streaks after a batch that showed nothing new.            *)
Streaks(sig) ==
    /\ noProgress' = UpTo(MaxNoProgress, noProgress + 1)
    /\ sameSig' = IF lastSig = sig THEN UpTo(RepeatWindow, sameSig + 1) ELSE 1
    /\ lastSig' = sig
Tripped == sameSig' >= RepeatWindow \/ noProgress' >= MaxNoProgress

ResetLoopWindow == sameSig' = 0 /\ noProgress' = 0 /\ lastSig' = NoSig

(* The batch ran to its end with this signature, result and these modified   *)
(* files; evaluate_loop decides whether the turn goes on.                    *)
EvaluateLoop(sig, result, files) ==
    LET new == ~(files \subseteq seenFiles) \/ result \notin seenResults
    IN  /\ seenFiles' = seenFiles \cup files
        /\ seenResults' = seenResults \cup {result}
        /\ \/ /\ new
              /\ sameSig' = 0 /\ noProgress' = 0 /\ lastSig' = sig
              /\ spinning' = 0
              /\ phase' = "opening" /\ UNCHANGED events
           \/ /\ ~new
              /\ Streaks(sig)
              /\ spinning' = spinning + 1
              /\ IF Tripped THEN phase' = "loopHalt" /\ Emit("LoopHalted")
                 ELSE phase' = "opening" /\ UNCHANGED events

ToolsEnd(sig, result, files) ==
    /\ phase = "tools"
    /\ IF GuardrailOn THEN EvaluateLoop(sig, result, files)
       ELSE /\ phase' = "opening"
            /\ UNCHANGED <<seenFiles, seenResults, lastSig, sameSig, noProgress, spinning,
                           events>>
    /\ UNCHANGED <<retryVars, gateAttempts, commands, uiVars>>

(* await_loop_resolution: only the user's word, Cancel, or the frontend's    *)
(* departure leads out.                                                      *)
LeaveHalt == commands' = Outdated(Tail(commands)) /\ OutdatePrompts

StopTurn ==
    /\ phase' = "idle"
    /\ events' = IF frontendOpen THEN Append(Outdated(events), Note("TurnEnded")) ELSE events

LoopHaltCommand ==
    /\ phase = "loopHalt" /\ commands # <<>>
    /\ LET c == Head(commands) IN
       \/ /\ c.type = "ResolveLoop" /\ c.res = "resume"
          /\ ResetLoopWindow /\ spinning' = 0
          /\ phase' = "opening" /\ events' = Outdated(events)
          /\ LeaveHalt
          /\ UNCHANGED <<seenFiles, seenResults>>
       \/ /\ c.type = "Cancel" \/ (c.type = "ResolveLoop" /\ c.res = "stop")
          /\ StopTurn /\ LeaveHalt /\ UNCHANGED guardVars
       \/ /\ c.type \notin {"ResolveLoop", "Cancel"}
          /\ Take /\ UNCHANGED <<phase, events, guardVars, uiVars>>
    /\ UNCHANGED <<retryVars, gateAttempts>>

------------------------------------------------------------------------------
(* The completion gate                                                       *)

(* evaluate_completion_gate: the checks ran, without a command being read.   *)
ChecksEnd ==
    /\ phase = "checking"
    /\ \/ gateAttempts' = 0 /\ TurnEnds
       \/ /\ gateAttempts' = UpTo(MaxGateAttempts, gateAttempts + 1)
          /\ IF gateAttempts' < MaxGateAttempts THEN phase' = "opening" /\ UNCHANGED events
             ELSE phase' = "gateHalt" /\ Emit("GateHalted")
    /\ UNCHANGED <<retryVars, guardVars, commands, uiVars>>

(* await_completion_resolution; Stop and Finish keep the count of attempts.  *)
GateHaltCommand ==
    /\ phase = "gateHalt" /\ commands # <<>>
    /\ LET c == Head(commands) IN
       \/ /\ c.type = "ResolveGate" /\ c.res = "resume"
          /\ gateAttempts' = 0
          /\ phase' = "opening" /\ events' = Outdated(events) /\ LeaveHalt
       \/ /\ c.type = "Cancel" \/ (c.type = "ResolveGate" /\ c.res = "stop")
          /\ StopTurn /\ LeaveHalt /\ UNCHANGED gateAttempts
       \/ /\ c.type \notin {"ResolveGate", "Cancel"}
          /\ Take /\ UNCHANGED <<phase, events, gateAttempts, uiVars>>
    /\ UNCHANGED <<retryVars, guardVars>>

\* Mutant: the loop's halt waits on.
GateHaltClosed ==
    /\ phase = "gateHalt" /\ commands = <<>> /\ ~frontendOpen
    /\ phase' = "idle"
    /\ UNCHANGED <<retryVars, guardVars, gateAttempts, commands, events, uiVars>>

(* The channel closed under a halt: stop.                                    *)
HaltClosed ==
    /\ phase \in {"loopHalt", "gateHalt"} /\ commands = <<>> /\ ~frontendOpen
    /\ phase' = "idle"
    /\ UNCHANGED <<retryVars, guardVars, gateAttempts, commands, events, uiVars>>

------------------------------------------------------------------------------
(* Between turns                                                             *)

IdleCommand ==
    /\ phase = "idle" /\ commands # <<>>
    /\ LET c == Head(commands) IN
       \/ c.type = "UserInput" /\ RunTurn /\ UNCHANGED gateAttempts
       \/ /\ c.type = "SwitchSession"      \* adopt_session
          /\ gateAttempts' = 0
          /\ UNCHANGED <<phase, retryVars, seenFiles, seenResults, lastSig, sameSig,
                         noProgress, spinning>>
       \/ /\ c.type # "UserInput"         \* ignored; a switch may also fail
          /\ UNCHANGED <<phase, retryVars, guardVars, gateAttempts>>
    /\ Take
    /\ UNCHANGED <<events, uiVars>>

IdleClosed ==
    /\ phase = "idle" /\ commands = <<>> /\ ~frontendOpen
    /\ phase' = "closed"
    /\ UNCHANGED <<retryVars, guardVars, gateAttempts, commands, events, uiVars>>

------------------------------------------------------------------------------
(* The frontend                                                              *)

ApplyEvent ==
    /\ frontendOpen /\ events # <<>>
    /\ LET e == Head(events)
           shown == IF e.live THEN "live" ELSE "stale"
       IN  /\ busy' = IF e.type = "TurnEnded" THEN FALSE ELSE busy
           /\ loopPrompt' = IF e.type = "LoopHalted" THEN shown ELSE loopPrompt
           /\ gatePrompt' = IF e.type = "GateHalted" THEN shown ELSE gatePrompt
    /\ events' = Tail(events)
    /\ UNCHANGED <<phase, retryVars, guardVars, gateAttempts, commands, frontendOpen>>

Send(type, res, live) ==
    /\ frontendOpen /\ Len(commands) < MaxCommands /\ Len(events) < MaxEvents
    /\ commands' = Append(commands, [type |-> type, res |-> res, live |-> live])
    /\ UNCHANGED <<phase, retryVars, guardVars, gateAttempts, events, frontendOpen>>

NoPrompt == loopPrompt = Nobody /\ gatePrompt = Nobody

(* Enter sends the message whether or not a turn runs.                       *)
SendInput ==
    /\ NoPrompt
    /\ Send("UserInput", "none", FALSE)
    /\ busy' = TRUE /\ UNCHANGED <<loopPrompt, gatePrompt>>

\* Esc, Ctrl-C or an already open palette.
SendCancel ==
    /\ Send("Cancel", "none", FALSE)
    /\ UNCHANGED <<busy, loopPrompt, gatePrompt>>

(* /new and the session picker refuse while busy.                            *)
SwitchSession ==
    /\ ~busy
    /\ Send("SwitchSession", "none", FALSE)
    /\ UNCHANGED <<busy, loopPrompt, gatePrompt>>

\* Mutant: an answer closes both surfaces.
ResolveLoopClosingBoth(res) ==
    /\ loopPrompt # Nobody
    /\ Send("ResolveLoop", res, loopPrompt = "live")
    /\ loopPrompt' = Nobody /\ gatePrompt' = Nobody /\ UNCHANGED busy

(* resolve_loop and resolve_completion_gate; the loop's surface is on top.   *)
ResolveLoop(res) ==
    /\ loopPrompt # Nobody
    /\ Send("ResolveLoop", res, loopPrompt = "live")
    /\ loopPrompt' = Nobody /\ UNCHANGED <<busy, gatePrompt>>

ResolveGate(res) ==
    /\ loopPrompt = Nobody /\ gatePrompt # Nobody
    /\ Send("ResolveGate", res, gatePrompt = "live")
    /\ gatePrompt' = Nobody /\ UNCHANGED <<busy, loopPrompt>>

Close ==
    /\ frontendOpen
    /\ frontendOpen' = FALSE /\ events' = <<>>
    /\ busy' = FALSE /\ loopPrompt' = Nobody /\ gatePrompt' = Nobody
    /\ UNCHANGED <<phase, retryVars, guardVars, gateAttempts, commands>>

------------------------------------------------------------------------------

\* The process is over.
Ended == phase = "closed" /\ UNCHANGED vars

SomeToolsEnd == \E s \in Sig, r \in Result, f \in SUBSET File : ToolsEnd(s, r, f)
Resolve == \E r \in Resolution : ResolveLoop(r) \/ ResolveGate(r)

Next ==
    \/ OpenStream \/ StreamEnds \/ StreamCommand \/ SomeToolsEnd \/ ToolsCommand
    \/ LoopHaltCommand \/ ChecksEnd \/ GateHaltCommand \/ HaltClosed
    \/ IdleCommand \/ IdleClosed
    \/ ApplyEvent \/ SendInput \/ SendCancel \/ SwitchSession \/ Resolve \/ Close
    \/ Ended

Spec == Init /\ [][Next]_vars

(* The tasks run; streams end (idle timeout) and tools end (tool timeouts);  *)
(* the selects poll their ready branches in random order, so a command that  *)
(* is there time and again is taken; the frontend applies events.            *)
Fairness ==
    /\ WF_vars(OpenStream) /\ WF_vars(StreamEnds) /\ WF_vars(SomeToolsEnd)
    /\ SF_vars(StreamCommand) /\ SF_vars(ToolsCommand)
    /\ WF_vars(LoopHaltCommand) /\ WF_vars(GateHaltCommand) /\ WF_vars(HaltClosed)
    /\ WF_vars(ChecksEnd) /\ WF_vars(IdleCommand) /\ WF_vars(IdleClosed)
    /\ WF_vars(ApplyEvent)

FairSpec == Spec /\ Fairness

------------------------------------------------------------------------------
(* Properties                                                                *)

CommandType == {"UserInput", "Cancel", "SwitchSession", "ResolveLoop", "ResolveGate"}
EventType == {"TurnEnded", "LoopHalted", "GateHalted"}
Prompt == {Nobody, "live", "stale"}
Phase == {"idle", "opening", "streaming", "tools", "loopHalt", "checking", "gateHalt",
          "closed"}

TypeOK ==
    /\ phase \in Phase
    /\ opens \in 0..MaxAttempts /\ drops \in 0..MaxAttempts
    /\ seenFiles \subseteq File /\ seenResults \subseteq Result
    /\ lastSig \in Sig \cup {NoSig}
    /\ sameSig \in 0..RepeatWindow /\ noProgress \in 0..MaxNoProgress
    /\ gateAttempts \in 0..MaxGateAttempts
    /\ commands \in Seq([type : CommandType, live : BOOLEAN,
                         res : Resolution \cup {"none"}])
    /\ events \in Seq([type : EventType, res : {"none"}, live : BOOLEAN])
    /\ frontendOpen \in BOOLEAN /\ busy \in BOOLEAN
    /\ loopPrompt \in Prompt /\ gatePrompt \in Prompt
    /\ spinning \in Nat

(* S-5: in one turn the model gets at most MaxNoProgress batches in a row    *)
(* that show nothing new before the user is asked, however it varies its     *)
(* calls, whatever an earlier turn left in the streaks, and whatever         *)
(* retries, drops and failed checks lie between the batches.                 *)
NeverSpinsOn ==
    GuardrailOn /\ spinning >= MaxNoProgress =>
        phase \in {"loopHalt", "idle", "closed"} /\ spinning = MaxNoProgress

(* A halt reaches the user: while the engine is parked and the frontend is   *)
(* there, the surface about this very halt is on the way, on the screen, or  *)
(* answered.  One about an earlier halt does not stand in for it.            *)
HaltReachesUser ==
    phase \in {"loopHalt", "gateHalt"} /\ frontendOpen =>
        \/ \E i \in DOMAIN events : events[i].live
        \/ loopPrompt = "live" \/ gatePrompt = "live"
        \/ \E i \in DOMAIN commands : commands[i].live

(* A turn does not go on forever without handing control back: whatever the  *)
(* model and the provider do, it ends or parks.                              *)
TurnHandsBack == InTurn ~> phase \in {"idle", "loopHalt", "gateHalt", "closed"}

(* A Cancel ends the turn it finds, although opening a stream, the waits     *)
(* between retries and the completion checks read no command, and although   *)
(* each select may serve its other branch first.                             *)
CancelStopsTurn ==
    InTurn /\ (\E i \in DOMAIN commands : commands[i].type = "Cancel") ~> ~InTurn

(* The frontend's departure ends the session, in whatever stage it finds it. *)
SessionEnds == ~frontendOpen ~> phase = "closed"

(* The working affordance never stays on by itself: a submitted message,     *)
(* even one the engine drops mid-turn, leads to the end of a turn or to a    *)
(* halt on the screen.                                                       *)
SpinnerStops == busy ~> ~busy \/ ~NoPrompt

(* The counters of retries, drops, attempts and streaks never pass their     *)
(* limits, and a turn hands control back.  (turn.rs, retry.rs)               *)
TurnsAreBounded == []TypeOK /\ TurnHandsBack

(* The user keeps control: a Cancel ends the turn, the frontend's departure  *)
(* the session, and every message given ends in a turn's end or a halt,      *)
(* whichever of the engine's stages it meets.  (turn.rs, guardrail.rs)       *)
UserKeepsControl == CancelStopsTurn /\ SessionEnds /\ SpinnerStops
==============================================================================
