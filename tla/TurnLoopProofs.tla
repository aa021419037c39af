--------------------------- MODULE TurnLoopProofs ----------------------------
(* Turns for every set of signatures, results and files, every limit of the  *)
(* guardrail, the gate and the retries, and any number of commands and events*)
(* under way: the model never spins past the guardrail's limit, and a halt   *)
(* always has its own surface before the user.                               *)
EXTENDS TurnLoop, TLAPS

USE DEF guardVars, retryVars, uiVars

(* The limits are positive and nothing stands for no signature.              *)
LEMMA Limits ==
    /\ RepeatWindow \in Nat /\ MaxNoProgress \in Nat /\ MaxAttempts \in Nat
    /\ MaxGateAttempts \in Nat /\ RepeatWindow > 0 /\ MaxNoProgress > 0 /\ MaxAttempts > 0
    /\ MaxGateAttempts > 0 /\ GuardrailOn \in BOOLEAN /\ ChecksRegistered \in BOOLEAN
  BY TurnLoopAssumption

------------------------------------------------------------------------------
(* Types.                                                                    *)

CommandSet == [type : CommandType, live : BOOLEAN, res : Resolution \cup {"none"}]
EventSet == [type : EventType, res : {"none"}, live : BOOLEAN]

(* A turn under way has drops left.                                          *)
DropsLeft == InTurn => drops < MaxAttempts

TypeInv == TypeOK /\ DropsLeft

(* The events and commands of a halt that was left keep their types.         *)
LEMMA OutdatedType ==
    /\ \A q \in Seq(CommandSet) : Outdated(q) \in Seq(CommandSet)
    /\ \A q \in Seq(EventSet) : Outdated(q) \in Seq(EventSet)
  <1>1. ASSUME NEW q \in Seq(CommandSet) PROVE Outdated(q) \in Seq(CommandSet)
    <2>1. \A c \in CommandSet : [c EXCEPT !.live = FALSE] \in CommandSet
      BY DEF CommandSet
    <2>2. Outdated(q) = [i \in 1..Len(q) |-> [q[i] EXCEPT !.live = FALSE]] /\ Len(q) \in Nat
      BY <1>1 DEF Outdated
    <2>3. \A i \in 1..Len(q) : q[i] \in CommandSet
      BY <1>1
    <2> QED BY <2>1, <2>2, <2>3
  <1>2. ASSUME NEW q \in Seq(EventSet) PROVE Outdated(q) \in Seq(EventSet)
    <2>1. \A e \in EventSet : [e EXCEPT !.live = FALSE] \in EventSet
      BY DEF EventSet
    <2>2. Outdated(q) = [i \in 1..Len(q) |-> [q[i] EXCEPT !.live = FALSE]] /\ Len(q) \in Nat
      BY <1>2 DEF Outdated
    <2>3. \A i \in 1..Len(q) : q[i] \in EventSet
      BY <1>2
    <2> QED BY <2>1, <2>2, <2>3
  <1> QED BY <1>1, <1>2

(* An event is emitted, or not.                                              *)
LEMMA EmitType ==
    ASSUME events \in Seq(EventSet), NEW type \in EventType, Emit(type)
    PROVE  events' \in Seq(EventSet)
  <1>1. Note(type) \in EventSet
    BY DEF Note, EventSet, EventType
  <1> QED BY <1>1 DEF Emit

(* A counter held at its bound.                                              *)
LEMMA UpToType == \A b, n \in Nat : UpTo(b, n + 1) \in 0..b
  BY DEF UpTo

(* TypeInv with its records named.                                           *)
LEMMA Typed ==
    TypeInv =>
        /\ phase \in Phase /\ opens \in 0..MaxAttempts /\ drops \in 0..MaxAttempts
        /\ seenFiles \subseteq File /\ seenResults \subseteq Result
        /\ lastSig \in Sig \cup {NoSig}
        /\ sameSig \in 0..RepeatWindow /\ noProgress \in 0..MaxNoProgress
        /\ gateAttempts \in 0..MaxGateAttempts
        /\ commands \in Seq(CommandSet) /\ events \in Seq(EventSet)
        /\ frontendOpen \in BOOLEAN /\ busy \in BOOLEAN
        /\ loopPrompt \in Prompt /\ gatePrompt \in Prompt
        /\ spinning \in Nat
        /\ (phase \notin {"idle", "closed"} => drops < MaxAttempts)
  BY DEF TypeInv, TypeOK, DropsLeft, InTurn, CommandSet, EventSet

(* TypeInv again, from its parts.                                            *)
LEMMA TypedAfter ==
    ASSUME phase' \in Phase, opens' \in 0..MaxAttempts, drops' \in 0..MaxAttempts,
           seenFiles' \subseteq File, seenResults' \subseteq Result,
           lastSig' \in Sig \cup {NoSig},
           sameSig' \in 0..RepeatWindow, noProgress' \in 0..MaxNoProgress,
           gateAttempts' \in 0..MaxGateAttempts,
           commands' \in Seq(CommandSet), events' \in Seq(EventSet),
           frontendOpen' \in BOOLEAN, busy' \in BOOLEAN,
           loopPrompt' \in Prompt, gatePrompt' \in Prompt, spinning' \in Nat,
           phase' \notin {"idle", "closed"} => drops' < MaxAttempts
    PROVE  TypeInv'
  BY DEF TypeInv, TypeOK, DropsLeft, InTurn, CommandSet, EventSet

(* No turn runs and nothing is under way at first.                           *)
LEMMA InitType == Init => TypeInv
  <1> SUFFICES ASSUME Init PROVE TypeInv
    OBVIOUS
  <1>1. commands \in Seq([type : CommandType, live : BOOLEAN, res : Resolution \cup {"none"}])
        /\ events \in Seq([type : EventType, res : {"none"}, live : BOOLEAN])
    BY DEF Init
  <1>2. /\ phase \in Phase /\ loopPrompt \in Prompt /\ gatePrompt \in Prompt
        /\ lastSig \in Sig \cup {NoSig}
    BY DEF Init, Phase, Prompt
  <1>3. /\ opens \in 0..MaxAttempts /\ drops \in 0..MaxAttempts
        /\ sameSig \in 0..RepeatWindow /\ noProgress \in 0..MaxNoProgress
        /\ gateAttempts \in 0..MaxGateAttempts /\ spinning \in Nat
    BY Limits DEF Init
  <1>4. /\ seenFiles \subseteq File /\ seenResults \subseteq Result
        /\ frontendOpen \in BOOLEAN /\ busy \in BOOLEAN
    BY DEF Init
  <1>5. DropsLeft
    BY DEF Init, DropsLeft, InTurn
  <1> QED BY <1>1, <1>2, <1>3, <1>4, <1>5 DEF TypeInv, TypeOK

(* The stream opens and ends.                                                *)
LEMMA StreamType ==
    TypeInv /\ (OpenStream \/ StreamEnds \/ StreamCommand \/ ToolsCommand) => TypeInv'
  <1> SUFFICES ASSUME TypeInv, OpenStream \/ StreamEnds \/ StreamCommand \/ ToolsCommand
               PROVE  TypeInv'
    OBVIOUS
  <1>1. "TurnEnded" \in EventType
    BY DEF EventType
  <1>2. events' \in Seq(EventSet)
    <2>1. Emit("TurnEnded") \/ UNCHANGED events
      BY DEF OpenStream, StreamEnds, StreamCommand, ToolsCommand, TurnCommand, TurnEnds
    <2> QED BY <1>1, <2>1, EmitType, Typed, TypedAfter
  <1>3. CASE OpenStream
    BY <1>2, <1>3, Limits, Typed, TypedAfter DEF OpenStream, TurnEnds, MayRetry, Phase
  <1>4. CASE StreamEnds
    BY <1>2, <1>4, Limits, Typed, TypedAfter DEF StreamEnds, TurnEnds, MayRetry, Phase
  <1>5. CASE StreamCommand \/ ToolsCommand
    <2>1. Tail(commands) \in Seq(CommandSet)
      BY <1>5, Typed, TypedAfter DEF StreamCommand, ToolsCommand, TurnCommand
    <2> QED
      BY <1>2, <1>5, <2>1, Limits, Typed, TypedAfter
      DEF StreamCommand, ToolsCommand, TurnCommand, TurnEnds, Take, Phase
  <1> QED BY <1>3, <1>4, <1>5

(* A batch ends and is judged.                                               *)
LEMMA ToolsType == TypeInv /\ SomeToolsEnd => TypeInv'
  <1> SUFFICES ASSUME TypeInv, NEW s \in Sig, NEW r \in Result, NEW f \in SUBSET File,
                      ToolsEnd(s, r, f)
               PROVE  TypeInv'
    BY DEF SomeToolsEnd
  <1>1. events' \in Seq(EventSet)
    <2>1. "LoopHalted" \in EventType /\ (Emit("LoopHalted") \/ UNCHANGED events)
      BY DEF EventType, ToolsEnd, EvaluateLoop
    <2> QED BY <2>1, EmitType, Typed, TypedAfter
  <1>2. /\ sameSig' \in 0..RepeatWindow /\ noProgress' \in 0..MaxNoProgress
        /\ lastSig' \in Sig \cup {NoSig} /\ spinning' \in Nat
    <2>1. 0 \in 0..RepeatWindow /\ 1 \in 0..RepeatWindow /\ 0 \in 0..MaxNoProgress
      BY Limits
    <2>2. UpTo(RepeatWindow, sameSig + 1) \in 0..RepeatWindow
          /\ UpTo(MaxNoProgress, noProgress + 1) \in 0..MaxNoProgress
      <3>1. sameSig \in Nat /\ noProgress \in Nat
        BY Limits, Typed
      <3> QED BY <3>1, Limits, UpToType
    <2> QED BY <2>1, <2>2, Typed, TypedAfter DEF ToolsEnd, EvaluateLoop, Streaks
  <1>3. seenFiles' \subseteq File /\ seenResults' \subseteq Result
    BY Typed, TypedAfter DEF ToolsEnd, EvaluateLoop
  <1>4. phase' \in {"opening", "loopHalt"} /\ phase = "tools"
    BY DEF ToolsEnd, EvaluateLoop
  <1>5. UNCHANGED <<opens, drops, gateAttempts, commands, frontendOpen, busy, loopPrompt,
                    gatePrompt>>
    BY DEF ToolsEnd
  <1> QED BY <1>1, <1>2, <1>3, <1>4, <1>5, Typed, TypedAfter DEF Phase

(* The checks, the halts and the commands between turns.                     *)
LEMMA HaltType ==
    TypeInv /\ (ChecksEnd \/ LoopHaltCommand \/ GateHaltCommand \/ HaltClosed
                  \/ IdleCommand \/ IdleClosed) => TypeInv'
  <1> SUFFICES ASSUME TypeInv
               PROVE  ChecksEnd \/ LoopHaltCommand \/ GateHaltCommand \/ HaltClosed
                         \/ IdleCommand \/ IdleClosed => TypeInv'
    OBVIOUS
  <1>1. commands # <<>> => /\ Tail(commands) \in Seq(CommandSet)
                           /\ Outdated(Tail(commands)) \in Seq(CommandSet)
    <2>1. commands # <<>> => Tail(commands) \in Seq(CommandSet)
      BY Typed
    <2> QED BY <2>1, OutdatedType
  <1>2. Outdated(events) \in Seq(EventSet)
        /\ Append(Outdated(events), Note("TurnEnded")) \in Seq(EventSet)
    <2>1. Note("TurnEnded") \in EventSet
      BY DEF Note, EventSet, EventType
    <2> QED BY <2>1, OutdatedType, Typed, TypedAfter
  <1>3. OutdatedPrompt(loopPrompt) \in Prompt /\ OutdatedPrompt(gatePrompt) \in Prompt
    BY Typed, TypedAfter DEF OutdatedPrompt, Prompt
  <1>4. CASE ChecksEnd
    <2>1. events' \in Seq(EventSet)
      <3>1. "TurnEnded" \in EventType /\ "GateHalted" \in EventType
        BY DEF EventType
      <3>2. Emit("TurnEnded") \/ Emit("GateHalted") \/ UNCHANGED events
        BY <1>4 DEF ChecksEnd, TurnEnds
      <3> QED BY <3>1, <3>2, EmitType, Typed, TypedAfter
    <2>2. gateAttempts' \in 0..MaxGateAttempts
      BY <1>4, UpToType, Limits, Typed, TypedAfter DEF ChecksEnd
    <2>3. phase' \in {"idle", "opening", "gateHalt"} /\ phase = "checking"
      BY <1>4 DEF ChecksEnd, TurnEnds
    <2> QED BY <1>4, <2>1, <2>2, <2>3, Typed, TypedAfter DEF ChecksEnd, Phase
  <1>5. CASE LoopHaltCommand
    <2>1. commands' \in Seq(CommandSet) /\ events' \in Seq(EventSet)
      BY <1>1, <1>2, <1>5, Typed DEF LoopHaltCommand, LeaveHalt, StopTurn, Take
    <2>2. /\ loopPrompt' \in Prompt /\ gatePrompt' \in Prompt
          /\ UNCHANGED <<frontendOpen, busy>>
      BY <1>3, <1>5, Typed DEF LoopHaltCommand, LeaveHalt, OutdatePrompts
    <2>3. /\ sameSig' \in 0..RepeatWindow /\ noProgress' \in 0..MaxNoProgress
          /\ lastSig' \in Sig \cup {NoSig} /\ spinning' \in Nat
          /\ UNCHANGED <<seenFiles, seenResults>>
      BY <1>5, Limits, Typed DEF LoopHaltCommand, ResetLoopWindow
    <2>4. /\ phase = "loopHalt" /\ phase' \in Phase
          /\ UNCHANGED <<opens, drops, gateAttempts>>
      BY <1>5 DEF LoopHaltCommand, StopTurn, Phase
    <2> QED BY <2>1, <2>2, <2>3, <2>4, Typed, TypedAfter
  <1>6. CASE GateHaltCommand
    <2>1. commands' \in Seq(CommandSet) /\ events' \in Seq(EventSet)
      BY <1>1, <1>2, <1>6, Typed DEF GateHaltCommand, LeaveHalt, StopTurn, Take
    <2>2. /\ loopPrompt' \in Prompt /\ gatePrompt' \in Prompt
          /\ UNCHANGED <<frontendOpen, busy>>
      BY <1>3, <1>6, Typed DEF GateHaltCommand, LeaveHalt, OutdatePrompts
    <2>3. gateAttempts' \in 0..MaxGateAttempts
      BY <1>6, Limits, Typed DEF GateHaltCommand
    <2>4. /\ phase = "gateHalt" /\ phase' \in Phase
          /\ UNCHANGED <<opens, drops, seenFiles, seenResults, lastSig, sameSig, noProgress,
                         spinning>>
      BY <1>6 DEF GateHaltCommand, StopTurn, Phase
    <2> QED BY <2>1, <2>2, <2>3, <2>4, Typed, TypedAfter
  <1>7. CASE HaltClosed
    BY <1>7, Typed, TypedAfter DEF HaltClosed, Phase
  <1>8. CASE IdleCommand
    BY <1>1, <1>8, Limits, Typed, TypedAfter DEF IdleCommand, RunTurn, Take, Phase
  <1>9. CASE IdleClosed
    BY <1>9, Typed, TypedAfter DEF IdleClosed, Phase
  <1> QED BY <1>4, <1>5, <1>6, <1>7, <1>8, <1>9

(* What the frontend does.                                                   *)
LEMMA FrontendType ==
    TypeInv /\ (ApplyEvent \/ SendInput \/ SendCancel \/ SwitchSession \/ Resolve \/ Close)
        => TypeInv'
  <1> SUFFICES ASSUME TypeInv
               PROVE  ApplyEvent \/ SendInput \/ SendCancel \/ SwitchSession \/ Resolve
                         \/ Close => TypeInv'
    OBVIOUS
  <1>1. CASE ApplyEvent
    <2>1. Tail(events) \in Seq(EventSet)
      BY <1>1, Typed, TypedAfter DEF ApplyEvent
    <2>2. busy' \in BOOLEAN /\ loopPrompt' \in Prompt /\ gatePrompt' \in Prompt
      BY <1>1, Typed, TypedAfter DEF ApplyEvent, Prompt
    <2> QED BY <1>1, <2>1, <2>2, Typed, TypedAfter DEF ApplyEvent
  <1>2. ASSUME NEW type \in CommandType, NEW res \in Resolution \cup {"none"},
               NEW live \in BOOLEAN, Send(type, res, live)
        PROVE  commands' \in Seq(CommandSet)
    <2>1. [type |-> type, res |-> res, live |-> live] \in CommandSet
      BY DEF CommandSet
    <2> QED BY <1>2, <2>1, Typed, TypedAfter DEF Send
  <1>3. CASE SendInput
    <2>1. commands' \in Seq(CommandSet)
      BY <1>2, <1>3 DEF SendInput, CommandType
    <2> QED BY <1>3, <2>1, Typed, TypedAfter DEF SendInput, Send
  <1>4. CASE SendCancel
    <2>1. commands' \in Seq(CommandSet)
      BY <1>2, <1>4 DEF SendCancel, CommandType
    <2> QED BY <1>4, <2>1, Typed, TypedAfter DEF SendCancel, Send
  <1>5. CASE SwitchSession
    <2>1. commands' \in Seq(CommandSet)
      BY <1>2, <1>5 DEF SwitchSession, CommandType
    <2> QED BY <1>5, <2>1, Typed, TypedAfter DEF SwitchSession, Send
  <1>6. ASSUME NEW r \in Resolution, ResolveLoop(r) PROVE TypeInv'
    <2>1. commands' \in Seq(CommandSet)
      BY <1>2, <1>6 DEF ResolveLoop, CommandType
    <2> QED BY <1>6, <2>1, Typed, TypedAfter DEF ResolveLoop, Send, Prompt
  <1>7. ASSUME NEW r \in Resolution, ResolveGate(r) PROVE TypeInv'
    <2>1. commands' \in Seq(CommandSet)
      BY <1>2, <1>7 DEF ResolveGate, CommandType
    <2> QED BY <1>7, <2>1, Typed, TypedAfter DEF ResolveGate, Send, Prompt
  <1>8. CASE Close
    <2>1. <<>> \in Seq(EventSet)
      OBVIOUS
    <2> QED BY <1>8, <2>1, Typed, TypedAfter DEF Close, Prompt
  <1> QED BY <1>1, <1>3, <1>4, <1>5, <1>6, <1>7, <1>8 DEF Resolve

(* Every step keeps the types.                                               *)
LEMMA TypeNext == TypeInv /\ [Next]_vars => TypeInv'
  <1>1. TypeInv /\ UNCHANGED vars => TypeInv'
    BY DEF vars, TypeInv, TypeOK, DropsLeft, InTurn
  <1> QED
    BY <1>1, StreamType, ToolsType, HaltType, FrontendType DEF Next, Ended

(* So every state has them.                                                  *)
LEMMA TypeInvariant == Spec => []TypeInv
  BY InitType, TypeNext, PTL DEF Spec

(* Every counter of a turn stays within its limit, and a turn under way has  *)
(* drops left: the retries of any stream, over any number of batches, halts  *)
(* and failed checks, share one budget.  (turn.rs, guardrail.rs)             *)
THEOREM TurnTypeCorrect == Spec => []TypeOK
  <1>1. TypeInv => TypeOK
    BY DEF TypeInv
  <1> QED BY <1>1, TypeInvariant, PTL

------------------------------------------------------------------------------
(* Spinning.  What the turn spent without progress is at most what the streak*)
(* counts, which only progress and the user's word begin anew.               *)

SpinInv == NeverSpinsOn /\ (GuardrailOn => spinning <= noProgress)

(* Nothing was spent at first.                                               *)
LEMMA SpinInit == Init => SpinInv
  BY Limits DEF Init, SpinInv, NeverSpinsOn

(* A batch without progress spins once more, and trips at the limit.         *)
LEMMA SpinTools == TypeInv /\ SpinInv /\ SomeToolsEnd => SpinInv'
  <1> SUFFICES ASSUME TypeInv, SpinInv, GuardrailOn,
                      NEW s \in Sig, NEW r \in Result, NEW f \in SUBSET File,
                      ToolsEnd(s, r, f)
               PROVE  SpinInv'
    BY DEF SomeToolsEnd, SpinInv, NeverSpinsOn
  <1>1. /\ phase = "tools" /\ spinning < MaxNoProgress /\ spinning <= noProgress
        /\ noProgress \in 0..MaxNoProgress /\ spinning \in Nat
    BY Limits, Typed DEF ToolsEnd, SpinInv, NeverSpinsOn
  <1>2. CASE noProgress' = 0 /\ spinning' = 0
    BY <1>2, Limits DEF SpinInv, NeverSpinsOn
  <1>3. CASE /\ Streaks(s) /\ spinning' = spinning + 1
             /\ Tripped => phase' = "loopHalt"
    <2>1. noProgress' = UpTo(MaxNoProgress, noProgress + 1) /\ spinning' <= noProgress'
          /\ noProgress' \in 0..MaxNoProgress
      BY <1>1, <1>3, Limits DEF Streaks, UpTo
    <2>2. spinning' >= MaxNoProgress => phase' = "loopHalt" /\ spinning' = MaxNoProgress
      BY <1>1, <1>3, <2>1, Limits DEF Tripped
    <2> QED BY <2>1, <2>2 DEF SpinInv, NeverSpinsOn
  <1> QED BY <1>2, <1>3 DEF ToolsEnd, EvaluateLoop

(* Every other step leaves both counts alone, or begins anew, or stays put.  *)
LEMMA SpinNext == TypeInv /\ SpinInv /\ [Next]_vars => SpinInv'
  <1> SUFFICES ASSUME TypeInv, SpinInv, [Next]_vars PROVE SpinInv'
    OBVIOUS
  <1>1. CASE SomeToolsEnd
    BY <1>1, SpinTools
  <1>2. CASE /\ UNCHANGED <<spinning, noProgress>>
             /\ phase' = phase \/ phase' \in {"idle", "closed"}
                    \/ phase \notin {"loopHalt", "idle", "closed"}
    BY <1>2 DEF SpinInv, NeverSpinsOn
  <1>3. CASE spinning' = 0 /\ (noProgress' = 0 \/ UNCHANGED noProgress)
    BY <1>3, Limits, Typed DEF SpinInv, NeverSpinsOn
  <1>4. CASE OpenStream \/ StreamEnds \/ StreamCommand \/ ToolsCommand \/ ChecksEnd
    BY <1>2, <1>4 DEF OpenStream, StreamEnds, StreamCommand, ToolsCommand, TurnCommand, ChecksEnd
  <1>5. CASE LoopHaltCommand
    BY <1>2, <1>3, <1>5 DEF LoopHaltCommand, ResetLoopWindow, StopTurn
  <1>6. CASE GateHaltCommand \/ HaltClosed \/ IdleClosed
    BY <1>2, <1>6 DEF GateHaltCommand, HaltClosed, IdleClosed
  <1>7. CASE IdleCommand
    BY <1>2, <1>3, <1>7 DEF IdleCommand, RunTurn
  <1>8. CASE ApplyEvent \/ SendInput \/ SendCancel \/ SwitchSession \/ Resolve \/ Close
    BY <1>2, <1>8
    DEF ApplyEvent, SendInput, SendCancel, SwitchSession, Resolve, ResolveLoop, ResolveGate,
        Send, Close
  <1>9. CASE UNCHANGED vars
    BY <1>2, <1>9 DEF vars
  <1> QED BY <1>1, <1>4, <1>5, <1>6, <1>7, <1>8, <1>9 DEF Next, Ended

(* S-5 for every window, limit and number of tools: the model never gets     *)
(* more than MaxNoProgress batches in a row that show nothing new, whatever  *)
(* streaks an earlier turn left.  (guardrail.rs evaluate_loop)               *)
THEOREM SpinCorrect == Spec => []NeverSpinsOn
  <1>1. SpinInv => NeverSpinsOn
    BY DEF SpinInv
  <1> QED BY <1>1, SpinInit, SpinNext, TypeInvariant, PTL DEF Spec

------------------------------------------------------------------------------
(* Halts.  While the engine is parked, what is live is about its own halt:   *)
(* its notice is the last event, or its surface is up with nothing behind it,*)
(* or its answer is on the way.  Otherwise nothing is live.                  *)

Parked == phase \in {"loopHalt", "gateHalt"}
Notice == IF phase = "loopHalt" THEN "LoopHalted" ELSE "GateHalted"
Answer == IF phase = "loopHalt" THEN "ResolveLoop" ELSE "ResolveGate"

NoneLive(queue) == \A i \in 1..Len(queue) : ~queue[i].live
NothingLive ==
    /\ NoneLive(events) /\ NoneLive(commands)
    /\ loopPrompt # "live" /\ gatePrompt # "live"

OwnEvents ==
    \A i \in 1..Len(events) : events[i].live => i = Len(events) /\ events[i].type = Notice
OwnCommands == \A i \in 1..Len(commands) : commands[i].live => commands[i].type = Answer
OwnSurface ==
    /\ OwnEvents /\ OwnCommands
    /\ loopPrompt = "live" => phase = "loopHalt" /\ events = <<>>
    /\ gatePrompt = "live" => phase = "gateHalt" /\ events = <<>>

Gone == ~frontendOpen => events = <<>> /\ loopPrompt = Nobody /\ gatePrompt = Nobody

(* HaltReachesUser, over the indices of sequences.                           *)
Reached ==
    \/ \E i \in 1..Len(events) : events[i].live
    \/ loopPrompt = "live" \/ gatePrompt = "live"
    \/ \E i \in 1..Len(commands) : commands[i].live

HaltInv ==
    /\ Gone
    /\ ~Parked => NothingLive
    /\ Parked => OwnSurface /\ (frontendOpen => Reached)

(* The invariant is strong enough.                                           *)
LEMMA ReachedIsReached == TypeInv /\ HaltInv => HaltReachesUser
  <1> SUFFICES ASSUME TypeInv, HaltInv PROVE HaltReachesUser
    OBVIOUS
  <1>1. DOMAIN events = 1..Len(events) /\ DOMAIN commands = 1..Len(commands)
    BY Typed
  <1> QED BY <1>1 DEF HaltInv, Parked, Reached, HaltReachesUser

(* Nothing is live at first.                                                 *)
LEMMA HaltInit == Init => HaltInv
  BY DEF Init, HaltInv, Gone, Parked, NothingLive, NoneLive, Nobody

(* Taking the first moves the others up by one.                              *)
LEMMA AfterTail ==
    ASSUME NEW S, NEW q \in Seq(S), q # <<>>
    PROVE  /\ Len(Tail(q)) = Len(q) - 1 /\ Len(q) \in Nat \ {0}
           /\ \A i \in 1..Len(Tail(q)) : Tail(q)[i] = q[i + 1] /\ i + 1 \in 1..Len(q)
           /\ \A i \in 1..Len(q) : i # 1 => i - 1 \in 1..Len(Tail(q)) /\ Tail(q)[i - 1] = q[i]
           /\ Head(q) = q[1]
  OBVIOUS

(* Appending leaves what is there where it is.                               *)
LEMMA AfterAppend ==
    ASSUME NEW S, NEW q \in Seq(S), NEW e
    PROVE  /\ Len(Append(q, e)) = Len(q) + 1 /\ Len(q) \in Nat
           /\ Append(q, e)[Len(q) + 1] = e
           /\ \A i \in 1..Len(q) : Append(q, e)[i] = q[i] /\ i \in 1..Len(Append(q, e))
  OBVIOUS

(* What is outdated is not live.                                             *)
LEMMA OutdatedIsNotLive ==
    /\ \A q \in Seq(CommandSet) : NoneLive(Outdated(q))
    /\ \A q \in Seq(EventSet) : NoneLive(Outdated(q))
  <1>1. ASSUME NEW S, NEW q \in Seq(S), \A x \in S : [x EXCEPT !.live = FALSE].live = FALSE
        PROVE  NoneLive(Outdated(q))
    <2>1. Outdated(q) = [i \in 1..Len(q) |-> [q[i] EXCEPT !.live = FALSE]] /\ Len(q) \in Nat
      BY <1>1 DEF Outdated
    <2>2. \A i \in 1..Len(q) : q[i] \in S
      BY <1>1
    <2>3. Len(Outdated(q)) = Len(q)
      BY <2>1
    <2> QED BY <1>1, <2>1, <2>2, <2>3 DEF NoneLive
  <1>2. \A x \in CommandSet : [x EXCEPT !.live = FALSE].live = FALSE
    BY DEF CommandSet
  <1>3. \A x \in EventSet : [x EXCEPT !.live = FALSE].live = FALSE
    BY DEF EventSet
  <1> QED BY <1>1, <1>2, <1>3

(* Nothing becomes live by taking a command,                                 *)
LEMMA NoneLiveTail == \A q \in Seq(CommandSet) : q # <<>> /\ NoneLive(q) => NoneLive(Tail(q))
  <1> SUFFICES ASSUME NEW q \in Seq(CommandSet), q # <<>>, NoneLive(q)
               PROVE  NoneLive(Tail(q))
    OBVIOUS
  <1>1. \A i \in 1..Len(Tail(q)) : Tail(q)[i] = q[i + 1] /\ i + 1 \in 1..Len(q)
    BY AfterTail
  <1> QED BY <1>1 DEF NoneLive

(* nor by the end of a turn.                                                 *)
LEMMA NoneLiveAppend ==
    \A q \in Seq(EventSet) : NoneLive(q) => NoneLive(Append(q, Note("TurnEnded")))
  <1> SUFFICES ASSUME NEW q \in Seq(EventSet), NoneLive(q)
               PROVE  NoneLive(Append(q, Note("TurnEnded")))
    OBVIOUS
  <1>1. ~Note("TurnEnded").live
    BY DEF Note
  <1> QED BY <1>1 DEF NoneLive

(* A step outside a halt that does not enter one makes nothing live.         *)
LEMMA WorkingStep ==
    ASSUME TypeInv, HaltInv, ~Parked, ~Parked', UNCHANGED <<frontendOpen, loopPrompt, gatePrompt>>,
           UNCHANGED events \/ Emit("TurnEnded"),
           UNCHANGED commands \/ (commands # <<>> /\ Take)
    PROVE  HaltInv'
  <1>1. NoneLive(events') /\ NoneLive(commands')
    BY NoneLiveTail, NoneLiveAppend, Typed DEF HaltInv, NothingLive, Emit, Take
  <1>2. Gone'
    BY DEF HaltInv, Gone, Emit
  <1> QED BY <1>1, <1>2 DEF HaltInv, NothingLive

(* Entering a halt sends its notice, which is the only thing live.           *)
LEMMA ParkingStep ==
    ASSUME TypeInv, HaltInv, ~Parked, Parked', Emit(Notice'),
           UNCHANGED <<frontendOpen, loopPrompt, gatePrompt, commands>>
    PROVE  HaltInv'
  <1>1. Gone'
    BY DEF HaltInv, Gone, Emit
  <1>2. CASE frontendOpen
    <2>1. events' = Append(events, Note(Notice')) /\ Notice' \in {"LoopHalted", "GateHalted"}
      BY <1>2 DEF Emit, Notice
    <2>2. /\ Len(events') = Len(events) + 1 /\ Len(events) \in Nat
          /\ events'[Len(events) + 1] = Note(Notice')
          /\ \A i \in 1..Len(events) : events'[i] = events[i]
      BY <2>1, AfterAppend, Typed
    <2>3. Note(Notice').live /\ Note(Notice').type = Notice'
      BY <2>1 DEF Note
    <2>4. OwnEvents' /\ Reached'
      BY <2>2, <2>3 DEF OwnEvents, Reached, HaltInv, NothingLive, NoneLive
    <2> QED BY <1>1, <2>4 DEF HaltInv, NothingLive, NoneLive, OwnSurface, OwnCommands
  <1>3. CASE ~frontendOpen
    BY <1>1, <1>3
    DEF Emit, HaltInv, NothingLive, NoneLive, OwnSurface, OwnEvents, OwnCommands
  <1> QED BY <1>2, <1>3, Typed

(* Leaving it outdates all there is about it.                                *)
LEMMA LeavingStep ==
    ASSUME TypeInv, HaltInv, Parked, ~Parked', commands # <<>>, LeaveHalt,
           StopTurn \/ events' = Outdated(events)
    PROVE  HaltInv'
  <1>1. Outdated(events) \in Seq(EventSet) /\ Tail(commands) \in Seq(CommandSet)
    BY OutdatedType, Typed
  <1>2. NoneLive(events') /\ NoneLive(commands')
    <2>1. NoneLive(Outdated(events)) /\ NoneLive(Outdated(Tail(commands)))
      BY <1>1, OutdatedIsNotLive, Typed
    <2>2. NoneLive(Append(Outdated(events), Note("TurnEnded")))
      BY <1>1, <2>1, NoneLiveAppend
    <2>3. ~frontendOpen => NoneLive(events)
      BY DEF HaltInv, Gone, NoneLive
    <2> QED BY <2>1, <2>2, <2>3 DEF LeaveHalt, StopTurn
  <1>3. loopPrompt' # "live" /\ gatePrompt' # "live"
    BY DEF LeaveHalt, OutdatePrompts, OutdatedPrompt
  <1>4. Gone'
    <2>1. events = <<>> => Outdated(events) = <<>>
      BY DEF Outdated
    <2> QED BY <2>1 DEF HaltInv, Gone, LeaveHalt, OutdatePrompts, OutdatedPrompt, StopTurn, Nobody
  <1> QED BY <1>2, <1>3, <1>4 DEF HaltInv, NothingLive

(* A command that is not about the halt is not its answer.                   *)
LEMMA IgnoringStep ==
    ASSUME TypeInv, HaltInv, Parked, commands # <<>>, Head(commands).type # Answer, Take,
           UNCHANGED <<phase, events, frontendOpen, loopPrompt, gatePrompt>>
    PROVE  HaltInv'
  <1>1. /\ commands' = Tail(commands) /\ Len(commands') = Len(commands) - 1
        /\ Len(commands) \in Nat \ {0}
        /\ \A i \in 1..Len(commands') :
               commands'[i] = commands[i + 1] /\ i + 1 \in 1..Len(commands)
        /\ \A i \in 1..Len(commands) :
               i # 1 => i - 1 \in 1..Len(commands') /\ commands'[i - 1] = commands[i]
        /\ Head(commands) = commands[1]
    BY AfterTail, Typed DEF Take
  <1>2. OwnCommands /\ OwnCommands'
    BY <1>1 DEF HaltInv, OwnSurface, OwnCommands, Answer
  <1>3. ~commands[1].live
    BY <1>1, <1>2 DEF OwnCommands
  <1>4. (\E i \in 1..Len(commands) : commands[i].live)
            => \E i \in 1..Len(commands') : commands'[i].live
    BY <1>1, <1>3
  <1> QED
    BY <1>2, <1>4
    DEF HaltInv, Gone, Parked, OwnSurface, OwnEvents, Notice, Reached

(* A halt's notice becomes its surface; older notices cannot follow it.      *)
LEMMA ApplyingStep ==
    ASSUME TypeInv, HaltInv, ApplyEvent PROVE HaltInv'
  <1>1. /\ Len(events') = Len(events) - 1 /\ Len(events) \in Nat \ {0}
        /\ \A i \in 1..Len(events') : events'[i] = events[i + 1] /\ i + 1 \in 1..Len(events)
        /\ \A i \in 1..Len(events) :
               i # 1 => i - 1 \in 1..Len(events') /\ events'[i - 1] = events[i]
        /\ Head(events) = events[1] /\ events # <<>> /\ 1 \in 1..Len(events)
        /\ events' \in Seq(EventSet)
    BY AfterTail, Typed DEF ApplyEvent
  <1>2. /\ loopPrompt' \in {loopPrompt, "live", "stale"}
        /\ gatePrompt' \in {gatePrompt, "live", "stale"}
        /\ ~Head(events).live => loopPrompt' \in {loopPrompt, "stale"}
                                  /\ gatePrompt' \in {gatePrompt, "stale"}
        /\ frontendOpen /\ UNCHANGED <<phase, commands, frontendOpen>>
    BY DEF ApplyEvent
  <1>3. CASE ~Parked
    <2>1. NoneLive(events') /\ ~Head(events).live
      BY <1>1, <1>3 DEF HaltInv, NothingLive, NoneLive
    <2> QED BY <1>2, <1>3, <2>1 DEF HaltInv, NothingLive, Gone, Parked
  <1>4. CASE Parked /\ Head(events).live
    <2>1. Len(events) = 1 /\ Head(events).type = Notice
      BY <1>1, <1>4 DEF HaltInv, OwnSurface, OwnEvents
    <2>2. events' = <<>>
      BY <1>1, <2>1
    <2>3. loopPrompt # "live" /\ gatePrompt # "live"
      BY <1>1, <1>4 DEF HaltInv, OwnSurface
    <2>4. IF phase = "loopHalt" THEN loopPrompt' = "live" /\ gatePrompt' = gatePrompt
          ELSE gatePrompt' = "live" /\ loopPrompt' = loopPrompt
      BY <1>4, <2>1 DEF ApplyEvent, Notice
    <2>5. OwnEvents' /\ OwnCommands'
      BY <1>2, <1>4, <2>2 DEF OwnEvents, OwnCommands, HaltInv, OwnSurface, Answer
    <2> QED
      BY <1>2, <1>4, <2>2, <2>3, <2>4, <2>5 DEF HaltInv, Gone, Parked, OwnSurface, Reached
  <1>5. CASE Parked /\ ~Head(events).live
    <2>1. loopPrompt # "live" /\ gatePrompt # "live"
      BY <1>1, <1>5 DEF HaltInv, OwnSurface
    <2>2. loopPrompt' # "live" /\ gatePrompt' # "live"
      BY <1>2, <1>5, <2>1
    <2>3. OwnEvents'
      BY <1>1, <1>2, <1>5 DEF HaltInv, OwnSurface, OwnEvents, Notice
    <2>4. Reached'
      BY <1>1, <1>2, <1>5, <2>1 DEF HaltInv, Reached
    <2> QED
      BY <1>2, <1>5, <2>2, <2>3, <2>4 DEF HaltInv, Gone, Parked, OwnSurface, OwnCommands, Answer
  <1> QED BY <1>3, <1>4, <1>5

(* What the user sends adds a command; it is live if it answers the live     *)
(* surface, which is then its halt's.                                        *)
LEMMA SendingStep ==
    ASSUME TypeInv, HaltInv, NEW type, NEW res, NEW live \in BOOLEAN, Send(type, res, live),
           live => Parked /\ type = Answer,
           \/ UNCHANGED <<loopPrompt, gatePrompt>>
           \/ /\ loopPrompt' = Nobody /\ UNCHANGED gatePrompt
              /\ live <=> loopPrompt = "live"
           \/ /\ gatePrompt' = Nobody /\ UNCHANGED loopPrompt
              /\ live <=> gatePrompt = "live"
    PROVE  HaltInv'
  <1> DEFINE c == [type |-> type, res |-> res, live |-> live]
  <1>1. /\ Len(commands') = Len(commands) + 1 /\ Len(commands) \in Nat
        /\ commands'[Len(commands) + 1] = c
        /\ \A i \in 1..Len(commands) : commands'[i] = commands[i]
    BY AfterAppend, Typed DEF Send
  <1>2. c.live = live /\ c.type = type
    OBVIOUS
  <1>3. frontendOpen /\ UNCHANGED <<phase, events, frontendOpen>>
    BY DEF Send
  <1>4. Gone'
    BY <1>3 DEF Gone
  <1> HIDE DEF c
  <1>5. CASE ~Parked
    <2>1. NoneLive(commands')
      BY <1>1, <1>2, <1>5 DEF HaltInv, NothingLive, NoneLive
    <2> QED BY <1>3, <1>4, <1>5, <2>1 DEF HaltInv, NothingLive, NoneLive, Parked, Nobody
  <1>6. CASE Parked
    <2>1. OwnCommands'
      BY <1>1, <1>2, <1>3, <1>6 DEF HaltInv, OwnSurface, OwnCommands, Answer
    <2>2. OwnEvents'
      BY <1>3, <1>6 DEF HaltInv, OwnSurface, OwnEvents, Notice
    <2>3. (loopPrompt' = "live" => loopPrompt = "live")
          /\ (gatePrompt' = "live" => gatePrompt = "live")
      BY DEF Nobody
    <2>4. live => \E i \in 1..Len(commands') : commands'[i].live
      <3>1. Len(commands) + 1 \in 1..Len(commands')
        BY <1>1
      <3> QED BY <1>1, <1>2, <3>1
    <2>5. (\E i \in 1..Len(commands) : commands[i].live)
              => \E i \in 1..Len(commands') : commands'[i].live
      BY <1>1
    <2>6. Reached'
      BY <1>3, <1>6, <2>4, <2>5 DEF HaltInv, Reached
    <2> QED BY <1>3, <1>4, <1>6, <2>1, <2>2, <2>3, <2>6 DEF HaltInv, OwnSurface, Parked
  <1> QED BY <1>5, <1>6

(* Every step is one of these.                                               *)
LEMMA HaltNext == TypeInv /\ HaltInv /\ [Next]_vars => HaltInv'
  <1> SUFFICES ASSUME TypeInv, HaltInv, [Next]_vars PROVE HaltInv'
    OBVIOUS
  <1>1. CASE OpenStream \/ StreamEnds \/ StreamCommand \/ ToolsCommand
    BY <1>1, WorkingStep
    DEF OpenStream, StreamEnds, StreamCommand, ToolsCommand, TurnCommand, TurnEnds, Parked
  <1>2. CASE SomeToolsEnd
    <2>1. PICK s \in Sig, r \in Result, f \in SUBSET File : ToolsEnd(s, r, f)
      BY <1>2 DEF SomeToolsEnd
    <2>2. CASE phase' = "opening" /\ UNCHANGED events
      BY <2>1, <2>2, WorkingStep DEF ToolsEnd, Parked
    <2>3. CASE phase' = "loopHalt" /\ Emit("LoopHalted")
      BY <2>1, <2>3, ParkingStep DEF ToolsEnd, Parked, Notice
    <2> QED BY <2>1, <2>2, <2>3 DEF ToolsEnd, EvaluateLoop
  <1>3. CASE ChecksEnd
    <2>1. CASE phase' \in {"idle", "opening"} /\ (UNCHANGED events \/ Emit("TurnEnded"))
      BY <1>3, <2>1, WorkingStep DEF ChecksEnd, Parked
    <2>2. CASE phase' = "gateHalt" /\ Emit("GateHalted")
      BY <1>3, <2>2, ParkingStep DEF ChecksEnd, Parked, Notice
    <2> QED BY <1>3, <2>1, <2>2 DEF ChecksEnd, TurnEnds
  <1>4. CASE LoopHaltCommand
    BY <1>4, LeavingStep, IgnoringStep DEF LoopHaltCommand, StopTurn, Parked, Answer
  <1>5. CASE GateHaltCommand
    BY <1>5, LeavingStep, IgnoringStep DEF GateHaltCommand, StopTurn, Parked, Answer
  <1>6. CASE HaltClosed
    BY <1>6 DEF HaltClosed, HaltInv, Gone, Parked, NothingLive, NoneLive, Nobody
  <1>7. CASE IdleCommand \/ IdleClosed
    BY <1>7, WorkingStep DEF IdleCommand, IdleClosed, RunTurn, Parked
  <1>8. CASE ApplyEvent
    BY <1>8, ApplyingStep
  <1>9. CASE SendInput \/ SendCancel \/ SwitchSession
    BY <1>9, SendingStep DEF SendInput, SendCancel, SwitchSession
  <1>10. CASE Resolve
    <2>1. PICK r \in Resolution : ResolveLoop(r) \/ ResolveGate(r)
      BY <1>10 DEF Resolve
    <2>2. (loopPrompt = "live" => Parked /\ Answer = "ResolveLoop")
          /\ (gatePrompt = "live" => Parked /\ Answer = "ResolveGate")
      BY DEF HaltInv, NothingLive, OwnSurface, Parked, Answer
    <2>3. (loopPrompt = "live") \in BOOLEAN /\ (gatePrompt = "live") \in BOOLEAN
      OBVIOUS
    <2>4. CASE ResolveLoop(r)
      BY <2>2, <2>3, <2>4, SendingStep DEF ResolveLoop
    <2>5. CASE ResolveGate(r)
      BY <2>2, <2>3, <2>5, SendingStep DEF ResolveGate
    <2> QED BY <2>1, <2>4, <2>5
  <1>11. CASE Close
    <2>1. /\ ~frontendOpen' /\ events' = <<>> /\ loopPrompt' = Nobody /\ gatePrompt' = Nobody
          /\ UNCHANGED <<phase, commands>>
      BY <1>11 DEF Close
    <2> QED
      BY <2>1
      DEF HaltInv, Gone, Parked, NothingLive, NoneLive, OwnSurface, OwnEvents, OwnCommands,
          Answer, Nobody
  <1>12. CASE UNCHANGED vars
    BY <1>12
    DEF vars, HaltInv, Gone, Parked, NothingLive, NoneLive, OwnSurface, OwnEvents, OwnCommands,
        Notice, Answer, Reached
  <1> QED
    BY <1>1, <1>2, <1>3, <1>4, <1>5, <1>6, <1>7, <1>8, <1>9, <1>10, <1>11, <1>12
    DEF Next, Ended

(* However many commands and events are under way, and whatever halts came   *)
(* before: a parked engine's own surface is before the user, on its way, or  *)
(* answered.  (guardrail.rs await_loop_resolution, app/events.rs)            *)
THEOREM HaltCorrect == Spec => []HaltReachesUser
  <1>1. Spec => [](TypeInv /\ HaltInv)
    BY HaltInit, HaltNext, TypeInvariant, PTL DEF Spec
  <1> QED BY <1>1, ReachedIsReached, PTL
==============================================================================
