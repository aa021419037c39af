---------------------------- MODULE FrontendProofs ----------------------------
(* Theorems about the frontends.  The terminal's, for every capacity, every  *)
(* number of messages, prompts, requests and switches, and any depth of      *)
(* overlays: what the engine waits for is before the user, an answer resumes *)
(* the request it was given to, and the screen settles on the engine's       *)
(* session.  The line frontend, for any number of lines, prompts and tool    *)
(* calls: the line's answer goes to what the engine waits for.  The editor,  *)
(* for any text: keys that move keep it.  The proofs of a part use the names *)
(* of its module; x1 to x15 are its variables in the order in which          *)
(* Frontends gives them.                                                     *)
(*   LineFrontend: typed, stdin, pending, open, done, mode, listed,          *)
(*     commands, events, engine, safetyMode, confined, stored, made, lost.   *)
(*   Editor: buf, cursor, history, browsing, stash, draft.                   *)
EXTENDS Frontends, TLAPS, SequenceTheorems, NaturalsInduction, WellFoundedInduction

------------------------------------------------------------------------------
(* Types                                                                     *)

Prompts == [id : Nat, serial : Nat]
MaybeKinds == Kinds \union {"none"}
CommandSet ==
    [type : {"UserInput", "Answer", "Cancel", "Request", "Switch"}, kind : MaybeKinds,
     prompt : Prompts, arg : {"none", "resume", "stop"} \union Requests \union Nat]
EventSet ==
    [type : {"Prompt", "TurnEnded", "ImageAttached", "MemoryEntries", "Body", "AgentActivity"},
     kind : MaybeKinds, prompt : Prompts]
EngineSet ==
    [phase : {"idle", "hearing", "deaf"}, kind : MaybeKinds, prompt : Prompts, session : Nat,
     staged : Nat, nextPermission : Nat \ {0}, nextAsk : Nat \ {0}]
SentSet == [inputs : Nat, prompts : Nat, requests : Nat, switches : Nat]
HistorySet == [misdirected : BOOLEAN, astray : BOOLEAN, early : BOOLEAN]

(* An answer is to a prompt of its kind; an event that is no prompt carries  *)
(* none; a parked engine hears.                                              *)
CommandsFit ==
    \A i \in 1..Len(commands) :
        /\ commands[i].type = "Answer" => commands[i].kind \in Kinds
        /\ commands[i].type = "Switch" => commands[i].arg \in Nat
EventsFit ==
    \A i \in 1..Len(events) :
        IF events[i].type = "Prompt" THEN events[i].kind \in Kinds
        ELSE events[i].prompt = NoPrompt
TypeOK ==
    /\ slots \in [Kinds -> Prompts]
    /\ busy \in BOOLEAN
    /\ view \in Nat
    /\ commands \in Seq(CommandSet)
    /\ events \in Seq(EventSet)
    /\ engine \in EngineSet
    /\ sent \in SentSet
    /\ history \in HistorySet
    /\ CommandsFit /\ EventsFit
    /\ engine.kind # "none" => engine.phase = "hearing"

------------------------------------------------------------------------------
(* The inductive invariants                                                  *)

(* Prompts come up in the order they were raised, each after those on the    *)
(* screen, and the one the engine waits on was raised last.                  *)
RaisedInOrder ==
    /\ \A i \in 1..Len(events) : events[i].type = "Prompt" =>
          /\ events[i].prompt.serial \in 1..sent.prompts
          /\ \A k \in Kinds : slots[k].serial < events[i].prompt.serial
          /\ \A j \in 1..Len(events) : events[j].type = "Prompt" /\ i < j =>
                events[i].prompt.serial < events[j].prompt.serial
          /\ engine.kind # "none" /\ events[i].prompt = engine.prompt =>
                events[i].kind = engine.kind
    /\ engine.kind # "none" =>
          engine.prompt.serial = sent.prompts /\ engine.prompt.serial > 0
    /\ \A k \in Kinds : slots[k].serial <= sent.prompts
ReachInv == RaisedInOrder /\ ParkedPromptIsShown

(* The spinner turns only while a turn is under way, and the switch sent     *)
(* last, or the engine's session, is what is on the screen.                  *)
SpinnerTells == busy => TurnUnderWay
NoSwitch == \A i \in 1..Len(commands) : commands[i].type # "Switch"
ViewFollows ==
    \/ history.astray
    \/ NoSwitch /\ view = engine.session
    \/ \E i \in 1..Len(commands) :
          /\ commands[i].type = "Switch" /\ commands[i].arg = view
          /\ \A j \in 1..Len(commands) : i < j => commands[j].type # "Switch"
SettleInv == SpinnerTells /\ ViewFollows

(* A prompt that an answer may still be matched with: its id is one the      *)
(* engine gave out, and if it is the awaited one, so is the prompt.          *)
NextId(kind) == IF kind = "permission" THEN engine.nextPermission ELSE engine.nextAsk
Current(kind, prompt) ==
    /\ prompt.id < NextId(kind)
    /\ engine.kind = kind /\ prompt.id = engine.prompt.id => prompt = engine.prompt

AskCurrent ==
    /\ Current("ask", slots["ask"])
    /\ \A i \in 1..Len(events) :
          events[i].type = "Prompt" /\ events[i].kind = "ask" => Current("ask", events[i].prompt)
    /\ \A i \in 1..Len(commands) :
          commands[i].type = "Answer" /\ commands[i].kind = "ask" =>
              Current("ask", commands[i].prompt)

(* Where the ids of permissions start over, nothing of the turns before is   *)
(* left that could be taken for an answer: switches come before messages, no *)
(* prompt is on its way, and none stays on the screen past a message.        *)
PromptBeforeEnd ==
    \A i \in 1..Len(events) : events[i].type = "Prompt" =>
        \/ engine.phase # "idle"
        \/ \E j \in 1..Len(events) : i < j /\ events[j].type = "TurnEnded"
SwitchesFirst ==
    \A j \in 1..Len(commands) : commands[j].type = "Switch" =>
        /\ engine.phase = "idle"
        /\ \A i \in 1..Len(events) : events[i].type \notin {"TurnEnded", "Prompt"}
        /\ \A i \in 1..Len(commands) : commands[i].type = "UserInput" =>
              /\ j < i
              /\ slots["permission"] = NoPrompt
              /\ \A k \in 1..Len(commands) :
                    i < k => ~(commands[k].type = "Answer" /\ commands[k].kind = "permission")
TurnBefore(k) ==
    \/ engine.phase # "idle"
    \/ \E i \in 1..Len(commands) : i < k /\ commands[i].type = "UserInput"
EventsCurrent ==
    \A i \in 1..Len(events) :
        events[i].type = "Prompt" /\ events[i].kind = "permission" =>
            Current("permission", events[i].prompt)
SlotCurrent ==
    TurnBefore(Len(commands) + 1) => Current("permission", slots["permission"])
CommandsCurrent ==
    \A k \in 1..Len(commands) :
        commands[k].type = "Answer" /\ commands[k].kind = "permission" /\ TurnBefore(k) =>
            Current("permission", commands[k].prompt)
PermissionCurrent == EventsCurrent /\ (NoSwitch => SlotCurrent /\ CommandsCurrent)

AwaitedHasId == engine.kind \in Asks => engine.prompt.id > 0
AnswerInv ==
    /\ AwaitedHasId /\ AskCurrent /\ PromptBeforeEnd
    /\ history.early \/ (SwitchesFirst /\ PermissionCurrent /\ ~history.misdirected)

------------------------------------------------------------------------------
(* Queues                                                                    *)

(* What is in a queue to which something was added.                          *)
LEMMA Added ==
    ASSUME NEW S, NEW s \in Seq(S), NEW e \in S, NEW t, t = Append(s, e)
    PROVE  /\ t \in Seq(S) /\ Len(s) \in Nat /\ Len(t) = Len(s) + 1
           /\ t[Len(t)] = e
           /\ \A i \in 1..Len(s) : i \in 1..Len(t) /\ t[i] = s[i]
           /\ \A i \in 1..Len(t) : i = Len(t) \/ (i \in 1..Len(s) /\ t[i] = s[i])
  OBVIOUS

(* What is in a queue from which the head was taken.                         *)
LEMMA Taking ==
    ASSUME NEW S, NEW s \in Seq(S), s # <<>>, NEW t, t = Tail(s)
    PROVE  /\ Head(s) = s[1] /\ s[1] \in S /\ 1 \in 1..Len(s)
           /\ t \in Seq(S) /\ Len(s) \in Nat /\ Len(t) = Len(s) - 1
           /\ \A i \in 1..Len(t) : i + 1 \in 1..Len(s) /\ t[i] = s[i + 1]
           /\ \A i \in 1..Len(s) : i = 1 \/ (i - 1 \in 1..Len(t) /\ t[i - 1] = s[i])
  <1>1. Len(s) \in Nat /\ Len(s) # 0
    BY EmptySeq
  <1>2. t \in Seq(S) /\ Len(t) = Len(s) - 1 /\ \A i \in 1..Len(t) : t[i] = s[i + 1]
    BY HeadTailProperties
  <1>3. Head(s) = s[1] /\ s[1] \in S
    BY <1>1, HeadTailProperties
  <1> QED BY <1>1, <1>2, <1>3

------------------------------------------------------------------------------
(* The keyboard, as far as it matters here                                   *)

Rest ==
    /\ UNCHANGED <<slots, busy, view, events, engine, history>>
    /\ sent' \in SentSet /\ sent'.prompts = sent.prompts
Adds(c) == c \in CommandSet /\ commands' = Append(commands, c)

(* A key changes nothing here, or asks something of the engine.              *)
Browses ==
    /\ Rest
    /\ \/ UNCHANGED commands
       \/ \E c \in CommandSet : c.type \in {"Cancel", "Request"} /\ Adds(c)

(* What a command the keyboard makes is made of.                             *)
LEMMA CommandMade ==
    /\ \A type \in {"UserInput", "Cancel"} :
          Command(type) \in CommandSet /\ Command(type).type = type
    /\ \A what \in Requests : LET c == [Command("Request") EXCEPT !.arg = what] IN
          c \in CommandSet /\ c.type = "Request"
    /\ \A s \in Nat : LET c == [Command("Switch") EXCEPT !.arg = s] IN
          c \in CommandSet /\ c.type = "Switch" /\ c.arg = s
  BY DEF Command, CommandSet, MaybeKinds, Prompts, NoPrompt, Requests

(* Counting a request or a message counts no prompt.                         *)
LEMMA CountType ==
    ASSUME sent \in SentSet, NEW field \in {"inputs", "requests", "switches"}, NEW limit,
           Count(field, limit)
    PROVE  sent' \in SentSet /\ sent'.prompts = sent.prompts
  BY DEF SentSet, Count

(* A request goes to the engine.                                             *)
LEMMA RequestAdds ==
    ASSUME TypeOK, NEW what \in Requests, Request(what)
    PROVE  /\ \E c \in CommandSet : c.type \in {"Cancel", "Request"} /\ Adds(c)
           /\ sent' \in SentSet /\ sent'.prompts = sent.prompts
  <1>1. sent' \in SentSet /\ sent'.prompts = sent.prompts
    BY CountType DEF Request, TypeOK
  <1>2. commands' = Append(commands, [Command("Request") EXCEPT !.arg = what])
    BY DEF Request, Send
  <1> QED BY <1>1, <1>2, CommandMade DEF Adds

(* The actions of the keyboard that browse.                                  *)
LEMMA BrowseSteps ==
    ASSUME TypeOK,
           SendCancel \/ TogglePalette \/ OpenOverlay \/ RunRequest \/ DismissOverlay
              \/ InspectRow \/ PickModel \/ LeaveWizard \/ WatchAgent
    PROVE  Browses
  <1>0. sent \in SentSet
    BY DEF TypeOK
  <1>1. CASE SendCancel
    BY <1>0, <1>1, CommandMade DEF SendCancel, Send, Browses, Rest, Adds
  <1>2. CASE TogglePalette \/ OpenOverlay \/ DismissOverlay
    BY <1>0, <1>2 DEF TogglePalette, OpenOverlay, DismissOverlay, Browses, Rest
  <1>3. CASE RunRequest
    BY <1>0, <1>3, RequestAdds DEF RunRequest, Browses, Rest, Requests
  <1>4. CASE InspectRow
    BY <1>0, <1>4, RequestAdds DEF InspectRow, Browses, Rest, Requests, surface
  <1>5. CASE PickModel
    BY <1>0, <1>5, RequestAdds DEF PickModel, Browses, Rest, Requests
  <1>6. CASE LeaveWizard
    BY <1>0, <1>6, RequestAdds DEF LeaveWizard, Browses, Rest, Requests
  <1>7. CASE WatchAgent
    BY <1>0, <1>7, RequestAdds DEF WatchAgent, Browses, Rest, Requests, surface
  <1> QED BY <1>1, <1>2, <1>3, <1>4, <1>5, <1>6, <1>7

(* A prompt is answered, and leaves the screen.                              *)
Answers(kind, c) ==
    /\ slots[kind] # NoPrompt
    /\ Adds(c) /\ c.type = "Answer" /\ c.kind = kind /\ c.prompt = slots[kind]
    /\ slots' = [slots EXCEPT ![kind] = NoPrompt]
    /\ UNCHANGED <<busy, view, events, engine, sent, history>>

(* A decision key is one of a prompt that is on the screen.                  *)
LEMMA DecideAnswers ==
    ASSUME TypeOK, Decide
    PROVE  \E kind \in Kinds : \E c \in CommandSet : Answers(kind, c)
  <1>1. PICK kind \in Kinds, answer \in {"resume", "stop"} :
           /\ At({kind})
           /\ Send([type |-> "Answer", kind |-> kind, prompt |-> slots[kind], arg |-> answer])
           /\ slots' = [slots EXCEPT ![kind] = NoPrompt]
    BY DEF Decide
  <1> DEFINE c == [type |-> "Answer", kind |-> kind, prompt |-> slots[kind], arg |-> answer]
  <1>2. c \in CommandSet
    BY DEF CommandSet, TypeOK, MaybeKinds
  <1>3. slots[kind] # NoPrompt
    <2>1. kind = Focus \/ kind \in Regions
      BY <1>1 DEF At
    <2>2. CASE kind = Focus
      BY <2>2 DEF Focus, Kinds, Asks, Halts
    <2>3. CASE kind \in Regions
      BY <2>3 DEF Regions, Kinds, Asks, Halts
    <2> QED BY <2>1, <2>2, <2>3
  <1> QED BY <1>1, <1>2, <1>3 DEF Answers, Adds, Send, Decide

(* A message is typed where no prompt is on the screen.                      *)
Submits ==
    /\ slots["permission"] = NoPrompt
    /\ \E c \in CommandSet : c.type = "UserInput" /\ Adds(c)
    /\ sent' \in SentSet /\ sent'.prompts = sent.prompts
    /\ busy' = TRUE
    /\ UNCHANGED <<slots, view, events, engine, history>>

(* Enter on a message.                                                       *)
LEMMA SubmitAdds ==
    ASSUME TypeOK, SubmitMessage
    PROVE  Submits
  <1>1. slots["permission"] = NoPrompt
    BY DEF SubmitMessage, Focus
  <1>2. sent' \in SentSet /\ sent'.prompts = sent.prompts
    BY CountType DEF SubmitMessage, TypeOK
  <1> QED BY <1>1, <1>2, CommandMade DEF Submits, SubmitMessage, Adds, Send, surface

(* A switch turns the view over and is sent, early or not.                   *)
Switches ==
    /\ \E c \in CommandSet : c.type = "Switch" /\ c.arg = view' /\ Adds(c)
    /\ view' \in Nat /\ sent' \in SentSet /\ sent'.prompts = sent.prompts
    /\ history' = [history EXCEPT !.early = @ \/ TurnUnderWay]
    /\ UNCHANGED <<slots, busy, events, engine>>

(* Both ways to switch.                                                      *)
LEMMA SwitchAdds ==
    ASSUME TypeOK, SwitchSession
    PROVE  Switches
  <1>1. sent' \in SentSet /\ sent'.prompts = sent.prompts
    BY CountType DEF SwitchSession, TypeOK
  <1>2. PICK s \in Sessions :
           Send([Command("Switch") EXCEPT !.arg = s]) /\ ResetForSwitch(s)
    BY DEF SwitchSession
  <1>3. s \in Nat
    BY DEF Sessions
  <1> QED BY <1>1, <1>2, <1>3, CommandMade
          DEF Switches, SwitchSession, Adds, Send, ResetForSwitch, MaySwitch

------------------------------------------------------------------------------
(* The engine, as far as it matters here                                     *)

Takes == commands # <<>> /\ commands' = Tail(commands) /\ UNCHANGED <<slots, busy, view, sent>>
First == commands[1]

(* What an engine does with a command that starts no turn, asks for no       *)
(* switch and ends no wait: at most a reply.                                 *)
Serves ==
    /\ engine' \in EngineSet
    /\ engine'.phase = engine.phase /\ engine'.kind = engine.kind
    /\ engine'.prompt = engine.prompt /\ engine'.session = engine.session
    /\ engine'.nextPermission = engine.nextPermission /\ engine'.nextAsk = engine.nextAsk
    /\ \/ UNCHANGED events
       \/ \E e \in EventSet : /\ e.type \notin {"Prompt", "TurnEnded"} /\ e.prompt = NoPrompt
                              /\ events' = Append(events, e)

Starts ==
    /\ Takes /\ engine.phase = "idle" /\ First.type = "UserInput"
    /\ engine' = [engine EXCEPT !.phase = "deaf", !.staged = 0]
    /\ UNCHANGED <<events, history>>
Moves ==
    /\ Takes /\ engine.phase = "idle" /\ First.type = "Switch"
    /\ engine' = [engine EXCEPT !.session = First.arg, !.staged = 0, !.nextPermission = 1]
    /\ UNCHANGED <<events, history>>
Stays ==
    /\ Takes /\ engine.phase = "idle" /\ First.type = "Switch"
    /\ history' = [history EXCEPT !.astray = TRUE]
    /\ UNCHANGED <<events, engine>>
Strays ==
    /\ Takes /\ engine.phase = "idle" /\ First.type \notin {"UserInput", "Switch"}
    /\ Serves /\ UNCHANGED history
Drops ==
    /\ Takes /\ engine.phase # "idle" /\ ~Matches(First) /\ First.type # "Cancel"
    /\ history' = [history EXCEPT !.astray = @ \/ First.type = "Switch"]
    /\ UNCHANGED <<events, engine>>
(* An answer is matched; whether it was meant for the request is remembered. *)
Met ==
    /\ Takes /\ engine.phase # "idle" /\ Matches(First)
    /\ history' = [history EXCEPT !.misdirected =
                      @ \/ (First.kind \in Asks /\ First.prompt # engine.prompt)]
Resumes ==
    /\ Met
    /\ engine' \in EngineSet /\ engine'.phase # "idle"
    /\ engine'.kind = "none" /\ engine'.session = engine.session
    /\ engine'.nextPermission = engine.nextPermission /\ engine'.nextAsk = engine.nextAsk
    /\ UNCHANGED events
Ends ==
    /\ EndTurn /\ engine.phase # "idle" /\ UNCHANGED <<slots, busy, view, sent>>
    /\ \/ UNCHANGED <<commands, history>>
       \/ Takes /\ First.type = "Cancel" /\ UNCHANGED history
       \/ Met
Turns ==
    /\ engine.phase # "idle" /\ engine.kind = "none"
    /\ engine' \in EngineSet /\ engine'.phase # "idle" /\ engine'.kind = "none"
    /\ engine'.session = engine.session
    /\ engine'.nextPermission = engine.nextPermission /\ engine'.nextAsk = engine.nextAsk
    /\ UNCHANGED <<slots, busy, view, commands, events, sent, history>>

(* Between turns.                                                            *)
LEMMA IdleSteps ==
    ASSUME TypeOK, TakeAtIdle
    PROVE  Starts \/ Moves \/ Stays \/ Strays
  <1>1. Takes /\ Head(commands) = First /\ First \in CommandSet /\ engine.phase = "idle"
    BY Taking DEF TakeAtIdle, Taken, Takes, First, ByTheWay, surface, TypeOK
  <1>2. CASE First.type = "UserInput"
    BY <1>1, <1>2 DEF TakeAtIdle, Starts
  <1>3. CASE First.type = "Switch"
    BY <1>1, <1>3 DEF TakeAtIdle, Moves, Stays
  <1>4. CASE First.type \in {"Cancel", "Answer"}
    BY <1>1, <1>4 DEF TakeAtIdle, Strays, Serves, TypeOK, EngineSet
  <1>5. CASE First.type = "Request"
    <2>1. UNCHANGED history
      BY <1>1, <1>5 DEF TakeAtIdle
    <2>2. \A type \in {"ImageAttached", "MemoryEntries", "Body", "AgentActivity"} :
             /\ Event(type) \in EventSet /\ Event(type).type = type
             /\ Event(type).prompt = NoPrompt
      BY DEF Event, EventSet, MaybeKinds, Prompts, NoPrompt
    <2>3. CASE First.arg = "attach"
      <3>1. events' = Append(events, Event("ImageAttached"))
            /\ engine' = [engine EXCEPT !.staged = @ + 1]
        BY <1>1, <1>5, <2>3 DEF TakeAtIdle, Emits
      <3>2. /\ engine' \in EngineSet
            /\ engine'.phase = engine.phase /\ engine'.kind = engine.kind
            /\ engine'.prompt = engine.prompt /\ engine'.session = engine.session
            /\ engine'.nextPermission = engine.nextPermission
            /\ engine'.nextAsk = engine.nextAsk
        <4>1. engine \in EngineSet
          BY DEF TypeOK
        <4>2. engine.staged + 1 \in Nat
          BY <4>1 DEF EngineSet
        <4> QED BY <3>1, <4>1, <4>2 DEF EngineSet
      <3>3. Serves
        BY <2>2, <3>1, <3>2 DEF Serves
      <3> QED BY <1>1, <1>5, <2>1, <3>3 DEF Strays
    <2>4. CASE First.arg # "attach"
      <3>1. Reply(First.arg) /\ engine' = engine
        BY <1>1, <1>5, <2>4 DEF TakeAtIdle
      <3>2. UNCHANGED events \/ \E type \in {"MemoryEntries", "Body", "AgentActivity"} :
                                    events' = Append(events, Event(type))
        BY <3>1 DEF Reply, Emits
      <3>3. Serves
        BY <2>2, <3>1, <3>2 DEF Serves, TypeOK
      <3> QED BY <1>1, <1>5, <2>1, <3>3 DEF Strays
    <2> QED BY <2>3, <2>4
  <1> QED BY <1>1, <1>2, <1>3, <1>4, <1>5 DEF CommandSet

(* During one.                                                               *)
LEMMA TurnSteps ==
    ASSUME TypeOK, TakeInTurn
    PROVE  Drops \/ Resumes \/ Ends
  <1>1. Takes /\ Head(commands) = First /\ First \in CommandSet /\ engine.phase # "idle"
    BY Taking DEF TakeInTurn, Taken, Takes, First, ByTheWay, surface, TypeOK
  <1>2. CASE ~Matches(First) /\ First.type # "Cancel"
    BY <1>1, <1>2 DEF TakeInTurn, Drops
  <1>3. CASE First.type = "Cancel"
    BY <1>1, <1>3 DEF TakeInTurn, Matches, Ends, Takes
  <1>4. CASE Matches(First)
    <2>1. Resumed(First) /\ Met
      BY <1>1, <1>4 DEF TakeInTurn, Matches, Resumed, Met
    <2>2. CASE First.kind \in Halts /\ First.arg = "stop"
      BY <1>1, <2>1, <2>2 DEF Resumed, Ends, Takes
    <2>3. CASE ~(First.kind \in Halts /\ First.arg = "stop")
      <3>1. /\ engine' = [engine EXCEPT !.kind = "none", !.prompt = NoPrompt,
                             !.phase = IF First.kind \in Asks THEN "hearing" ELSE "deaf"]
            /\ UNCHANGED events
        BY <2>1, <2>3 DEF Resumed
      <3>2. engine \in EngineSet /\ NoPrompt \in Prompts /\ "none" \in MaybeKinds
        BY DEF TypeOK, NoPrompt, Prompts, MaybeKinds
      <3>3. /\ engine' \in EngineSet /\ engine'.phase # "idle"
            /\ engine'.kind = "none" /\ engine'.session = engine.session
            /\ engine'.nextPermission = engine.nextPermission
            /\ engine'.nextAsk = engine.nextAsk
        BY <3>1, <3>2 DEF EngineSet
      <3> QED BY <2>1, <3>1, <3>3 DEF Resumes
    <2> QED BY <2>2, <2>3
  <1> QED BY <1>2, <1>3, <1>4

(* By itself.                                                                *)
LEMMA LoneSteps ==
    ASSUME TypeOK, HearsAgain \/ TurnsDeaf \/ TurnEnds
    PROVE  Turns \/ Ends
  BY DEF TypeOK, HearsAgain, TurnsDeaf, TurnEnds, Turns, Ends, EngineSet, surface

(* A prompt is raised, and the engine waits for its answer.                  *)
Raises(kind) ==
    /\ engine.phase # "idle" /\ engine.kind = "none"
    /\ engine' \in EngineSet
    /\ engine'.phase = "hearing" /\ engine'.kind = kind
    /\ engine'.prompt = [id |-> IdOf(kind), serial |-> sent.prompts + 1]
    /\ engine'.session = engine.session
    /\ engine'.nextPermission = engine.nextPermission + (IF kind = "permission" THEN 1 ELSE 0)
    /\ engine'.nextAsk = engine.nextAsk + (IF kind = "ask" THEN 1 ELSE 0)
    /\ \E e \in EventSet : /\ e.type = "Prompt" /\ e.kind = kind /\ e.prompt = engine'.prompt
                           /\ events' = Append(events, e)
    /\ sent' \in SentSet /\ sent'.prompts = sent.prompts + 1
    /\ UNCHANGED <<slots, busy, view, commands, history>>

(* Parking does that.                                                        *)
LEMMA ParkRaises ==
    ASSUME TypeOK, NEW kind \in Kinds, Park(kind)
    PROVE  Raises(kind)
  <1> DEFINE p == [id |-> IdOf(kind), serial |-> sent.prompts + 1]
  <1>1. p \in Prompts
    BY DEF TypeOK, IdOf, Prompts, EngineSet, SentSet
  <1>2. engine' = [engine EXCEPT !.phase = "hearing", !.kind = kind, !.prompt = p,
                     !.nextPermission = IF kind = "permission" THEN @ + 1 ELSE @,
                     !.nextAsk = IF kind = "ask" THEN @ + 1 ELSE @]
    BY DEF Park
  <1>3. engine' \in EngineSet
    <2>1. engine \in EngineSet
      BY DEF TypeOK
    <2>2. /\ (IF kind = "permission" THEN engine.nextPermission + 1
              ELSE engine.nextPermission) \in Nat \ {0}
          /\ (IF kind = "ask" THEN engine.nextAsk + 1 ELSE engine.nextAsk) \in Nat \ {0}
      BY <2>1 DEF EngineSet
    <2>3. kind \in MaybeKinds
      BY DEF MaybeKinds
    <2> HIDE DEF p
    <2> QED BY <1>1, <1>2, <2>1, <2>2, <2>3 DEF EngineSet
  <1>4. /\ engine'.phase = "hearing" /\ engine'.kind = kind /\ engine'.prompt = p
        /\ engine'.session = engine.session
        /\ engine'.nextPermission = engine.nextPermission + (IF kind = "permission" THEN 1 ELSE 0)
        /\ engine'.nextAsk = engine.nextAsk + (IF kind = "ask" THEN 1 ELSE 0)
    BY <1>2 DEF TypeOK, EngineSet
  <1>5. sent' \in SentSet /\ sent'.prompts = sent.prompts + 1
    BY DEF Park, Count, SentSet, TypeOK
  <1> DEFINE e == [Event("Prompt") EXCEPT !.kind = kind, !.prompt = p]
  <1>6. e \in EventSet /\ e.type = "Prompt" /\ e.kind = kind /\ e.prompt = p
    BY <1>1 DEF Event, EventSet, MaybeKinds, NoPrompt, Prompts
  <1>7. events' = Append(events, e)
    BY DEF Park, Emits
  <1>8. engine.phase # "idle" /\ engine.kind = "none"
    BY DEF Park
  <1>9. UNCHANGED <<slots, busy, view, commands, history>>
    BY DEF Park, surface
  <1> QED BY <1>3, <1>4, <1>5, <1>6, <1>7, <1>8, <1>9 DEF Raises

------------------------------------------------------------------------------
(* An event is shown.                                                        *)
Shows ==
    /\ events # <<>> /\ events' = Tail(events)
    /\ \/ /\ events[1].type = "Prompt"
          /\ slots' = [slots EXCEPT ![events[1].kind] = events[1].prompt]
          /\ UNCHANGED busy
       \/ events[1].type = "TurnEnded" /\ busy' = FALSE /\ UNCHANGED slots
       \/ events[1].type \notin {"Prompt", "TurnEnded"} /\ UNCHANGED <<slots, busy>>
    /\ UNCHANGED <<view, commands, engine, sent, history>>

(* Applying an event does that.                                              *)
LEMMA ApplyShows ==
    ASSUME TypeOK, ApplyEvent
    PROVE  Shows
  <1>1. Head(events) = events[1]
    BY Taking DEF ApplyEvent, TypeOK
  <1> QED BY <1>1 DEF ApplyEvent, Shows, ShowPrompt, ApplyTurnEnded, TurnEnded,
                      ShowAttachment, ShowReply

(* Every step is one of these.                                               *)
LEMMA Steps ==
    ASSUME TypeOK, [Next]_vars
    PROVE  \/ Browses \/ (\E kind \in Kinds : \E c \in CommandSet : Answers(kind, c))
           \/ Submits \/ Switches \/ Shows
           \/ Starts \/ Moves \/ Stays \/ Strays \/ Drops \/ Resumes \/ Ends \/ Turns
           \/ \E kind \in Kinds : Raises(kind)
  <1>1. CASE UNCHANGED vars
    BY <1>1 DEF vars, surface, Browses, Rest, TypeOK
  <1>2. CASE Parks
    BY <1>2, ParkRaises DEF Parks
  <1> QED BY <1>1, <1>2, BrowseSteps, DecideAnswers, SubmitAdds, SwitchAdds, ApplyShows,
             IdleSteps, TurnSteps, LoneSteps DEF Next

------------------------------------------------------------------------------
(* Types                                                                     *)

(* A queue of commands stays one when a command is added.                    *)
LEMMA CommandAdded ==
    ASSUME TypeOK, NEW c, Adds(c),
           c.type = "Answer" => c.kind \in Kinds, c.type = "Switch" => c.arg \in Nat
    PROVE  commands' \in Seq(CommandSet) /\ CommandsFit'
  BY Added DEF TypeOK, Adds, CommandsFit

(* It stays one when the first is taken.                                     *)
LEMMA CommandTaken ==
    ASSUME TypeOK, Takes
    PROVE  /\ commands' \in Seq(CommandSet) /\ CommandsFit'
           /\ First \in CommandSet /\ (First.type = "Switch" => First.arg \in Nat)
  <1>1. commands \in Seq(CommandSet) /\ CommandsFit
    BY DEF TypeOK
  <1>2. /\ First \in CommandSet /\ 1 \in 1..Len(commands)
        /\ commands' \in Seq(CommandSet)
        /\ \A i \in 1..Len(commands') : i + 1 \in 1..Len(commands) /\ commands'[i] = commands[i + 1]
    BY <1>1, Taking DEF Takes, First
  <1> QED BY <1>1, <1>2 DEF CommandsFit, First

(* A queue of events stays one when an event is added.                       *)
LEMMA EventAdded ==
    ASSUME TypeOK, NEW e \in EventSet, events' = Append(events, e),
           IF e.type = "Prompt" THEN e.kind \in Kinds ELSE e.prompt = NoPrompt
    PROVE  events' \in Seq(EventSet) /\ EventsFit'
  BY Added DEF TypeOK, EventsFit

(* A turn that ends leaves an engine that waits for nothing.                 *)
LEMMA EndTurnType ==
    ASSUME TypeOK, EndTurn
    PROVE  /\ engine' \in EngineSet /\ engine'.phase = "idle" /\ engine'.kind = "none"
           /\ engine'.session = engine.session
           /\ engine'.nextPermission = engine.nextPermission /\ engine'.nextAsk = engine.nextAsk
           /\ \E e \in EventSet : /\ e.type = "TurnEnded" /\ e.prompt = NoPrompt
                                  /\ events' = Append(events, e)
  <1>1. engine \in EngineSet /\ NoPrompt \in Prompts /\ "none" \in MaybeKinds
    BY DEF TypeOK, NoPrompt, Prompts, MaybeKinds
  <1>2. /\ Event("TurnEnded") \in EventSet /\ Event("TurnEnded").type = "TurnEnded"
        /\ Event("TurnEnded").prompt = NoPrompt
    BY DEF Event, EventSet, MaybeKinds, Prompts, NoPrompt
  <1>3. events' = Append(events, Event("TurnEnded"))
    BY DEF EndTurn, Emits
  <1>4. engine' = [engine EXCEPT !.phase = "idle", !.kind = "none", !.prompt = NoPrompt]
    BY DEF EndTurn
  <1>5. /\ engine' \in EngineSet /\ engine'.phase = "idle" /\ engine'.kind = "none"
        /\ engine'.session = engine.session
        /\ engine'.nextPermission = engine.nextPermission /\ engine'.nextAsk = engine.nextAsk
    BY <1>1, <1>4 DEF EngineSet
  <1> QED BY <1>2, <1>3, <1>5

(* Nothing is open, under way or asked for at first.                         *)
LEMMA TypeInit == Init => TypeOK
  <1> SUFFICES ASSUME Init PROVE TypeOK
    OBVIOUS
  <1>1. slots \in [Kinds -> Prompts] /\ engine \in EngineSet
    BY DEF Init, Prompts, NoPrompt, EngineSet, MaybeKinds
  <1>2. sent \in SentSet /\ history \in HistorySet /\ busy \in BOOLEAN /\ view \in Nat
    BY DEF Init, SentSet, HistorySet
  <1>3. /\ commands \in Seq(CommandSet) /\ CommandsFit
        /\ events \in Seq(EventSet) /\ EventsFit
    BY DEF Init, CommandsFit, EventsFit
  <1>4. engine.kind = "none"
    BY DEF Init
  <1> QED BY <1>1, <1>2, <1>3, <1>4 DEF TypeOK

(* Types are kept.                                                           *)
LEMMA TypeStep ==
    ASSUME TypeOK, [Next]_vars
    PROVE  TypeOK'
  <1>1. /\ slots \in [Kinds -> Prompts] /\ busy \in BOOLEAN /\ view \in Nat
        /\ commands \in Seq(CommandSet) /\ CommandsFit /\ events \in Seq(EventSet) /\ EventsFit
        /\ engine \in EngineSet /\ sent \in SentSet /\ history \in HistorySet
        /\ NoPrompt \in Prompts
        /\ engine.kind # "none" => engine.phase = "hearing"
    BY DEF TypeOK, NoPrompt, Prompts
  <1>2. CASE Browses
    <2>1. commands' \in Seq(CommandSet) /\ CommandsFit'
      <3>1. CASE UNCHANGED commands
        BY <1>1, <3>1 DEF CommandsFit
      <3>2. CASE ~UNCHANGED commands
        BY <1>2, <3>2, CommandAdded DEF Browses
      <3> QED BY <3>1, <3>2
    <2> QED BY <1>1, <1>2, <2>1 DEF Browses, Rest, TypeOK, EventsFit
  <1>3. ASSUME NEW kind \in Kinds, NEW c \in CommandSet, Answers(kind, c)
        PROVE  TypeOK'
    <2>1. commands' \in Seq(CommandSet) /\ CommandsFit'
      BY <1>3, CommandAdded DEF Answers
    <2> QED BY <1>1, <1>3, <2>1 DEF Answers, TypeOK, EventsFit
  <1>4. CASE Submits
    <2>1. commands' \in Seq(CommandSet) /\ CommandsFit'
      BY <1>4, CommandAdded DEF Submits
    <2> QED BY <1>1, <1>4, <2>1 DEF Submits, TypeOK, EventsFit
  <1>5. CASE Switches
    <2>1. commands' \in Seq(CommandSet) /\ CommandsFit'
      BY <1>5, CommandAdded DEF Switches
    <2>2. TurnUnderWay \in BOOLEAN
      BY DEF TurnUnderWay
    <2>3. history' \in HistorySet
      BY <1>1, <1>5, <2>2 DEF Switches, HistorySet
    <2> QED BY <1>1, <1>5, <2>1, <2>3 DEF Switches, TypeOK, EventsFit
  <1>6. CASE Shows
    <2>1. /\ events' \in Seq(EventSet) /\ events[1] \in EventSet /\ 1 \in 1..Len(events)
          /\ \A i \in 1..Len(events') : i + 1 \in 1..Len(events) /\ events'[i] = events[i + 1]
      BY <1>1, <1>6, Taking DEF Shows
    <2>2. EventsFit'
      BY <1>1, <2>1 DEF EventsFit
    <2>3. slots' \in [Kinds -> Prompts] /\ busy' \in BOOLEAN
      BY <1>1, <1>6, <2>1 DEF Shows, EventsFit, EventSet
    <2> QED BY <1>1, <1>6, <2>1, <2>2, <2>3 DEF Shows, TypeOK, CommandsFit
  <1>7. CASE Starts \/ Moves \/ Stays \/ Strays \/ Drops \/ Resumes
    <2>1. /\ commands' \in Seq(CommandSet) /\ CommandsFit'
          /\ First \in CommandSet /\ (First.type = "Switch" => First.arg \in Nat)
      BY <1>7, CommandTaken DEF Starts, Moves, Stays, Strays, Drops, Resumes, Met
    <2>2. slots' = slots /\ busy' = busy /\ view' = view /\ sent' = sent
      BY <1>7 DEF Starts, Moves, Stays, Strays, Drops, Resumes, Met, Takes
    <2>3. events' \in Seq(EventSet) /\ EventsFit'
      <3>1. CASE Strays
        BY <1>1, <3>1, EventAdded DEF Strays, Serves, EventsFit
      <3> QED BY <1>1, <1>7, <3>1 DEF Starts, Moves, Stays, Drops, Resumes, EventsFit
    <2>4. engine' \in EngineSet /\ (engine'.kind # "none" => engine'.phase = "hearing")
      <3>1. CASE Starts
        <4>1. engine' = [engine EXCEPT !.phase = "deaf", !.staged = 0] /\ engine.kind = "none"
          BY <1>1, <3>1 DEF Starts
        <4>2. engine' \in EngineSet /\ engine'.kind = "none"
          BY <1>1, <4>1 DEF EngineSet
        <4> QED BY <4>2
      <3>2. CASE Moves
        <4>1. engine' = [engine EXCEPT !.session = First.arg, !.staged = 0, !.nextPermission = 1]
              /\ First.arg \in Nat /\ engine.kind = "none"
          BY <1>1, <2>1, <3>2 DEF Moves
        <4>2. PICK s \in Nat : s = First.arg
          BY <4>1
        <4>3. engine' = [engine EXCEPT !.session = s, !.staged = 0, !.nextPermission = 1]
          BY <4>1, <4>2
        <4>4. engine' \in EngineSet
          <5>1. 1 \in Nat \ {0} /\ 0 \in Nat
            OBVIOUS
          <5> QED BY <1>1, <4>3, <5>1, Zenon DEF EngineSet
        <4>5. engine'.kind = "none"
          BY <1>1, <4>1 DEF EngineSet
        <4> QED BY <4>4, <4>5
      <3>3. CASE Stays \/ Drops
        BY <1>1, <3>3 DEF Stays, Drops
      <3>4. CASE Strays
        BY <1>1, <3>4 DEF Strays, Serves
      <3>5. CASE Resumes
        BY <3>5 DEF Resumes
      <3> QED BY <1>7, <3>1, <3>2, <3>3, <3>4, <3>5
    <2>5. history' \in HistorySet
      BY <1>1, <1>7 DEF Starts, Moves, Stays, Strays, Drops, Resumes, Met, HistorySet
    <2> QED BY <1>1, <2>1, <2>2, <2>3, <2>4, <2>5 DEF TypeOK
  <1>8. CASE Ends
    <2>1. /\ engine' \in EngineSet /\ engine'.kind = "none"
          /\ events' \in Seq(EventSet) /\ EventsFit'
      BY <1>8, EndTurnType, EventAdded DEF Ends
    <2>2. commands' \in Seq(CommandSet) /\ CommandsFit'
      <3>1. CASE UNCHANGED commands
        BY <1>1, <3>1 DEF CommandsFit
      <3>2. CASE Takes
        BY <3>2, CommandTaken
      <3> QED BY <1>8, <3>1, <3>2 DEF Ends, Met
    <2>3. history' \in HistorySet
      BY <1>1, <1>8 DEF Ends, Met, HistorySet
    <2> QED BY <1>1, <1>8, <2>1, <2>2, <2>3 DEF Ends, TypeOK
  <1>9. CASE Turns
    BY <1>1, <1>9 DEF Turns, TypeOK, CommandsFit, EventsFit
  <1>10. ASSUME NEW kind \in Kinds, Raises(kind)
         PROVE  TypeOK'
    <2>1. events' \in Seq(EventSet) /\ EventsFit'
      BY <1>10, EventAdded DEF Raises
    <2> QED BY <1>1, <1>10, <2>1 DEF Raises, TypeOK, CommandsFit
  <1> QED BY <1>2, <1>3, <1>4, <1>5, <1>6, <1>7, <1>8, <1>9, <1>10, Steps

------------------------------------------------------------------------------
(* What the engine waits for is before the user                              *)

(* Events stay, or one that is no prompt is added.                           *)
NoPromptAdded ==
    \/ UNCHANGED events
    \/ \E e \in EventSet : e.type # "Prompt" /\ e.prompt = NoPrompt /\ events' = Append(events, e)

(* The order of prompts is kept where none is raised or shown.               *)
LEMMA OrderKept ==
    ASSUME TypeOK, RaisedInOrder, NoPromptAdded, sent'.prompts = sent.prompts,
           \A k \in Kinds : slots'[k] = slots[k] \/ slots'[k] = NoPrompt,
           \/ engine'.kind = "none"
           \/ engine'.kind = engine.kind /\ engine'.prompt = engine.prompt
    PROVE  RaisedInOrder'
  <1>1. /\ events \in Seq(EventSet) /\ NoPrompt.serial = 0
        /\ \A k \in Kinds : slots[k].serial \in Nat
        /\ sent.prompts \in Nat
    BY DEF TypeOK, NoPrompt, SentSet, Prompts
  <1>2. /\ Len(events) \in Nat /\ Len(events') \in Nat
        /\ \A i \in 1..Len(events') :
              \/ i \in 1..Len(events) /\ events'[i] = events[i]
              \/ events'[i].type # "Prompt"
    <2>1. CASE UNCHANGED events
      BY <1>1, <2>1
    <2>2. CASE ~UNCHANGED events
      <3>1. PICK e \in EventSet : e.type # "Prompt" /\ events' = Append(events, e)
        BY <2>2 DEF NoPromptAdded
      <3> QED BY <1>1, <3>1, Added
    <2> QED BY <2>1, <2>2
  <1>3. \A k \in Kinds : slots'[k].serial <= slots[k].serial /\ slots'[k].serial \in Nat
    BY <1>1
  <1>4. ASSUME NEW i \in 1..Len(events'), events'[i].type = "Prompt"
        PROVE  /\ events'[i].prompt.serial \in 1..sent'.prompts
               /\ \A k \in Kinds : slots'[k].serial < events'[i].prompt.serial
               /\ \A j \in 1..Len(events') : events'[j].type = "Prompt" /\ i < j =>
                     events'[i].prompt.serial < events'[j].prompt.serial
               /\ engine'.kind # "none" /\ events'[i].prompt = engine'.prompt =>
                     events'[i].kind = engine'.kind
    <2>1. i \in 1..Len(events) /\ events'[i] = events[i]
      BY <1>2, <1>4
    <2>2. events[i].prompt.serial \in 1..sent.prompts
      BY <1>4, <2>1 DEF RaisedInOrder
    <2>3. \A k \in Kinds : slots[k].serial < events[i].prompt.serial
      BY <1>4, <2>1 DEF RaisedInOrder
    <2>4. \A k \in Kinds : slots'[k].serial < events[i].prompt.serial
      BY <1>1, <1>3, <2>2, <2>3
    <2>5. \A j \in 1..Len(events) : events[j].type = "Prompt" /\ i < j =>
             events[i].prompt.serial < events[j].prompt.serial
      BY <1>4, <2>1 DEF RaisedInOrder
    <2>6. engine.kind # "none" /\ events[i].prompt = engine.prompt =>
             events[i].kind = engine.kind
      BY <1>4, <2>1 DEF RaisedInOrder
    <2> QED BY <1>2, <2>1, <2>2, <2>4, <2>5, <2>6
  <1>5. engine'.kind # "none" =>
          engine'.prompt.serial = sent'.prompts /\ engine'.prompt.serial > 0
    BY DEF RaisedInOrder
  <1>6. \A k \in Kinds : slots'[k].serial <= sent'.prompts
    <2>1. \A k \in Kinds : slots[k].serial <= sent.prompts
      BY DEF RaisedInOrder
    <2> QED BY <1>1, <1>3, <2>1
  <1> QED BY <1>4, <1>5, <1>6 DEF RaisedInOrder

(* An event that is shown is the first: what it shows is older than the rest.*)
LEMMA OrderShown ==
    ASSUME TypeOK, RaisedInOrder, Shows
    PROVE  RaisedInOrder'
  <1>1. /\ events \in Seq(EventSet) /\ slots \in [Kinds -> Prompts] /\ EventsFit
        /\ sent' = sent /\ engine' = engine
    BY DEF TypeOK, Shows
  <1>2. /\ 1 \in 1..Len(events) /\ Len(events) \in Nat
        /\ \A i \in 1..Len(events') : i + 1 \in 1..Len(events) /\ events'[i] = events[i + 1]
    BY <1>1, Taking DEF Shows
  <1>3. \A k \in Kinds : \/ slots'[k] = slots[k]
                         \/ events[1].type = "Prompt" /\ slots'[k] = events[1].prompt
    BY <1>1 DEF Shows
  <1>4. ASSUME NEW i \in 1..Len(events'), events'[i].type = "Prompt"
        PROVE  /\ events'[i].prompt.serial \in 1..sent'.prompts
               /\ \A k \in Kinds : slots'[k].serial < events'[i].prompt.serial
               /\ \A j \in 1..Len(events') : events'[j].type = "Prompt" /\ i < j =>
                     events'[i].prompt.serial < events'[j].prompt.serial
               /\ engine'.kind # "none" /\ events'[i].prompt = engine'.prompt =>
                     events'[i].kind = engine'.kind
    <2>1. i + 1 \in 1..Len(events) /\ events'[i] = events[i + 1] /\ 1 < i + 1
      BY <1>2
    <2>2. events[i + 1].prompt.serial \in 1..sent.prompts
      BY <1>4, <2>1 DEF RaisedInOrder
    <2>3. \A k \in Kinds : slots[k].serial < events[i + 1].prompt.serial
      BY <1>4, <2>1 DEF RaisedInOrder
    <2>4. events[1].type = "Prompt" => events[1].prompt.serial < events[i + 1].prompt.serial
      BY <1>2, <1>4, <2>1 DEF RaisedInOrder
    <2>5. \A j \in 1..Len(events) : events[j].type = "Prompt" /\ i + 1 < j =>
             events[i + 1].prompt.serial < events[j].prompt.serial
      BY <1>4, <2>1 DEF RaisedInOrder
    <2>6. engine.kind # "none" /\ events[i + 1].prompt = engine.prompt =>
             events[i + 1].kind = engine.kind
      BY <1>4, <2>1 DEF RaisedInOrder
    <2>7. \A j \in 1..Len(events') : events'[j].type = "Prompt" /\ i < j =>
             events'[i].prompt.serial < events'[j].prompt.serial
      <3> TAKE j \in 1..Len(events')
      <3>1. j + 1 \in 1..Len(events) /\ events'[j] = events[j + 1]
        BY <1>2
      <3>2. i < j => i + 1 < j + 1
        BY <2>1
      <3> QED BY <2>1, <2>5, <3>1, <3>2
    <2>8. \A k \in Kinds : slots'[k].serial < events'[i].prompt.serial
      BY <1>3, <2>1, <2>3, <2>4
    <2> QED BY <1>1, <2>1, <2>2, <2>6, <2>7, <2>8
  <1>5. engine.kind # "none" => engine.prompt.serial = sent.prompts /\ engine.prompt.serial > 0
    BY DEF RaisedInOrder
  <1>6. \A k \in Kinds : slots'[k].serial <= sent.prompts
    <2>1. \A k \in Kinds : slots[k].serial <= sent.prompts
      BY DEF RaisedInOrder
    <2>2. events[1].type = "Prompt" => events[1].prompt.serial <= sent.prompts
      <3>1. events[1].type = "Prompt" => events[1].prompt.serial \in 1..sent.prompts
        BY <1>2 DEF RaisedInOrder
      <3>2. sent.prompts \in Nat
        BY DEF TypeOK, SentSet
      <3> QED BY <3>1, <3>2
    <2> QED BY <1>3, <2>1, <2>2
  <1> QED BY <1>1, <1>4, <1>5, <1>6 DEF RaisedInOrder

(* A prompt that is raised is the latest of all.                             *)
LEMMA OrderRaised ==
    ASSUME TypeOK, RaisedInOrder, NEW kind \in Kinds, Raises(kind)
    PROVE  RaisedInOrder'
  <1>1. /\ events \in Seq(EventSet) /\ slots \in [Kinds -> Prompts]
        /\ \A k \in Kinds : slots[k].serial \in Nat
        /\ sent.prompts \in Nat
    BY DEF TypeOK, Prompts, SentSet
  <1>2. PICK e \in EventSet : /\ e.type = "Prompt" /\ e.kind = kind /\ e.prompt = engine'.prompt
                             /\ events' = Append(events, e)
    BY DEF Raises
  <1>3. /\ Len(events) \in Nat /\ Len(events') = Len(events) + 1 /\ events'[Len(events')] = e
        /\ \A i \in 1..Len(events') :
              i = Len(events') \/ (i \in 1..Len(events) /\ events'[i] = events[i])
    BY <1>1, <1>2, Added
  <1>4. /\ engine'.prompt.serial = sent.prompts + 1 /\ sent'.prompts = sent.prompts + 1
        /\ slots' = slots /\ engine'.kind = kind
    BY DEF Raises
  <1> QED BY <1>1, <1>2, <1>3, <1>4 DEF RaisedInOrder

(* A command that was added is witness to what witnessed before.             *)
LEMMA WaitKept ==
    ASSUME TypeOK, ParkedPromptIsShown, NEW c \in CommandSet, Adds(c),
           UNCHANGED <<slots, events, engine>>
    PROVE  ParkedPromptIsShown'
  <1>1. \A i \in DOMAIN commands : i \in DOMAIN commands' /\ commands'[i] = commands[i]
    BY Added DEF TypeOK, Adds
  <1> QED BY <1>1 DEF ParkedPromptIsShown, Matches

(* Nothing is parked, or the head was none of the commands that end a wait.  *)
LEMMA WaitDrops ==
    ASSUME TypeOK, ParkedPromptIsShown, Drops
    PROVE  ParkedPromptIsShown'
  <1>1. commands \in Seq(CommandSet) /\ commands # <<>> /\ commands' = Tail(commands)
    BY DEF TypeOK, Drops, Takes
  <1>2. /\ Len(commands) \in Nat /\ Len(commands') \in Nat
        /\ \A i \in 1..Len(commands) :
              i = 1 \/ (i - 1 \in 1..Len(commands') /\ commands'[i - 1] = commands[i])
    BY <1>1, Taking
  <1>3. DOMAIN commands = 1..Len(commands) /\ DOMAIN commands' = 1..Len(commands')
    BY <1>1
  <1>4. UNCHANGED <<slots, events, engine>>
    BY DEF Drops, Takes
  <1>5. ASSUME NEW i \in DOMAIN commands, commands[i].type = "Cancel" \/ Matches(commands[i])
        PROVE  \E j \in DOMAIN commands' : commands'[j] = commands[i]
    <2>1. i # 1
      BY <1>5 DEF Drops, First
    <2> QED BY <1>2, <1>3, <1>5, <2>1
  <1> QED BY <1>4, <1>5 DEF ParkedPromptIsShown, Matches

(* What is shown is what the engine waits for, or leaves that where it is.   *)
LEMMA WaitShown ==
    ASSUME TypeOK, RaisedInOrder, ParkedPromptIsShown, Shows
    PROVE  ParkedPromptIsShown'
  <1>1. /\ events \in Seq(EventSet) /\ slots \in [Kinds -> Prompts] /\ EventsFit
        /\ sent.prompts \in Nat
        /\ UNCHANGED <<engine, commands>>
    BY DEF TypeOK, Shows, SentSet
  <1>2. /\ 1 \in 1..Len(events) /\ Len(events) \in Nat /\ Len(events') \in Nat
        /\ \A i \in 1..Len(events) :
              i = 1 \/ (i - 1 \in 1..Len(events') /\ events'[i - 1] = events[i])
        /\ DOMAIN events = 1..Len(events) /\ DOMAIN events' = 1..Len(events')
    BY <1>1, Taking DEF Shows
  <1> SUFFICES ASSUME engine.kind # "none"
               PROVE  \/ slots'[engine.kind] = engine.prompt
                      \/ \E i \in DOMAIN events' : events'[i].prompt = engine.prompt
                      \/ \E i \in DOMAIN commands :
                            commands[i].type = "Cancel" \/ Matches(commands[i])
    BY <1>1 DEF ParkedPromptIsShown, Matches
  <1>3. /\ engine.prompt.serial = sent.prompts /\ engine.prompt.serial > 0
        /\ engine.kind \in Kinds
    BY DEF RaisedInOrder, TypeOK, EngineSet, MaybeKinds
  <1>4. CASE slots[engine.kind] = engine.prompt
    <2>1. ~(events[1].type = "Prompt" /\ events[1].kind = engine.kind)
          \/ events[1].prompt = engine.prompt
      BY <1>1, <1>2, <1>3, <1>4 DEF RaisedInOrder
    <2> QED BY <1>1, <1>3, <1>4, <2>1 DEF Shows
  <1>5. CASE events[1].prompt = engine.prompt
    <2>1. NoPrompt.serial = 0
      BY DEF NoPrompt
    <2>2. events[1].type = "Prompt"
      BY <1>1, <1>2, <1>3, <1>5, <2>1 DEF EventsFit
    <2>3. events[1].kind = engine.kind
      BY <1>2, <1>5, <2>2 DEF RaisedInOrder
    <2> QED BY <1>1, <1>3, <1>5, <2>2, <2>3 DEF Shows
  <1>6. ASSUME NEW i \in DOMAIN events, events[i].prompt = engine.prompt, i # 1
        PROVE  \E j \in DOMAIN events' : events'[j].prompt = engine.prompt
    BY <1>2, <1>6
  <1> QED BY <1>4, <1>5, <1>6 DEF ParkedPromptIsShown

(* At first nothing is parked, and nothing was raised.                       *)
LEMMA ReachInit == Init => ReachInv
  BY DEF Init, ReachInv, RaisedInOrder, ParkedPromptIsShown, NoPrompt

(* Every step keeps the parked prompt before the user.                       *)
LEMMA ReachStep ==
    ASSUME TypeOK, ReachInv, [Next]_vars
    PROVE  ReachInv'
  <1>1. RaisedInOrder /\ ParkedPromptIsShown /\ (engine.kind # "none" => engine.phase = "hearing")
    BY DEF ReachInv, TypeOK
  <1>2. CASE Browses
    <2>1. RaisedInOrder'
      BY <1>1, <1>2, OrderKept DEF Browses, Rest, NoPromptAdded
    <2>2. ParkedPromptIsShown'
      <3>1. CASE UNCHANGED commands
        BY <1>1, <1>2, <3>1 DEF Browses, Rest, ParkedPromptIsShown, Matches
      <3>2. CASE ~UNCHANGED commands
        BY <1>1, <1>2, <3>2, WaitKept DEF Browses, Rest
      <3> QED BY <3>1, <3>2
    <2> QED BY <2>1, <2>2 DEF ReachInv
  <1>3. ASSUME NEW kind \in Kinds, NEW c \in CommandSet, Answers(kind, c)
        PROVE  ReachInv'
    <2>1. slots \in [Kinds -> Prompts] /\ commands \in Seq(CommandSet)
      BY DEF TypeOK
    <2>2. RaisedInOrder'
      BY <1>1, <1>3, <2>1, OrderKept DEF Answers, NoPromptAdded
    <2>3. /\ \A i \in DOMAIN commands : i \in DOMAIN commands' /\ commands'[i] = commands[i]
          /\ \E i \in DOMAIN commands' : commands'[i] = c
      BY <1>3, <2>1, Added DEF Answers, Adds
    <2>4. CASE engine.kind = kind /\ slots[kind] = engine.prompt
      <3>1. Matches(c)
        BY <1>3, <2>4 DEF Answers, Matches
      <3>2. Matches(c)'
        BY <1>3, <3>1 DEF Answers, Matches
      <3> QED BY <2>2, <2>3, <3>2 DEF ReachInv, ParkedPromptIsShown, Matches
    <2>5. CASE ~(engine.kind = kind /\ slots[kind] = engine.prompt)
      <3>1. engine' = engine /\ events' = events
            /\ slots' = [slots EXCEPT ![kind] = NoPrompt]
        BY <1>3 DEF Answers
      <3>2. engine.kind # "none" => engine.kind \in Kinds
        BY DEF TypeOK, EngineSet, MaybeKinds
      <3>3. engine.kind # "none" /\ slots[engine.kind] = engine.prompt
              => slots'[engine.kind] = engine.prompt
        BY <2>1, <2>5, <3>1, <3>2
      <3>4. ParkedPromptIsShown'
        BY <1>1, <2>3, <3>1, <3>3 DEF ParkedPromptIsShown, Matches
      <3> QED BY <2>2, <3>4 DEF ReachInv
    <2> QED BY <2>4, <2>5
  <1>4. CASE Submits \/ Switches
    <2>1. RaisedInOrder'
      BY <1>1, <1>4, OrderKept DEF Submits, Switches, NoPromptAdded
    <2>2. ParkedPromptIsShown'
      BY <1>1, <1>4, WaitKept DEF Submits, Switches
    <2> QED BY <2>1, <2>2 DEF ReachInv
  <1>5. CASE Shows
    BY <1>1, <1>5, OrderShown, WaitShown DEF ReachInv
  <1>6. CASE Starts \/ Moves \/ Stays \/ Strays
    <2>1. engine.kind = "none" /\ engine'.kind = "none"
      BY <1>1, <1>6 DEF Starts, Moves, Stays, Strays, Serves, TypeOK, EngineSet
    <2>2. NoPromptAdded
      BY <1>6 DEF Starts, Moves, Stays, Strays, Serves, NoPromptAdded
    <2>3. slots' = slots /\ sent' = sent
      BY <1>6 DEF Starts, Moves, Stays, Strays, Takes
    <2>4. RaisedInOrder'
      BY <1>1, <2>1, <2>2, <2>3, OrderKept
    <2> QED BY <2>1, <2>4 DEF ReachInv, ParkedPromptIsShown
  <1>7. CASE Drops
    <2>1. RaisedInOrder'
      BY <1>1, <1>7, OrderKept DEF Drops, Takes, NoPromptAdded
    <2> QED BY <1>1, <1>7, <2>1, WaitDrops DEF ReachInv
  <1>8. CASE Resumes \/ Turns
    <2>1. engine'.kind = "none" /\ slots' = slots /\ sent' = sent /\ events' = events
      BY <1>8 DEF Resumes, Turns, Met, Takes
    <2>2. RaisedInOrder'
      BY <1>1, <2>1, OrderKept DEF NoPromptAdded
    <2> QED BY <2>1, <2>2 DEF ReachInv, ParkedPromptIsShown
  <1>9. CASE Ends
    <2>1. engine'.kind = "none" /\ NoPromptAdded
      BY <1>9, EndTurnType DEF Ends, NoPromptAdded
    <2>2. RaisedInOrder'
      BY <1>1, <1>9, <2>1, OrderKept DEF Ends
    <2> QED BY <2>1, <2>2 DEF ReachInv, ParkedPromptIsShown
  <1>10. ASSUME NEW kind \in Kinds, Raises(kind)
         PROVE  ReachInv'
    <2>1. PICK e \in EventSet : e.prompt = engine'.prompt /\ events' = Append(events, e)
      BY <1>10 DEF Raises
    <2>2. events \in Seq(EventSet)
      BY DEF TypeOK
    <2>3. \E i \in DOMAIN events' : events'[i].prompt = engine'.prompt
      BY <2>1, <2>2, Added
    <2> QED BY <1>1, <1>10, <2>3, OrderRaised DEF ReachInv, ParkedPromptIsShown
  <1> QED BY <1>2, <1>3, <1>4, <1>5, <1>6, <1>7, <1>8, <1>9, <1>10, Steps

------------------------------------------------------------------------------
(* The screen settles on the engine's session                                *)

(* What is in the queue of commands after one was added.                     *)
LEMMA CommandsAfter ==
    ASSUME TypeOK, NEW c \in CommandSet, Adds(c)
    PROVE  /\ Len(commands) \in Nat /\ Len(commands') = Len(commands) + 1
           /\ Len(commands') \in 1..Len(commands') /\ commands'[Len(commands')] = c
           /\ \A i \in 1..Len(commands) : i \in 1..Len(commands') /\ commands'[i] = commands[i]
           /\ \A i \in 1..Len(commands') :
                 i = Len(commands') \/ (i \in 1..Len(commands) /\ commands'[i] = commands[i])
           /\ DOMAIN commands = 1..Len(commands) /\ DOMAIN commands' = 1..Len(commands')
  <1>1. commands \in Seq(CommandSet) /\ commands' = Append(commands, c)
    BY DEF TypeOK, Adds
  <1> QED BY <1>1, Added

(* What is in the queue of commands after the first was taken.               *)
LEMMA CommandsLeft ==
    ASSUME TypeOK, Takes
    PROVE  /\ Len(commands) \in Nat /\ Len(commands') = Len(commands) - 1
           /\ 1 \in 1..Len(commands)
           /\ \A i \in 1..Len(commands') :
                 i + 1 \in 1..Len(commands) /\ commands'[i] = commands[i + 1]
           /\ \A i \in 1..Len(commands) :
                 i = 1 \/ (i - 1 \in 1..Len(commands') /\ commands'[i - 1] = commands[i])
           /\ DOMAIN commands = 1..Len(commands) /\ DOMAIN commands' = 1..Len(commands')
  <1>1. commands \in Seq(CommandSet) /\ commands # <<>> /\ commands' = Tail(commands)
    BY DEF TypeOK, Takes
  <1> QED BY <1>1, Taking

(* A command that is no switch leaves the last switch the last.              *)
LEMMA ViewAdded ==
    ASSUME TypeOK, ViewFollows, NEW c \in CommandSet, Adds(c), c.type # "Switch",
           view' = view, engine' = engine, history' = history
    PROVE  ViewFollows'
  <1>1. CASE NoSwitch /\ view = engine.session
    BY <1>1, CommandsAfter DEF ViewFollows, NoSwitch
  <1>2. ASSUME NEW i \in 1..Len(commands), commands[i].type = "Switch", commands[i].arg = view,
               \A j \in 1..Len(commands) : i < j => commands[j].type # "Switch"
        PROVE  ViewFollows'
    <2>1. i \in 1..Len(commands') /\ commands'[i] = commands[i]
      BY CommandsAfter
    <2>2. \A j \in 1..Len(commands') : i < j => commands'[j].type # "Switch"
      BY <1>2, CommandsAfter
    <2> QED BY <1>2, <2>1, <2>2 DEF ViewFollows
  <1> QED BY <1>1, <1>2 DEF ViewFollows

(* Where the queue and what is on the screen stay, the view follows as it did.*)
LEMMA ViewKept ==
    ASSUME TypeOK, ViewFollows, commands' = commands, view' = view,
           engine'.session = engine.session, history'.astray = history.astray
    PROVE  ViewFollows'
  BY DEF ViewFollows, NoSwitch

(* So it does when a command that is no switch is taken.                     *)
LEMMA ViewTaken ==
    ASSUME TypeOK, ViewFollows, Takes, First.type # "Switch",
           engine'.session = engine.session, history'.astray = history.astray
    PROVE  ViewFollows'
  <1>1. view' = view
    BY DEF Takes
  <1>2. CASE NoSwitch /\ view = engine.session
    BY <1>1, <1>2, CommandsLeft DEF ViewFollows, NoSwitch
  <1>3. ASSUME NEW i \in 1..Len(commands), commands[i].type = "Switch", commands[i].arg = view,
               \A j \in 1..Len(commands) : i < j => commands[j].type # "Switch"
        PROVE  ViewFollows'
    <2>1. i # 1 /\ i - 1 \in 1..Len(commands') /\ commands'[i - 1] = commands[i]
      BY <1>3, CommandsLeft DEF First
    <2>2. \A j \in 1..Len(commands') : i - 1 < j => commands'[j].type # "Switch"
      BY <1>3, CommandsLeft
    <2> QED BY <1>1, <1>3, <2>1, <2>2 DEF ViewFollows
  <1> QED BY <1>1, <1>2, <1>3 DEF ViewFollows

(* A switch that is made takes the engine where the last switch says.        *)
LEMMA ViewMoves ==
    ASSUME TypeOK, ViewFollows, Moves
    PROVE  ViewFollows'
  <1>1. view' = view /\ Takes /\ First.type = "Switch" /\ history' = history
        /\ engine'.session = First.arg
    BY DEF Moves, Takes, TypeOK, EngineSet
  <1>2. ASSUME NEW i \in 1..Len(commands), commands[i].type = "Switch", commands[i].arg = view,
               \A j \in 1..Len(commands) : i < j => commands[j].type # "Switch"
        PROVE  ViewFollows'
    <2>1. \A j \in 1..Len(commands') : i - 1 < j => commands'[j].type # "Switch"
      BY <1>1, <1>2, CommandsLeft
    <2>2. CASE i = 1
      <3>1. NoSwitch'
        BY <1>1, <2>1, <2>2, CommandsLeft DEF NoSwitch
      <3> QED BY <1>1, <1>2, <2>2, <3>1 DEF ViewFollows, First
    <2>3. CASE i # 1
      <3>1. i - 1 \in 1..Len(commands') /\ commands'[i - 1] = commands[i]
        BY <1>1, <2>3, CommandsLeft
      <3> QED BY <1>1, <1>2, <2>1, <3>1 DEF ViewFollows
    <2> QED BY <2>2, <2>3
  <1>3. ~(NoSwitch /\ view = engine.session)
    BY <1>1, CommandsLeft DEF NoSwitch, First
  <1> QED BY <1>1, <1>2, <1>3 DEF ViewFollows

(* A turn that is under way stays so under a new command.                    *)
LEMMA SpinnerAdded ==
    ASSUME TypeOK, SpinnerTells, NEW c \in CommandSet, Adds(c), UNCHANGED <<busy, events, engine>>
    PROVE  SpinnerTells'
  BY CommandsAfter DEF SpinnerTells, TurnUnderWay

(* What an engine does between turns brings about no end that is not shown.  *)
LEMMA SpinnerTaken ==
    ASSUME TypeOK, SpinnerTells, Takes, First.type # "UserInput",
           engine'.phase = engine.phase, NoPromptAdded
    PROVE  SpinnerTells'
  <1>1. \A i \in DOMAIN events : i \in DOMAIN events' /\ events'[i] = events[i]
    <2>1. CASE UNCHANGED events
      BY <2>1
    <2>2. CASE ~UNCHANGED events
      BY <2>2, Added DEF TypeOK, NoPromptAdded
    <2> QED BY <2>1, <2>2
  <1>2. \A i \in DOMAIN commands : commands[i].type = "UserInput" =>
           i - 1 \in DOMAIN commands' /\ commands'[i - 1] = commands[i]
    BY CommandsLeft DEF First
  <1> QED BY <1>1, <1>2 DEF SpinnerTells, TurnUnderWay, Takes

(* At first nothing turns, and the screen is the engine's.                   *)
LEMMA SettleInit == Init => SettleInv
  BY DEF Init, SettleInv, SpinnerTells, ViewFollows, NoSwitch

(* Every step keeps the spinner and the view.                                *)
LEMMA SettleStep ==
    ASSUME TypeOK, SettleInv, [Next]_vars
    PROVE  SettleInv'
  <1>1. SpinnerTells /\ ViewFollows /\ events \in Seq(EventSet)
    BY DEF SettleInv, TypeOK
  <1>2. CASE Browses
    <2>1. CASE UNCHANGED commands
      BY <1>1, <1>2, <2>1, ViewKept DEF Browses, Rest, SettleInv, SpinnerTells, TurnUnderWay
    <2>2. CASE ~UNCHANGED commands
      <3>1. PICK c \in CommandSet : c.type \in {"Cancel", "Request"} /\ Adds(c)
        BY <1>2, <2>2 DEF Browses
      <3> QED BY <1>1, <1>2, <3>1, ViewAdded, SpinnerAdded DEF Browses, Rest, SettleInv
    <2> QED BY <2>1, <2>2
  <1>3. ASSUME NEW kind \in Kinds, NEW c \in CommandSet, Answers(kind, c)
        PROVE  SettleInv'
    BY <1>1, <1>3, ViewAdded, SpinnerAdded DEF Answers, SettleInv
  <1>4. CASE Submits
    <2>1. PICK c \in CommandSet : c.type = "UserInput" /\ Adds(c)
      BY <1>4 DEF Submits
    <2>2. TurnUnderWay'
      BY <2>1, CommandsAfter DEF TurnUnderWay
    <2>3. ViewFollows'
      BY <1>1, <1>4, <2>1, ViewAdded DEF Submits
    <2> QED BY <2>2, <2>3 DEF SettleInv, SpinnerTells
  <1>5. CASE Switches
    <2>1. PICK c \in CommandSet : c.type = "Switch" /\ c.arg = view' /\ Adds(c)
      BY <1>5 DEF Switches
    <2>2. ViewFollows'
      <3>1. \A j \in 1..Len(commands') : ~(Len(commands') < j)
        BY <2>1, CommandsAfter
      <3> QED BY <2>1, <3>1, CommandsAfter DEF ViewFollows
    <2>3. SpinnerTells'
      BY <1>1, <1>5, <2>1, SpinnerAdded DEF Switches
    <2> QED BY <2>2, <2>3 DEF SettleInv
  <1>6. CASE Shows
    <2>1. ViewFollows'
      BY <1>1, <1>6, ViewKept DEF Shows
    <2>2. \A i \in DOMAIN events : i = 1 \/ (i - 1 \in DOMAIN events' /\ events'[i - 1] = events[i])
      BY <1>1, <1>6, Taking DEF Shows
    <2>3. SpinnerTells'
      <3>1. CASE events[1].type = "TurnEnded"
        BY <1>6, <3>1 DEF Shows, SpinnerTells
      <3>2. CASE events[1].type # "TurnEnded"
        BY <1>1, <1>6, <2>2, <3>2 DEF Shows, SpinnerTells, TurnUnderWay
      <3> QED BY <3>1, <3>2
    <2> QED BY <2>1, <2>3 DEF SettleInv
  <1>7. CASE Starts \/ Resumes
    <2>1. /\ Takes /\ engine'.phase # "idle" /\ engine'.session = engine.session
          /\ history'.astray = history.astray /\ First.type # "Switch"
      BY <1>7 DEF Starts, Resumes, Met, Matches, TypeOK, EngineSet, HistorySet
    <2> QED BY <1>1, <2>1, ViewTaken DEF SettleInv, SpinnerTells, TurnUnderWay
  <1>8. CASE Moves
    <2>1. Takes /\ First.type = "Switch" /\ NoPromptAdded /\ engine'.phase = engine.phase
      BY <1>8 DEF Moves, NoPromptAdded, TypeOK, EngineSet
    <2> QED BY <1>1, <1>8, <2>1, ViewMoves, SpinnerTaken DEF SettleInv
  <1>9. CASE Stays
    <2>1. Takes /\ First.type = "Switch" /\ NoPromptAdded /\ engine'.phase = engine.phase
          /\ history'.astray
      BY <1>9 DEF Stays, NoPromptAdded, TypeOK, HistorySet
    <2> QED BY <1>1, <2>1, SpinnerTaken DEF SettleInv, ViewFollows
  <1>10. CASE Strays
    <2>1. Takes /\ First.type \notin {"UserInput", "Switch"} /\ NoPromptAdded
          /\ engine'.phase = engine.phase /\ engine'.session = engine.session /\ history' = history
      BY <1>10 DEF Strays, Serves, NoPromptAdded
    <2> QED BY <1>1, <2>1, ViewTaken, SpinnerTaken DEF SettleInv
  <1>11. CASE Drops
    <2>1. Takes /\ engine' = engine /\ engine.phase # "idle"
          /\ (First.type = "Switch" => history'.astray)
          /\ (First.type # "Switch" => history'.astray = history.astray)
      BY <1>11 DEF Drops, TypeOK, HistorySet
    <2>2. ViewFollows'
      <3>1. CASE First.type = "Switch"
        BY <2>1, <3>1 DEF ViewFollows
      <3> QED BY <1>1, <2>1, <3>1, ViewTaken
    <2> QED BY <2>1, <2>2 DEF SettleInv, SpinnerTells, TurnUnderWay
  <1>12. CASE Ends
    <2>1. /\ \E e \in EventSet : e.type = "TurnEnded" /\ events' = Append(events, e)
          /\ engine'.session = engine.session /\ view' = view
      BY <1>12, EndTurnType DEF Ends
    <2>2. TurnUnderWay'
      BY <1>1, <2>1, Added DEF TurnUnderWay
    <2>3. ViewFollows'
      <3>1. CASE UNCHANGED <<commands, history>>
        BY <1>1, <2>1, <3>1, ViewKept
      <3>2. CASE Takes /\ First.type = "Cancel" /\ UNCHANGED history
        BY <1>1, <2>1, <3>2, ViewTaken
      <3>3. CASE Met
        BY <1>1, <2>1, <3>3, ViewTaken DEF Met, Matches, TypeOK, HistorySet
      <3> QED BY <1>12, <3>1, <3>2, <3>3 DEF Ends
    <2> QED BY <2>2, <2>3 DEF SettleInv, SpinnerTells
  <1>13. CASE Turns
    BY <1>1, <1>13, ViewKept DEF Turns, SettleInv, SpinnerTells, TurnUnderWay
  <1>14. ASSUME NEW kind \in Kinds, Raises(kind)
         PROVE  SettleInv'
    BY <1>1, <1>14, ViewKept DEF Raises, SettleInv, SpinnerTells, TurnUnderWay
  <1> QED BY <1>2, <1>3, <1>4, <1>5, <1>6, <1>7, <1>8, <1>9, <1>10, <1>11, <1>12, <1>13, <1>14,
             Steps

------------------------------------------------------------------------------
(* An answer resumes the request it was given to                             *)

Holds(kind) == \A p \in Prompts : Current(kind, p) => Current(kind, p)'

(* What no longer can be matched by mistake never can again, but by a switch.*)
LEMMA HoldsKept ==
    ASSUME TypeOK, TypeOK', [Next]_vars
    PROVE  Holds("ask") /\ (Moves \/ Holds("permission"))
  <1>0. engine \in EngineSet /\ engine' \in EngineSet
        /\ (engine.kind # "none" => engine.phase = "hearing")
    BY DEF TypeOK
  <1>1. ASSUME engine'.nextAsk = engine.nextAsk,
               \/ engine'.kind = "none"
               \/ engine'.kind = engine.kind /\ engine'.prompt = engine.prompt
        PROVE  Holds("ask")
    BY <1>0, <1>1 DEF Holds, Current, NextId
  <1>2. ASSUME engine'.nextPermission = engine.nextPermission,
               \/ engine'.kind = "none"
               \/ engine'.kind = engine.kind /\ engine'.prompt = engine.prompt
        PROVE  Holds("permission")
    BY <1>0, <1>2 DEF Holds, Current, NextId
  <1>3. CASE Moves
    BY <1>0, <1>1, <1>3 DEF Moves, EngineSet
  <1>4. ASSUME NEW kind \in Kinds, Raises(kind)
        PROVE  Holds("ask") /\ Holds("permission")
    <2>1. \A p \in Prompts : p.id \in Nat
      BY DEF Prompts
    <2>2. engine.nextAsk \in Nat /\ engine.nextPermission \in Nat
      BY <1>0 DEF EngineSet
    <2>3. /\ engine'.nextPermission = engine.nextPermission + (IF kind = "permission" THEN 1 ELSE 0)
          /\ engine'.nextAsk = engine.nextAsk + (IF kind = "ask" THEN 1 ELSE 0)
          /\ engine'.kind = kind /\ engine'.prompt.id = IdOf(kind)
      BY <1>4 DEF Raises
    <2>4. Holds("ask")
      BY <2>1, <2>2, <2>3 DEF Holds, Current, NextId, IdOf
    <2>5. Holds("permission")
      BY <2>1, <2>2, <2>3 DEF Holds, Current, NextId, IdOf
    <2> QED BY <2>4, <2>5
  <1>5. CASE Browses \/ Submits \/ Switches \/ Shows \/ Stays \/ Drops
             \/ \E kind \in Kinds : \E c \in CommandSet : Answers(kind, c)
    BY <1>1, <1>2, <1>5 DEF Browses, Rest, Submits, Switches, Shows, Stays, Drops, Answers
  <1>6. CASE Strays \/ Resumes \/ Turns
    BY <1>1, <1>2, <1>6 DEF Strays, Serves, Resumes, Turns
  <1>7. CASE Starts
    BY <1>0, <1>1, <1>2, <1>7 DEF Starts, EngineSet
  <1>8. CASE Ends
    BY <1>1, <1>2, <1>8, EndTurnType DEF Ends
  <1> QED BY <1>3, <1>4, <1>5, <1>6, <1>7, <1>8, Steps

(* No request that awaits an answer has the id of no prompt.                 *)
LEMMA NoPromptCurrent ==
    ASSUME TypeOK', AwaitedHasId'
    PROVE  Current("ask", NoPrompt)' /\ Current("permission", NoPrompt)'
  BY DEF TypeOK, AwaitedHasId, Current, NextId, NoPrompt, EngineSet, Asks

(* The prompt that is raised is awaited, and of an id just given out.        *)
LEMMA RaisedCurrent ==
    ASSUME TypeOK, TypeOK', NEW kind \in Asks, Raises(kind)
    PROVE  Current(kind, engine.prompt)' /\ engine'.prompt.id > 0
  <1>1. /\ engine.nextAsk \in Nat \ {0} /\ engine.nextPermission \in Nat \ {0}
    BY DEF TypeOK, EngineSet
  <1>2. /\ engine'.nextPermission = engine.nextPermission + (IF kind = "permission" THEN 1 ELSE 0)
        /\ engine'.nextAsk = engine.nextAsk + (IF kind = "ask" THEN 1 ELSE 0)
        /\ engine'.prompt.id = IdOf(kind)
    BY DEF Raises
  <1> QED BY <1>1, <1>2 DEF Current, NextId, IdOf, Asks

(* Where a prompt of the next state comes from.                              *)
LEMMA Sources ==
    ASSUME TypeOK, [Next]_vars
    PROVE  /\ \A i \in 1..Len(events') :
                 \/ \E j \in 1..Len(events) : events'[i] = events[j]
                 \/ events'[i].type # "Prompt"
                 \/ events'[i].prompt = engine'.prompt /\ Raises(events'[i].kind)
           /\ \A i \in 1..Len(commands') :
                 \/ \E j \in 1..Len(commands) : commands'[i] = commands[j]
                 \/ commands'[i].type # "Answer"
                 \/ commands'[i].kind \in Kinds /\ commands'[i].prompt = slots[commands'[i].kind]
           /\ \A k \in Kinds :
                 \/ slots'[k] \in {slots[k], NoPrompt}
                 \/ \E j \in 1..Len(events) :
                       /\ events[j].type = "Prompt" /\ events[j].kind = k
                       /\ slots'[k] = events[j].prompt
  <1>0. events \in Seq(EventSet) /\ commands \in Seq(CommandSet) /\ slots \in [Kinds -> Prompts]
    BY DEF TypeOK
  <1>1. \A i \in 1..Len(events') :
           \/ \E j \in 1..Len(events) : events'[i] = events[j]
           \/ events'[i].type # "Prompt"
           \/ events'[i].prompt = engine'.prompt /\ Raises(events'[i].kind)
    <2>1. CASE NoPromptAdded
      <3>1. CASE UNCHANGED events
        BY <3>1
      <3>2. CASE ~UNCHANGED events
        BY <1>0, <2>1, <3>2, Added DEF NoPromptAdded
      <3> QED BY <3>1, <3>2
    <2>2. CASE Shows
      BY <1>0, <2>2, Taking DEF Shows
    <2>3. ASSUME NEW kind \in Kinds, Raises(kind)
          PROVE  \A i \in 1..Len(events') :
                    \/ \E j \in 1..Len(events) : events'[i] = events[j]
                    \/ events'[i].prompt = engine'.prompt /\ Raises(events'[i].kind)
      <3>1. PICK e \in EventSet : e.kind = kind /\ e.prompt = engine'.prompt
                                  /\ events' = Append(events, e)
        BY <2>3 DEF Raises
      <3> QED BY <1>0, <2>3, <3>1, Added
    <2>4. CASE Ends
      BY <2>1, <2>4, EndTurnType DEF Ends, NoPromptAdded
    <2> QED BY <2>1, <2>2, <2>3, <2>4, Steps
            DEF Browses, Rest, Answers, Submits, Switches, Starts, Moves, Stays, Strays, Serves,
                Drops, Resumes, Turns, NoPromptAdded
  <1>2. \A i \in 1..Len(commands') :
           \/ \E j \in 1..Len(commands) : commands'[i] = commands[j]
           \/ commands'[i].type # "Answer"
           \/ commands'[i].kind \in Kinds /\ commands'[i].prompt = slots[commands'[i].kind]
    <2>1. CASE UNCHANGED commands
      BY <2>1
    <2>2. CASE Takes
      BY <2>2, CommandsLeft
    <2>3. ASSUME NEW c \in CommandSet, Adds(c),
                 c.type # "Answer" \/ (c.kind \in Kinds /\ c.prompt = slots[c.kind])
          PROVE  \A i \in 1..Len(commands') :
                    \/ \E j \in 1..Len(commands) : commands'[i] = commands[j]
                    \/ commands'[i].type # "Answer"
                    \/ commands'[i].kind \in Kinds
                       /\ commands'[i].prompt = slots[commands'[i].kind]
      BY <2>3, CommandsAfter
    <2>4. CASE Ends
      BY <2>1, <2>2, <2>4 DEF Ends, Met
    <2>5. CASE Browses \/ Submits \/ Switches
      BY <2>1, <2>3, <2>5 DEF Browses, Submits, Switches
    <2>6. CASE \E kind \in Kinds : \E c \in CommandSet : Answers(kind, c)
      BY <2>3, <2>6 DEF Answers
    <2>7. CASE Shows \/ Turns \/ \E kind \in Kinds : Raises(kind)
      BY <2>1, <2>7 DEF Shows, Turns, Raises
    <2>8. CASE Starts \/ Moves \/ Stays \/ Strays \/ Drops \/ Resumes
      BY <2>2, <2>8 DEF Starts, Moves, Stays, Strays, Drops, Resumes, Met
    <2> QED BY <2>4, <2>5, <2>6, <2>7, <2>8, Steps
  <1>3. \A k \in Kinds :
           \/ slots'[k] \in {slots[k], NoPrompt}
           \/ \E j \in 1..Len(events) :
                 events[j].type = "Prompt" /\ events[j].kind = k /\ slots'[k] = events[j].prompt
    <2>1. CASE UNCHANGED slots
      BY <2>1
    <2>2. CASE Shows
      <3>1. 1 \in 1..Len(events)
        BY <1>0, <2>2, Taking DEF Shows
      <3> QED BY <1>0, <2>2, <3>1 DEF Shows
    <2>3. CASE \E kind \in Kinds : \E c \in CommandSet : Answers(kind, c)
      BY <1>0, <2>3 DEF Answers
    <2> QED BY <2>1, <2>2, <2>3, Steps
            DEF Browses, Rest, Submits, Switches, Starts, Moves, Stays, Strays, Drops, Resumes,
                Met, Takes, Ends, Turns, Raises
  <1> QED BY <1>1, <1>2, <1>3

(* An id that is awaited is one that was given out.                          *)
LEMMA AwaitStep ==
    ASSUME TypeOK, TypeOK', AwaitedHasId, [Next]_vars
    PROVE  AwaitedHasId'
  <1>1. CASE \E kind \in Kinds : Raises(kind)
    BY <1>1, RaisedCurrent DEF AwaitedHasId, Raises
  <1>2. CASE Ends
    BY <1>2, EndTurnType DEF AwaitedHasId, Ends, Asks
  <1>3. ASSUME \/ engine'.kind = "none"
               \/ engine'.kind = engine.kind /\ engine'.prompt = engine.prompt
        PROVE  AwaitedHasId'
    BY <1>3 DEF AwaitedHasId, Asks
  <1>4. CASE Starts \/ Moves
    <2>1. engine.kind = "none"
      BY <1>4 DEF TypeOK, Starts, Moves
    <2> QED BY <1>3, <1>4, <2>1 DEF Starts, Moves, TypeOK, EngineSet
  <1>5. CASE Browses \/ Submits \/ Switches \/ Shows \/ Stays \/ Drops \/ Strays \/ Resumes \/ Turns
             \/ \E kind \in Kinds : \E c \in CommandSet : Answers(kind, c)
    BY <1>3, <1>5 DEF Browses, Rest, Submits, Switches, Shows, Stays, Drops, Strays, Serves,
                      Resumes, Turns, Answers
  <1> QED BY <1>1, <1>2, <1>4, <1>5, Steps

(* Every prompt under way is one.                                            *)
LEMMA PromptTypes ==
    ASSUME TypeOK
    PROVE  /\ slots \in [Kinds -> Prompts]
           /\ \A i \in 1..Len(events) : events[i].prompt \in Prompts
           /\ \A i \in 1..Len(commands) : commands[i].prompt \in Prompts
  <1>1. slots \in [Kinds -> Prompts] /\ events \in Seq(EventSet) /\ commands \in Seq(CommandSet)
    BY DEF TypeOK
  <1>2. (\A e \in EventSet : e.prompt \in Prompts) /\ (\A c \in CommandSet : c.prompt \in Prompts)
    <2> HIDE DEF Prompts
    <2> QED BY DEF EventSet, CommandSet
  <1>3. /\ \A i \in 1..Len(events) : events[i] \in EventSet
        /\ \A i \in 1..Len(commands) : commands[i] \in CommandSet
    BY <1>1
  <1> QED BY <1>1, <1>2, <1>3

(* No question is answered in the place of another.                          *)
LEMMA AskStep ==
    ASSUME TypeOK, TypeOK', AwaitedHasId', AskCurrent, [Next]_vars
    PROVE  AskCurrent'
  <1>1. /\ slots \in [Kinds -> Prompts]
        /\ \A i \in 1..Len(events) : events[i].prompt \in Prompts
        /\ \A i \in 1..Len(commands) : commands[i].prompt \in Prompts
        /\ Current("ask", NoPrompt)'
    BY PromptTypes, NoPromptCurrent
  <1>2. \A p \in Prompts : Current("ask", p) => Current("ask", p)'
    BY HoldsKept DEF Holds
  <1>3. Raises("ask") => Current("ask", engine.prompt)'
    BY RaisedCurrent DEF Asks
  <1>4. "ask" \in Kinds
    BY DEF Kinds, Asks
  <1>5. Current("ask", slots["ask"])'
    <2>1. CASE slots'["ask"] = NoPrompt
      BY <1>1, <2>1 DEF Current, NextId
    <2>2. ASSUME NEW p \in Prompts, Current("ask", p), slots'["ask"] = p
          PROVE  Current("ask", slots["ask"])'
      BY <1>2, <2>2 DEF Current, NextId
    <2> QED BY <1>1, <1>4, <2>1, <2>2, Sources DEF AskCurrent
  <1>6. ASSUME NEW i \in 1..Len(events'), events'[i].type = "Prompt", events'[i].kind = "ask"
        PROVE  Current("ask", events[i].prompt)'
    <2>1. CASE events'[i].prompt = engine'.prompt /\ Raises("ask")
      BY <1>3, <2>1 DEF Current, NextId
    <2>2. ASSUME NEW j \in 1..Len(events), events'[i] = events[j]
          PROVE  Current("ask", events[i].prompt)'
      BY <1>1, <1>2, <1>6, <2>2 DEF AskCurrent, Current, NextId
    <2> QED BY <1>6, <2>1, <2>2, Sources
  <1>7. ASSUME NEW i \in 1..Len(commands'), commands'[i].type = "Answer",
               commands'[i].kind = "ask"
        PROVE  Current("ask", commands[i].prompt)'
    <2>1. CASE commands'[i].prompt = slots["ask"]
      BY <1>1, <1>2, <1>4, <2>1 DEF AskCurrent, Current, NextId
    <2>2. ASSUME NEW j \in 1..Len(commands), commands'[i] = commands[j]
          PROVE  Current("ask", commands[i].prompt)'
      BY <1>1, <1>2, <1>7, <2>2 DEF AskCurrent, Current, NextId
    <2> QED BY <1>7, <2>1, <2>2, Sources
  <1> QED BY <1>5, <1>6, <1>7 DEF AskCurrent

(* A turn's prompts come before its end is shown.                            *)
LEMMA EndStep ==
    ASSUME TypeOK, PromptBeforeEnd, [Next]_vars
    PROVE  PromptBeforeEnd'
  <1>0. events \in Seq(EventSet) /\ Len(events) \in Nat
    BY DEF TypeOK
  <1>1. ASSUME NoPromptAdded, engine.phase # "idle" => engine'.phase # "idle"
        PROVE  PromptBeforeEnd'
    <2>1. CASE UNCHANGED events
      BY <1>1, <2>1 DEF PromptBeforeEnd
    <2>2. CASE ~UNCHANGED events
      <3>1. PICK e \in EventSet : e.type # "Prompt" /\ events' = Append(events, e)
        BY <1>1, <2>2 DEF NoPromptAdded
      <3>2. /\ \A i \in 1..Len(events) : i \in 1..Len(events') /\ events'[i] = events[i]
            /\ \A i \in 1..Len(events') :
                  events'[i].type = "Prompt" => i \in 1..Len(events) /\ events'[i] = events[i]
        BY <1>0, <3>1, Added
      <3> QED BY <1>1, <3>2 DEF PromptBeforeEnd
    <2> QED BY <2>1, <2>2
  <1>2. CASE Shows
    <2>1. /\ \A i \in 1..Len(events') : i + 1 \in 1..Len(events) /\ events'[i] = events[i + 1]
          /\ \A i \in 1..Len(events) :
                i = 1 \/ (i - 1 \in 1..Len(events') /\ events'[i - 1] = events[i])
      BY <1>0, <1>2, Taking DEF Shows
    <2>2. engine' = engine
      BY <1>2 DEF Shows
    <2>3. ASSUME NEW i \in 1..Len(events'), events'[i].type = "Prompt", engine.phase = "idle"
          PROVE  \E j \in 1..Len(events') : i < j /\ events'[j].type = "TurnEnded"
      <3>1. PICK j \in 1..Len(events) : i + 1 < j /\ events[j].type = "TurnEnded"
        BY <2>1, <2>3 DEF PromptBeforeEnd
      <3>2. j - 1 \in 1..Len(events') /\ events'[j - 1] = events[j] /\ i < j - 1
        BY <1>0, <2>1, <3>1
      <3> QED BY <3>1, <3>2
    <2> QED BY <2>2, <2>3 DEF PromptBeforeEnd
  <1>3. CASE Ends
    <2>1. PICK e \in EventSet : e.type = "TurnEnded" /\ events' = Append(events, e)
      BY <1>3, EndTurnType DEF Ends
    <2>2. /\ Len(events') = Len(events) + 1 /\ events'[Len(events')].type = "TurnEnded"
      BY <1>0, <2>1, Added
    <2>3. ASSUME NEW i \in 1..Len(events'), events'[i].type = "Prompt"
          PROVE  \E j \in 1..Len(events') : i < j /\ events'[j].type = "TurnEnded"
      BY <1>0, <2>2, <2>3
    <2> QED BY <2>3 DEF PromptBeforeEnd
  <1>4. CASE \E kind \in Kinds : Raises(kind)
    BY <1>4 DEF Raises, PromptBeforeEnd
  <1>5. CASE Browses \/ Submits \/ Switches \/ Moves \/ Stays \/ Strays \/ Drops \/ Turns \/ Resumes
             \/ Starts \/ \E kind \in Kinds : \E c \in CommandSet : Answers(kind, c)
    <2>1. NoPromptAdded
      BY <1>5 DEF Browses, Rest, Submits, Switches, Moves, Stays, Strays, Serves, Drops, Turns,
                  Resumes, Starts, Answers, NoPromptAdded
    <2>2. engine.phase # "idle" => engine'.phase # "idle"
      BY <1>5 DEF Browses, Rest, Submits, Switches, Moves, Stays, Strays, Drops, Turns,
                  Resumes, Starts, Answers
    <2> QED BY <1>1, <2>1, <2>2
  <1> QED BY <1>2, <1>3, <1>4, <1>5, Steps

(* While a turn is under way no switch is in the queue.                      *)
LEMMA TurnNoSwitch ==
    ASSUME SwitchesFirst, engine.phase # "idle"
    PROVE  NoSwitch
  BY DEF SwitchesFirst, NoSwitch

(* Where no switch waits and the session stays, permissions stay current     *)
(* as long as commands are taken in order.                                   *)
LEMMA PermissionKept ==
    ASSUME TypeOK, TypeOK', AwaitedHasId', SwitchesFirst, PermissionCurrent, [Next]_vars,
           engine.phase # "idle", slots' = slots, commands' = commands \/ Takes
    PROVE  NoSwitch' /\ PermissionCurrent'
  <1>1. NoSwitch /\ SlotCurrent /\ CommandsCurrent /\ EventsCurrent /\ Holds("permission")
    BY TurnNoSwitch, HoldsKept DEF PermissionCurrent, Moves
  <1>2. /\ slots \in [Kinds -> Prompts] /\ "permission" \in Kinds
        /\ events \in Seq(EventSet) /\ commands \in Seq(CommandSet)
    BY DEF TypeOK, Kinds, Asks
  <1>3. \A i \in 1..Len(commands') : \E j \in 1..Len(commands) : commands'[i] = commands[j]
    BY CommandsLeft
  <1>4. NoSwitch'
    BY <1>1, <1>3 DEF NoSwitch
  <1>5. SlotCurrent'
    <2>1. Current("permission", slots["permission"])
      BY <1>1 DEF SlotCurrent, TurnBefore
    <2> QED BY <1>1, <1>2, <2>1 DEF SlotCurrent, Holds, Current, NextId
  <1>6. CommandsCurrent'
    <2> SUFFICES ASSUME NEW k \in 1..Len(commands'), commands'[k].type = "Answer",
                        commands'[k].kind = "permission"
                 PROVE  Current("permission", commands[k].prompt)'
      BY DEF CommandsCurrent
    <2>1. PICK j \in 1..Len(commands) : commands'[k] = commands[j]
      BY <1>3
    <2>2. commands[j].prompt \in Prompts
      BY PromptTypes
    <2>3. Current("permission", commands[j].prompt)
      BY <1>1, <2>1 DEF CommandsCurrent, TurnBefore
    <2> QED BY <1>1, <2>1, <2>2, <2>3 DEF Holds, Current, NextId
  <1>7. EventsCurrent'
    <2> SUFFICES ASSUME NEW i \in 1..Len(events'), events'[i].type = "Prompt",
                        events'[i].kind = "permission"
                 PROVE  Current("permission", events[i].prompt)'
      BY DEF EventsCurrent
    <2>1. CASE events'[i].prompt = engine'.prompt /\ Raises("permission")
      BY <2>1, RaisedCurrent DEF Asks, Current, NextId
    <2>2. ASSUME NEW j \in 1..Len(events), events'[i] = events[j]
          PROVE  Current("permission", events[i].prompt)'
      <3>1. events[j].prompt \in Prompts
        BY PromptTypes
      <3>2. Current("permission", events[j].prompt)
        BY <1>1, <2>2 DEF EventsCurrent
      <3> QED BY <1>1, <2>2, <3>1, <3>2 DEF Holds, Current, NextId
    <2> QED BY <2>1, <2>2, Sources
  <1> QED BY <1>4, <1>5, <1>6, <1>7 DEF PermissionCurrent

SwitchInv == SwitchesFirst /\ PermissionCurrent

(* A command that is no switch comes last, and answers a prompt, if any,     *)
(* that was on the screen.                                                   *)
LEMMA SwitchAdded ==
    ASSUME TypeOK, TypeOK', AwaitedHasId', SwitchInv, NEW c \in CommandSet, Adds(c),
           c.type # "Switch", engine' = engine, events' = events,
           slots'["permission"] \in {slots["permission"], NoPrompt},
           c.type = "UserInput" => slots["permission"] = NoPrompt,
           c.type = "Answer" /\ c.kind = "permission" =>
               slots["permission"] # NoPrompt /\ c.prompt = slots["permission"]
    PROVE  SwitchInv'
  <1>1. SwitchesFirst /\ EventsCurrent /\ (NoSwitch => SlotCurrent /\ CommandsCurrent)
    BY DEF SwitchInv, PermissionCurrent
  <1>2. SwitchesFirst'
    <2> SUFFICES ASSUME NEW j \in 1..Len(commands'), commands'[j].type = "Switch"
                 PROVE  /\ engine.phase = "idle"
                        /\ \A i \in 1..Len(events) : events[i].type \notin {"TurnEnded", "Prompt"}
                        /\ \A i \in 1..Len(commands') : commands'[i].type = "UserInput" =>
                              /\ j < i
                              /\ slots'["permission"] = NoPrompt
                              /\ \A k \in 1..Len(commands') : i < k =>
                                    ~(commands'[k].type = "Answer"
                                      /\ commands'[k].kind = "permission")
      BY DEF SwitchesFirst
    <2>1. j \in 1..Len(commands) /\ commands[j].type = "Switch"
      BY CommandsAfter
    <2>2. /\ engine.phase = "idle"
          /\ \A i \in 1..Len(events) : events[i].type \notin {"TurnEnded", "Prompt"}
      BY <1>1, <2>1 DEF SwitchesFirst
    <2>3. ASSUME NEW i \in 1..Len(commands'), commands'[i].type = "UserInput"
          PROVE  /\ j < i
                 /\ slots'["permission"] = NoPrompt
                 /\ \A k \in 1..Len(commands') : i < k =>
                       ~(commands'[k].type = "Answer" /\ commands'[k].kind = "permission")
      <3>1. CASE i = Len(commands')
        BY <2>1, <2>3, <3>1, CommandsAfter
      <3>2. CASE i # Len(commands')
        <4>1. i \in 1..Len(commands) /\ commands[i].type = "UserInput"
          BY <2>3, <3>2, CommandsAfter
        <4>2. /\ j < i /\ slots["permission"] = NoPrompt
              /\ \A k \in 1..Len(commands) : i < k =>
                    ~(commands[k].type = "Answer" /\ commands[k].kind = "permission")
          BY <1>1, <2>1, <4>1 DEF SwitchesFirst
        <4> QED BY <4>2, CommandsAfter
      <3> QED BY <3>1, <3>2
    <2> QED BY <2>2, <2>3
  <1>3. EventsCurrent'
    BY <1>1 DEF EventsCurrent, Current, NextId
  <1>4. ASSUME NoSwitch'
        PROVE  SlotCurrent' /\ CommandsCurrent'
    <2>1. NoSwitch /\ SlotCurrent /\ CommandsCurrent
      BY <1>1, <1>4, CommandsAfter DEF NoSwitch
    <2>2. ASSUME NEW k \in 1..Len(commands'), TurnBefore(k)'
          PROVE  TurnBefore(k)
      BY <2>2, CommandsAfter DEF TurnBefore
    <2>4. SlotCurrent'
      <3>1. CASE slots'["permission"] = NoPrompt
        BY <3>1, NoPromptCurrent DEF SlotCurrent, Current, NextId
      <3>2. CASE slots'["permission"] = slots["permission"] /\ c.type # "UserInput"
        <4>1. TurnBefore(Len(commands) + 1)' => TurnBefore(Len(commands) + 1)
          BY <3>2, CommandsAfter DEF TurnBefore
        <4> QED BY <2>1, <3>2, <4>1 DEF SlotCurrent, Current, NextId
      <3> QED BY <3>1, <3>2
    <2>5. CommandsCurrent'
      <3> SUFFICES ASSUME NEW k \in 1..Len(commands'), commands'[k].type = "Answer",
                          commands'[k].kind = "permission", TurnBefore(k)'
                   PROVE  Current("permission", commands[k].prompt)'
        BY DEF CommandsCurrent, TurnBefore
      <3>1. TurnBefore(k)
        BY <2>2
      <3>2. CASE k = Len(commands')
        BY <2>1, <3>1, <3>2, CommandsAfter DEF SlotCurrent, Current, NextId
      <3>3. CASE k # Len(commands')
        BY <2>1, <3>1, <3>3, CommandsAfter DEF CommandsCurrent, Current, NextId
      <3> QED BY <3>2, <3>3
    <2> QED BY <2>4, <2>5
  <1> QED BY <1>2, <1>3, <1>4 DEF SwitchInv, PermissionCurrent

(* A switch that is not early meets nothing of a turn.                       *)
LEMMA SwitchSent ==
    ASSUME TypeOK, PromptBeforeEnd, Switches, ~TurnUnderWay
    PROVE  SwitchInv'
  <1>1. PICK c \in CommandSet : c.type = "Switch" /\ Adds(c)
    BY DEF Switches
  <1>2. events' = events /\ engine' = engine /\ events \in Seq(EventSet)
    BY DEF Switches, TypeOK
  <1>3. engine.phase = "idle"
        /\ \A i \in 1..Len(events) : events[i].type \notin {"TurnEnded", "Prompt"}
    BY <1>2 DEF TurnUnderWay, PromptBeforeEnd
  <1>4. \A i \in 1..Len(commands') : commands'[i].type # "UserInput"
    BY <1>1, CommandsAfter DEF TurnUnderWay
  <1>5. ~NoSwitch'
    BY <1>1, CommandsAfter DEF NoSwitch
  <1> QED BY <1>2, <1>3, <1>4, <1>5
          DEF SwitchInv, SwitchesFirst, PermissionCurrent, EventsCurrent

(* What is shown was current on its way.                                     *)
LEMMA SwitchShown ==
    ASSUME TypeOK, SwitchInv, Shows
    PROVE  SwitchInv'
  <1>1. /\ events \in Seq(EventSet) /\ slots \in [Kinds -> Prompts] /\ "permission" \in Kinds
        /\ engine' = engine /\ commands' = commands
    BY DEF TypeOK, Shows, Kinds, Asks
  <1>2. /\ 1 \in 1..Len(events)
        /\ \A i \in 1..Len(events') : i + 1 \in 1..Len(events) /\ events'[i] = events[i + 1]
    BY <1>1, Taking DEF Shows
  <1>3. \/ slots'["permission"] = slots["permission"]
        \/ /\ events[1].type = "Prompt" /\ events[1].kind = "permission"
           /\ slots'["permission"] = events[1].prompt
    BY <1>1 DEF Shows
  <1>4. SwitchesFirst'
    <2> SUFFICES ASSUME NEW j \in 1..Len(commands), commands[j].type = "Switch"
                 PROVE  /\ engine.phase = "idle"
                        /\ \A i \in 1..Len(events') :
                              events'[i].type \notin {"TurnEnded", "Prompt"}
                        /\ \A i \in 1..Len(commands) : commands[i].type = "UserInput" =>
                              /\ j < i
                              /\ slots'["permission"] = NoPrompt
                              /\ \A k \in 1..Len(commands) : i < k =>
                                    ~(commands[k].type = "Answer"
                                      /\ commands[k].kind = "permission")
      BY <1>1 DEF SwitchesFirst
    <2>1. /\ engine.phase = "idle"
          /\ \A i \in 1..Len(events) : events[i].type \notin {"TurnEnded", "Prompt"}
          /\ \A i \in 1..Len(commands) : commands[i].type = "UserInput" =>
                /\ j < i
                /\ slots["permission"] = NoPrompt
                /\ \A k \in 1..Len(commands) : i < k =>
                      ~(commands[k].type = "Answer" /\ commands[k].kind = "permission")
      BY DEF SwitchInv, SwitchesFirst
    <2>2. slots'["permission"] = slots["permission"]
      BY <1>2, <1>3, <2>1
    <2> QED BY <1>2, <2>1, <2>2
  <1>5. EventsCurrent'
    BY <1>1, <1>2 DEF SwitchInv, PermissionCurrent, EventsCurrent, Current, NextId
  <1>6. ASSUME NoSwitch'
        PROVE  SlotCurrent' /\ CommandsCurrent'
    <2>1. SlotCurrent /\ CommandsCurrent /\ EventsCurrent
      BY <1>1, <1>6 DEF SwitchInv, PermissionCurrent, NoSwitch
    <2>2. SlotCurrent'
      BY <1>1, <1>2, <1>3, <2>1 DEF SlotCurrent, EventsCurrent, Current, NextId, TurnBefore
    <2>3. CommandsCurrent'
      BY <1>1, <2>1 DEF CommandsCurrent, Current, NextId, TurnBefore
    <2> QED BY <2>2, <2>3
  <1> QED BY <1>4, <1>5, <1>6 DEF SwitchInv, PermissionCurrent

(* A turn starts when no switch waits.                                       *)
LEMMA SwitchStarts ==
    ASSUME TypeOK, TypeOK', SwitchInv, Starts
    PROVE  SwitchInv'
  <1>1. /\ engine \in EngineSet /\ Takes /\ slots' = slots /\ events' = events
        /\ First.type = "UserInput" /\ engine.kind = "none"
        /\ engine' = [engine EXCEPT !.phase = "deaf", !.staged = 0]
    BY DEF TypeOK, Starts, Takes
  <1>2. engine'.kind = "none" /\ engine'.nextPermission = engine.nextPermission
    BY <1>1 DEF EngineSet
  <1>3. NoSwitch
    BY <1>1, CommandsLeft DEF SwitchInv, SwitchesFirst, NoSwitch, First
  <1>4. NoSwitch'
    BY <1>1, <1>3, CommandsLeft DEF NoSwitch
  <1>5. EventsCurrent /\ SlotCurrent /\ CommandsCurrent
    BY <1>3 DEF SwitchInv, PermissionCurrent
  <1>6. \A k \in 2..(Len(commands) + 1) : TurnBefore(k)
    BY <1>1, CommandsLeft DEF TurnBefore, First
  <1>7. EventsCurrent'
    BY <1>1, <1>2, <1>5 DEF EventsCurrent, Current, NextId
  <1>8. SlotCurrent'
    <2>1. Len(commands) + 1 \in 2..(Len(commands) + 1)
      BY <1>1, CommandsLeft
    <2> QED BY <1>1, <1>2, <1>5, <1>6, <2>1 DEF SlotCurrent, Current, NextId
  <1>9. CommandsCurrent'
    <2> SUFFICES ASSUME NEW k \in 1..Len(commands'), commands'[k].type = "Answer",
                        commands'[k].kind = "permission"
                 PROVE  Current("permission", commands[k].prompt)'
      BY DEF CommandsCurrent
    <2>1. /\ k + 1 \in 1..Len(commands) /\ commands'[k] = commands[k + 1]
          /\ k + 1 \in 2..(Len(commands) + 1)
      BY <1>1, CommandsLeft
    <2> QED BY <1>2, <1>5, <1>6, <2>1 DEF CommandsCurrent, Current, NextId
  <1> QED BY <1>4, <1>7, <1>8, <1>9 DEF SwitchInv, SwitchesFirst, PermissionCurrent, NoSwitch

(* What is left of the queue when its head is taken between turns.           *)
LEMMA SwitchesLeft ==
    ASSUME TypeOK, SwitchesFirst, Takes, engine'.phase = engine.phase,
           \A i \in 1..Len(events') :
              \/ \E j \in 1..Len(events) : events'[i] = events[j]
              \/ events'[i].type \notin {"TurnEnded", "Prompt"}
    PROVE  SwitchesFirst'
  <1> SUFFICES ASSUME NEW j \in 1..Len(commands'), commands'[j].type = "Switch"
               PROVE  /\ engine'.phase = "idle"
                      /\ \A i \in 1..Len(events') : events'[i].type \notin {"TurnEnded", "Prompt"}
                      /\ \A i \in 1..Len(commands') : commands'[i].type = "UserInput" =>
                            /\ j < i
                            /\ slots'["permission"] = NoPrompt
                            /\ \A k \in 1..Len(commands') : i < k =>
                                  ~(commands'[k].type = "Answer"
                                    /\ commands'[k].kind = "permission")
    BY DEF SwitchesFirst
  <1>1. j + 1 \in 1..Len(commands) /\ commands[j + 1].type = "Switch" /\ slots' = slots
    BY CommandsLeft DEF Takes
  <1>2. /\ engine.phase = "idle"
        /\ \A i \in 1..Len(events) : events[i].type \notin {"TurnEnded", "Prompt"}
    BY <1>1 DEF SwitchesFirst
  <1>3. ASSUME NEW i \in 1..Len(commands'), commands'[i].type = "UserInput"
        PROVE  /\ j < i
               /\ slots'["permission"] = NoPrompt
               /\ \A k \in 1..Len(commands') : i < k =>
                     ~(commands'[k].type = "Answer" /\ commands'[k].kind = "permission")
    <2>1. i + 1 \in 1..Len(commands) /\ commands[i + 1].type = "UserInput"
      BY <1>3, CommandsLeft
    <2>2. /\ j + 1 < i + 1 /\ slots["permission"] = NoPrompt
          /\ \A k \in 1..Len(commands) : i + 1 < k =>
                ~(commands[k].type = "Answer" /\ commands[k].kind = "permission")
      BY <1>1, <2>1 DEF SwitchesFirst
    <2> QED BY <1>1, <2>2, CommandsLeft
  <1> QED BY <1>2, <1>3

(* Once a switch is made, ids may start over: no prompt is left that a       *)
(* message of the session entered could be answered with.                    *)
LEMMA SwitchMade ==
    ASSUME TypeOK, TypeOK', AwaitedHasId', SwitchInv, Moves \/ Stays
    PROVE  SwitchInv'
  <1>1. /\ Takes /\ First.type = "Switch" /\ slots' = slots /\ events' = events
        /\ engine.phase = "idle" /\ engine'.phase = "idle"
    BY DEF Moves, Stays, Takes, TypeOK, EngineSet
  <1>2. SwitchesFirst'
    BY <1>1, SwitchesLeft DEF SwitchInv
  <1>3. /\ \A i \in 1..Len(events) : events[i].type \notin {"TurnEnded", "Prompt"}
        /\ \A i \in 1..Len(commands) : commands[i].type = "UserInput" =>
              /\ slots["permission"] = NoPrompt
              /\ \A k \in 1..Len(commands) : i < k =>
                    ~(commands[k].type = "Answer" /\ commands[k].kind = "permission")
    BY <1>1, CommandsLeft DEF SwitchInv, SwitchesFirst, First
  <1>4. EventsCurrent'
    BY <1>1, <1>3 DEF EventsCurrent
  <1>5. \A k : TurnBefore(k)' => \E i \in 1..Len(commands') :
                                     i < k /\ commands'[i].type = "UserInput"
    BY <1>1 DEF TurnBefore
  <1>6. SlotCurrent'
    <2>1. TurnBefore(Len(commands) + 1)' => slots'["permission"] = NoPrompt
      BY <1>1, <1>3, <1>5, CommandsLeft
    <2>2. CASE slots'["permission"] = NoPrompt
      BY <2>2, NoPromptCurrent DEF SlotCurrent, Current, NextId
    <2>3. CASE slots'["permission"] # NoPrompt
      <3>1. \A i \in 1..Len(commands') : commands'[i].type # "UserInput"
        BY <1>1, <1>3, <2>3, CommandsLeft
      <3> QED BY <1>1, <3>1 DEF SlotCurrent, TurnBefore
    <2> QED BY <2>2, <2>3
  <1>7. CommandsCurrent'
    <2> SUFFICES ASSUME NEW k \in 1..Len(commands'), commands'[k].type = "Answer",
                        commands'[k].kind = "permission", TurnBefore(k)'
                 PROVE  FALSE
      BY DEF CommandsCurrent, TurnBefore
    <2>1. PICK i \in 1..Len(commands') : i < k /\ commands'[i].type = "UserInput"
      BY <1>5
    <2>2. /\ i + 1 \in 1..Len(commands) /\ commands[i + 1].type = "UserInput"
          /\ k + 1 \in 1..Len(commands) /\ commands[k + 1] = commands'[k] /\ i + 1 < k + 1
      BY <1>1, <2>1, CommandsLeft
    <2> QED BY <1>3, <2>2
  <1> QED BY <1>2, <1>4, <1>6, <1>7 DEF SwitchInv, PermissionCurrent

(* What else is taken between turns changes nothing here.                    *)
LEMMA SwitchStrays ==
    ASSUME TypeOK, SwitchInv, Strays
    PROVE  SwitchInv'
  <1>1. /\ Takes /\ First.type \notin {"UserInput", "Switch"} /\ slots' = slots
        /\ engine'.phase = engine.phase /\ engine'.kind = engine.kind
        /\ engine'.prompt = engine.prompt /\ engine'.nextPermission = engine.nextPermission
        /\ engine.phase = "idle"
    BY DEF Strays, Serves, Takes
  <1>2. \A i \in 1..Len(events') :
           \/ \E j \in 1..Len(events) : events'[i] = events[j]
           \/ events'[i].type \notin {"TurnEnded", "Prompt"}
    <2>1. CASE UNCHANGED events
      BY <2>1
    <2>2. CASE ~UNCHANGED events
      BY <2>2, Added DEF TypeOK, Strays, Serves
    <2> QED BY <2>1, <2>2
  <1>3. SwitchesFirst'
    BY <1>1, <1>2, SwitchesLeft DEF SwitchInv
  <1>4. EventsCurrent'
    BY <1>1, <1>2 DEF SwitchInv, PermissionCurrent, EventsCurrent, Current, NextId
  <1>5. ASSUME NoSwitch'
        PROVE  SlotCurrent' /\ CommandsCurrent'
    <2>1. NoSwitch
      <3>1. \A i \in 1..Len(commands) : i = 1 \/ commands[i].type # "Switch"
        BY <1>1, <1>5, CommandsLeft DEF NoSwitch
      <3> QED BY <1>1, <3>1 DEF NoSwitch, First
    <2>2. SlotCurrent /\ CommandsCurrent
      BY <2>1 DEF SwitchInv, PermissionCurrent
    <2>3. \A k \in 1..(Len(commands') + 1) : TurnBefore(k)' => TurnBefore(k + 1)
      BY <1>1, CommandsLeft DEF TurnBefore
    <2>4. SlotCurrent'
      <3>1. Len(commands') + 1 \in 1..(Len(commands') + 1)
            /\ Len(commands') + 2 = Len(commands) + 1
            /\ (Len(commands') + 1) + 1 = Len(commands) + 1
        BY <1>1, CommandsLeft
      <3>2. ASSUME NEW k, k = Len(commands') + 1, TurnBefore(k)'
            PROVE  Current("permission", slots["permission"])'
        <4>1. TurnBefore(Len(commands) + 1)
          BY <2>3, <3>1, <3>2
        <4> QED BY <1>1, <2>2, <4>1 DEF SlotCurrent, Current, NextId
      <3> QED BY <3>2 DEF SlotCurrent, TurnBefore
    <2>5. CommandsCurrent'
      <3> SUFFICES ASSUME NEW k \in 1..Len(commands'), commands'[k].type = "Answer",
                          commands'[k].kind = "permission", TurnBefore(k)'
                   PROVE  Current("permission", commands[k].prompt)'
        BY DEF CommandsCurrent, TurnBefore
      <3>1. /\ k + 1 \in 1..Len(commands) /\ commands'[k] = commands[k + 1]
            /\ k \in 1..(Len(commands') + 1)
        BY <1>1, CommandsLeft
      <3>2. TurnBefore(k + 1)
        BY <2>3, <3>1
      <3> QED BY <1>1, <2>2, <3>1, <3>2 DEF CommandsCurrent, Current, NextId
    <2> QED BY <2>4, <2>5
  <1> QED BY <1>3, <1>4, <1>5 DEF SwitchInv, PermissionCurrent

(* An answer that is matched is the request's, where no switch was early.    *)
LEMMA MetIsMeant ==
    ASSUME TypeOK, AskCurrent, SwitchInv, ~history.misdirected, Met
    PROVE  ~history'.misdirected
  <1>1. /\ Takes /\ Matches(First) /\ engine.phase # "idle"
        /\ 1 \in 1..Len(commands) /\ history \in HistorySet
    BY CommandsLeft DEF Met, TypeOK
  <1>2. NoSwitch
    BY <1>1, TurnNoSwitch DEF SwitchInv
  <1>3. First.kind \in Asks => First.prompt = engine.prompt
    <2>1. CASE First.kind = "ask"
      BY <1>1, <2>1 DEF AskCurrent, Current, Matches, First, Asks
    <2>2. CASE First.kind = "permission"
      <3>1. CommandsCurrent /\ TurnBefore(1)
        BY <1>1, <1>2 DEF SwitchInv, PermissionCurrent, TurnBefore
      <3> QED BY <1>1, <2>2, <3>1 DEF CommandsCurrent, Current, Matches, First, Asks
    <2> QED BY <2>1, <2>2 DEF Asks
  <1> QED BY <1>1, <1>3 DEF Met, HistorySet

(* Nothing is on its way at first.                                           *)
LEMMA AnswerInit == Init => AnswerInv
  <1> SUFFICES ASSUME Init PROVE AnswerInv
    OBVIOUS
  <1>1. AwaitedHasId /\ PromptBeforeEnd /\ SwitchesFirst /\ ~history.misdirected
    BY DEF Init, AwaitedHasId, PromptBeforeEnd, SwitchesFirst, Asks
  <1>2. AskCurrent
    BY DEF Init, AskCurrent, Current, NextId, NoPrompt, Kinds, Asks
  <1>3. PermissionCurrent
    BY DEF Init, PermissionCurrent, EventsCurrent, SlotCurrent, CommandsCurrent, TurnBefore
  <1> QED BY <1>1, <1>2, <1>3 DEF AnswerInv

(* Every step keeps what is current current, or was an early switch.         *)
LEMMA AnswerStep ==
    ASSUME TypeOK, TypeOK', AnswerInv, [Next]_vars
    PROVE  AnswerInv'
  <1>1. AwaitedHasId' /\ AskCurrent' /\ PromptBeforeEnd'
    BY AwaitStep, AskStep, EndStep DEF AnswerInv
  <1>2. history \in HistorySet /\ history' \in HistorySet /\ PromptBeforeEnd /\ AskCurrent
    BY DEF TypeOK, AnswerInv
  <1>3. history.early => history'.early
    <2>1. CASE Switches
      BY <1>2, <2>1 DEF Switches, HistorySet
    <2>2. CASE history'.early = history.early
      BY <2>2
    <2> QED BY <1>2, <2>1, <2>2, Steps
            DEF Browses, Rest, Answers, Submits, Shows, Starts, Moves, Stays, Strays, Drops,
                Resumes, Met, Ends, Turns, Raises, HistorySet
  <1> SUFFICES ASSUME ~history'.early
               PROVE  SwitchInv' /\ ~history'.misdirected
    BY <1>1 DEF AnswerInv, SwitchInv
  <1>4. SwitchInv /\ ~history.misdirected
    BY <1>3 DEF AnswerInv, SwitchInv
  <1>5. CASE Browses
    <2>1. CASE UNCHANGED commands
      BY <1>4, <1>5, <2>1
         DEF Browses, Rest, SwitchInv, SwitchesFirst, PermissionCurrent, EventsCurrent,
             SlotCurrent, CommandsCurrent, TurnBefore, NoSwitch, Current, NextId
    <2>2. CASE ~UNCHANGED commands
      BY <1>1, <1>4, <1>5, <2>2, SwitchAdded DEF Browses, Rest
    <2> QED BY <2>1, <2>2
  <1>6. ASSUME NEW kind \in Kinds, NEW c \in CommandSet, Answers(kind, c)
        PROVE  SwitchInv' /\ ~history'.misdirected
    <2>1. slots'["permission"] \in {slots["permission"], NoPrompt}
      BY <1>6 DEF Answers, TypeOK, Kinds, Asks
    <2> QED BY <1>1, <1>4, <1>6, <2>1, SwitchAdded DEF Answers
  <1>7. CASE Submits
    BY <1>1, <1>4, <1>7, SwitchAdded DEF Submits
  <1>8. CASE Switches
    <2>1. ~TurnUnderWay /\ history'.misdirected = history.misdirected
      BY <1>2, <1>8 DEF Switches, HistorySet
    <2> QED BY <1>2, <1>4, <1>8, <2>1, SwitchSent
  <1>9. CASE Shows
    BY <1>4, <1>9, SwitchShown DEF Shows
  <1>10. CASE Starts
    BY <1>4, <1>10, SwitchStarts DEF Starts
  <1>11. CASE Moves \/ Stays
    <2>1. history'.misdirected = history.misdirected
      BY <1>2, <1>11 DEF Moves, Stays, HistorySet
    <2> QED BY <1>1, <1>4, <1>11, <2>1, SwitchMade
  <1>12. CASE Strays
    BY <1>4, <1>12, SwitchStrays DEF Strays
  <1>13. CASE Drops \/ Resumes \/ Ends \/ Turns \/ \E kind \in Kinds : Raises(kind)
    <2>1. /\ engine.phase # "idle" /\ slots' = slots /\ (commands' = commands \/ Takes)
      BY <1>13 DEF Drops, Resumes, Met, Ends, Turns, Raises, Takes
    <2>2. NoSwitch' /\ PermissionCurrent'
      BY <1>1, <1>4, <2>1, PermissionKept DEF SwitchInv
    <2>3. SwitchesFirst'
      BY <2>2 DEF SwitchesFirst, NoSwitch
    <2>4. ~history'.misdirected
      <3>1. CASE Met
        BY <1>2, <1>4, <3>1, MetIsMeant
      <3>2. CASE history'.misdirected = history.misdirected
        BY <1>4, <3>2
      <3> QED BY <1>2, <1>13, <3>1, <3>2 DEF Drops, Resumes, Ends, Turns, Raises, HistorySet
    <2> QED BY <2>2, <2>3, <2>4 DEF SwitchInv
  <1> QED BY <1>5, <1>6, <1>7, <1>8, <1>9, <1>10, <1>11, <1>12, <1>13, Steps

------------------------------------------------------------------------------
(* Theorems                                                                  *)

(* Slots, queues, engine and counters keep their types, answers name a kind  *)
(* of prompt, and an engine that waits for one hears commands (app/mod.rs,   *)
(* engine/turn.rs).                                                          *)
THEOREM FrontendTypeCorrect == Spec => []TypeOK
  <1>1. TypeOK /\ [Next]_vars => TypeOK'
    BY TypeStep
  <1> QED BY TypeInit, <1>1, PTL DEF Spec

(* However prompts, overlays, replies, answers and session switches cross,   *)
(* what the engine waits for is on the screen, on its way there, or about to *)
(* be ended by a command that is on its way; and a click reaches nothing a   *)
(* key does not (app/session.rs reset_for_switch, app/keys.rs on_click).     *)
THEOREM ReachCorrect == Spec => []PromptReachesUser
  <1>1. TypeOK /\ ReachInv /\ [Next]_vars => ReachInv'
    BY ReachStep
  <1>2. TypeOK /\ [Next]_vars => TypeOK'
    BY TypeStep
  <1>3. ClicksReachWhatKeysReach
    BY DEF ClicksReachWhatKeysReach, Regions, Focus, Kinds, Asks, Halts
  <1>4. ReachInv => PromptReachesUser
    BY <1>3 DEF ReachInv, PromptReachesUser
  <1> QED BY TypeInit, ReachInit, <1>1, <1>2, <1>4, PTL DEF Spec

(* Once nothing is under way the spinner rests and the screen shows the      *)
(* engine's session, whatever was sent while turns ran (app/events.rs,       *)
(* app/actions.rs).                                                          *)
THEOREM SettleCorrect == Spec => []SettledViewAgrees
  <1>1. TypeOK /\ SettleInv /\ [Next]_vars => SettleInv'
    BY SettleStep
  <1>2. TypeOK /\ [Next]_vars => TypeOK'
    BY TypeStep
  <1>3. SettleInv => SettledViewAgrees
    BY DEF SettleInv, SpinnerTells, TurnUnderWay, ViewFollows, SettledViewAgrees
  <1> QED BY TypeInit, SettleInit, <1>1, <1>2, <1>3, PTL DEF Spec

(* An answer resumes the request it was given to, although the ids of        *)
(* permissions start over with every session and prompts outlive their       *)
(* requests, as long as no switch was sent before the last turn's end was    *)
(* shown (engine/turn.rs take_permission_id, app/prompts.rs).                *)
THEOREM AnswersMeetCorrect == Spec => []AnswersMeetTheirRequest
  <1>1. TypeOK /\ TypeOK' /\ AnswerInv /\ [Next]_vars => AnswerInv'
    BY AnswerStep
  <1>2. TypeOK /\ [Next]_vars => TypeOK'
    BY TypeStep
  <1>3. AnswerInv => AnswersMeetTheirRequest
    BY DEF AnswerInv, AnswersMeetTheirRequest
  <1> QED BY TypeInit, AnswerInit, <1>1, <1>2, <1>3, PTL DEF Spec

------------------------------------------------------------------------------
(* The line frontend                                                         *)

(* One more at the end of a sequence.                                        *)
LEMMA LineAdded ==
    ASSUME NEW s, \E S : s \in Seq(S), NEW e
    PROVE  /\ \E S : Append(s, e) \in Seq(S)
           /\ DOMAIN s = 1..Len(s) /\ Len(s) \in Nat
           /\ Len(Append(s, e)) = Len(s) + 1
           /\ DOMAIN Append(s, e) = 1..(Len(s) + 1)
           /\ \A i \in 1..Len(s) : Append(s, e)[i] = s[i]
           /\ Append(s, e)[Len(s) + 1] = e
  <1>1. PICK S : s \in Seq(S)
    OBVIOUS
  <1>2. s \in Seq(S \union {e}) /\ e \in S \union {e}
    BY <1>1
  <1>3. Append(s, e) \in Seq(S \union {e})
    BY <1>2
  <1> QED BY <1>2, <1>3

(* The first taken from a sequence.                                          *)
LEMMA LineTaken ==
    ASSUME NEW s, \E S : s \in Seq(S), s # <<>>
    PROVE  /\ \E S : Tail(s) \in Seq(S)
           /\ DOMAIN s = 1..Len(s) /\ Len(s) \in Nat \ {0}
           /\ Len(Tail(s)) = Len(s) - 1
           /\ DOMAIN Tail(s) = 1..(Len(s) - 1)
           /\ \A i \in 1..(Len(s) - 1) : Tail(s)[i] = s[i + 1]
           /\ Head(s) = s[1]
  <1>1. PICK S : s \in Seq(S)
    OBVIOUS
  <1>2. Tail(s) \in Seq(S)
    BY <1>1
  <1> QED BY <1>1, <1>2

(* More at the end of a sequence.                                            *)
LEMMA LineJoined ==
    ASSUME NEW s, \E S : s \in Seq(S), NEW t, \E S : t \in Seq(S)
    PROVE  /\ \E S : s \o t \in Seq(S)
           /\ DOMAIN s = 1..Len(s) /\ Len(s) \in Nat /\ DOMAIN t = 1..Len(t) /\ Len(t) \in Nat
           /\ DOMAIN (s \o t) = 1..(Len(s) + Len(t))
           /\ \A i \in 1..Len(s) : (s \o t)[i] = s[i]
           /\ \A i \in 1..Len(t) : (s \o t)[Len(s) + i] = t[i]
  <1>1. PICK S, T : s \in Seq(S) /\ t \in Seq(T)
    OBVIOUS
  <1>2. s \in Seq(S \union T) /\ t \in Seq(S \union T)
    BY <1>1
  <1>3. s \o t \in Seq(S \union T)
    BY <1>2
  <1> QED BY <1>2, <1>3

(* An event that is shown.                                                   *)
LEMMA PromptShown ==
    ASSUME TheLine!LineInv, TheLine!ShowEvent
    PROVE  TheLine!Reached'
  <1>1. /\ x9 # <<>> /\ x9' = Tail(x9) /\ x3' = TheLine!PendingAfter(Head(x9))
        /\ x10' = x10 /\ x8' = x8
    BY DEF TheLine!ShowEvent, TheLine!eng
  <1>2. SUFFICES ASSUME TheLine!Waiting
                 PROVE  \/ \E i \in DOMAIN x9' : TheLine!LastPrompt(i)'
                        \/ x3' = x10.waits /\ \A i \in DOMAIN x9' : x9'[i].type \notin TheLine!Prompts
                        \/ \E i \in DOMAIN x8 : TheLine!Answers(x8[i])
    BY <1>1 DEF TheLine!Reached, TheLine!Waiting, TheLine!Answers
  <1>3. /\ DOMAIN x9 = 1..Len(x9) /\ Len(x9) \in Nat \ {0}
        /\ Len(x9') = Len(x9) - 1
        /\ DOMAIN x9' = 1..(Len(x9) - 1)
        /\ \A i \in 1..(Len(x9) - 1) : x9'[i] = x9[i + 1]
        /\ Head(x9) = x9[1]
    BY <1>1, LineTaken DEF TheLine!LineInv
  <1>4. CASE \E i \in DOMAIN x9 : TheLine!LastPrompt(i)
    <2>1. PICK i \in DOMAIN x9 : TheLine!LastPrompt(i)
      BY <1>4
    <2>2. CASE i = 1
      <3>1. x10.waits.kind \in TheLine!Prompts
        BY <1>2 DEF TheLine!LineInv, TheLine!WaitsInPlace, TheLine!Prompts
      <3>2. x10.waits = [kind |-> x9[1].type, id |-> x9[1].id]
        BY <1>2, <2>1, <2>2 DEF TheLine!LineInv, TheLine!WaitsInPlace, TheLine!LastPrompt
      <3>3. x3' = x10.waits
        BY <1>1, <1>3, <2>1, <2>2, <3>1, <3>2 DEF TheLine!PendingAfter, TheLine!LastPrompt, TheLine!Prompts
      <3>4. \A j \in DOMAIN x9' : x9'[j].type \notin TheLine!Prompts
        <4>1. ASSUME NEW j \in DOMAIN x9' PROVE x9'[j].type \notin TheLine!Prompts
          <5>1. j + 1 \in 2..Len(x9) /\ x9'[j] = x9[j + 1]
            BY <1>3
          <5> QED BY <2>1, <2>2, <5>1 DEF TheLine!LastPrompt
        <4> QED BY <4>1
      <3> QED BY <3>3, <3>4
    <2>3. CASE i # 1
      <3>1. i - 1 \in DOMAIN x9' /\ x9'[i - 1] = x9[i]
        BY <1>3, <2>3
      <3>2. ASSUME NEW j \in ((i - 1) + 1)..Len(x9') PROVE x9'[j].type \notin TheLine!Prompts
        <4>1. j + 1 \in (i + 1)..Len(x9) /\ x9'[j] = x9[j + 1]
          BY <1>3, <2>3
        <4> QED BY <2>1, <4>1 DEF TheLine!LastPrompt
      <3>3. TheLine!LastPrompt(i - 1)'
        BY <1>1, <2>1, <3>1, <3>2 DEF TheLine!LastPrompt
      <3> QED BY <3>1, <3>3
    <2> QED BY <2>2, <2>3
  <1>5. CASE x3 = x10.waits /\ \A i \in DOMAIN x9 : x9[i].type \notin TheLine!Prompts
    <2>1. Head(x9).type \notin TheLine!Prompts
      BY <1>3, <1>5
    <2>2. x3' = x10.waits
      BY <1>1, <1>5, <2>1 DEF TheLine!PendingAfter, TheLine!Prompts
    <2>3. ASSUME NEW i \in DOMAIN x9' PROVE x9'[i].type \notin TheLine!Prompts
      <3>1. i + 1 \in DOMAIN x9 /\ x9'[i] = x9[i + 1]
        BY <1>3
      <3> QED BY <1>5, <3>1
    <2> QED BY <2>2, <2>3
  <1> QED BY <1>2, <1>4, <1>5 DEF TheLine!LineInv, TheLine!Reached

(* A mode that is shown.                                                     *)
LEMMA ModeShown ==
    ASSUME TheLine!LineInv, TheLine!ShowEvent
    PROVE  TheLine!ModeFollows'
  <1>1. /\ x9 # <<>> /\ x9' = Tail(x9) /\ x6' = TheLine!ModeAfter(Head(x9))
        /\ x11' = x11
    BY DEF TheLine!ShowEvent, TheLine!eng
  <1>2. /\ DOMAIN x9 = 1..Len(x9) /\ Len(x9) \in Nat \ {0}
        /\ Len(x9') = Len(x9) - 1
        /\ DOMAIN x9' = 1..(Len(x9) - 1)
        /\ \A i \in 1..(Len(x9) - 1) : x9'[i] = x9[i + 1]
        /\ Head(x9) = x9[1]
    BY <1>1, LineTaken DEF TheLine!LineInv
  <1>3. CASE \E i \in DOMAIN x9 : TheLine!LastMode(i)
    <2>1. PICK i \in DOMAIN x9 : TheLine!LastMode(i)
      BY <1>3
    <2>2. CASE i = 1
      <3>1. x6' = x11
        BY <1>1, <1>2, <2>1, <2>2 DEF TheLine!ModeAfter, TheLine!LastMode
      <3>2. ASSUME NEW j \in DOMAIN x9' PROVE x9'[j].type # "ModeChanged"
        <4>1. j + 1 \in 2..Len(x9) /\ x9'[j] = x9[j + 1]
          BY <1>2
        <4> QED BY <2>1, <2>2, <4>1 DEF TheLine!LastMode
      <3> QED BY <1>1, <3>1, <3>2 DEF TheLine!ModeFollows
    <2>3. CASE i # 1
      <3>1. i - 1 \in DOMAIN x9' /\ x9'[i - 1] = x9[i]
        BY <1>2, <2>3
      <3>2. ASSUME NEW j \in ((i - 1) + 1)..Len(x9') PROVE x9'[j].type # "ModeChanged"
        <4>1. j + 1 \in (i + 1)..Len(x9) /\ x9'[j] = x9[j + 1]
          BY <1>2, <2>3
        <4> QED BY <2>1, <4>1 DEF TheLine!LastMode
      <3>3. TheLine!LastMode(i - 1)'
        BY <1>1, <2>1, <3>1, <3>2 DEF TheLine!LastMode
      <3> QED BY <3>1, <3>3 DEF TheLine!ModeFollows
    <2> QED BY <2>2, <2>3
  <1>4. CASE x6 = x11 /\ \A i \in DOMAIN x9 : x9[i].type # "ModeChanged"
    <2>1. x6' = x11
      BY <1>1, <1>2, <1>4 DEF TheLine!ModeAfter
    <2>2. ASSUME NEW i \in DOMAIN x9' PROVE x9'[i].type # "ModeChanged"
      <3>1. i + 1 \in DOMAIN x9 /\ x9'[i] = x9[i + 1]
        BY <1>2
      <3> QED BY <1>4, <3>1
    <2> QED BY <1>1, <2>1, <2>2 DEF TheLine!ModeFollows
  <1> QED BY <1>3, <1>4 DEF TheLine!LineInv, TheLine!ModeFollows

(* An event of the engine that is no prompt, or none: what it waits on stays *)
(* within reach.                                                             *)
LEMMA ReachedOn ==
    ASSUME TheLine!LineInv, NEW e, x9' = x9 \/ TheLine!Emit(e), e.type \notin TheLine!Prompts,
           x3' = x3, TheLine!Waiting' => x10'.waits = x10.waits,
           NEW rest, x8' = rest,
           \A i \in DOMAIN x8 : TheLine!Waiting' /\ TheLine!Answers(x8[i]) =>
               \E j \in DOMAIN rest : rest[j] = x8[i]
    PROVE  TheLine!Reached'
  <1>1. SUFFICES ASSUME TheLine!Waiting' PROVE
            \/ \E i \in DOMAIN x9' : TheLine!LastPrompt(i)'
            \/ x3' = x10'.waits /\ \A i \in DOMAIN x9' : x9'[i].type \notin TheLine!Prompts
            \/ \E i \in DOMAIN rest : TheLine!Answers(rest[i])'
    BY DEF TheLine!Reached
  <1>2. TheLine!Waiting /\ x10'.waits = x10.waits
    BY <1>1 DEF TheLine!Waiting
  <1>3. /\ Len(x9) \in Nat /\ DOMAIN x9 = 1..Len(x9)
        /\ Len(x9') \in Nat /\ DOMAIN x9' = 1..Len(x9') /\ Len(x9') >= Len(x9)
        /\ \A i \in 1..Len(x9) : x9'[i] = x9[i]
        /\ \A i \in (Len(x9) + 1)..Len(x9') : x9'[i].type \notin TheLine!Prompts
    <2>1. /\ Len(x9) \in Nat /\ DOMAIN x9 = 1..Len(x9)
          /\ Len(Append(x9, e)) = Len(x9) + 1
          /\ DOMAIN Append(x9, e) = 1..(Len(x9) + 1)
          /\ \A i \in 1..Len(x9) : Append(x9, e)[i] = x9[i]
          /\ Append(x9, e)[Len(x9) + 1] = e
      BY LineAdded DEF TheLine!LineInv
    <2> QED BY <2>1 DEF TheLine!Emit
  <1>4. CASE \E i \in DOMAIN x9 : TheLine!LastPrompt(i)
    <2>1. PICK i \in DOMAIN x9 : TheLine!LastPrompt(i)
      BY <1>4
    <2>2. i \in DOMAIN x9' /\ x9'[i] = x9[i]
      BY <1>3
    <2>3. ASSUME NEW j \in (i + 1)..Len(x9') PROVE x9'[j].type \notin TheLine!Prompts
      <3>1. CASE j <= Len(x9)
        BY <1>3, <2>1, <3>1 DEF TheLine!LastPrompt
      <3>2. CASE j > Len(x9)
        BY <1>3, <3>2
      <3> QED BY <1>3, <3>1, <3>2
    <2>4. TheLine!LastPrompt(i)'
      BY <1>2, <2>1, <2>2, <2>3 DEF TheLine!LastPrompt
    <2> QED BY <2>2, <2>4
  <1>5. CASE x3 = x10.waits /\ \A i \in DOMAIN x9 : x9[i].type \notin TheLine!Prompts
    <2>1. ASSUME NEW i \in DOMAIN x9' PROVE x9'[i].type \notin TheLine!Prompts
      <3>1. CASE i <= Len(x9)
        BY <1>3, <1>5, <3>1
      <3>2. CASE i > Len(x9)
        BY <1>3, <3>2
      <3> QED BY <1>3, <3>1, <3>2
    <2> QED BY <1>2, <1>5, <2>1
  <1>6. CASE \E i \in DOMAIN x8 : TheLine!Answers(x8[i])
    <2>1. PICK i \in DOMAIN x8 : TheLine!Answers(x8[i])
      BY <1>6
    <2>2. PICK c : c = x8[i]
      OBVIOUS
    <2>3. PICK j \in DOMAIN rest : rest[j] = c
      BY <1>1, <2>1, <2>2
    <2>4. TheLine!Answers(c)'
      BY <1>2, <2>1, <2>2 DEF TheLine!Answers
    <2> QED BY <2>3, <2>4
  <1> QED BY <1>2, <1>4, <1>5, <1>6 DEF TheLine!LineInv, TheLine!Reached

(* An event that changes no mode, or none.                                   *)
LEMMA ModeOn ==
    ASSUME TheLine!LineInv, NEW e, x9' = x9 \/ TheLine!Emit(e), e.type # "ModeChanged",
           x6' = x6, x11' = x11
    PROVE  TheLine!ModeFollows'
  <1>1. /\ Len(x9) \in Nat /\ DOMAIN x9 = 1..Len(x9)
        /\ Len(x9') \in Nat /\ DOMAIN x9' = 1..Len(x9') /\ Len(x9') >= Len(x9)
        /\ \A i \in 1..Len(x9) : x9'[i] = x9[i]
        /\ \A i \in (Len(x9) + 1)..Len(x9') : x9'[i].type # "ModeChanged"
    <2>1. /\ Len(x9) \in Nat /\ DOMAIN x9 = 1..Len(x9)
          /\ Len(Append(x9, e)) = Len(x9) + 1
          /\ DOMAIN Append(x9, e) = 1..(Len(x9) + 1)
          /\ \A i \in 1..Len(x9) : Append(x9, e)[i] = x9[i]
          /\ Append(x9, e)[Len(x9) + 1] = e
      BY LineAdded DEF TheLine!LineInv
    <2> QED BY <2>1 DEF TheLine!Emit
  <1>2. CASE \E i \in DOMAIN x9 : TheLine!LastMode(i)
    <2>1. PICK i \in DOMAIN x9 : TheLine!LastMode(i)
      BY <1>2
    <2>2. i \in DOMAIN x9' /\ x9'[i] = x9[i]
      BY <1>1
    <2>3. ASSUME NEW j \in (i + 1)..Len(x9') PROVE x9'[j].type # "ModeChanged"
      <3>1. CASE j <= Len(x9)
        BY <1>1, <2>1, <3>1 DEF TheLine!LastMode
      <3>2. CASE j > Len(x9)
        BY <1>1, <3>2
      <3> QED BY <1>1, <3>1, <3>2
    <2>4. TheLine!LastMode(i)'
      BY <2>1, <2>2, <2>3 DEF TheLine!LastMode
    <2> QED BY <2>2, <2>4 DEF TheLine!ModeFollows
  <1>3. CASE x6 = x11 /\ \A i \in DOMAIN x9 : x9[i].type # "ModeChanged"
    <2>1. ASSUME NEW i \in DOMAIN x9' PROVE x9'[i].type # "ModeChanged"
      <3>1. CASE i <= Len(x9)
        BY <1>1, <1>3, <3>1
      <3>2. CASE i > Len(x9)
        BY <1>1, <3>2
      <3> QED BY <1>1, <3>1, <3>2
    <2> QED BY <1>3, <2>1 DEF TheLine!ModeFollows
  <1> QED BY <1>2, <1>3 DEF TheLine!LineInv, TheLine!ModeFollows

(* A mode that takes effect is the last on its way.                          *)
LEMMA ModeSet ==
    ASSUME TheLine!LineInv, NEW requested, TheLine!Emit(TheLine!Event("ModeChanged", 0, requested)), x11' = requested
    PROVE  TheLine!ModeFollows'
  <1>1. PICK e : e = TheLine!Event("ModeChanged", 0, requested)
    OBVIOUS
  <1>2. x9' = Append(x9, e) /\ e.type = "ModeChanged" /\ e.says = requested
    BY <1>1 DEF TheLine!Emit, TheLine!Event
  <1>3. /\ Len(x9) \in Nat /\ Len(x9') = Len(x9) + 1
        /\ DOMAIN x9' = 1..(Len(x9) + 1) /\ x9'[Len(x9) + 1] = e
    BY <1>2, LineAdded DEF TheLine!LineInv
  <1>4. PICK n : n = Len(x9) + 1
    OBVIOUS
  <1>5. TheLine!LastMode(n)'
    BY <1>2, <1>3, <1>4 DEF TheLine!LastMode
  <1>6. \E i \in DOMAIN x9' : TheLine!LastMode(i)'
    BY <1>3, <1>4, <1>5
  <1> QED BY <1>6 DEF TheLine!ModeFollows

(* What the engine waits on, by its phase.                                   *)
LEMMA WaitsKept ==
    ASSUME TheLine!WaitsInPlace,
           \/ x10' = x10
           \/ \E phase : TheLine!To(phase)
           \/ \E v : x10' = [phase |-> x10.phase, waits |-> TheLine!NoPending, gone |-> v]
    PROVE  TheLine!WaitsInPlace' /\ (TheLine!Waiting' => x10'.waits = x10.waits)
  BY DEF TheLine!WaitsInPlace, TheLine!Waiting, TheLine!To

(* A turn's end.                                                             *)
LEMMA TurnOver ==
    ASSUME TheLine!LineInv, TheLine!EndTurn
    PROVE  /\ TheLine!WaitsInPlace' /\ ~TheLine!Waiting' /\ TheLine!Reached'
           /\ \E e : TheLine!Emit(e) /\ e.type \notin TheLine!Prompts /\ e.type # "ModeChanged"
  <1>1. TheLine!To("idle") /\ TheLine!Emit(TheLine!Event("TurnEnded", 0, ""))
    BY DEF TheLine!EndTurn
  <1>2. TheLine!Event("TurnEnded", 0, "").type = "TurnEnded"
    BY DEF TheLine!Event
  <1>3. ~TheLine!Waiting'
    BY <1>1 DEF TheLine!To, TheLine!Waiting
  <1>4. TheLine!WaitsInPlace'
    BY <1>1, WaitsKept DEF TheLine!LineInv
  <1>5. "TurnEnded" \notin TheLine!Prompts
    BY DEF TheLine!Prompts, TheLine!Asks, TheLine!Halts
  <1> QED BY <1>1, <1>2, <1>3, <1>4, <1>5 DEF TheLine!Reached

(* A prompt that is raised is the last on its way.                           *)
LEMMA PromptRaised ==
    ASSUME TheLine!LineInv, NEW kind \in TheLine!Asks \union TheLine!Halts, TheLine!Raise(kind)
    PROVE  TheLine!LineInv'
  <1>1. PICK id : id = IF kind \in TheLine!Asks THEN x14.prompts + 1 ELSE 0
    OBVIOUS
  <1>2. PICK e : e = TheLine!Event(kind, id, "")
    OBVIOUS
  <1>3. /\ x10' = [x10 EXCEPT !.phase = IF kind \in TheLine!Asks THEN @ ELSE "halt",
                              !.waits = [kind |-> kind, id |-> id]]
        /\ x9' = Append(x9, e)
    BY <1>1, <1>2 DEF TheLine!Raise, TheLine!Emit
  <1>4. e.type = kind /\ e.id = id /\ e.type # "ModeChanged"
    BY <1>2 DEF TheLine!Event, TheLine!Asks, TheLine!Halts
  <1>5. PICK phase, gone, waits : x10 = [phase |-> phase, waits |-> waits, gone |-> gone]
    BY DEF TheLine!LineInv, TheLine!WaitsInPlace
  <1>6. /\ x10'.waits = [kind |-> kind, id |-> id]
        /\ x10'.phase = IF kind \in TheLine!Asks THEN x10.phase ELSE "halt"
        /\ x10' = [phase |-> x10'.phase, waits |-> x10'.waits, gone |-> x10'.gone]
    BY <1>3, <1>5
  <1>7. TheLine!WaitsInPlace'
    <2>1. kind \in TheLine!Asks => x10.phase = "tool"
      BY DEF TheLine!Raise, TheLine!Asks, TheLine!Halts
    <2> QED BY <1>6, <2>1 DEF TheLine!WaitsInPlace
  <1>8. TheLine!Reached'
    <2>1. /\ Len(x9) \in Nat /\ Len(x9') = Len(x9) + 1
          /\ DOMAIN x9' = 1..(Len(x9) + 1) /\ x9'[Len(x9) + 1] = e
      BY <1>3, LineAdded DEF TheLine!LineInv
    <2>2. PICK n : n = Len(x9) + 1
      OBVIOUS
    <2>3. TheLine!LastPrompt(n)'
      BY <1>4, <1>6, <2>1, <2>2 DEF TheLine!LastPrompt
    <2>4. \E i \in DOMAIN x9' : TheLine!LastPrompt(i)'
      BY <2>1, <2>2, <2>3
    <2> QED BY <2>4 DEF TheLine!Reached
  <1>9. TheLine!ModeFollows'
    BY <1>3, <1>4, ModeOn DEF TheLine!Raise, TheLine!line, TheLine!Emit
  <1>10. x8' = x8 /\ x5' = x5 /\ \E S : x9' \in Seq(S)
    BY <1>3, LineAdded DEF TheLine!Raise, TheLine!line, TheLine!LineInv
  <1>11. TheLine!DrainsToTheEnd'
    <2>1. x10.phase \in {"tool", "stream"}
      BY DEF TheLine!Raise
    <2>2. ~x5
      BY <2>1 DEF TheLine!LineInv, TheLine!DrainsToTheEnd
    <2> QED BY <1>10, <2>2 DEF TheLine!DrainsToTheEnd
  <1> QED BY <1>7, <1>8, <1>9, <1>10, <1>11 DEF TheLine!LineInv

(* The mode is set, or refused.                                              *)
LEMMA ModeTaken ==
    ASSUME TheLine!LineInv, NEW requested, TheLine!SetMode(requested), x6' = x6
    PROVE  /\ TheLine!ModeFollows'
           /\ \E e : (x9' = x9 \/ TheLine!Emit(e)) /\ e.type \notin TheLine!Prompts
  <1>1. \A t, says : TheLine!Event(t, 0, says).type = t
    BY DEF TheLine!Event
  <1>2. "Notice" \notin TheLine!Prompts /\ "ModeChanged" \notin TheLine!Prompts /\ "Notice" # "ModeChanged"
    BY DEF TheLine!Prompts, TheLine!Asks, TheLine!Halts
  <1>3. CASE requested # "normal" /\ ~x12
    <2>1. TheLine!Emit(TheLine!Event("Notice", 0, "")) /\ x11' = x11
      BY <1>3 DEF TheLine!SetMode
    <2>2. PICK e : e = TheLine!Event("Notice", 0, "")
      OBVIOUS
    <2>3. TheLine!Emit(e) /\ e.type = "Notice"
      BY <1>1, <2>1, <2>2
    <2>4. TheLine!ModeFollows'
      BY <1>2, <2>1, <2>3, ModeOn
    <2> QED BY <1>2, <2>3, <2>4
  <1>4. CASE ~(requested # "normal" /\ ~x12) /\ requested = x11
    <2>1. x9' = x9 /\ x11' = x11
      BY <1>4 DEF TheLine!SetMode
    <2>2. PICK e : e = TheLine!Event("Notice", 0, "")
      OBVIOUS
    <2>3. e.type = "Notice"
      BY <1>1, <2>2
    <2>4. TheLine!ModeFollows'
      BY <1>2, <2>1, <2>3, ModeOn
    <2> QED BY <1>2, <2>1, <2>3, <2>4
  <1>5. CASE ~(requested # "normal" /\ ~x12) /\ requested # x11
    <2>1. TheLine!Emit(TheLine!Event("ModeChanged", 0, requested)) /\ x11' = requested
      BY <1>5 DEF TheLine!SetMode
    <2>2. TheLine!ModeFollows'
      BY <2>1, ModeSet
    <2>3. PICK e : e = TheLine!Event("ModeChanged", 0, requested)
      OBVIOUS
    <2>4. TheLine!Emit(e) /\ e.type = "ModeChanged"
      BY <1>1, <2>1, <2>3
    <2> QED BY <1>2, <2>2, <2>4
  <1> QED BY <1>3, <1>4, <1>5

(* A command that the engine takes: the awaited answer ends the wait.        *)
LEMMA CommandKept ==
    ASSUME TheLine!LineInv, TheLine!TakeCommand
    PROVE  /\ TheLine!WaitsInPlace' /\ TheLine!ModeFollows'
           /\ \E e : (x9' = x9 \/ TheLine!Emit(e)) /\ e.type \notin TheLine!Prompts
           /\ TheLine!Waiting' => x10'.waits = x10.waits /\ ~TheLine!Answers(Head(x8))
  <1>1. PICK c : c = Head(x8)
    OBVIOUS
  <1>2. /\ (x10.phase = "idle" /\ TheLine!IdleCommand(c)) \/ (TheLine!InTurn /\ TheLine!TurnCommand(c))
        /\ x6' = x6
    BY <1>1 DEF TheLine!TakeCommand, TheLine!line
  <1>3. PICK quiet : quiet.type = "Notice"
    <2>1. [type |-> "Notice"].type = "Notice"
      OBVIOUS
    <2> QED BY <2>1
  <1>4. "Notice" \notin TheLine!Prompts /\ "Notice" # "ModeChanged" /\ "MemoryEntries" \notin TheLine!Prompts
    BY DEF TheLine!Prompts, TheLine!Asks, TheLine!Halts
  <1>5. CASE TheLine!TakeModeCommand(c)
    <2>1. TheLine!SetMode(c.says) /\ x10' = x10 /\ c.type = "SetMode"
      BY <1>5 DEF TheLine!TakeModeCommand
    <2>2. ~TheLine!Answers(c)
      BY <2>1 DEF TheLine!Answers
    <2>3. TheLine!ModeFollows' /\ \E e : (x9' = x9 \/ TheLine!Emit(e)) /\ e.type \notin TheLine!Prompts
      BY <1>2, <2>1, ModeTaken
    <2> QED BY <1>1, <2>1, <2>2, <2>3, WaitsKept DEF TheLine!LineInv
  <1>6. CASE TheLine!EndTurn /\ x11' = x11
    BY <1>2, <1>6, TurnOver, ModeOn
  <1>7. CASE x9' = x9 /\ x11' = x11
             /\ (x10' = x10 \/ \E phase : TheLine!To(phase)) /\ (TheLine!Waiting' => ~TheLine!Answers(c))
    <2>1. TheLine!ModeFollows'
      BY <1>2, <1>3, <1>4, <1>7, ModeOn
    <2>2. TheLine!WaitsInPlace' /\ (TheLine!Waiting' => x10'.waits = x10.waits)
      BY <1>7, WaitsKept DEF TheLine!LineInv
    <2> QED BY <1>1, <1>3, <1>4, <1>7, <2>1, <2>2
  <1>8. CASE x10.phase = "idle" /\ TheLine!IdleCommand(c)
    <2>1. ~TheLine!Waiting
      BY <1>8 DEF TheLine!LineInv, TheLine!WaitsInPlace
    <2>2. CASE c.type = "UserInput" /\ TheLine!To("stream") /\ UNCHANGED <<x9, x11, x12, x13, x15>>
      <3>1. ~TheLine!Waiting'
        BY <2>2 DEF TheLine!To, TheLine!Waiting
      <3> QED BY <1>7, <2>2, <3>1
    <2>3. CASE /\ c.type = "MemoryList" /\ TheLine!Emit(TheLine!Event("MemoryEntries", 0, x13))
               /\ UNCHANGED <<x10, x11, x12, x13, x15>>
      <3>1. PICK e : e = TheLine!Event("MemoryEntries", 0, x13)
        OBVIOUS
      <3>2. TheLine!Emit(e) /\ e.type = "MemoryEntries"
        BY <2>3, <3>1 DEF TheLine!Event
      <3>3. ~TheLine!Waiting'
        BY <2>1, <2>3 DEF TheLine!Waiting
      <3>4. TheLine!ModeFollows'
        BY <1>2, <2>3, <3>2, ModeOn
      <3>5. TheLine!WaitsInPlace'
        BY <2>3, WaitsKept DEF TheLine!LineInv
      <3> QED BY <1>4, <3>2, <3>3, <3>4, <3>5
    <2>4. CASE x9' = x9 /\ x11' = x11 /\ x10' = x10
      <3>1. ~TheLine!Waiting'
        BY <2>1, <2>4 DEF TheLine!Waiting
      <3> QED BY <1>7, <2>4, <3>1
    <2> QED BY <1>5, <1>8, <2>2, <2>3, <2>4 DEF TheLine!IdleCommand
  <1>9. CASE TheLine!InTurn /\ TheLine!TurnCommand(c)
    <2>1. CASE TheLine!Answers(c) /\ x11' = x11 /\ x10.phase = "tool"
               /\ x10' = [x10 EXCEPT !.waits = TheLine!NoPending] /\ x9' = x9
      <3>1. x10' = [phase |-> x10.phase, waits |-> TheLine!NoPending, gone |-> x10.gone]
        BY <2>1 DEF TheLine!LineInv, TheLine!WaitsInPlace
      <3>2. ~TheLine!Waiting' /\ TheLine!WaitsInPlace'
        BY <3>1, WaitsKept DEF TheLine!LineInv, TheLine!Waiting
      <3>3. TheLine!ModeFollows'
        BY <1>2, <1>3, <1>4, <2>1, ModeOn
      <3> QED BY <1>3, <1>4, <2>1, <3>2, <3>3
    <2>2. CASE x11' = x11 /\ TheLine!To("stream") /\ x9' = x9
      <3>1. ~TheLine!Waiting'
        BY <2>2 DEF TheLine!To, TheLine!Waiting
      <3> QED BY <1>7, <2>2, <3>1
    <2>3. CASE x9' = x9 /\ x11' = x11 /\ x10' = x10 /\ ~TheLine!Answers(c)
      BY <1>7, <2>3
    <2> QED BY <1>5, <1>6, <1>9, <2>1, <2>2, <2>3 DEF TheLine!TurnCommand
  <1> QED BY <1>2, <1>8, <1>9

(* A command that the engine takes leaves the invariant.                     *)
LEMMA CommandTakenOn ==
    ASSUME TheLine!LineInv, TheLine!TakeCommand
    PROVE  TheLine!LineInv'
  <1>1. x8 # <<>> /\ x8' = Tail(x8) /\ x3' = x3 /\ x5' = x5
    BY DEF TheLine!TakeCommand, TheLine!line
  <1>2. PICK rest : rest = Tail(x8)
    OBVIOUS
  <1>3. /\ \E S : rest \in Seq(S)
        /\ DOMAIN x8 = 1..Len(x8) /\ Len(x8) \in Nat \ {0}
        /\ DOMAIN rest = 1..(Len(x8) - 1)
        /\ \A i \in 1..(Len(x8) - 1) : rest[i] = x8[i + 1]
        /\ Head(x8) = x8[1]
    BY <1>1, <1>2, LineTaken DEF TheLine!LineInv
  <1>4. PICK e : (x9' = x9 \/ TheLine!Emit(e)) /\ e.type \notin TheLine!Prompts
    BY CommandKept
  <1>5. ASSUME NEW i \in DOMAIN x8, TheLine!Waiting', TheLine!Answers(x8[i])
        PROVE  \E j \in DOMAIN rest : rest[j] = x8[i]
    <2>1. i # 1
      BY <1>3, <1>5, CommandKept
    <2>2. i - 1 \in DOMAIN rest /\ rest[i - 1] = x8[i]
      BY <1>3, <2>1
    <2> QED BY <2>2
  <1>6. TheLine!Reached'
    BY <1>1, <1>2, <1>4, <1>5, CommandKept, ReachedOn
  <1>7. \E S : x9' \in Seq(S)
    <2>1. \E S : x9 \in Seq(S)
      BY DEF TheLine!LineInv
    <2>2. \E S : Append(x9, e) \in Seq(S)
      BY <2>1, LineAdded
    <2> QED BY <1>4, <2>1, <2>2 DEF TheLine!Emit
  <1>8. TheLine!DrainsToTheEnd'
    <2>1. x10.phase # "ended"
      BY DEF TheLine!TakeCommand, TheLine!InTurn
    <2> QED BY <1>1, <2>1 DEF TheLine!LineInv, TheLine!DrainsToTheEnd
  <1> QED BY <1>1, <1>2, <1>3, <1>6, <1>7, <1>8, CommandKept DEF TheLine!LineInv

(* The answer that a line gives is one the engine takes.                     *)
LEMMA AnswerFits ==
    ASSUME TheLine!LineInv, TheLine!Waiting, x3 = x10.waits, NEW text
    PROVE  \E c : TheLine!AnswerCommands(x3, text) = <<c>> /\ TheLine!Answers(c)
  <1>1. PICK k, id : x3 = [kind |-> k, id |-> id] /\ x10.waits = [kind |-> k, id |-> id]
                     /\ k \in {"permission", "ask", "loop", "gate"}
    BY DEF TheLine!LineInv, TheLine!WaitsInPlace, TheLine!Asks, TheLine!Halts
  <1>2. x3.kind = k /\ x3.id = id
    BY <1>1
  <1>3. CASE k = "permission"
    <2>1. PICK c : c = TheLine!Command("PermissionAnswer", id, TheLine!PermissionAnswer(text))
      OBVIOUS
    <2>2. c.type = "PermissionAnswer" /\ c.id = id
      BY <2>1 DEF TheLine!Command
    <2> QED BY <1>1, <1>2, <1>3, <2>1, <2>2 DEF TheLine!AnswerCommands, TheLine!Answers
  <1>4. CASE k = "ask"
    <2>1. PICK c : c = TheLine!Command("AskUserAnswer", id, TheLine!AskAnswer(text))
      OBVIOUS
    <2>2. c.type = "AskUserAnswer" /\ c.id = id
      BY <2>1 DEF TheLine!Command
    <2> QED BY <1>1, <1>2, <1>4, <2>1, <2>2 DEF TheLine!AnswerCommands, TheLine!Answers
  <1>5. CASE k = "loop"
    <2>1. PICK c : c = TheLine!Command("ResolveLoop", 0, TheLine!Resolution(text))
      OBVIOUS
    <2>2. c.type = "ResolveLoop"
      BY <2>1 DEF TheLine!Command
    <2> QED BY <1>1, <1>2, <1>5, <2>1, <2>2 DEF TheLine!AnswerCommands, TheLine!Answers
  <1>6. CASE k = "gate"
    <2>1. PICK c : c = TheLine!Command("ResolveCompletionGate", 0, TheLine!Resolution(text))
      OBVIOUS
    <2>2. c.type = "ResolveCompletionGate"
      BY <2>1 DEF TheLine!Command
    <2> QED BY <1>1, <1>2, <1>6, <2>1, <2>2 DEF TheLine!AnswerCommands, TheLine!Answers
  <1> QED BY <1>1, <1>3, <1>4, <1>5, <1>6

(* Commands are made by lines.                                               *)
LEMMA LineSends ==
    ASSUME TheLine!TakeLine, \E S : x8 \in Seq(S)
    PROVE  \/ /\ TheLine!TakeAnswer /\ \E S : TheLine!AnswerCommands(x3, Head(x1)) \in Seq(S)
           \/ /\ x3 = TheLine!NoPending
              /\ \E t : (\E S : t \in Seq(S)) /\ x8' = x8 \o t
  <1>1. CASE TheLine!TakeAnswer
    <2>1. \A c, d : <<c>> \in Seq({c, d}) /\ <<c, d>> \in Seq({c, d}) /\ <<>> \in Seq({c, d})
      OBVIOUS
    <2> QED BY <1>1, <2>1 DEF TheLine!AnswerCommands
  <1>2. CASE TheLine!TakeSlash
    <2>1. \A c : <<c>> \in Seq({c}) /\ <<>> \in Seq({c})
      OBVIOUS
    <2>2. PICK t : t = TheLine!SlashCommands(Head(x1))
      OBVIOUS
    <2>3. \E S : t \in Seq(S)
      BY <2>1, <2>2 DEF TheLine!SlashCommands
    <2> QED BY <1>2, <2>2, <2>3 DEF TheLine!TakeSlash
  <1>3. CASE TheLine!TakeMessage
    <2>1. PICK S : x8 \in Seq(S)
      OBVIOUS
    <2>2. PICK c : c = TheLine!Command("UserInput", 0, "")
      OBVIOUS
    <2>3. /\ x8 \o <<>> = x8 /\ <<>> \in Seq({c})
          /\ x8 \o <<c>> = Append(x8, c) /\ <<c>> \in Seq({c})
      BY <2>1
    <2> QED BY <1>3, <2>2, <2>3 DEF TheLine!TakeMessage
  <1> QED BY <1>1, <1>2, <1>3 DEF TheLine!TakeLine

(* A line leaves the invariant.                                              *)
LEMMA LineKept ==
    ASSUME TheLine!LineInv, TheLine!TakeLine
    PROVE  TheLine!LineInv'
  <1>1. /\ x9' = x9 /\ x10' = x10 /\ x11' = x11
        /\ x6' = x6 /\ x5' = x5
    BY DEF TheLine!TakeLine, TheLine!eng
  <1>2. PICK t : (\E S : t \in Seq(S)) /\ x8' = x8 \o t
                 /\ ((TheLine!TakeAnswer /\ t = TheLine!AnswerCommands(x3, Head(x1))) \/ x3 = TheLine!NoPending)
    BY LineSends DEF TheLine!TakeAnswer, TheLine!LineInv
  <1>3. /\ \E S : x8' \in Seq(S)
        /\ DOMAIN x8 = 1..Len(x8) /\ Len(x8) \in Nat
        /\ DOMAIN t = 1..Len(t) /\ Len(t) \in Nat
        /\ DOMAIN x8' = 1..(Len(x8) + Len(t))
        /\ \A i \in 1..Len(x8) : x8'[i] = x8[i]
        /\ \A i \in 1..Len(t) : x8'[Len(x8) + i] = t[i]
    <2>1. \E S : x8 \in Seq(S)
      BY DEF TheLine!LineInv
    <2>2. \E S : t \in Seq(S)
      BY <1>2
    <2>3. /\ \E S : x8 \o t \in Seq(S)
          /\ DOMAIN x8 = 1..Len(x8) /\ Len(x8) \in Nat
          /\ DOMAIN t = 1..Len(t) /\ Len(t) \in Nat
          /\ DOMAIN (x8 \o t) = 1..(Len(x8) + Len(t))
          /\ \A i \in 1..Len(x8) : (x8 \o t)[i] = x8[i]
          /\ \A i \in 1..Len(t) : (x8 \o t)[Len(x8) + i] = t[i]
      BY <2>1, <2>2, LineJoined
    <2>4. x8' = x8 \o t
      BY <1>2
    <2> QED BY <2>3, <2>4
  <1>4. TheLine!Reached'
    <2>1. SUFFICES ASSUME TheLine!Waiting
                   PROVE  \/ \E i \in DOMAIN x9 : TheLine!LastPrompt(i)
                          \/ x3' = x10.waits /\ \A i \in DOMAIN x9 : x9[i].type \notin TheLine!Prompts
                          \/ \E i \in DOMAIN x8' : TheLine!Answers(x8'[i])
      BY <1>1 DEF TheLine!Reached, TheLine!LastPrompt, TheLine!Waiting, TheLine!Answers
    <2>2. CASE \E i \in DOMAIN x8 : TheLine!Answers(x8[i])
      <3>1. PICK i \in DOMAIN x8 : TheLine!Answers(x8[i])
        BY <2>2
      <3>2. i \in DOMAIN x8' /\ x8'[i] = x8[i]
        BY <1>3
      <3> QED BY <3>1, <3>2
    <2>3. CASE x3 = x10.waits /\ \A i \in DOMAIN x9 : x9[i].type \notin TheLine!Prompts
      <3>1. x3 # TheLine!NoPending
        BY <2>1, <2>3 DEF TheLine!Waiting
      <3>2. PICK c : t = <<c>> /\ TheLine!Answers(c)
        BY <1>2, <2>1, <2>3, <3>1, AnswerFits
      <3>3. PICK n : n = Len(x8) + 1
        OBVIOUS
      <3>4. n \in DOMAIN x8' /\ x8'[n] = c
        BY <1>3, <3>2, <3>3
      <3> QED BY <3>2, <3>4
    <2> QED BY <2>1, <2>2, <2>3 DEF TheLine!LineInv, TheLine!Reached
  <1>5. TheLine!WaitsInPlace' /\ TheLine!ModeFollows' /\ TheLine!DrainsToTheEnd'
    BY <1>1 DEF TheLine!LineInv, TheLine!WaitsInPlace, TheLine!Waiting, TheLine!ModeFollows, TheLine!LastMode, TheLine!DrainsToTheEnd
  <1> QED BY <1>1, <1>3, <1>4, <1>5 DEF TheLine!LineInv

(* A step that leaves events, commands, prompt and engine.                   *)
LEMMA LineQuiet ==
    ASSUME TheLine!LineInv, x9' = x9, x8' = x8, x3' = x3,
           x10' = x10, x11' = x11, x6' = x6,
           x5' = x5 \/ (x10.phase = "ended" /\ x9 = <<>>)
    PROVE  TheLine!LineInv'
  BY DEF TheLine!LineInv, TheLine!WaitsInPlace, TheLine!Waiting, TheLine!Reached, TheLine!LastPrompt, TheLine!Answers, TheLine!ModeFollows, TheLine!LastMode,
         TheLine!DrainsToTheEnd

(* A step of the engine that takes no command and raises nothing.            *)
LEMMA EngineKept ==
    ASSUME TheLine!LineInv, x8' = x8, x3' = x3, x6' = x6, x5' = x5,
           x11' = x11, x10.phase # "ended",
           NEW e, x9' = x9 \/ TheLine!Emit(e), e.type \notin TheLine!Prompts, e.type # "ModeChanged",
           \/ \E phase : TheLine!To(phase)
           \/ \E v : x10' = [phase |-> x10.phase, waits |-> TheLine!NoPending, gone |-> v]
    PROVE  TheLine!LineInv'
  <1>1. TheLine!WaitsInPlace' /\ ~TheLine!Waiting'
    BY WaitsKept DEF TheLine!LineInv, TheLine!To, TheLine!Waiting
  <1>2. TheLine!Reached'
    BY <1>1 DEF TheLine!Reached
  <1>3. TheLine!ModeFollows'
    BY ModeOn
  <1>4. \E S : x9' \in Seq(S)
    <2>1. \E S : x9 \in Seq(S)
      BY DEF TheLine!LineInv
    <2>2. \E S : Append(x9, e) \in Seq(S)
      BY <2>1, LineAdded
    <2> QED BY <2>1, <2>2 DEF TheLine!Emit
  <1>5. TheLine!DrainsToTheEnd'
    BY DEF TheLine!LineInv, TheLine!DrainsToTheEnd
  <1> QED BY <1>1, <1>2, <1>3, <1>4, <1>5 DEF TheLine!LineInv

(* The invariant at the start.                                               *)
LEMMA LineStarts == TheLine!Init => TheLine!LineInv
  <1>1. SUFFICES ASSUME TheLine!Init PROVE TheLine!LineInv
    OBVIOUS
  <1>2. <<>> \in Seq({}) /\ DOMAIN <<>> = {}
    OBVIOUS
  <1>3. x10.waits = TheLine!NoPending /\ TheLine!WaitsInPlace /\ ~TheLine!Waiting
    BY <1>1 DEF TheLine!Init, TheLine!WaitsInPlace, TheLine!Waiting
  <1>4. TheLine!ModeFollows
    BY <1>1, <1>2 DEF TheLine!Init, TheLine!ModeFollows
  <1> QED BY <1>1, <1>2, <1>3, <1>4 DEF TheLine!Init, TheLine!LineInv, TheLine!Reached, TheLine!DrainsToTheEnd

(* The invariant over every step.                                            *)
LEMMA LineStep ==
    ASSUME TheLine!LineInv, TheLine!Next
    PROVE  TheLine!LineInv'
  <1>1. PICK quiet : quiet.type = "TurnEnded"
    <2>1. [type |-> "TurnEnded"].type = "TurnEnded"
      OBVIOUS
    <2> QED BY <2>1
  <1>2. "TurnEnded" \notin TheLine!Prompts /\ "TurnEnded" # "ModeChanged"
    BY DEF TheLine!Prompts, TheLine!Asks, TheLine!Halts
  <1>3. ASSUME NEW text \in TheLine!Lines, TheLine!Type(text) PROVE TheLine!LineInv'
    BY <1>3, LineQuiet DEF TheLine!Type, TheLine!eng
  <1>4. CASE TheLine!EndOfInput
    BY <1>4, LineQuiet DEF TheLine!EndOfInput, TheLine!eng
  <1>5. CASE TheLine!TakeLine
    BY <1>5, LineKept
  <1>6. CASE TheLine!TakeEnd
    BY <1>6, LineQuiet DEF TheLine!TakeEnd, TheLine!eng
  <1>7. CASE TheLine!ShowEvent
    <2>1. x9 # <<>> /\ x9' = Tail(x9) /\ x8' = x8 /\ x10' = x10 /\ x5' = x5 /\ ~x5
      BY <1>7 DEF TheLine!ShowEvent, TheLine!eng
    <2>2. \E S : x9' \in Seq(S)
      BY <2>1, LineTaken DEF TheLine!LineInv
    <2>3. TheLine!WaitsInPlace' /\ TheLine!DrainsToTheEnd'
      BY <2>1 DEF TheLine!LineInv, TheLine!WaitsInPlace, TheLine!Waiting, TheLine!DrainsToTheEnd
    <2> QED BY <1>7, <2>1, <2>2, <2>3, PromptShown, ModeShown DEF TheLine!LineInv
  <1>8. CASE TheLine!Return
    BY <1>8, LineQuiet DEF TheLine!Return, TheLine!eng
  <1>9. CASE TheLine!TakeCommand
    BY <1>9, CommandTakenOn
  <1>10. ASSUME NEW k \in TheLine!Asks \union TheLine!Halts, TheLine!Raise(k) PROVE TheLine!LineInv'
    BY <1>10, PromptRaised
  <1>11. CASE TheLine!StreamToTool
    BY <1>1, <1>2, <1>11, EngineKept DEF TheLine!StreamToTool, TheLine!line
  <1>12. ASSUME TheLine!EndTurn, x8' = x8, UNCHANGED TheLine!line, x11' = x11,
                x10.phase # "ended"
         PROVE  TheLine!LineInv'
    <2>1. PICK e : TheLine!Emit(e) /\ e.type \notin TheLine!Prompts /\ e.type # "ModeChanged"
      BY <1>12, TurnOver
    <2> QED BY <1>12, <2>1, EngineKept DEF TheLine!EndTurn, TheLine!line
  <1>13. CASE TheLine!StreamToEnd
    BY <1>12, <1>13 DEF TheLine!StreamToEnd
  <1>14. CASE TheLine!ToolEnds
    BY <1>1, <1>2, <1>14, EngineKept DEF TheLine!ToolEnds, TheLine!line
  <1>15. CASE TheLine!CallClosed
    <2>1. x10' = [phase |-> x10.phase, waits |-> TheLine!NoPending, gone |-> TRUE]
      BY <1>15 DEF TheLine!CallClosed, TheLine!LineInv, TheLine!WaitsInPlace
    <2> QED BY <1>1, <1>2, <1>15, <2>1, EngineKept DEF TheLine!CallClosed, TheLine!line
  <1>16. CASE TheLine!HaltClosed
    BY <1>12, <1>16 DEF TheLine!HaltClosed
  <1>17. CASE TheLine!SessionCloses
    BY <1>1, <1>2, <1>17, EngineKept DEF TheLine!SessionCloses, TheLine!line
  <1> QED BY <1>3, <1>4, <1>5, <1>6, <1>7, <1>8, <1>9, <1>10, <1>11, <1>13, <1>14, <1>15, <1>16, <1>17
          DEF TheLine!Next, TheLine!EngineStep

(* What the invariant says once all is shown and taken.                      *)
LEMMA LineFollows ==
    ASSUME TheLine!LineInv
    PROVE  TheLine!ParkedPromptIsPending /\ TheLine!ModeMirrorSettles /\ TheLine!DrainsToTheEnd
  <1>1. DOMAIN <<>> = {}
    OBVIOUS
  <1>2. TheLine!ParkedPromptIsPending
    BY <1>1 DEF TheLine!ParkedPromptIsPending, TheLine!Settled, TheLine!LineInv, TheLine!Reached
  <1>3. TheLine!ModeMirrorSettles
    BY <1>1 DEF TheLine!ModeMirrorSettles, TheLine!Settled, TheLine!LineInv, TheLine!ModeFollows
  <1> QED BY <1>2, <1>3 DEF TheLine!LineInv

------------------------------------------------------------------------------
(* The input editor                                                          *)

(* Of numbers one is the least.                                              *)
LEMMA LeastIs ==
    ASSUME NEW T, T \subseteq Nat, T # {}
    PROVE  Input!Min(T) \in T /\ \A y \in T : Input!Min(T) <= y
  <1> DEFINE R == {ss \in Nat \X Nat : ss[1] < ss[2]}
  <1>1. IsWellFoundedOn(R, Nat)
    BY NatLessThanWellFounded DEF OpToRel
  <1> HIDE DEF R
  <1>2. PICK d \in T : \A y \in T : <<y, d>> \notin R
    BY <1>1, WFMin
  <1>3. \A y \in T : ~(y < d)
    BY <1>2 DEF R
  <1>4. d \in T /\ \A y \in T : d <= y
    BY <1>3
  <1> HIDE DEF R
  <1> QED BY <1>4 DEF Input!Min

(* Of numbers that are bounded one is the greatest.                          *)
LEMMA GreatestIs ==
    ASSUME NEW T, T \subseteq Nat, T # {}, NEW b \in Nat, \A x \in T : x <= b
    PROVE  Input!Max(T) \in T /\ \A y \in T : Input!Max(T) >= y
  <1> DEFINE D == {b - x : x \in T}
  <1>1. D \subseteq Nat /\ D # {}
    <2>1. \A x \in T : b - x \in Nat
      OBVIOUS
    <2>2. PICK x \in T : TRUE
      OBVIOUS
    <2>3. b - x \in D
      OBVIOUS
    <2> QED BY <2>1, <2>3
  <1> HIDE DEF D
  <1>2. PICK d \in D : \A y \in D : d <= y
    <2>1. Input!Min(D) \in D /\ \A y \in D : Input!Min(D) <= y
      BY <1>1, LeastIs
    <2> QED BY <2>1
  <1>3. PICK m \in T : d = b - m
    BY <1>2 DEF D
  <1>4. \A x \in T : m >= x
    <2> TAKE x \in T
    <2>1. b - x \in D
      BY DEF D
    <2>2. b - m <= b - x
      BY <1>2, <1>3, <2>1
    <2> QED BY <2>2
  <1>5. m \in T /\ \A x \in T : m >= x
    BY <1>4
  <1> QED BY <1>5 DEF Input!Max

(* A text of one character.                                                  *)
LEMMA CharType == ASSUME NEW S, NEW c \in S PROVE <<c>> \in Seq(S)
  OBVIOUS

(* The boundaries next to a position.                                        *)
LEMMA PrevIs ==
    ASSUME NEW s \in Seq(STRING), NEW i \in 0 .. Len(s)
    PROVE  Input!PrevBoundary(s, i) \in 0 .. i /\ Input!Boundary(s, Input!PrevBoundary(s, i))
  <1> DEFINE T == {0} \cup {b \in Input!Boundaries(s) : b < i}
  <1>1. T \subseteq 0 .. i /\ T # {} /\ \A b \in T : Input!Boundary(s, b)
    BY DEF Input!Boundaries, Input!Boundary
  <1> HIDE DEF T
  <1>2. Input!Max(T) \in T
    <2>1. T \subseteq Nat
      BY <1>1
    <2>2. T # {}
      BY <1>1
    <2>3. i \in Nat /\ \A x \in T : x <= i
      BY <1>1
    <2> QED BY <2>1, <2>2, <2>3, GreatestIs
  <1> QED BY <1>1, <1>2 DEF Input!PrevBoundary, T

(* The boundaries after a position.                                          *)
LEMMA NextIs ==
    ASSUME NEW s \in Seq(STRING), NEW i \in 0 .. Len(s)
    PROVE  Input!NextBoundary(s, i) \in i .. Len(s) /\ Input!Boundary(s, Input!NextBoundary(s, i))
  <1> DEFINE T == {Len(s)} \cup {b \in Input!Boundaries(s) : b > i}
  <1>1. T \subseteq i .. Len(s) /\ T # {} /\ \A b \in T : Input!Boundary(s, b)
    BY DEF Input!Boundaries, Input!Boundary
  <1> HIDE DEF T
  <1>2. Input!Min(T) \in T
    <2>1. T \subseteq Nat
      BY <1>1
    <2>2. T # {}
      BY <1>1
    <2> QED BY <2>1, <2>2, LeastIs
  <1> QED BY <1>1, <1>2 DEF Input!NextBoundary, T

(* The line of a position.                                                   *)
LEMMA StartIs ==
    ASSUME NEW s \in Seq(STRING), NEW i \in 0 .. Len(s)
    PROVE  /\ Input!LineStart(s, i) \in 0 .. i
           /\ Input!LineStart(s, i) = 0 \/ s[Input!LineStart(s, i)] = "\n"
  <1> DEFINE T == {0} \cup {j \in 1 .. i : s[j] = "\n"}
  <1>1. T \subseteq 0 .. i /\ T # {} /\ \A b \in T : b = 0 \/ s[b] = "\n"
    OBVIOUS
  <1> HIDE DEF T
  <1>2. Input!Max(T) \in T
    <2>1. T \subseteq Nat
      BY <1>1
    <2>2. T # {}
      BY <1>1
    <2>3. i \in Nat /\ \A x \in T : x <= i
      BY <1>1
    <2> QED BY <2>1, <2>2, <2>3, GreatestIs
  <1> QED BY <1>1, <1>2 DEF Input!LineStart, T

(* The end of the line of a position.                                        *)
LEMMA EndIs ==
    ASSUME NEW s \in Seq(STRING), NEW i \in 0 .. Len(s)
    PROVE  /\ Input!LineEnd(s, i) \in i .. Len(s)
           /\ Input!LineEnd(s, i) = Len(s) \/ s[Input!LineEnd(s, i) + 1] = "\n"
  <1> DEFINE T == {Len(s)} \cup {j \in i .. Len(s) - 1 : s[j + 1] = "\n"}
  <1>1. T \subseteq i .. Len(s) /\ T # {} /\ \A b \in T : b = Len(s) \/ s[b + 1] = "\n"
    OBVIOUS
  <1> HIDE DEF T
  <1>2. Input!Min(T) \in T
    <2>1. T \subseteq Nat
      BY <1>1
    <2>2. T # {}
      BY <1>1
    <2> QED BY <2>1, <2>2, LeastIs
  <1> QED BY <1>1, <1>2 DEF Input!LineEnd, T

(* A column of a line is a boundary of the text.                             *)
LEMMA ColumnIs ==
    ASSUME NEW s \in Seq(STRING), NEW start \in 0 .. Len(s), NEW end \in start .. Len(s), NEW col,
           start = 0 \/ s[start] = "\n", end = Len(s) \/ s[end + 1] = "\n"
    PROVE  /\ start + Input!ByteAtCol(SubSeq(s, start + 1, end), col) \in 0 .. Len(s)
           /\ Input!Boundary(s, start + Input!ByteAtCol(SubSeq(s, start + 1, end), col))
  <1>1. PICK line : line = SubSeq(s, start + 1, end)
    OBVIOUS
  <1>2. /\ line \in Seq(STRING) /\ Len(line) = end - start
        /\ \A i \in 1 .. (end - start) : line[i] = s[start + i]
    BY <1>1
  <1> DEFINE T == {Len(line)} \cup {i \in Input!Boundaries(line) : Input!Width(SubSeq(line, 1, i)) >= col}
  <1>3. T \subseteq 0 .. Len(line) /\ T # {} /\ \A b \in T : Input!Boundary(line, b)
    BY <1>2 DEF Input!Boundaries, Input!Boundary
  <1> HIDE DEF T
  <1>4. Input!Min(T) \in T
    <2>1. T \subseteq Nat
      BY <1>2, <1>3
    <2>2. T # {}
      BY <1>3
    <2> QED BY <2>1, <2>2, LeastIs
  <1>5. PICK v : v = Input!Min(T) /\ v = Input!ByteAtCol(line, col)
    BY DEF Input!ByteAtCol, T
  <1>6. v \in 0 .. (end - start) /\ Input!Boundary(line, v)
    BY <1>2, <1>3, <1>4, <1>5
  <1>7. start + v \in 0 .. Len(s)
    BY <1>6
  <1>8. Input!Boundary(s, start + v)
    <2>1. CASE v = 0
      BY <2>1 DEF Input!Boundary
    <2>2. CASE v = end - start
      <3>1. start + v = end
        BY <2>2
      <3>2. "\n" # "mark"
        OBVIOUS
      <3> QED BY <3>1, <3>2 DEF Input!Boundary
    <2>3. CASE v \in 1 .. (end - start) - 1
      <3>1. line[v + 1] = s[(start + v) + 1] /\ line[v] = s[start + v]
        BY <1>2, <2>3
      <3>2. line[v + 1] # "mark" \/ line[v] = "\n"
        BY <1>2, <1>6, <2>3 DEF Input!Boundary
      <3> QED BY <3>1, <3>2 DEF Input!Boundary
    <2> QED BY <1>6, <2>1, <2>2, <2>3
  <1> QED BY <1>1, <1>5, <1>7, <1>8

(* The start of a word.                                                      *)
LEMMA WordLeftIs ==
    ASSUME Input!EditorInv
    PROVE  Input!WordLeft \in 0 .. x2 /\ (Input!WordLeft = x2 \/ Input!Boundary(x1, Input!WordLeft))
  <1> DEFINE stops == {b \in Input!Boundaries(x1) : b < x2} \cup {x2}
             overSpace(b) == Input!IsSpace(SubSeq(x1, Input!PrevBoundary(x1, b) + 1, b))
             first == {p \in stops : \A b \in stops : b > p => overSpace(b)}
             word == Input!Min(first)
             second == {p \in stops : p <= word /\ \A b \in stops : p < b /\ b <= word => ~overSpace(b)}
  <1>1. stops \subseteq 0 .. x2 /\ x2 \in stops /\ x2 \in Nat
        /\ \A b \in stops : b = x2 \/ Input!Boundary(x1, b)
    BY DEF Input!EditorInv, Input!Boundaries
  <1>2. Input!WordLeft = Input!Min(second)
    BY DEF Input!WordLeft
  <1> HIDE DEF stops, overSpace
  <1>3. first \subseteq stops /\ x2 \in first
    BY <1>1
  <1> HIDE DEF first
  <1>4. word \in stops
    <2>1. first \subseteq Nat
      BY <1>1, <1>3
    <2>2. first # {}
      BY <1>3
    <2>3. Input!Min(first) \in first
      BY <2>1, <2>2, LeastIs
    <2> QED BY <1>3, <2>3
  <1> HIDE DEF word
  <1>5. second \subseteq stops /\ word \in second
    BY <1>1, <1>4
  <1> HIDE DEF second
  <1>6. Input!Min(second) \in stops
    <2>1. second \subseteq Nat
      BY <1>1, <1>5
    <2>2. second # {}
      BY <1>5
    <2>3. Input!Min(second) \in second
      BY <2>1, <2>2, LeastIs
    <2> QED BY <1>5, <2>3
  <1> QED BY <1>1, <1>2, <1>6

(* The end of a word.                                                        *)
LEMMA WordRightIs ==
    ASSUME Input!EditorInv
    PROVE  Input!WordRight \in x2 .. Len(x1) /\ (Input!WordRight = x2 \/ Input!Boundary(x1, Input!WordRight))
  <1> DEFINE stops == {b \in Input!Boundaries(x1) : b > x2} \cup {x2}
             overSpace(b) == Input!IsSpace(SubSeq(x1, b + 1, Input!NextBoundary(x1, b)))
             first == {p \in stops : \A b \in stops : b < p => ~overSpace(b)}
             gap == Input!Max(first)
             second == {p \in stops : p >= gap /\ \A b \in stops : gap <= b /\ b < p => overSpace(b)}
  <1>1. stops \subseteq x2 .. Len(x1) /\ x2 \in stops /\ x2 \in Nat /\ Len(x1) \in Nat
        /\ \A b \in stops : b = x2 \/ Input!Boundary(x1, b)
    BY DEF Input!EditorInv, Input!Boundaries
  <1>2. Input!WordRight = Input!Max(second)
    BY DEF Input!WordRight
  <1> HIDE DEF stops, overSpace
  <1>3. first \subseteq stops /\ x2 \in first
    BY <1>1
  <1> HIDE DEF first
  <1>5. gap \in stops
    <2>1. first \subseteq Nat
      BY <1>1, <1>3
    <2>2. first # {}
      BY <1>3
    <2>3. \A x \in first : x <= Len(x1)
      BY <1>1, <1>3
    <2>4. Input!Max(first) \in first
      BY <1>1, <2>1, <2>2, <2>3, GreatestIs
    <2> QED BY <1>3, <2>4
  <1> HIDE DEF gap
  <1>6. second \subseteq stops /\ gap \in second
    BY <1>1, <1>5
  <1> HIDE DEF second
  <1>7. Input!Max(second) \in stops
    <2>1. second \subseteq Nat
      BY <1>1, <1>6
    <2>2. second # {}
      BY <1>6
    <2>3. \A x \in second : x <= Len(x1)
      BY <1>1, <1>6
    <2>4. Input!Max(second) \in second
      BY <1>1, <2>1, <2>2, <2>3, GreatestIs
    <2> QED BY <1>6, <2>4
  <1> QED BY <1>1, <1>2, <1>7

(* A replaced part of the text.  One that leaves the text leaves the cursor  *)
(* at the part's end.                                                        *)
LEMMA ReplaceKeeps ==
    ASSUME Input!EditorInv, NEW from \in 0 .. Len(x1), NEW to \in from .. Len(x1),
           NEW text \in Seq(STRING), Input!Replace(from, to, text),
           Input!OnBoundary => Input!Boundary(x1, to)
    PROVE  Input!EditorInv' /\ (x1' = x1 /\ Input!OnBoundary => Input!OnBoundary')
  <1>1. PICK before : before = SubSeq(x1, 1, from)
    OBVIOUS
  <1>2. PICK after : after = SubSeq(x1, to + 1, Len(x1))
    OBVIOUS
  <1>3. Len(x1) \in Nat /\ x1 \in Seq(STRING)
    BY DEF Input!EditorInv
  <1>4. /\ before \in Seq(STRING) /\ Len(before) = from
        /\ after \in Seq(STRING) /\ Len(after) = Len(x1) - to
    BY <1>1, <1>2, <1>3
  <1>5. x1' = before \o text \o after /\ x2' = from + Len(text)
    BY <1>1, <1>2 DEF Input!Replace
  <1>6. Len(text) \in Nat /\ x1' \in Seq(STRING) /\ Len(x1') = from + Len(text) + (Len(x1) - to)
    <2>1. PICK joined : joined = before \o text
      OBVIOUS
    <2>2. joined \in Seq(STRING) /\ Len(joined) = from + Len(text) /\ Len(text) \in Nat
      <3>1. before \o text \in Seq(STRING) /\ Len(before \o text) = Len(before) + Len(text)
        BY <1>4, ConcatProperties
      <3>2. Len(text) \in Nat
        OBVIOUS
      <3> QED BY <1>4, <2>1, <3>1, <3>2
    <2>3. joined \o after \in Seq(STRING) /\ Len(joined \o after) = Len(joined) + Len(after)
      BY <1>4, <2>2, ConcatProperties
    <2>4. x1' = joined \o after
      BY <1>5, <2>1
    <2> QED BY <1>4, <2>2, <2>3, <2>4
  <1>7. x2' \in 0 .. Len(x1')
    BY <1>3, <1>5, <1>6
  <1>8. Input!EditorInv'
    <2>1. x4' = 0 /\ x5' = <<>> /\ x3' = x3
      BY DEF Input!Replace, Input!LeaveHistory
    <2>2. x3' \in Seq(Seq(STRING)) /\ Len(x3') \in Nat /\ x5' \in Seq(STRING)
      BY <2>1 DEF Input!EditorInv
    <2> QED BY <1>6, <1>7, <2>1, <2>2 DEF Input!EditorInv
  <1>9. ASSUME x1' = x1, Input!OnBoundary PROVE Input!OnBoundary'
    <2>1. x2' = to
      BY <1>3, <1>5, <1>6, <1>9
    <2> QED BY <1>9, <2>1 DEF Input!OnBoundary
  <1> QED BY <1>8, <1>9

(* A move to a boundary, if the cursor was on one.                           *)
LEMMA MoveKeeps ==
    ASSUME Input!EditorInv, NEW position \in 0 .. Len(x1), Input!MoveTo(position),
           Input!OnBoundary => Input!Boundary(x1, position)
    PROVE  Input!EditorInv' /\ (x1' = x1 /\ Input!OnBoundary => Input!OnBoundary')
  BY DEF Input!EditorInv, Input!MoveTo, Input!OnBoundary

(* A text on show has the cursor at its end.                                 *)
LEMMA ShowKeeps ==
    ASSUME NEW text \in Seq(STRING), NEW entry, Input!Show(text, entry)
    PROVE  x1' \in Seq(STRING) /\ x2' \in 0 .. Len(x1') /\ Input!OnBoundary'
  BY DEF Input!Show, Input!OnBoundary, Input!Boundary

(* Going back in the history.                                                *)
LEMMA PrevKeeps ==
    ASSUME Input!EditorInv, Input!HistoryPrev
    PROVE  Input!EditorInv' /\ Input!OnBoundary'
  <1>1. PICK entry : entry = IF x4 = 0 THEN Len(x3) ELSE Input!Max({1, x4 - 1})
    OBVIOUS
  <1>2. Input!Show(x3[entry], entry)
    BY <1>1 DEF Input!HistoryPrev
  <1>3. Len(x3) \in Nat \ {0} /\ x3 \in Seq(Seq(STRING))
    BY DEF Input!EditorInv, Input!HistoryPrev
  <1>4. entry \in 1 .. Len(x3)
    <2>1. CASE x4 = 0
      BY <1>1, <1>3, <2>1
    <2>2. CASE x4 # 0
      <3>1. x4 \in 1 .. Len(x3)
        BY <2>2 DEF Input!EditorInv
      <3>2. {1, x4 - 1} \subseteq Nat /\ {1, x4 - 1} # {}
            /\ \A x \in {1, x4 - 1} : x <= Len(x3)
        BY <1>3, <3>1
      <3>3. Input!Max({1, x4 - 1}) \in {1, x4 - 1} /\ Input!Max({1, x4 - 1}) >= 1
        BY <1>3, <3>2, GreatestIs
      <3> QED BY <1>1, <1>3, <2>2, <3>1, <3>3
    <2> QED BY <2>1, <2>2
  <1>5. x3[entry] \in Seq(STRING)
    BY <1>3, <1>4
  <1>6. x1' \in Seq(STRING) /\ x2' \in 0 .. Len(x1') /\ Input!OnBoundary'
    BY <1>2, <1>5, ShowKeeps
  <1>7. x4' = entry /\ x3' = x3
    BY <1>2 DEF Input!Show
  <1>8. x5' = Input!Stashed /\ x6' = IF x4 = 0 THEN x1 ELSE x6
    BY DEF Input!HistoryPrev
  <1>9. x5' \in Seq(STRING) /\ x5' = x6'
    BY <1>8 DEF Input!EditorInv, Input!Stashed
  <1> QED BY <1>3, <1>4, <1>6, <1>7, <1>9 DEF Input!EditorInv

(* Going down in the history, past its newest entry to what was typed.       *)
LEMMA NextKeeps ==
    ASSUME Input!EditorInv, Input!HistoryNext
    PROVE  Input!EditorInv' /\ Input!OnBoundary' /\ (x4' = 0 => x1' = x6)
  <1>1. Len(x3) \in Nat /\ x3 \in Seq(Seq(STRING)) /\ x4 \in 1 .. Len(x3)
    BY DEF Input!EditorInv, Input!HistoryNext
  <1>2. CASE x4 < Len(x3)
    <2>1. Input!Show(x3[x4 + 1], x4 + 1) /\ x5' = x5 /\ x6' = x6
      BY <1>2 DEF Input!HistoryNext
    <2>2. PICK entry : entry = x4 + 1
      OBVIOUS
    <2>3. entry \in 1 .. Len(x3) /\ x3[entry] \in Seq(STRING)
      BY <1>1, <1>2, <2>2
    <2>4. x1' \in Seq(STRING) /\ x2' \in 0 .. Len(x1') /\ Input!OnBoundary'
      BY <2>1, <2>2, <2>3, ShowKeeps
    <2>5. x4' = entry /\ x3' = x3
      BY <2>1, <2>2 DEF Input!Show
    <2>6. x5 = x6 /\ x5 \in Seq(STRING)
      BY <1>1 DEF Input!EditorInv
    <2>7. x4' # 0
      BY <2>3, <2>5
    <2> QED BY <1>1, <2>1, <2>3, <2>4, <2>5, <2>6, <2>7 DEF Input!EditorInv
  <1>3. CASE ~(x4 < Len(x3))
    <2>1. Input!Show(x5, 0) /\ x5' = <<>>
      BY <1>3 DEF Input!HistoryNext
    <2>2. x5 = x6 /\ x5 \in Seq(STRING)
      BY <1>1 DEF Input!EditorInv
    <2>3. x1' \in Seq(STRING) /\ x2' \in 0 .. Len(x1') /\ Input!OnBoundary'
      BY <2>1, <2>2, ShowKeeps
    <2>4. x4' = 0 /\ x3' = x3 /\ x1' = x5
      BY <2>1 DEF Input!Show
    <2>5. <<>> \in Seq(STRING)
      OBVIOUS
    <2> QED BY <1>1, <2>1, <2>2, <2>3, <2>4, <2>5 DEF Input!EditorInv
  <1> QED BY <1>2, <1>3

(* A motion.                                                                 *)
LEMMA MotionKeeps ==
    ASSUME Input!EditorInv, Input!Motion
    PROVE  Input!EditorInv' /\ (x1' = x1 /\ Input!OnBoundary => Input!OnBoundary')
  <1>1. Len(x1) \in Nat /\ x1 \in Seq(STRING) /\ x2 \in 0 .. Len(x1)
    BY DEF Input!EditorInv
  <1>2. CASE Input!Left
    <2>1. PICK v : v = Input!PrevBoundary(x1, x2)
      OBVIOUS
    <2>2. v \in 0 .. Len(x1) /\ Input!Boundary(x1, v)
      BY <1>1, <2>1, PrevIs
    <2> QED BY <1>2, <2>1, <2>2, MoveKeeps DEF Input!Left
  <1>3. CASE Input!Right
    <2>1. PICK v : v = Input!NextBoundary(x1, x2)
      OBVIOUS
    <2>2. v \in 0 .. Len(x1) /\ Input!Boundary(x1, v)
      BY <1>1, <2>1, NextIs
    <2> QED BY <1>3, <2>1, <2>2, MoveKeeps DEF Input!Right
  <1>4. CASE Input!Home
    <2>1. PICK v : v = Input!LineStart(x1, x2)
      OBVIOUS
    <2>2. v \in 0 .. Len(x1) /\ (v = 0 \/ x1[v] = "\n")
      BY <1>1, <2>1, StartIs
    <2>3. Input!Boundary(x1, v)
      BY <2>2 DEF Input!Boundary
    <2> QED BY <1>4, <2>1, <2>2, <2>3, MoveKeeps DEF Input!Home
  <1>5. CASE Input!End
    <2>1. PICK v : v = Input!LineEnd(x1, x2)
      OBVIOUS
    <2>2. v \in 0 .. Len(x1) /\ (v = Len(x1) \/ x1[v + 1] = "\n")
      BY <1>1, <2>1, EndIs
    <2>3. Input!Boundary(x1, v)
      <3>1. "\n" # "mark"
        OBVIOUS
      <3> QED BY <2>2, <3>1 DEF Input!Boundary
    <2> QED BY <1>5, <2>1, <2>2, <2>3, MoveKeeps DEF Input!End
  <1>6. CASE Input!MoveTo(Input!WordLeft)
    <2>1. PICK v : v = Input!WordLeft
      OBVIOUS
    <2>2. v \in 0 .. Len(x1) /\ (v = x2 \/ Input!Boundary(x1, v))
      BY <1>1, <2>1, WordLeftIs
    <2> QED BY <1>6, <2>1, <2>2, MoveKeeps DEF Input!OnBoundary
  <1>7. CASE Input!MoveTo(Input!WordRight)
    <2>1. PICK v : v = Input!WordRight
      OBVIOUS
    <2>2. v \in 0 .. Len(x1) /\ (v = x2 \/ Input!Boundary(x1, v))
      BY <1>1, <2>1, WordRightIs
    <2> QED BY <1>7, <2>1, <2>2, MoveKeeps DEF Input!OnBoundary
  <1>8. ASSUME NEW start \in 0 .. Len(x1), NEW end \in start .. Len(x1), Input!InLine(start, end),
               start = 0 \/ x1[start] = "\n", end = Len(x1) \/ x1[end + 1] = "\n"
        PROVE  Input!EditorInv' /\ (x1' = x1 /\ Input!OnBoundary => Input!OnBoundary')
    <2>1. PICK v : v = start + Input!ByteAtCol(SubSeq(x1, start + 1, end), Input!Column)
      OBVIOUS
    <2>2. v \in 0 .. Len(x1) /\ Input!Boundary(x1, v)
      BY <1>1, <1>8, <2>1, ColumnIs
    <2> QED BY <1>8, <2>1, <2>2, MoveKeeps DEF Input!InLine
  <1>9. CASE Input!Up
    <2>1. PICK start : start = Input!LineStart(x1, x2)
      OBVIOUS
    <2>2. start \in 0 .. x2 /\ (start = 0 \/ x1[start] = "\n")
      BY <1>1, <2>1, StartIs
    <2>3. CASE start = 0
      BY <1>9, <2>1, <2>3, PrevKeeps DEF Input!Up
    <2>4. CASE start # 0
      <3>1. start - 1 \in 0 .. Len(x1) /\ x1[(start - 1) + 1] = "\n"
        BY <1>1, <2>2, <2>4
      <3>2. PICK above : above = Input!LineStart(x1, start - 1)
        OBVIOUS
      <3>3. above \in 0 .. (start - 1) /\ (above = 0 \/ x1[above] = "\n")
        BY <1>1, <3>1, <3>2, StartIs
      <3>4. Input!InLine(above, start - 1)
        BY <1>9, <2>1, <2>4, <3>2 DEF Input!Up
      <3>5. above \in 0 .. Len(x1) /\ start - 1 \in above .. Len(x1)
        BY <1>1, <3>1, <3>3
      <3> QED BY <1>8, <3>1, <3>3, <3>4, <3>5
    <2> QED BY <2>3, <2>4
  <1>10. CASE Input!Down
    <2>1. PICK end : end = Input!LineEnd(x1, x2)
      OBVIOUS
    <2>2. end \in x2 .. Len(x1) /\ (end = Len(x1) \/ x1[end + 1] = "\n")
      BY <1>1, <2>1, EndIs
    <2>3. CASE end = Len(x1)
      BY <1>10, <2>1, <2>3, NextKeeps DEF Input!Down
    <2>4. CASE end # Len(x1)
      <3>1. end + 1 \in 0 .. Len(x1) /\ x1[end + 1] = "\n"
        BY <1>1, <2>2, <2>4
      <3>2. PICK below : below = Input!LineEnd(x1, end + 1)
        OBVIOUS
      <3>3. below \in (end + 1) .. Len(x1) /\ (below = Len(x1) \/ x1[below + 1] = "\n")
        BY <1>1, <3>1, <3>2, EndIs
      <3>4. Input!InLine(end + 1, below)
        BY <1>10, <2>1, <2>4, <3>2 DEF Input!Down
      <3> QED BY <1>8, <3>1, <3>3, <3>4
    <2> QED BY <2>3, <2>4
  <1> QED BY <1>2, <1>3, <1>4, <1>5, <1>6, <1>7, <1>9, <1>10 DEF Input!Motion, Input!WordMotion

(* What is sent is a part of the text.                                       *)
LEMMA TrimmedType ==
    ASSUME NEW s \in Seq(STRING)
    PROVE  Input!Trimmed(s) \in Seq(STRING)
  <1> DEFINE kept == {i \in DOMAIN s : s[i] \notin Input!Blank}
  <1>1. kept \subseteq 1 .. Len(s) /\ Len(s) \in Nat
    OBVIOUS
  <1>2. Input!Trimmed(s) = IF kept = {} THEN <<>> ELSE SubSeq(s, Input!Min(kept), Input!Max(kept))
    BY DEF Input!Trimmed
  <1> HIDE DEF kept
  <1>3. CASE kept = {}
    BY <1>2, <1>3
  <1>4. CASE kept # {}
    <2>1. kept \subseteq Nat /\ \A x \in kept : x <= Len(s)
      BY <1>1
    <2>2. Input!Min(kept) \in kept /\ Input!Max(kept) \in kept
      BY <1>1, <1>4, <2>1, LeastIs, GreatestIs
    <2>3. Input!Min(kept) \in 1 .. Len(s) /\ Input!Max(kept) \in 1 .. Len(s)
      BY <1>1, <2>2
    <2>4. PICK low, high : low = Input!Min(kept) /\ high = Input!Max(kept)
      OBVIOUS
    <2>5. low \in 1 .. Len(s) /\ high \in low .. Len(s)
      <3>1. \A y \in kept : Input!Min(kept) <= y
        BY <1>1, <1>4, <2>1, LeastIs
      <3>2. low <= high
        BY <2>2, <2>4, <3>1
      <3> QED BY <2>3, <2>4, <3>2
    <2>6. SubSeq(s, low, high) \in Seq(STRING)
      <3>1. low \in 1 .. Len(s) + 1 /\ high \in low - 1 .. Len(s)
        BY <1>1, <2>5
      <3> QED BY <3>1, SubSeqProperties
    <2> QED BY <1>2, <1>4, <2>4, <2>6
  <1> QED BY <1>3, <1>4

(* A key leaves the invariant, and the cursor where it may stand.            *)
LEMMA EditorKeeps ==
    ASSUME Input!EditorAssumption, Input!EditorInv, Input!Next
    PROVE  Input!EditorInv' /\ (x1' = x1 /\ Input!OnBoundary => Input!OnBoundary')
  <1>1. Len(x1) \in Nat /\ x1 \in Seq(STRING) /\ x2 \in 0 .. Len(x1) /\ <<>> \in Seq(STRING)
    BY DEF Input!EditorInv
  <1>2. ASSUME NEW text \in {<<c>> : c \in Typed} \cup Pastes, Input!Insert(text) PROVE
          Input!EditorInv' /\ (x1' = x1 /\ Input!OnBoundary => Input!OnBoundary')
    <2>1. text \in Seq(STRING)
      <3>1. CASE text \in Pastes
        BY <3>1 DEF Input!EditorAssumption
      <3>2. ASSUME NEW c \in Typed, text = <<c>> PROVE text \in Seq(STRING)
        <4>1. c \in STRING
          BY DEF Input!EditorAssumption
        <4>2. <<c>> \in Seq(STRING)
          BY <4>1, CharType
        <4> QED BY <3>2, <4>2
      <3> QED BY <3>1, <3>2
    <2>2. Input!Replace(x2, x2, text)
      BY <1>2 DEF Input!Insert
    <2>3. x2 \in x2 .. Len(x1) /\ (Input!OnBoundary => Input!Boundary(x1, x2))
      BY <1>1 DEF Input!OnBoundary
    <2> QED BY <1>1, <2>1, <2>2, <2>3, ReplaceKeeps
  <1>3. ASSUME NEW from \in 0 .. x2, Input!Replace(from, x2, <<>>) PROVE
          Input!EditorInv' /\ (x1' = x1 /\ Input!OnBoundary => Input!OnBoundary')
    <2>1. from \in 0 .. Len(x1) /\ x2 \in from .. Len(x1) /\ (Input!OnBoundary => Input!Boundary(x1, x2))
      BY <1>1 DEF Input!OnBoundary
    <2> QED BY <1>1, <1>3, <2>1, ReplaceKeeps
  <1>4. ASSUME NEW to \in x2 .. Len(x1), Input!Boundary(x1, to), Input!Replace(x2, to, <<>>) PROVE
          Input!EditorInv' /\ (x1' = x1 /\ Input!OnBoundary => Input!OnBoundary')
    <2>1. <<>> \in Seq(STRING) /\ x2 \in 0 .. Len(x1) /\ (Input!OnBoundary => Input!Boundary(x1, to))
      BY <1>1, <1>4
    <2> QED BY <1>4, <2>1, ReplaceKeeps
  <1>5. CASE Input!Backspace
    <2>1. PICK v : v = Input!PrevBoundary(x1, x2)
      OBVIOUS
    <2>2. v \in 0 .. x2
      BY <1>1, <2>1, PrevIs
    <2> QED BY <1>3, <1>5, <2>1, <2>2 DEF Input!Backspace
  <1>6. CASE Input!Delete
    <2>1. PICK v : v = Input!NextBoundary(x1, x2)
      OBVIOUS
    <2>2. v \in x2 .. Len(x1) /\ Input!Boundary(x1, v)
      BY <1>1, <2>1, NextIs
    <2> QED BY <1>4, <1>6, <2>1, <2>2 DEF Input!Delete
  <1>7. CASE Input!DeleteWordBack
    <2>1. PICK v : v = Input!WordLeft
      OBVIOUS
    <2>2. v \in 0 .. x2
      BY <2>1, WordLeftIs
    <2> QED BY <1>3, <1>7, <2>1, <2>2 DEF Input!DeleteWordBack
  <1>8. CASE Input!KillToEnd
    <2>1. PICK v : v = Input!LineEnd(x1, x2)
      OBVIOUS
    <2>2. v \in x2 .. Len(x1) /\ (v = Len(x1) \/ x1[v + 1] = "\n")
      BY <1>1, <2>1, EndIs
    <2>3. Input!Boundary(x1, v)
      <3>1. "\n" # "mark"
        OBVIOUS
      <3> QED BY <2>2, <3>1 DEF Input!Boundary
    <2> QED BY <1>4, <1>8, <2>1, <2>2, <2>3 DEF Input!KillToEnd
  <1>9. CASE Input!Clear
    <2>1. PICK n : n = Len(x1)
      OBVIOUS
    <2>2. n \in 0 .. Len(x1) /\ Input!Boundary(x1, n) /\ Input!Replace(0, n, <<>>)
      BY <1>1, <1>9, <2>1 DEF Input!Clear, Input!Boundary
    <2>3. 0 \in 0 .. Len(x1)
      BY <1>1
    <2> QED BY <1>1, <2>2, <2>3, ReplaceKeeps
  <1>10. CASE Input!Motion
    BY <1>10, MotionKeeps
  <1>11. CASE Input!Submit
    <2>1. PICK said : said = Input!Trimmed(x1)
      OBVIOUS
    <2>2. said \in Seq(STRING)
      BY <1>1, <2>1, TrimmedType
    <2>3. /\ x1' = <<>> /\ x2' = 0 /\ Input!LeaveHistory
          /\ x3' = x3 \/ x3' = Append(x3, said)
      BY <1>11, <2>1 DEF Input!Submit
    <2>4. x3' \in Seq(Seq(STRING))
      <3>1. x3 \in Seq(Seq(STRING))
        BY DEF Input!EditorInv
      <3>2. Append(x3, said) \in Seq(Seq(STRING))
        BY <2>2, <3>1
      <3> QED BY <2>3, <3>1, <3>2
    <2>5. Len(x3') \in Nat /\ Len(<<>>) = 0
      BY <2>4
    <2>6. Input!EditorInv'
      BY <1>1, <2>3, <2>4, <2>5 DEF Input!EditorInv, Input!LeaveHistory
    <2>7. Input!OnBoundary'
      BY <2>3 DEF Input!OnBoundary, Input!Boundary
    <2> QED BY <2>6, <2>7
  <1> QED
    BY <1>2, <1>5, <1>6, <1>7, <1>8, <1>9, <1>10, <1>11 DEF Input!Next

(* And what was being typed comes back.                                      *)
LEMMA EditorStep ==
    ASSUME Input!EditorAssumption, Input!EditorInv, Input!Next
    PROVE  Input!EditorInv' /\ Input!KeepsText
  <1>1. Input!EditorInv' /\ (x1' = x1 /\ Input!OnBoundary => Input!OnBoundary')
    BY EditorKeeps
  <1>2. x4' = 0 /\ Input!HistoryNext => x1' = x6
    BY NextKeeps
  <1> QED BY <1>1, <1>2 DEF Input!KeepsText

(* The invariant at the start.                                               *)
LEMMA EditorStarts == Input!Init => Input!EditorInv
  <1>1. <<>> \in Seq(STRING) /\ <<>> \in Seq(Seq(STRING)) /\ Len(<<>>) = 0
    OBVIOUS
  <1> QED BY <1>1 DEF Input!Init, Input!EditorInv

------------------------------------------------------------------------------
(* The invariants in the composition.                                        *)
LEMMA LineInvariant == FrontendsSpec => [](part = "line" => TheLine!LineInv)
  <1> DEFINE Inv == part = "line" => TheLine!LineInv
  <1>1. FrontendsInit => Inv
    BY LineStarts DEF FrontendsInit
  <1>2. Inv /\ [FrontendsNext]_frontends => Inv'
    <2>1. SUFFICES ASSUME Inv, [FrontendsNext]_frontends, part' = "line" PROVE TheLine!LineInv'
      OBVIOUS
    <2>2. CASE OfLine(TheLine!Next)
      BY <2>1, <2>2, LineStep DEF OfLine
    <2>3. CASE UNCHANGED frontends
      BY <2>1, <2>3, LineQuiet DEF frontends, others
    <2> QED BY <2>1, <2>2, <2>3 DEF FrontendsNext, OfTerminal, OfEditor
  <1> QED BY <1>1, <1>2, PTL DEF FrontendsSpec

LEMMA EditorInvariant == FrontendsSpec => [](part = "editor" => Input!EditorInv)
  <1> DEFINE Inv == part = "editor" => Input!EditorInv
  <1>1. FrontendsInit => Inv
    BY EditorStarts DEF FrontendsInit
  <1>2. Inv /\ [FrontendsNext]_frontends => Inv'
    <2>1. SUFFICES ASSUME Inv, [FrontendsNext]_frontends, part' = "editor" PROVE Input!EditorInv'
      OBVIOUS
    <2>2. CASE OfEditor(Input!Next)
      BY <2>1, <2>2, EditorStep, FrontendsAssumption DEF OfEditor
    <2>3. CASE UNCHANGED frontends
      BY <2>1, <2>3 DEF frontends, others, Input!EditorInv
    <2> QED BY <2>1, <2>2, <2>3 DEF FrontendsNext, OfTerminal, OfLine
  <1> QED BY <1>1, <1>2, PTL DEF FrontendsSpec

\* In every session in line mode, whatever is typed and whatever the engine
\* raises: once all is shown and taken, the prompt that the next line answers
\* is the one the engine waits on and the mode shown is the engine's; and the
\* frontend returns only after everything was shown (line.rs run, pending).
THEOREM LineCorrect == FrontendsSpec => []LineFollowsEngine
  <1> DEFINE Inv == part = "line" => TheLine!LineInv
  <1>1. Inv => LineFollowsEngine
    BY LineFollows DEF LineFollowsEngine
  <1> QED BY <1>1, LineInvariant, PTL

\* For every text, of any length and of characters of any width: a key that
\* only moves never leaves the cursor inside a cluster it was not in, and the
\* way down past the newest entry brings back what was being typed
\* (editor.rs).
THEOREM MotionsCorrect == FrontendsSpec => MotionsKeepText
  <1> DEFINE Inv == part = "editor" => Input!EditorInv
             Keeps == part = "editor" => Input!KeepsText
  <1>1. Inv /\ [FrontendsNext]_frontends => [Keeps]_frontends
    <2>1. SUFFICES ASSUME Inv, FrontendsNext, part = "editor" PROVE Input!KeepsText
      OBVIOUS
    <2>2. OfEditor(Input!Next)
      BY <2>1 DEF FrontendsNext, OfTerminal, OfLine
    <2> QED BY <2>1, <2>2, EditorStep, FrontendsAssumption DEF OfEditor
  <1> QED BY <1>1, EditorInvariant, PTL DEF FrontendsSpec, MotionsKeepText
==============================================================================
