-------------------------------- MODULE Gates --------------------------------
(* How a tool gets permission, asks the user, or has the engine act for it.  *)
(*                                                                          *)
(* A tool runs inside Engine::run_one_tool_call.  Its gate sends an ask with *)
(* a oneshot to the engine and awaits the reply (gate.rs).  The engine       *)
(* serves the asks in the select loop of the tool call that happens to be    *)
(* running, stashes those only the user can decide in vectors local to that  *)
(* call, and answers them when the frontend's commands arrive.  Subagents    *)
(* send their asks over the same channels (SubagentPermissionGate), from     *)
(* tasks of their own.  The frontend shows one prompt of each sort.          *)
(*                                                                          *)
(* An ask is [by, n, req]: its n names the oneshot, and the asker receives a *)
(* reply only while it still awaits ask n.                                   *)
EXTENDS Rules

CONSTANTS
    Sub,          \* subagents, each an engine of its own running tools
    Root,         \* the primary agent's current tool call
    Request,      \* what a tool may ask for: [tool, command, outside_root]
    BaseRules,    \* the rules built in and configured
    Confined,     \* is OS confinement active
    MayClose,     \* may the frontend go away
    MaxCalls,     \* bound: root tool calls
    MaxAsks,      \* bound: asks per asker
    MaxInputs, MaxCancels, MaxModes   \* bounds: commands of each sort

Asker == Sub \cup {Root}
AskSet == [by : Asker, n : 0..MaxAsks, req : Request]
QuestionSet == [by : Asker, n : 0..MaxAsks]
PermissionDecision == {"AllowOnce", "AllowForSession", "AlwaysAllowInProject", "Deny"}
ToolState == {"off", "running", "asking", "questioning", "op", "joined", "allowed"}
IsAllow(decision) == decision # "Deny"

ASSUME GatesAssumption ==
    /\ Root \notin Sub
    /\ Request # {}
    /\ \A q \in Request : q.outside_root \in BOOLEAN
    /\ {MaxCalls, MaxAsks, MaxInputs, MaxCancels, MaxModes} \subseteq Nat
    /\ Confined \in BOOLEAN /\ MayClose \in BOOLEAN
    /\ BaseRules \in Seq({BaseRules[i] : i \in DOMAIN BaseRules})

VARIABLES
    phase,        \* idle, streaming, call (in run_one_tool_call), closed
    batch,        \* tool calls of this completion not yet finished
    callNo,       \* tool calls started so far, the number of the current one
    st,           \* what each asker does: off, running, asking, questioning,
                  \* op (awaits an engine operation), joined, allowed
    serial,       \* each asker's asks so far
    want,         \* what each asker last asked permission for
    asks, userAsks,          \* the two channels asks arrive on
    ops,                     \* engine operations sent and not yet served
    pending, pendingUser,    \* the vectors of the call: [id, ask]
    commandsOpen,            \* the call still watches the commands channel
    commands,                \* frontend to engine, in order
    events,                  \* engine to frontend, in order
    frontendOpen,
    prompt, question,        \* the frontend's two prompt slots: an id or 0
    mode, rules,             \* SafetyState
    nextPermissionId, nextAskId,
    requests, decisions,     \* transcript: PermissionRequest, PermissionDecision
    sent,                    \* commands of each bounded sort sent so far
    answers,                 \* history: [id, decision] the user chose
    effects,                 \* history: asks whose action a tool went on to run
    opsDone                  \* history: calls whose engine operation was performed

toolVars == <<st, serial, want>>
callVars == <<phase, batch, callNo, pending, pendingUser, commandsOpen>>
chanVars == <<asks, userAsks, ops>>
safetyVars == <<mode, rules>>
logVars == <<nextPermissionId, nextAskId, requests, decisions>>
uiVars == <<frontendOpen, prompt, question, sent, answers>>
histVars == <<effects, opsDone>>
vars == <<toolVars, callVars, chanVars, safetyVars, logVars, uiVars, histVars,
          commands, events>>

SomeRequest == CHOOSE q \in Request : TRUE
Sorts == {"inputs", "cancels", "modes"}

Init ==
    /\ phase = "idle" /\ batch = 0 /\ callNo = 0
    /\ st = [a \in Asker |-> "off"]
    /\ serial = [a \in Asker |-> 0]
    /\ want = [a \in Asker |-> SomeRequest]
    /\ asks = <<>> /\ userAsks = <<>> /\ ops = {}
    /\ pending = {} /\ pendingUser = {} /\ commandsOpen = FALSE
    /\ commands = <<>> /\ events = <<>> /\ frontendOpen = TRUE
    /\ prompt = 0 /\ question = 0
    /\ mode = "normal" /\ rules = BaseRules
    /\ nextPermissionId = 1 /\ nextAskId = 1
    /\ requests = {} /\ decisions = {}
    /\ sent = [s \in Sorts |-> 0] /\ answers = {}
    /\ effects = {} /\ opsDone = {}

(* Engine::emit: an event to a departed frontend is dropped.                 *)
Emit(type, id) ==
    events' = IF frontendOpen THEN Append(events, [type |-> type, id |-> id]) ELSE events

------------------------------------------------------------------------------
(* The tool's side of a gate                                                 *)

Awaits(a, state, n) == st[a] = state /\ serial[a] = n

(* oneshot Sender::send: nobody is told when the receiver is gone.           *)
Reply(ask, state, next) ==
    st' = IF Awaits(ask.by, state, ask.n) THEN [st EXCEPT ![ask.by] = next] ELSE st

\* Mutant: a denial leaves the tool in a state nothing resumes it from.
ReplyDenied(ask, allow) ==
    Reply(ask, "asking", IF allow THEN "allowed" ELSE "denied")
ReplyPermission(ask, allow) ==
    Reply(ask, "asking", IF allow THEN "allowed" ELSE "running")

(* Dropping the vectors drops the reply senders: each asker still waiting on *)
(* one resumes with the fail-closed answer of ask_engine.                    *)
Abandoned(a) ==
    \/ \E p \in pending : p.ask.by = a /\ Awaits(a, "asking", p.ask.n)
    \/ \E p \in pendingUser : p.ask.by = a /\ Awaits(a, "questioning", p.ask.n)
FailClosed == [a \in Asker |-> IF Abandoned(a) THEN "running" ELSE st[a]]

Live(a) == st[a] = "running" /\ phase # "closed"

Authorize(a, q) ==
    /\ Live(a) /\ serial[a] < MaxAsks
    /\ st' = [st EXCEPT ![a] = "asking"]
    /\ serial' = [serial EXCEPT ![a] = @ + 1]
    /\ want' = [want EXCEPT ![a] = q]
    /\ asks' = Append(asks, [by |-> a, n |-> serial[a] + 1, req |-> q])
    /\ UNCHANGED <<userAsks, ops, callVars, safetyVars, logVars, uiVars, histVars,
                   commands, events>>

AskUser(a) ==
    /\ Live(a) /\ serial[a] < MaxAsks
    /\ st' = [st EXCEPT ![a] = "questioning"]
    /\ serial' = [serial EXCEPT ![a] = @ + 1]
    /\ userAsks' = Append(userAsks, [by |-> a, n |-> serial[a] + 1])
    /\ UNCHANGED <<want, asks, ops, callVars, safetyVars, logVars, uiVars, histVars,
                   commands, events>>

(* The gates through which the engine acts for a tool of the primary agent:  *)
(* task list, memory, skill, recall, subagent lifecycle; at most once a call *)
(* here.                                                                     *)
AskEngine ==
    /\ Live(Root) /\ callNo \notin opsDone
    /\ st' = [st EXCEPT ![Root] = "op"]
    /\ ops' = ops \cup {callNo}
    /\ UNCHANGED <<serial, want, asks, userAsks, callVars, safetyVars, logVars, uiVars,
                   histVars, commands, events>>

(* The tool acts on what it asked for, only ever after an Allow.             *)
RunAllowed(a) ==
    /\ st[a] = "allowed" /\ phase # "closed"
    /\ st' = [st EXCEPT ![a] = "running"]
    /\ effects' = effects \cup {[by |-> a, n |-> serial[a], req |-> want[a]]}
    /\ UNCHANGED <<serial, want, chanVars, callVars, safetyVars, logVars, uiVars,
                   opsDone, commands, events>>

(* spawn_agents and message_agent answer from a task of their own, when the  *)
(* subagent's turn ends or spawn_timeout passes.                             *)
JoinReply ==
    /\ st[Root] = "joined"
    /\ st' = [st EXCEPT ![Root] = "running"]
    /\ UNCHANGED <<serial, want, chanVars, callVars, safetyVars, logVars, uiVars,
                   histVars, commands, events>>

------------------------------------------------------------------------------
(* The engine's side: serving asks inside run_one_tool_call                  *)

InCall == phase = "call"

(* on_permission_ask: consult the rules; record the request; decide and      *)
(* record at once, or show a prompt and stash the ask.                       *)
OnPermissionAsk ==
    /\ InCall /\ asks # <<>>
    /\ LET ask == Head(asks)
           id == nextPermissionId
           outcome == Evaluate(rules, ask.req, mode)
       IN  /\ requests' = requests \cup {[id |-> id, ask |-> ask]}
           /\ nextPermissionId' = id + 1
           /\ \/ /\ outcome = "allow"
                 /\ decisions' = decisions \cup
                        {[id |-> id, decision |-> "AllowOnce", executed |-> TRUE]}
                 /\ ReplyPermission(ask, TRUE)
                 /\ UNCHANGED <<events, pending>>
              \/ /\ outcome = "deny"
                 /\ decisions' = decisions \cup
                        {[id |-> id, decision |-> "Deny", executed |-> FALSE]}
                 /\ ReplyPermission(ask, FALSE)
                 /\ UNCHANGED <<events, pending>>
              \/ /\ outcome = "ask"
                 /\ Emit("PermissionRequest", id)
                 /\ pending' = pending \cup {[id |-> id, ask |-> ask]}
                 /\ UNCHANGED <<decisions, st>>
    /\ asks' = Tail(asks)
    /\ UNCHANGED <<serial, want, userAsks, ops, phase, batch, callNo, pendingUser,
                   commandsOpen, safetyVars, nextAskId, uiVars, histVars, commands>>

OnUserAsk ==
    /\ InCall /\ userAsks # <<>>
    /\ Emit("AskUserRequest", nextAskId)
    /\ pendingUser' = pendingUser \cup {[id |-> nextAskId, ask |-> Head(userAsks)]}
    /\ nextAskId' = nextAskId + 1
    /\ userAsks' = Tail(userAsks)
    /\ UNCHANGED <<toolVars, asks, ops, phase, batch, callNo, pending, commandsOpen,
                   safetyVars, nextPermissionId, requests, decisions, uiVars, histVars,
                   commands>>

(* An operation of call c is performed and answered; one that spawns a       *)
(* subagent is answered later.                                               *)
ServeOp(c) ==
    /\ InCall /\ c \in ops
    /\ ops' = ops \ {c}
    /\ opsDone' = opsDone \cup {c}
    /\ LET awaited == c = callNo /\ st[Root] = "op"
       IN  \/ st' = IF awaited THEN [st EXCEPT ![Root] = "running"] ELSE st
           \/ \E s \in Sub :
                 /\ st[s] = "off"
                 /\ st' = IF awaited THEN [st EXCEPT ![Root] = "joined", ![s] = "running"]
                          ELSE [st EXCEPT ![s] = "running"]
    /\ UNCHANGED <<serial, want, asks, userAsks, callVars, safetyVars, logVars, uiVars,
                   effects, commands, events>>

SetMode(m) ==
    mode' = IF ModeResolves(m, Confined) THEN m ELSE mode

(* grant_for_session, under the guard of answer_permission: an outside-root  *)
(* request is never turned into a rule.                                      *)
ApplyGrant(req, decision) ==
    rules' = IF ~req.outside_root /\ decision \in {"AllowForSession", "AlwaysAllowInProject"}
             THEN Append(rules, GrantRule(req)) ELSE rules

\* Mutant: the answer is given to whichever ask is pending.
AnswerAnyPending(id, decision) ==
    \/ /\ pending = {}
       /\ UNCHANGED <<st, pending, decisions, rules>>
    \/ \E p \in pending :
          /\ pending' = pending \ {p}
          /\ ApplyGrant(p.ask.req, decision)
          /\ decisions' = decisions \cup
                {[id |-> id, decision |-> decision, executed |-> IsAllow(decision)]}
          /\ ReplyPermission(p.ask, IsAllow(decision))

\* Mutant: only a decision that grants nothing is recorded.
AnswerPermissionUnrecorded(id, decision) ==
    \/ /\ \A p \in pending : p.id # id
       /\ UNCHANGED <<st, pending, decisions, rules>>
    \/ \E p \in pending :
          /\ p.id = id
          /\ pending' = pending \ {p}
          /\ ApplyGrant(p.ask.req, decision)
          /\ decisions' = decisions \cup
                {[id |-> id, decision |-> d, executed |-> IsAllow(d)] :
                    d \in {decision} \cap {"AllowOnce", "Deny"}}
          /\ ReplyPermission(p.ask, IsAllow(decision))

(* answer_permission; an id that is not pending is ignored.                  *)
AnswerPermission(id, decision) ==
    \/ /\ \A p \in pending : p.id # id
       /\ UNCHANGED <<st, pending, decisions, rules>>
    \/ \E p \in pending :
          /\ p.id = id
          /\ pending' = pending \ {p}
          /\ ApplyGrant(p.ask.req, decision)
          /\ decisions' = decisions \cup
                {[id |-> id, decision |-> decision, executed |-> IsAllow(decision)]}
          /\ ReplyPermission(p.ask, IsAllow(decision))

(* answer_user_ask; answered and declined both resume the tool.              *)
AnswerUserAsk(id) ==
    \/ /\ \A p \in pendingUser : p.id # id
       /\ UNCHANGED <<st, pendingUser>>
    \/ \E p \in pendingUser :
          /\ p.id = id
          /\ pendingUser' = pendingUser \ {p}
          /\ Reply(p.ask, "questioning", "running")

(* The next tool call of the batch begins, or, with none left, the turn asks *)
(* the model again; the vectors of the ended call are dropped.               *)
StartCall(state) ==
    /\ phase' = "call" /\ callNo' = callNo + 1
    /\ st' = [state EXCEPT ![Root] = "running"]
    /\ pending' = {} /\ pendingUser' = {} /\ commandsOpen' = TRUE

\* Mutant: the vectors outlive the call that stashed the asks.
LeaveCallKeeping(state, next) ==
    /\ phase' = next
    /\ st' = [state EXCEPT ![Root] = "off"]
    /\ commandsOpen' = FALSE
    /\ UNCHANGED <<pending, pendingUser>>

LeaveCall(state, next) ==
    /\ phase' = next
    /\ st' = [state EXCEPT ![Root] = "off"]
    /\ pending' = {} /\ pendingUser' = {} /\ commandsOpen' = FALSE

(* The tool future completes, whether it succeeded or not, and its result is *)
(* ingested.                                                                 *)
FinishCall ==
    /\ InCall /\ st[Root] = "running"
    /\ IF batch > 1
       THEN StartCall(FailClosed) /\ batch' = batch - 1
       ELSE LeaveCall(FailClosed, "streaming") /\ batch' = 0 /\ UNCHANGED callNo
    /\ UNCHANGED <<serial, want, chanVars, safetyVars, logVars, uiVars, histVars,
                   commands, events>>

(* Cancel drops the tool future and gives a canceled result to it and to     *)
(* every later call of the batch; the turn ends.                             *)
CancelCall ==
    /\ LeaveCall(FailClosed, "idle") /\ batch' = 0
    /\ Emit("TurnEnded", 0)
    /\ UNCHANGED <<callNo, decisions, rules, mode>>

(* One command taken by the select of a tool call.                           *)
CallCommand ==
    /\ InCall /\ commandsOpen /\ commands # <<>>
    /\ LET c == Head(commands) IN
       \/ /\ c.type = "PermissionAnswer"
          /\ AnswerPermission(c.id, c.decision)
          /\ UNCHANGED <<phase, batch, callNo, pendingUser, commandsOpen, mode,
                         events>>
       \/ /\ c.type = "AskUserAnswer"
          /\ AnswerUserAsk(c.id)
          /\ UNCHANGED <<phase, batch, callNo, pending, commandsOpen, mode, rules,
                         decisions, events>>
       \/ c.type = "Cancel" /\ CancelCall
       \/ /\ c.type = "SetMode"
          /\ SetMode(c.mode)
          /\ UNCHANGED <<st, callVars, rules, decisions, events>>
       \/ /\ c.type = "UserInput"       \* dropped by the select's catch-all
          /\ UNCHANGED <<st, callVars, mode, rules, decisions, events>>
    /\ commands' = Tail(commands)
    /\ UNCHANGED <<serial, want, chanVars, nextPermissionId, nextAskId, requests, uiVars,
                   effects, opsDone>>

(* The commands channel closed: whatever is pending now fails closed, and    *)
(* this call stops watching commands.                                        *)
CallClosed ==
    /\ InCall /\ commandsOpen /\ commands = <<>> /\ ~frontendOpen
    /\ commandsOpen' = FALSE
    /\ st' = FailClosed
    /\ pending' = {} /\ pendingUser' = {}
    /\ UNCHANGED <<serial, want, chanVars, phase, batch, callNo, safetyVars, logVars,
                   uiVars, histVars, commands, events>>

------------------------------------------------------------------------------
(* The rest of the turn, as far as it takes commands                         *)

IdleCommand ==
    /\ phase = "idle" /\ commands # <<>>
    /\ LET c == Head(commands) IN
       \/ c.type = "UserInput" /\ phase' = "streaming" /\ UNCHANGED mode
       \/ c.type = "SetMode" /\ SetMode(c.mode) /\ UNCHANGED phase
       \/ /\ c.type \in {"Cancel", "PermissionAnswer", "AskUserAnswer"}
          /\ UNCHANGED <<phase, mode>>
    /\ commands' = Tail(commands)
    /\ UNCHANGED <<toolVars, batch, callNo, pending, pendingUser, commandsOpen, chanVars,
                   rules, logVars, uiVars, histVars, events>>

(* The run loop ends with the channel; the subagents' tasks end after it.    *)
IdleClosed ==
    /\ phase = "idle" /\ commands = <<>> /\ ~frontendOpen
    /\ phase' = "closed"
    /\ UNCHANGED <<toolVars, batch, callNo, pending, pendingUser, commandsOpen, chanVars,
                   safetyVars, logVars, uiVars, histVars, commands, events>>

(* consume_stream takes a command: Cancel ends the turn, a mode is set, the  *)
(* rest is dropped.                                                          *)
StreamCommand ==
    /\ phase = "streaming" /\ commands # <<>>
    /\ LET c == Head(commands) IN
       \/ /\ c.type = "Cancel" /\ phase' = "idle" /\ Emit("TurnEnded", 0)
          /\ UNCHANGED mode
       \/ c.type = "SetMode" /\ SetMode(c.mode) /\ UNCHANGED <<phase, events>>
       \/ /\ c.type \in {"UserInput", "PermissionAnswer", "AskUserAnswer"}
          /\ UNCHANGED <<phase, events, mode>>
    /\ commands' = Tail(commands)
    /\ UNCHANGED <<toolVars, batch, callNo, pending, pendingUser, commandsOpen, chanVars,
                   rules, logVars, uiVars, histVars>>

(* The stream ends with tool calls, which run one after the other.           *)
StreamToolCalls(k) ==
    /\ phase = "streaming" /\ k \in 1..(MaxCalls - callNo)
    /\ StartCall(st) /\ batch' = k
    /\ UNCHANGED <<serial, want, chanVars, safetyVars, logVars, uiVars, histVars,
                   commands, events>>

(* The stream ends without, or fails for good: the turn is over.             *)
StreamTurnEnd ==
    /\ phase = "streaming"
    /\ phase' = "idle" /\ Emit("TurnEnded", 0)
    /\ UNCHANGED <<toolVars, batch, callNo, pending, pendingUser, commandsOpen, chanVars,
                   safetyVars, logVars, uiVars, histVars, commands>>

------------------------------------------------------------------------------
(* The frontend                                                              *)

(* apply_event: a request for a prompt takes the slot, whatever is in it.    *)
ApplyEvent ==
    /\ frontendOpen /\ events # <<>>
    /\ LET e == Head(events) IN
       /\ prompt' = IF e.type = "PermissionRequest" THEN e.id ELSE prompt
       /\ question' = IF e.type = "AskUserRequest" THEN e.id ELSE question
    /\ events' = Tail(events)
    /\ UNCHANGED <<toolVars, callVars, chanVars, safetyVars, logVars, frontendOpen, sent,
                   answers, histVars, commands>>

Send(command) == commands' = Append(commands, command)

(* decide: the prompt closes and its answer is sent.                         *)
Decided(decision) ==
    /\ frontendOpen /\ prompt # 0
    /\ prompt' = 0
    /\ Send([type |-> "PermissionAnswer", id |-> prompt, decision |-> decision])
    /\ answers' = answers \cup {[id |-> prompt, decision |-> decision]}
    /\ UNCHANGED <<toolVars, callVars, chanVars, safetyVars, logVars, frontendOpen,
                   question, sent, histVars, events>>

\* Mutant: dismissing a question sends nothing.
AnsweredSilently ==
    /\ frontendOpen /\ prompt = 0 /\ question # 0
    /\ question' = 0
    /\ UNCHANGED <<toolVars, callVars, chanVars, safetyVars, logVars, frontendOpen,
                   prompt, sent, answers, histVars, events, commands>>

(* answer_ask; the permission prompt owns the keyboard while it is shown.    *)
Answered ==
    /\ frontendOpen /\ prompt = 0 /\ question # 0
    /\ question' = 0
    /\ Send([type |-> "AskUserAnswer", id |-> question])
    /\ UNCHANGED <<toolVars, callVars, chanVars, safetyVars, logVars, frontendOpen,
                   prompt, sent, answers, histVars, events>>

UserCommand(sort, bound, command) ==
    /\ frontendOpen /\ sent[sort] < bound
    /\ sent' = [sent EXCEPT ![sort] = @ + 1]
    /\ Send(command)
    /\ UNCHANGED <<toolVars, callVars, chanVars, safetyVars, logVars, frontendOpen,
                   prompt, question, answers, histVars, events>>

SendInput ==
    /\ prompt = 0 /\ question = 0
    /\ UserCommand("inputs", MaxInputs, [type |-> "UserInput"])
\* An already open command palette keeps the keyboard when a prompt appears.
SendCancel == UserCommand("cancels", MaxCancels, [type |-> "Cancel"])
SendMode(m) == UserCommand("modes", MaxModes, [type |-> "SetMode", mode |-> m])

(* Quit, or the terminal's input ended: the frontend drops its channel ends. *)
Close ==
    /\ MayClose /\ frontendOpen
    /\ frontendOpen' = FALSE /\ events' = <<>> /\ prompt' = 0 /\ question' = 0
    /\ UNCHANGED <<toolVars, callVars, chanVars, safetyVars, logVars, sent, answers,
                   histVars, commands>>

------------------------------------------------------------------------------

ToolStep ==
    \/ \E a \in Asker :
          \/ \E q \in Request : Authorize(a, q)
          \/ AskUser(a) \/ RunAllowed(a)
    \/ AskEngine \/ JoinReply
EngineStep ==
    \/ OnPermissionAsk \/ OnUserAsk
    \/ \E c \in ops : ServeOp(c)
    \/ FinishCall \/ CallCommand \/ CallClosed
    \/ IdleCommand \/ IdleClosed \/ StreamCommand \/ StreamTurnEnd
    \/ \E k \in 1..MaxCalls : StreamToolCalls(k)
UserStep ==
    \/ ApplyEvent \/ Answered
    \/ \E d \in PermissionDecision : Decided(d)
    \/ SendInput \/ SendCancel \/ \E m \in Mode : SendMode(m)
    \/ Close

Next == ToolStep \/ EngineStep \/ UserStep

Spec == Init /\ [][Next]_vars

(* The select of the engine polls its ready branches in random order, so     *)
(* each is served in the end; the tasks run; a tool that is not waiting ends *)
(* (bash has a timeout); the user answers a prompt that stays on the screen. *)
Fairness ==
    /\ WF_vars(OnPermissionAsk) /\ WF_vars(OnUserAsk)
    /\ \A c \in 1..MaxCalls : WF_vars(ServeOp(c))
    /\ WF_vars(FinishCall) /\ WF_vars(CallCommand) /\ WF_vars(CallClosed)
    /\ WF_vars(IdleCommand) /\ WF_vars(IdleClosed) /\ WF_vars(StreamCommand)
    /\ WF_vars(StreamTurnEnd) /\ WF_vars(JoinReply)
    /\ \A a \in Asker : WF_vars(RunAllowed(a))
    /\ WF_vars(ApplyEvent) /\ WF_vars(Answered)
    /\ WF_vars(\E d \in PermissionDecision : Decided(d))

FairSpec == Spec /\ Fairness

------------------------------------------------------------------------------
(* Properties                                                                *)

CommandSet ==
    [type : {"PermissionAnswer"}, id : Nat, decision : PermissionDecision]
    \cup [type : {"AskUserAnswer"}, id : Nat]
    \cup [type : {"Cancel", "UserInput"}] \cup [type : {"SetMode"}, mode : Mode]
EventSet == [type : {"PermissionRequest", "AskUserRequest", "TurnEnded"}, id : Nat]

TypeOK ==
    /\ phase \in {"idle", "streaming", "call", "closed"}
    /\ batch \in Nat /\ callNo \in Nat
    /\ st \in [Asker -> ToolState]
    /\ serial \in [Asker -> 0..MaxAsks] /\ want \in [Asker -> Request]
    /\ asks \in Seq(AskSet) /\ userAsks \in Seq(QuestionSet) /\ ops \subseteq Nat
    /\ pending \subseteq [id : Nat, ask : AskSet]
    /\ pendingUser \subseteq [id : Nat, ask : QuestionSet]
    /\ commandsOpen \in BOOLEAN /\ commands \in Seq(CommandSet)
    /\ events \in Seq(EventSet) /\ frontendOpen \in BOOLEAN
    /\ prompt \in Nat /\ question \in Nat
    /\ mode \in Mode
    /\ nextPermissionId \in Nat \ {0} /\ nextAskId \in Nat \ {0}
    /\ requests \subseteq [id : Nat, ask : AskSet]
    /\ decisions \subseteq [id : Nat, decision : PermissionDecision, executed : BOOLEAN]
    /\ sent \in [Sorts -> Nat]
    /\ answers \subseteq [id : Nat, decision : PermissionDecision]
    /\ effects \subseteq AskSet /\ opsDone \subseteq Nat

(* A person allowed this very request, or the rules did and it is inside the *)
(* project root.                                                             *)
UserAllowed(id) == \E a \in answers : a.id = id /\ IsAllow(a.decision)
Authorized(ask) ==
    \E r \in requests :
        /\ r.ask = ask
        /\ \E d \in decisions : d.id = r.id /\ d.executed
        /\ UserAllowed(r.id) \/ ~ask.req.outside_root

(* HC-4 and the permission seam end to end: whatever a tool of any agent     *)
(* does behind a permission was asked for by that agent, recorded with an    *)
(* allowing decision, and, outside the project root, allowed by a person at  *)
(* a prompt for exactly this ask: no stale answer, no grant, no mode and no  *)
(* other agent's prompt stands in for it.                                    *)
EffectsAuthorized == \A ask \in effects : Authorized(ask)

(* Transcript ids identify one ask each, every decision belongs to a         *)
(* recorded request, no request is decided twice, and a decision on a prompt *)
(* is the one the user chose at it.                                          *)
OneDecisionPerRequest ==
    /\ \A r1, r2 \in requests : r1.id = r2.id => r1 = r2
    /\ \A d \in decisions : \E r \in requests : r.id = d.id
    /\ \A d1, d2 \in decisions : d1.id = d2.id => d1 = d2
    /\ \A d \in decisions : \A a \in answers :
          a.id = d.id => d.decision = a.decision

(* HC-4: every rule the session added comes from a prompt about an action    *)
(* inside the root that the user answered with a standing grant, and covers  *)
(* what was asked.                                                           *)
GrantsFromUser ==
    \A i \in (Len(BaseRules) + 1)..Len(rules) :
        \E r \in requests : \E a \in answers :
            /\ a.id = r.id /\ a.decision \in {"AllowForSession", "AlwaysAllowInProject"}
            /\ ~r.ask.req.outside_root /\ rules[i] = GrantRule(r.ask.req)

InChannel(a) == \E i \in 1..Len(asks) : asks[i].by = a /\ asks[i].n = serial[a]
InPending(a) == \E p \in pending : p.ask.by = a /\ p.ask.n = serial[a]
InUserChannel(a) == \E i \in 1..Len(userAsks) : userAsks[i].by = a /\ userAsks[i].n = serial[a]
InUserPending(a) == \E p \in pendingUser : p.ask.by = a /\ p.ask.n = serial[a]

(* No reply is lost: an agent that waits has its ask in the engine's hands,  *)
(* in the channel or stashed by the current call, and in one place only;     *)
(* and nothing is stashed while no call runs to answer it.                   *)
WaitersAreOwned ==
    /\ \A a \in Asker :
          /\ st[a] = "asking" => (InChannel(a) <=> ~InPending(a))
          /\ st[a] = "questioning" => (InUserChannel(a) <=> ~InUserPending(a))
    /\ phase # "call" => pending = {} /\ pendingUser = {}
    /\ st[Root] = "op" => callNo \in ops

(* A prompt the call waits on is one the user has seen, is seeing, or will   *)
(* be shown: its event is on the way, it is on the screen, or its answer is. *)
PromptReaches(id) ==
    \/ \E i \in 1..Len(events) : events[i].type = "PermissionRequest" /\ events[i].id = id
    \/ prompt = id
    \/ \E i \in 1..Len(commands) : commands[i].type = "PermissionAnswer" /\ commands[i].id = id
PendingReachesUser ==
    frontendOpen =>
        \A p \in pending : Awaits(p.ask.by, "asking", p.ask.n) => PromptReaches(p.id)

(* Every permission ask and question of the primary agent is answered, even  *)
(* if only by the user, while the frontend stays.                            *)
RootIsAnswered == \A n \in 1..MaxAsks :
    (Awaits(Root, "asking", n) \/ Awaits(Root, "questioning", n))
        ~> ~(Awaits(Root, "asking", n) \/ Awaits(Root, "questioning", n))

(* Neither agents nor the wire lose an ask: what the vectors hold has a      *)
(* prompt that reaches the user, and no ask of the root tool waits forever.  *)
(* (turn.rs, run_one_tool_call, and the frontend's prompt slots)             *)
AsksReachUser == []PendingReachesUser /\ RootIsAnswered

(* The records of the seam agree with each other, with what the user chose,  *)
(* with the rules the session added, and with who waits: no interleaving of  *)
(* two askers, answers, cancels and calls breaks any of them.                *)
SeamHolds == OneDecisionPerRequest /\ GrantsFromUser /\ WaitersAreOwned

(* tech-spec 6.3: one prompt on screen, a later request queues behind it; a  *)
(* prompt leaves the screen only for its answer or with the frontend.        *)
PromptsQueue == [][prompt # 0 /\ prompt' # prompt => prompt' = 0]_vars

------------------------------------------------------------------------------
(* The permission seam implements Authority: an ask is raised when its tool  *)
(* sends it, approved when the user says so at its prompt, allowed when the  *)
(* engine records the decision, and ran when the tool goes on.               *)

OutsideRoot(ask) == ask.req.outside_root
Raised == {asks[i] : i \in 1..Len(asks)} \cup {r.ask : r \in requests}
Approved == {r.ask : r \in {x \in requests : UserAllowed(x.id)}}
Allowed == {r.ask : r \in {x \in requests : \E d \in decisions : d.id = x.id /\ d.executed}}

A == INSTANCE Authority WITH Ask <- AskSet, Outside <- OutsideRoot, raised <- Raised,
                             approved <- Approved, allowed <- Allowed, ran <- effects

(* Every behaviour of the engine, the agents and the user keeps the promise  *)
(* of the permission seam.                                                   *)
ImplementsAuthority == A!Spec
==============================================================================
