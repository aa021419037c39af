----------------------------- MODULE GatesProofs -----------------------------
(* Theorems about Gates, for every set of agents and requests, every rule    *)
(* set and every bound: types and authorised effects first, then the records *)
(* and waits of the seam, then that the seam implements Authority.           *)
EXTENDS Gates, TLAPS

USE DEF toolVars, callVars, chanVars, safetyVars, logVars, uiVars, histVars

------------------------------------------------------------------------------
(* Types, and who may act                                                    *)

(* What the assumptions give about the constants.                            *)
LEMMA ConstantTypes ==
    /\ Root \in Asker /\ MaxAsks \in Nat
    /\ SomeRequest \in Request
    /\ \A q \in Request : q.outside_root \in BOOLEAN
  BY GatesAssumption DEF GatesAssumption, Asker, SomeRequest

(* What the frontend or the engine appends to a channel has the channel's    *)
(* type, and what is taken off it too.                                       *)
LEMMA EmptyChannel == \A S : <<>> \in Seq(S)
  OBVIOUS

DecisionSet == [id : Nat, decision : PermissionDecision, executed : BOOLEAN]

(* A recorded decision has its type.                                         *)
LEMMA DecisionType ==
    ASSUME NEW id \in Nat, NEW d \in PermissionDecision, NEW e \in BOOLEAN
    PROVE  [id |-> id, decision |-> d, executed |-> e] \in DecisionSet
  BY DEF DecisionSet

(* Dropping the vectors leaves every asker in a legal state.                 *)
LEMMA FailClosedType ==
    ASSUME TypeOK
    PROVE  FailClosed \in [Asker -> ToolState]
  BY DEF TypeOK, FailClosed, ToolState

(* Emitting an event keeps the event channel's type.                         *)
LEMMA EmitType ==
    ASSUME TypeOK, NEW t \in {"PermissionRequest", "AskUserRequest", "TurnEnded"},
           NEW id \in Nat, Emit(t, id)
    PROVE  events' \in Seq(EventSet)
  <1>1. [type |-> t, id |-> id] \in EventSet
    BY DEF EventSet
  <1>2. events \in Seq(EventSet)
    BY DEF TypeOK
  <1> QED BY <1>1, <1>2 DEF Emit

(* A reply leaves every asker in a legal state.                              *)
LEMMA ReplyType ==
    ASSUME TypeOK, NEW ask, ask.by \in Asker, NEW s,
           NEW next \in {"running", "allowed"}, Reply(ask, s, next)
    PROVE  st' \in [Asker -> ToolState]
  BY DEF TypeOK, Reply, ToolState

(* A mode command leaves a legal mode.                                       *)
LEMMA SetModeType ==
    ASSUME TypeOK, NEW m \in Mode, SetMode(m)
    PROVE  mode' \in Mode
  BY DEF TypeOK, SetMode

(* A step of a tool keeps the types.                                         *)
LEMMA ToolStepType == TypeOK /\ ToolStep => TypeOK'
  <1> SUFFICES ASSUME TypeOK, ToolStep PROVE TypeOK'
    OBVIOUS
  <1> USE ConstantTypes
  <1>1. ASSUME NEW a \in Asker, NEW q \in Request, Authorize(a, q) PROVE TypeOK'
    <2>1. [by |-> a, n |-> serial[a] + 1, req |-> q] \in AskSet
      BY <1>1 DEF TypeOK, Authorize, AskSet
    <2>2. serial' \in [Asker -> 0..MaxAsks]
      BY <1>1 DEF TypeOK, Authorize, ToolState
    <2> QED BY <1>1, <2>1, <2>2 DEF TypeOK, Authorize, ToolState
  <1>2. ASSUME NEW a \in Asker, AskUser(a) PROVE TypeOK'
    <2>1. [by |-> a, n |-> serial[a] + 1] \in QuestionSet
      BY <1>2 DEF TypeOK, AskUser, QuestionSet
    <2>2. serial' \in [Asker -> 0..MaxAsks]
      BY <1>2 DEF TypeOK, AskUser, ToolState
    <2>3. userAsks' \in Seq(QuestionSet)
      BY <1>2, <2>1 DEF TypeOK, AskUser, ToolState
    <2>4. st' \in [Asker -> ToolState]
      BY <1>2 DEF TypeOK, AskUser, ToolState
    <2> QED BY <1>2, <2>2, <2>3, <2>4 DEF TypeOK, AskUser, ToolState
  <1>3. ASSUME NEW a \in Asker, RunAllowed(a) PROVE TypeOK'
    <2>1. effects' \subseteq AskSet
      BY <1>3 DEF TypeOK, RunAllowed, AskSet
    <2> QED BY <1>3, <2>1 DEF TypeOK, RunAllowed, ToolState
  <1>4. AskEngine => TypeOK'
    BY DEF TypeOK, AskEngine, ToolState
  <1>5. JoinReply => TypeOK'
    BY DEF TypeOK, JoinReply, ToolState
  <1> QED BY <1>1, <1>2, <1>3, <1>4, <1>5 DEF ToolStep

(* A step of the engine keeps the types.                                     *)
LEMMA EngineStepType == TypeOK /\ EngineStep => TypeOK'
  <1> SUFFICES ASSUME TypeOK, EngineStep PROVE TypeOK'
    OBVIOUS
  <1> USE ConstantTypes
  <1>1. OnPermissionAsk => TypeOK'
    <2> SUFFICES ASSUME OnPermissionAsk PROVE TypeOK'
      OBVIOUS
    <2> DEFINE ask == Head(asks)
    <2>1. ask \in AskSet /\ Tail(asks) \in Seq(AskSet)
      BY DEF TypeOK, OnPermissionAsk
    <2>2. ask.by \in Asker
      BY <2>1 DEF AskSet
    <2>3. requests' \subseteq [id : Nat, ask : AskSet]
      BY <2>1 DEF TypeOK, OnPermissionAsk
    <2>4. st' \in [Asker -> ToolState]
      BY <2>2, ReplyType DEF TypeOK, OnPermissionAsk, ReplyPermission
    <2>5. events' \in Seq(EventSet)
      <3>1. Emit("PermissionRequest", nextPermissionId) => events' \in Seq(EventSet)
        BY EmitType DEF TypeOK
      <3>2. events' = events => events' \in Seq(EventSet)
        BY DEF TypeOK
      <3> QED BY <3>1, <3>2 DEF OnPermissionAsk
    <2>6. decisions' \subseteq DecisionSet
      <3> DEFINE allow == [id |-> nextPermissionId, decision |-> "AllowOnce",
                           executed |-> TRUE]
                 deny == [id |-> nextPermissionId, decision |-> "Deny",
                          executed |-> FALSE]
      <3>1. allow \in DecisionSet /\ deny \in DecisionSet
        BY DecisionType DEF TypeOK, PermissionDecision
      <3>2. \/ decisions' = decisions
            \/ decisions' = decisions \cup {allow}
            \/ decisions' = decisions \cup {deny}
        BY DEF OnPermissionAsk
      <3>3. decisions \subseteq DecisionSet
        BY DEF TypeOK, DecisionSet
      <3> HIDE DEF allow, deny
      <3> QED BY <3>1, <3>2, <3>3
    <2>7. pending' \subseteq [id : Nat, ask : AskSet]
      <3>1. \/ pending' = pending
            \/ pending' = pending \cup {[id |-> nextPermissionId, ask |-> ask]}
        BY DEF OnPermissionAsk
      <3>2. [id |-> nextPermissionId, ask |-> ask] \in [id : Nat, ask : AskSet]
        BY <2>1 DEF TypeOK
      <3> QED BY <3>1, <3>2 DEF TypeOK
    <2>8. nextPermissionId' \in Nat \ {0}
      BY DEF TypeOK, OnPermissionAsk
    <2>9. asks' \in Seq(AskSet)
      BY <2>1 DEF OnPermissionAsk
    <2> QED BY <2>3, <2>4, <2>5, <2>6, <2>7, <2>8, <2>9
            DEF TypeOK, OnPermissionAsk, DecisionSet
  <1>2. OnUserAsk => TypeOK'
    <2> SUFFICES ASSUME OnUserAsk PROVE TypeOK'
      OBVIOUS
    <2>1. Head(userAsks) \in QuestionSet /\ Tail(userAsks) \in Seq(QuestionSet)
      BY DEF TypeOK, OnUserAsk
    <2>2. pendingUser' \subseteq [id : Nat, ask : QuestionSet]
      BY <2>1 DEF TypeOK, OnUserAsk
    <2>3. events' \in Seq(EventSet)
      BY EmitType DEF TypeOK, OnUserAsk
    <2>4. nextAskId' \in Nat \ {0}
      BY DEF TypeOK, OnUserAsk
    <2> QED BY <2>1, <2>2, <2>3, <2>4 DEF TypeOK, OnUserAsk
  <1>3. ASSUME NEW c \in ops, ServeOp(c) PROVE TypeOK'
    <2>1. st' \in [Asker -> ToolState]
      BY <1>3 DEF TypeOK, ServeOp, ToolState, Asker
    <2> QED BY <1>3, <2>1 DEF TypeOK, ServeOp
  <1>4. FinishCall => TypeOK'
    <2> SUFFICES ASSUME FinishCall PROVE TypeOK'
      OBVIOUS
    <2>1. st' \in [Asker -> ToolState]
      BY FailClosedType DEF TypeOK, FinishCall, StartCall, LeaveCall, ToolState
    <2>2. phase' \in {"idle", "streaming", "call", "closed"} /\ batch' \in Nat
          /\ callNo' \in Nat
      BY DEF TypeOK, FinishCall, StartCall, LeaveCall
    <2>3. pending' = {} /\ pendingUser' = {} /\ commandsOpen' \in BOOLEAN
      BY DEF FinishCall, StartCall, LeaveCall
    <2> QED BY <2>1, <2>2, <2>3 DEF TypeOK, FinishCall
  <1>5. CallCommand => TypeOK'
    <2> SUFFICES ASSUME CallCommand PROVE TypeOK'
      OBVIOUS
    <2> DEFINE c == Head(commands)
    <2>1. c \in CommandSet /\ Tail(commands) \in Seq(CommandSet)
      BY DEF TypeOK, CallCommand
    <2> SUFFICES /\ phase' \in {"idle", "streaming", "call", "closed"}
                 /\ batch' \in Nat /\ callNo' \in Nat
                 /\ st' \in [Asker -> ToolState]
                 /\ pending' \subseteq [id : Nat, ask : AskSet]
                 /\ pendingUser' \subseteq [id : Nat, ask : QuestionSet]
                 /\ commandsOpen' \in BOOLEAN
                 /\ events' \in Seq(EventSet)
                 /\ mode' \in Mode
                 /\ decisions' \subseteq DecisionSet
      BY <2>1 DEF TypeOK, CallCommand, DecisionSet
    <2>2. CASE /\ c.type = "PermissionAnswer"
               /\ AnswerPermission(c.id, c.decision)
               /\ UNCHANGED <<phase, batch, callNo, pendingUser, commandsOpen, mode,
                              events>>
      <3>1. c.id \in Nat /\ c.decision \in PermissionDecision
        BY <2>1, <2>2 DEF CommandSet
      <3>2. pending' \subseteq [id : Nat, ask : AskSet]
        BY <2>2 DEF TypeOK, AnswerPermission
      <3>3. decisions' \subseteq DecisionSet
        <4> DEFINE made == [id |-> c.id, decision |-> c.decision,
                            executed |-> IsAllow(c.decision)]
        <4>1. made \in DecisionSet
          BY <3>1, DecisionType DEF IsAllow
        <4>2. decisions' = decisions \/ decisions' = decisions \cup {made}
          BY <2>2 DEF AnswerPermission
        <4>3. decisions \subseteq DecisionSet
          BY DEF TypeOK, DecisionSet
        <4> HIDE DEF made
        <4> QED BY <4>1, <4>2, <4>3
      <3>4. st' \in [Asker -> ToolState]
        <4>1. \A p \in pending : p.ask.by \in Asker
          BY DEF TypeOK, AskSet
        <4> QED BY <2>2, <4>1, ReplyType DEF TypeOK, AnswerPermission, ReplyPermission
      <3> QED BY <2>2, <3>2, <3>3, <3>4 DEF TypeOK
    <2>3. CASE /\ c.type = "AskUserAnswer"
               /\ AnswerUserAsk(c.id)
               /\ UNCHANGED <<phase, batch, callNo, pending, commandsOpen, mode, rules,
                              decisions, events>>
      <3>1. pendingUser' \subseteq [id : Nat, ask : QuestionSet]
        BY <2>3 DEF TypeOK, AnswerUserAsk
      <3>2. st' \in [Asker -> ToolState]
        <4>1. \A p \in pendingUser : p.ask.by \in Asker
          BY DEF TypeOK, QuestionSet
        <4> QED BY <2>3, <4>1, ReplyType DEF TypeOK, AnswerUserAsk
      <3> QED BY <2>3, <3>1, <3>2 DEF TypeOK, DecisionSet
    <2>4. CASE CancelCall
      <3>1. st' \in [Asker -> ToolState]
        BY <2>4, FailClosedType DEF CancelCall, LeaveCall, ToolState
      <3>2. events' \in Seq(EventSet)
        BY <2>4, EmitType DEF CancelCall
      <3> QED BY <2>4, <3>1, <3>2 DEF TypeOK, CancelCall, LeaveCall, DecisionSet
    <2>5. CASE /\ c.type = "SetMode" /\ SetMode(c.mode)
               /\ UNCHANGED <<st, callVars, rules, decisions, events>>
      <3>1. c.mode \in Mode
        BY <2>1, <2>5 DEF CommandSet
      <3> QED BY <2>5, <3>1, SetModeType DEF TypeOK, DecisionSet
    <2>6. CASE UNCHANGED <<st, callVars, mode, rules, decisions, events>>
      BY <2>6 DEF TypeOK, DecisionSet
    <2> QED BY <2>2, <2>3, <2>4, <2>5, <2>6 DEF CallCommand
  <1>6. CallClosed => TypeOK'
    BY FailClosedType DEF TypeOK, CallClosed
  <1>7. IdleCommand => TypeOK'
    <2> SUFFICES ASSUME IdleCommand PROVE TypeOK'
      OBVIOUS
    <2>1. Head(commands) \in CommandSet /\ Tail(commands) \in Seq(CommandSet)
      BY DEF TypeOK, IdleCommand
    <2>2. mode' \in Mode
      <3>1. CASE Head(commands).type = "SetMode"
        <4>1. Head(commands).mode \in Mode
          BY <2>1, <3>1 DEF CommandSet
        <4> QED BY <3>1, <4>1, SetModeType DEF IdleCommand
      <3> QED BY <3>1 DEF TypeOK, IdleCommand
    <2> QED BY <2>1, <2>2 DEF TypeOK, IdleCommand
  <1>8. IdleClosed => TypeOK'
    BY DEF TypeOK, IdleClosed
  <1>9. StreamCommand => TypeOK'
    <2> SUFFICES ASSUME StreamCommand PROVE TypeOK'
      OBVIOUS
    <2>1. Head(commands) \in CommandSet /\ Tail(commands) \in Seq(CommandSet)
      BY DEF TypeOK, StreamCommand
    <2>2. mode' \in Mode
      <3>1. CASE Head(commands).type = "SetMode"
        <4>1. Head(commands).mode \in Mode
          BY <2>1, <3>1 DEF CommandSet
        <4> QED BY <3>1, <4>1, SetModeType DEF StreamCommand
      <3> QED BY <3>1 DEF TypeOK, StreamCommand
    <2>3. events' \in Seq(EventSet)
      BY EmitType DEF TypeOK, StreamCommand
    <2>4. phase' \in {"idle", "streaming", "call", "closed"}
      BY DEF TypeOK, StreamCommand
    <2> QED BY <2>1, <2>2, <2>3, <2>4 DEF TypeOK, StreamCommand
  <1>10. StreamTurnEnd => TypeOK'
    <2> SUFFICES ASSUME StreamTurnEnd PROVE TypeOK'
      OBVIOUS
    <2>1. events' \in Seq(EventSet)
      BY EmitType DEF StreamTurnEnd
    <2> QED BY <2>1 DEF TypeOK, StreamTurnEnd
  <1>11. ASSUME NEW k \in 1..MaxCalls, StreamToolCalls(k) PROVE TypeOK'
    <2>1. st' \in [Asker -> ToolState]
      BY <1>11 DEF TypeOK, StreamToolCalls, StartCall, ToolState
    <2> QED BY <1>11, <2>1 DEF TypeOK, StreamToolCalls, StartCall
  <1> QED BY <1>1, <1>2, <1>3, <1>4, <1>5, <1>6, <1>7, <1>8, <1>9, <1>10, <1>11
          DEF EngineStep

(* A step of the frontend or of its user keeps the types.                    *)
LEMMA UserStepType == TypeOK /\ UserStep => TypeOK'
  <1> SUFFICES ASSUME TypeOK, UserStep PROVE TypeOK'
    OBVIOUS
  <1>1. ApplyEvent => TypeOK'
    <2> SUFFICES ASSUME ApplyEvent PROVE TypeOK'
      OBVIOUS
    <2>1. Head(events) \in EventSet /\ Tail(events) \in Seq(EventSet)
      BY DEF TypeOK, ApplyEvent
    <2>2. Head(events).id \in Nat
      BY <2>1 DEF EventSet
    <2> QED BY <2>1, <2>2 DEF TypeOK, ApplyEvent
  <1>2. Answered => TypeOK'
    <2> SUFFICES ASSUME Answered PROVE TypeOK'
      OBVIOUS
    <2>1. [type |-> "AskUserAnswer", id |-> question] \in CommandSet
      BY DEF TypeOK, CommandSet
    <2>2. commands' \in Seq(CommandSet)
      BY <2>1 DEF TypeOK, Answered, Send
    <2> QED BY <2>2 DEF TypeOK, Answered
  <1>3. ASSUME NEW d \in PermissionDecision, Decided(d) PROVE TypeOK'
    <2>1. [type |-> "PermissionAnswer", id |-> prompt, decision |-> d] \in CommandSet
      BY DEF TypeOK, CommandSet
    <2>2. commands' \in Seq(CommandSet)
      BY <1>3, <2>1 DEF TypeOK, Decided, Send
    <2> QED BY <1>3, <2>2 DEF TypeOK, Decided
  <1>4. ASSUME NEW s \in Sorts, NEW b, NEW c \in CommandSet, UserCommand(s, b, c)
        PROVE TypeOK'
    <2>1. commands' \in Seq(CommandSet)
      BY <1>4 DEF TypeOK, UserCommand, Send
    <2>2. sent' \in [Sorts -> Nat]
      BY <1>4 DEF TypeOK, UserCommand
    <2> QED BY <1>4, <2>1, <2>2 DEF TypeOK, UserCommand
  <1>5. SendInput => TypeOK'
    <2>1. [type |-> "UserInput"] \in CommandSet
      BY DEF CommandSet
    <2> QED BY <1>4, <2>1 DEF SendInput, Sorts
  <1>6. SendCancel => TypeOK'
    <2>1. [type |-> "Cancel"] \in CommandSet
      BY DEF CommandSet
    <2> QED BY <1>4, <2>1 DEF SendCancel, Sorts
  <1>7. ASSUME NEW m \in Mode, SendMode(m) PROVE TypeOK'
    <2>1. [type |-> "SetMode", mode |-> m] \in CommandSet
      BY DEF CommandSet
    <2> QED BY <1>4, <1>7, <2>1 DEF SendMode, Sorts
  <1>8. Close => TypeOK'
    <2> SUFFICES ASSUME Close PROVE TypeOK'
      OBVIOUS
    <2>1. events' \in Seq(EventSet)
      BY EmptyChannel DEF Close
    <2> QED BY <2>1 DEF TypeOK, Close
  <1> QED BY <1>1, <1>2, <1>3, <1>5, <1>6, <1>7, <1>8 DEF UserStep

(* The initial state is well typed.                                          *)
LEMMA InitType == Init => TypeOK
  <1> SUFFICES ASSUME Init PROVE TypeOK
    OBVIOUS
  <1>1. asks \in Seq(AskSet) /\ userAsks \in Seq(QuestionSet)
        /\ commands \in Seq(CommandSet) /\ events \in Seq(EventSet)
    BY EmptyChannel DEF Init
  <1>2. /\ st \in [Asker -> ToolState] /\ serial \in [Asker -> 0..MaxAsks]
        /\ want \in [Asker -> Request] /\ sent \in [Sorts -> Nat]
    BY ConstantTypes DEF Init, ToolState, Sorts
  <1>3. /\ phase = "idle" /\ commandsOpen \in BOOLEAN /\ frontendOpen \in BOOLEAN
        /\ mode \in Mode
    BY DEF Init, Mode
  <1>5. /\ batch = 0 /\ callNo = 0 /\ prompt = 0 /\ question = 0
        /\ nextPermissionId = 1 /\ nextAskId = 1
    BY DEF Init
  <1>4. /\ ops = {} /\ pending = {} /\ pendingUser = {} /\ requests = {}
        /\ decisions = {} /\ answers = {} /\ effects = {} /\ opsDone = {}
    BY DEF Init
  <1> QED BY <1>1, <1>2, <1>3, <1>4, <1>5 DEF TypeOK

(* Type correctness of the whole seam.                                       *)
THEOREM TypeCorrect == Spec => []TypeOK
  <1>2. TypeOK /\ [Next]_vars => TypeOK'
    <2>1. TypeOK /\ UNCHANGED vars => TypeOK'
      BY DEF TypeOK, vars
    <2> QED BY <2>1, ToolStepType, EngineStepType, UserStepType DEF Next
  <1> QED BY <1>2, InitType, PTL DEF Spec

------------------------------------------------------------------------------
(* Authorization.  EffectsAuthorized is not inductive: it must be known that *)
(* an answer on its way is one the user gave, that what is stashed was       *)
(* recorded, that an ask still awaited is about what its tool now wants, and *)
(* that a tool told to go ahead was authorized when it was told.             *)

Current(a) == [by |-> a, n |-> serial[a], req |-> want[a]]

AnswersAreGiven ==
    \A i \in 1..Len(commands) :
        commands[i].type = "PermissionAnswer" =>
            [id |-> commands[i].id, decision |-> commands[i].decision] \in answers
PendingRecorded == pending \subseteq requests
RaisedIsWanted ==
    \A ask \in Raised :
        /\ ask.n <= serial[ask.by]
        /\ ask.n = serial[ask.by] => ask.req = want[ask.by]
AllowedAuthorized == \A a \in Asker : st[a] = "allowed" => Authorized(Current(a))

AuthInv ==
    /\ TypeOK
    /\ AnswersAreGiven
    /\ PendingRecorded
    /\ RaisedIsWanted
    /\ AllowedAuthorized
    /\ EffectsAuthorized

(* Outside the root the rules never allow by themselves.                     *)
LEMMA EvaluateOutside ==
    ASSUME NEW rs, NEW q, NEW m, q.outside_root = TRUE
    PROVE  Evaluate(rs, q, m) # "allow"
  BY DEF Evaluate

(* The transcript and the user's answers only grow, so authority once given  *)
(* is not lost.                                                              *)
LEMMA AuthorizedStable ==
    ASSUME requests \subseteq requests', decisions \subseteq decisions',
           answers \subseteq answers', NEW ask, Authorized(ask)
    PROVE  Authorized(ask)'
  BY DEF Authorized, UserAllowed

(* An asker whose state a step leaves alone keeps its authority.             *)
LEMMA CurrentStable ==
    ASSUME requests \subseteq requests', decisions \subseteq decisions',
           answers \subseteq answers', NEW b, Authorized(Current(b)),
           serial'[b] = serial[b], want'[b] = want[b]
    PROVE  Authorized(Current(b))'
  <1>1. Current(b)' = Current(b)
    BY DEF Current
  <1>2. Authorized(Current(b))' <=> \E r \in requests' :
            /\ r.ask = Current(b)
            /\ \E d \in decisions' : d.id = r.id /\ d.executed
            /\ UserAllowed(r.id)' \/ ~Current(b).req.outside_root
    BY <1>1 DEF Authorized
  <1> QED BY <1>2 DEF Authorized, UserAllowed

(* Taking the head of the commands leaves only answers already known.        *)
LEMMA AnswersAfterTail ==
    ASSUME TypeOK, AnswersAreGiven, commands # <<>>, commands' = Tail(commands),
           answers' = answers
    PROVE  AnswersAreGiven'
  <1>1. \A i \in 1..Len(commands') : /\ i + 1 \in 1..Len(commands)
                                     /\ commands'[i] = commands[i + 1]
    BY DEF TypeOK
  <1> QED BY <1>1 DEF AnswersAreGiven

(* A command other than an answer, or the answer just given, may join them.  *)
LEMMA AnswersAfterSend ==
    ASSUME TypeOK, AnswersAreGiven, NEW c, commands' = Append(commands, c),
           answers \subseteq answers',
           c.type = "PermissionAnswer" =>
               [id |-> c.id, decision |-> c.decision] \in answers'
    PROVE  AnswersAreGiven'
  <1>1. Len(commands') = Len(commands) + 1 /\ Len(commands) \in Nat
    BY DEF TypeOK
  <1>2. \A i \in 1..Len(commands) : commands'[i] = commands[i]
    BY DEF TypeOK
  <1>3. commands'[Len(commands) + 1] = c
    BY DEF TypeOK
  <1> QED BY <1>1, <1>2, <1>3 DEF AnswersAreGiven

(* Dropping the vectors of a call sets nobody going.                         *)
LEMMA FailClosedAllowed ==
    ASSUME TypeOK, NEW a \in Asker, FailClosed[a] = "allowed"
    PROVE  st[a] = "allowed"
  BY DEF FailClosed

(* What a step that neither raises, allows nor performs anything owes the    *)
(* invariant: nobody newly allowed, and authority kept.                      *)
LEMMA QuietStep ==
    ASSUME AuthInv, TypeOK', AnswersAreGiven',
           UNCHANGED <<serial, want, asks, requests, effects>>,
           decisions \subseteq decisions', answers \subseteq answers',
           pending' \subseteq pending,
           \A a \in Asker : st'[a] = "allowed" => st[a] = "allowed"
    PROVE  AuthInv'
  <1>1. PendingRecorded'
    BY DEF AuthInv, PendingRecorded
  <1>2. RaisedIsWanted'
    BY DEF AuthInv, RaisedIsWanted, Raised
  <1>3. AllowedAuthorized'
    <2> SUFFICES ASSUME NEW a \in Asker, st'[a] = "allowed"
                 PROVE  Authorized(Current(a))'
      BY DEF AllowedAuthorized
    <2>1. Authorized(Current(a))
      BY DEF AuthInv, AllowedAuthorized
    <2> QED BY <2>1, CurrentStable
  <1>4. EffectsAuthorized'
    <2> SUFFICES ASSUME NEW ask \in effects PROVE Authorized(ask)'
      BY DEF EffectsAuthorized
    <2>1. Authorized(ask)
      BY DEF AuthInv, EffectsAuthorized
    <2> QED BY <2>1, AuthorizedStable
  <1> QED BY <1>1, <1>2, <1>3, <1>4 DEF AuthInv

(* The same for a step that leaves the commands alone as well.               *)
LEMMA SilentStep ==
    ASSUME AuthInv, TypeOK',
           UNCHANGED <<commands, answers, serial, want, asks, requests, decisions, effects>>,
           pending' \subseteq pending,
           \A a \in Asker : st'[a] = "allowed" => st[a] = "allowed"
    PROVE  AuthInv'
  <1>1. AnswersAreGiven'
    BY DEF AuthInv, AnswersAreGiven
  <1> QED BY <1>1, QuietStep

(* Whatever was asked is an ask.                                             *)
LEMMA RaisedType == TypeOK => Raised \subseteq AskSet
  <1> SUFFICES ASSUME TypeOK PROVE Raised \subseteq AskSet
    OBVIOUS
  <1>1. \A i \in 1..Len(asks) : asks[i] \in AskSet
    BY DEF TypeOK
  <1>2. \A r \in requests : r.ask \in AskSet
    BY DEF TypeOK
  <1> QED BY <1>1, <1>2 DEF Raised

(* An agent's next ask leaves every earlier one behind.                      *)
LEMMA BumpSerial ==
    ASSUME TypeOK, NEW a \in Asker, serial' = [serial EXCEPT ![a] = @ + 1],
           NEW ask \in AskSet, ask.n <= serial[ask.by]
    PROVE  /\ ask.n <= serial'[ask.by]
           /\ ask.n = serial'[ask.by] => ask.by # a /\ ask.n = serial[ask.by]
  <1>1. ask.n \in Nat /\ ask.by \in Asker
    BY ConstantTypes DEF AskSet
  <1>2. serial[ask.by] \in Nat /\ serial[a] \in Nat
    BY <1>1, ConstantTypes DEF TypeOK
  <1>3. CASE ask.by = a
    <2>1. serial'[ask.by] = serial[ask.by] + 1
      BY <1>3 DEF TypeOK
    <2> QED BY <1>1, <1>2, <2>1
  <1>4. CASE ask.by # a
    BY <1>1, <1>4 DEF TypeOK
  <1> QED BY <1>3, <1>4

(* A tool raises and runs asks without disturbing the invariant.             *)
LEMMA ToolStepAuth == AuthInv /\ ToolStep => AuthInv'
  <1> SUFFICES ASSUME AuthInv, ToolStep PROVE AuthInv'
    OBVIOUS
  <1>t. TypeOK /\ TypeOK'
    BY ToolStepType DEF AuthInv
  <1> USE <1>t
  <1>1. ASSUME NEW a \in Asker, NEW q \in Request, Authorize(a, q) PROVE AuthInv'
    <2> DEFINE new == [by |-> a, n |-> serial[a] + 1, req |-> q]
    <2>1. Raised' = Raised \cup {new}
      <3>1. /\ Len(asks') = Len(asks) + 1 /\ Len(asks) \in Nat
            /\ \A i \in 1..Len(asks) : asks'[i] = asks[i]
            /\ asks'[Len(asks) + 1] = new
        BY <1>1 DEF Authorize, TypeOK
      <3>2. requests' = requests
        BY <1>1 DEF Authorize
      <3> QED BY <3>1, <3>2 DEF Raised
    <2>2. /\ serial' = [serial EXCEPT ![a] = @ + 1] /\ want' = [want EXCEPT ![a] = q]
          /\ st' = [st EXCEPT ![a] = "asking"]
      BY <1>1 DEF Authorize
    <2>3. RaisedIsWanted'
      <3> SUFFICES ASSUME NEW ask \in Raised'
                   PROVE  /\ ask.n <= serial'[ask.by]
                          /\ ask.n = serial'[ask.by] => ask.req = want'[ask.by]
        BY DEF RaisedIsWanted
      <3>1. CASE ask = new
        BY <2>2, <3>1 DEF TypeOK
      <3>2. CASE ask \in Raised
        <4>1. ask \in AskSet /\ ask.by \in Asker
          BY <3>2, RaisedType DEF AskSet
        <4>2. /\ ask.n <= serial[ask.by]
              /\ ask.n = serial[ask.by] => ask.req = want[ask.by]
          BY <3>2 DEF AuthInv, RaisedIsWanted
        <4>3. ask.by # a => want'[ask.by] = want[ask.by]
          BY <2>2, <4>1 DEF TypeOK
        <4> QED BY <2>2, <4>1, <4>2, <4>3, BumpSerial
      <3> QED BY <2>1, <3>1, <3>2
    <2>4. AllowedAuthorized'
      <3> SUFFICES ASSUME NEW b \in Asker, st'[b] = "allowed"
                   PROVE  Authorized(Current(b))'
        BY DEF AllowedAuthorized
      <3>1. b # a /\ st[b] = "allowed"
        BY <2>2 DEF TypeOK
      <3>2. Authorized(Current(b))
        BY <3>1 DEF AuthInv, AllowedAuthorized
      <3>3. serial'[b] = serial[b] /\ want'[b] = want[b]
        BY <2>2, <3>1 DEF TypeOK
      <3> QED BY <1>1, <3>2, <3>3, CurrentStable DEF Authorize
    <2>5. EffectsAuthorized' /\ PendingRecorded' /\ AnswersAreGiven'
      BY <1>1 DEF AuthInv, EffectsAuthorized, PendingRecorded, AnswersAreGiven,
                  Authorize, Authorized, UserAllowed
    <2> QED BY <2>3, <2>4, <2>5 DEF AuthInv
  <1>2. ASSUME NEW a \in Asker, AskUser(a) PROVE AuthInv'
    <2>1. serial' = [serial EXCEPT ![a] = @ + 1] /\ st' = [st EXCEPT ![a] = "questioning"]
      BY <1>2 DEF AskUser
    <2>2. RaisedIsWanted'
      <3> SUFFICES ASSUME NEW ask \in Raised
                   PROVE  /\ ask.n <= serial'[ask.by]
                          /\ ask.n = serial'[ask.by] => ask.req = want[ask.by]
        BY <1>2 DEF RaisedIsWanted, Raised, AskUser
      <3>1. ask \in AskSet
        BY RaisedType
      <3>2. /\ ask.n <= serial[ask.by]
            /\ ask.n = serial[ask.by] => ask.req = want[ask.by]
        BY DEF AuthInv, RaisedIsWanted
      <3> QED BY <2>1, <3>1, <3>2, BumpSerial
    <2>3. AllowedAuthorized'
      <3> SUFFICES ASSUME NEW b \in Asker, st'[b] = "allowed"
                   PROVE  Authorized(Current(b))'
        BY DEF AllowedAuthorized
      <3>1. b # a /\ st[b] = "allowed"
        BY <2>1 DEF TypeOK
      <3>2. Authorized(Current(b))
        BY <3>1 DEF AuthInv, AllowedAuthorized
      <3>3. serial'[b] = serial[b] /\ want'[b] = want[b]
        BY <1>2, <2>1, <3>1 DEF TypeOK, AskUser
      <3> QED BY <1>2, <3>2, <3>3, CurrentStable DEF AskUser
    <2>4. EffectsAuthorized' /\ PendingRecorded' /\ AnswersAreGiven'
      BY <1>2 DEF AuthInv, EffectsAuthorized, PendingRecorded, AnswersAreGiven,
                  AskUser, Authorized, UserAllowed
    <2> QED BY <2>2, <2>3, <2>4 DEF AuthInv
  <1>3. ASSUME NEW a \in Asker, RunAllowed(a) PROVE AuthInv'
    <2>1. /\ effects' = effects \cup {Current(a)} /\ st[a] = "allowed"
          /\ st' = [st EXCEPT ![a] = "running"]
          /\ UNCHANGED <<serial, want, asks, requests, decisions, answers, pending, commands>>
      BY <1>3 DEF RunAllowed, Current
    <2>2. Authorized(Current(a))
      BY <2>1 DEF AuthInv, AllowedAuthorized
    <2>3. EffectsAuthorized'
      BY <2>1, <2>2 DEF AuthInv, EffectsAuthorized, Authorized, UserAllowed
    <2>4. AllowedAuthorized'
      <3> SUFFICES ASSUME NEW b \in Asker, st'[b] = "allowed"
                   PROVE  Authorized(Current(b))'
        BY DEF AllowedAuthorized
      <3>1. st[b] = "allowed"
        BY <2>1 DEF TypeOK
      <3>2. Authorized(Current(b))
        BY <3>1 DEF AuthInv, AllowedAuthorized
      <3> QED BY <2>1, <3>2, CurrentStable
    <2>5. RaisedIsWanted' /\ PendingRecorded' /\ AnswersAreGiven'
      BY <2>1 DEF AuthInv, RaisedIsWanted, Raised, PendingRecorded, AnswersAreGiven
    <2> QED BY <2>3, <2>4, <2>5 DEF AuthInv
  <1>4. AskEngine => AuthInv'
    BY SilentStep, ConstantTypes DEF AskEngine, TypeOK
  <1>5. JoinReply => AuthInv'
    BY SilentStep, ConstantTypes DEF JoinReply, TypeOK
  <1> QED BY <1>1, <1>2, <1>3, <1>4, <1>5 DEF ToolStep

(* A reply of Allow reaches at most the one agent that awaits this ask, and  *)
(* then about what it now wants.                                             *)
LEMMA ReplyAllowed ==
    ASSUME AuthInv, NEW ask \in Raised, NEW allow, ReplyPermission(ask, allow),
           UNCHANGED <<serial, want>>, NEW a \in Asker, st'[a] = "allowed"
    PROVE  st[a] = "allowed" \/ (allow /\ Current(a)' = ask)
  <1>1. ask \in AskSet /\ ask.by \in Asker
    BY RaisedType DEF AuthInv, AskSet
  <1>2. CASE a # ask.by \/ ~Awaits(ask.by, "asking", ask.n)
    BY <1>1, <1>2 DEF ReplyPermission, Reply, AuthInv, TypeOK
  <1>3. CASE a = ask.by /\ Awaits(ask.by, "asking", ask.n)
    <2>1. st'[a] = IF allow THEN "allowed" ELSE "running"
      BY <1>1, <1>3 DEF ReplyPermission, Reply, AuthInv, TypeOK
    <2>2. ask.n = serial[a] /\ ask.req = want[a]
      BY <1>3 DEF Awaits, AuthInv, RaisedIsWanted
    <2>3. ask = [by |-> ask.by, n |-> ask.n, req |-> ask.req]
      BY <1>1 DEF AskSet
    <2> QED BY <1>3, <2>1, <2>2, <2>3 DEF Current
  <1> QED BY <1>2, <1>3

(* The engine's serving of an ask keeps the invariant.                       *)
LEMMA OnPermissionAskAuth == AuthInv /\ OnPermissionAsk => AuthInv'
  <1> SUFFICES ASSUME AuthInv, OnPermissionAsk PROVE AuthInv'
    OBVIOUS
  <1> DEFINE ask == Head(asks)
             new == [id |-> nextPermissionId, ask |-> ask]
             outcome == Evaluate(rules, ask.req, mode)
  <1>t. TypeOK /\ TypeOK'
    BY EngineStepType DEF AuthInv, EngineStep
  <1>0. asks # <<>> /\ asks' = Tail(asks)
    BY DEF OnPermissionAsk
  <1>1. ask \in Raised /\ ask \in AskSet
    <2>1. 1 \in 1..Len(asks) /\ ask = asks[1]
      BY <1>t, <1>0 DEF TypeOK
    <2> QED BY <1>t, <2>1, RaisedType DEF Raised
  <1>2. /\ requests' = requests \cup {new} /\ decisions \subseteq decisions'
        /\ UNCHANGED <<serial, want, effects, answers, commands>>
    BY DEF OnPermissionAsk
  <1>3. Raised' \subseteq Raised
    <2>1. \A i \in 1..Len(asks') : i + 1 \in 1..Len(asks) /\ asks'[i] = asks[i + 1]
      BY <1>t, <1>0 DEF TypeOK
    <2> QED BY <1>1, <1>2, <2>1 DEF Raised
  <1>4. RaisedIsWanted'
    BY <1>2, <1>3 DEF AuthInv, RaisedIsWanted
  <1>5. PendingRecorded'
    <2>1. pending' \subseteq pending \cup {new}
      BY DEF OnPermissionAsk
    <2> QED BY <1>2, <2>1 DEF AuthInv, PendingRecorded
  <1>6. EffectsAuthorized'
    <2> SUFFICES ASSUME NEW e \in effects PROVE Authorized(e)'
      BY <1>2 DEF EffectsAuthorized
    <2>1. Authorized(e)
      BY DEF AuthInv, EffectsAuthorized
    <2> QED BY <1>2, <2>1, AuthorizedStable
  <1>7. AllowedAuthorized'
    <2> SUFFICES ASSUME NEW a \in Asker, st'[a] = "allowed"
                 PROVE  Authorized(Current(a))'
      BY DEF AllowedAuthorized
    <2>1. CASE st[a] = "allowed"
      <3>1. Authorized(Current(a))
        BY <2>1 DEF AuthInv, AllowedAuthorized
      <3> QED BY <1>2, <3>1, CurrentStable
    <2>2. CASE st[a] # "allowed"
      <3>1. outcome = "allow" /\ Current(a)' = ask
        <4>1. CASE outcome = "allow" /\ ReplyPermission(ask, TRUE)
          BY <1>1, <1>2, <2>2, <4>1, ReplyAllowed
        <4>2. CASE ReplyPermission(ask, FALSE)
          BY <1>1, <1>2, <2>2, <4>2, ReplyAllowed
        <4>3. CASE UNCHANGED st
          BY <2>2, <4>3
        <4> QED BY <4>1, <4>2, <4>3 DEF OnPermissionAsk
      <3>2. [id |-> nextPermissionId, decision |-> "AllowOnce", executed |-> TRUE]
                \in decisions'
        BY <3>1 DEF OnPermissionAsk
      <3>3. ~ask.req.outside_root
        BY <1>1, <3>1, EvaluateOutside, ConstantTypes DEF AskSet
      <3>4. new \in requests' /\ new.ask = ask /\ new.id = nextPermissionId
        BY <1>2
      <3>5. Authorized(Current(a))' <=> \E r \in requests' :
                /\ r.ask = ask
                /\ \E d \in decisions' : d.id = r.id /\ d.executed
                /\ UserAllowed(r.id)' \/ ~ask.req.outside_root
        BY <3>1 DEF Authorized
      <3> HIDE DEF new, ask
      <3> QED BY <3>2, <3>3, <3>4, <3>5
    <2> QED BY <2>1, <2>2
  <1>8. AnswersAreGiven'
    BY <1>2 DEF AuthInv, AnswersAreGiven
  <1> QED BY <1>t, <1>4, <1>5, <1>6, <1>7, <1>8 DEF AuthInv

(* A command taken in a tool call keeps the invariant.                       *)
LEMMA CallCommandAuth == AuthInv /\ CallCommand => AuthInv'
  <1> SUFFICES ASSUME AuthInv, CallCommand PROVE AuthInv'
    OBVIOUS
  <1> DEFINE c == Head(commands)
  <1>t. TypeOK /\ TypeOK'
    BY EngineStepType DEF AuthInv, EngineStep
  <1>0. /\ commands # <<>> /\ commands' = Tail(commands)
        /\ UNCHANGED <<serial, want, asks, requests, answers, effects>>
    BY DEF CallCommand
  <1>1. AnswersAreGiven'
    BY <1>t, <1>0, AnswersAfterTail DEF AuthInv
  <1>2. CASE /\ c.type = "PermissionAnswer"
             /\ AnswerPermission(c.id, c.decision)
    <2>1. CASE UNCHANGED <<st, pending, decisions>>
      BY <1>t, <1>0, <1>1, <2>1, QuietStep
    <2>2. CASE \E p \in pending :
                  /\ p.id = c.id
                  /\ pending' = pending \ {p}
                  /\ decisions' = decisions \cup {[id |-> c.id, decision |-> c.decision,
                                                   executed |-> IsAllow(c.decision)]}
                  /\ ReplyPermission(p.ask, IsAllow(c.decision))
      <3> PICK p \in pending :
                  /\ p.id = c.id
                  /\ pending' = pending \ {p}
                  /\ decisions' = decisions \cup {[id |-> c.id, decision |-> c.decision,
                                                   executed |-> IsAllow(c.decision)]}
                  /\ ReplyPermission(p.ask, IsAllow(c.decision))
        BY <2>2
      <3>1. p \in requests /\ p.ask \in Raised
        BY DEF AuthInv, PendingRecorded, Raised
      <3>2. [id |-> c.id, decision |-> c.decision] \in answers
        <4>1. 1 \in 1..Len(commands) /\ c = commands[1]
          BY <1>t, <1>0 DEF TypeOK
        <4> QED BY <1>2, <4>1 DEF AuthInv, AnswersAreGiven
      <3>3. RaisedIsWanted' /\ PendingRecorded'
        BY <1>0 DEF AuthInv, RaisedIsWanted, Raised, PendingRecorded
      <3>4. EffectsAuthorized'
        <4> SUFFICES ASSUME NEW e \in effects PROVE Authorized(e)'
          BY <1>0 DEF EffectsAuthorized
        <4>1. Authorized(e)
          BY DEF AuthInv, EffectsAuthorized
        <4> QED BY <1>0, <4>1, AuthorizedStable
      <3>5. AllowedAuthorized'
        <4> SUFFICES ASSUME NEW a \in Asker, st'[a] = "allowed"
                     PROVE  Authorized(Current(a))'
          BY DEF AllowedAuthorized
        <4>1. CASE st[a] = "allowed"
          <5>1. Authorized(Current(a))
            BY <4>1 DEF AuthInv, AllowedAuthorized
          <5> QED BY <1>0, <5>1, CurrentStable
        <4>2. CASE st[a] # "allowed"
          <5>1. IsAllow(c.decision) /\ Current(a)' = p.ask
            BY <1>0, <3>1, <4>2, ReplyAllowed
          <5>2. UserAllowed(p.id)'
            BY <1>0, <3>2, <5>1 DEF UserAllowed
          <5>3. \E d \in decisions' : d.id = p.id /\ d.executed
            <6>1. IsAllow(c.decision) = TRUE
              BY <5>1 DEF IsAllow
            <6>2. [id |-> c.id, decision |-> c.decision, executed |-> TRUE] \in decisions'
              BY <6>1
            <6> HIDE DEF c
            <6> QED BY <6>2
          <5>4. Authorized(Current(a))' <=> \E r \in requests' :
                    /\ r.ask = p.ask
                    /\ \E d \in decisions' : d.id = r.id /\ d.executed
                    /\ UserAllowed(r.id)' \/ ~p.ask.req.outside_root
            BY <5>1 DEF Authorized
          <5>5. p \in requests'
            BY <1>0, <3>1
          <5> HIDE DEF c
          <5> QED BY <5>2, <5>3, <5>4, <5>5
        <4> QED BY <4>1, <4>2
      <3> QED BY <1>t, <1>1, <3>3, <3>4, <3>5 DEF AuthInv
    <2> QED BY <1>2, <2>1, <2>2 DEF AnswerPermission
  <1>3. CASE AnswerUserAsk(c.id) /\ UNCHANGED <<pending, decisions>>
    <2>1. \A a \in Asker : st'[a] = "allowed" => st[a] = "allowed"
      BY <1>t, <1>3 DEF AnswerUserAsk, Reply, TypeOK
    <2> QED BY <1>t, <1>0, <1>1, <1>3, <2>1, QuietStep
  <1>4. CASE CancelCall
    <2>1. \A a \in Asker : st'[a] = "allowed" => st[a] = "allowed"
      BY <1>t, <1>4, FailClosedAllowed, FailClosedType DEF CancelCall, LeaveCall
    <2> QED BY <1>t, <1>0, <1>1, <1>4, <2>1, QuietStep DEF CancelCall, LeaveCall
  <1>5. CASE UNCHANGED <<st, callVars, decisions>>
    BY <1>t, <1>0, <1>1, <1>5, QuietStep
  <1> QED BY <1>2, <1>3, <1>4, <1>5 DEF CallCommand

(* A step of the engine keeps the invariant.                                 *)
LEMMA EngineStepAuth == AuthInv /\ EngineStep => AuthInv'
  <1> SUFFICES ASSUME AuthInv, EngineStep PROVE AuthInv'
    OBVIOUS
  <1>t. TypeOK /\ TypeOK'
    BY EngineStepType DEF AuthInv
  <1> USE <1>t
  <1>1. OnUserAsk => AuthInv'
    BY SilentStep DEF OnUserAsk
  <1>2. ASSUME NEW c \in ops, ServeOp(c) PROVE AuthInv'
    <2>1. \A a \in Asker : st'[a] = "allowed" => st[a] = "allowed"
      BY <1>2, ConstantTypes DEF ServeOp, TypeOK, Asker
    <2> QED BY <1>2, <2>1, SilentStep DEF ServeOp
  <1>3. FinishCall => AuthInv'
    <2> SUFFICES ASSUME FinishCall PROVE AuthInv'
      OBVIOUS
    <2>1. \A a \in Asker : st'[a] = "allowed" => st[a] = "allowed"
      BY FailClosedAllowed, FailClosedType, ConstantTypes
         DEF FinishCall, StartCall, LeaveCall
    <2>2. pending' \subseteq pending
      BY DEF FinishCall, StartCall, LeaveCall
    <2> QED BY <2>1, <2>2, SilentStep DEF FinishCall
  <1>4. CallClosed => AuthInv'
    BY SilentStep, FailClosedAllowed DEF CallClosed
  <1>5. IdleCommand => AuthInv'
    <2> SUFFICES ASSUME IdleCommand PROVE AuthInv'
      OBVIOUS
    <2>1. AnswersAreGiven'
      BY AnswersAfterTail DEF AuthInv, IdleCommand
    <2> QED BY <2>1, QuietStep DEF IdleCommand
  <1>6. IdleClosed => AuthInv'
    BY SilentStep DEF IdleClosed
  <1>7. StreamCommand => AuthInv'
    <2> SUFFICES ASSUME StreamCommand PROVE AuthInv'
      OBVIOUS
    <2>1. AnswersAreGiven'
      BY AnswersAfterTail DEF AuthInv, StreamCommand
    <2> QED BY <2>1, QuietStep DEF StreamCommand
  <1>8. StreamTurnEnd => AuthInv'
    BY SilentStep DEF StreamTurnEnd
  <1>9. ASSUME NEW k \in 1..MaxCalls, StreamToolCalls(k) PROVE AuthInv'
    <2>1. \A a \in Asker : st'[a] = "allowed" => st[a] = "allowed"
      BY <1>9, ConstantTypes DEF StreamToolCalls, StartCall, TypeOK
    <2> QED BY <1>9, <2>1, SilentStep DEF StreamToolCalls, StartCall
  <1> QED BY <1>1, <1>2, <1>3, <1>4, <1>5, <1>6, <1>7, <1>8, <1>9,
             OnPermissionAskAuth, CallCommandAuth DEF EngineStep

(* A step of the frontend or of its user keeps the invariant.                *)
LEMMA UserStepAuth == AuthInv /\ UserStep => AuthInv'
  <1> SUFFICES ASSUME AuthInv, UserStep PROVE AuthInv'
    OBVIOUS
  <1>t. TypeOK /\ TypeOK'
    BY UserStepType DEF AuthInv
  <1> USE <1>t
  <1>1. ApplyEvent => AuthInv'
    BY SilentStep DEF ApplyEvent
  <1>2. Answered => AuthInv'
    <2> SUFFICES ASSUME Answered PROVE AuthInv'
      OBVIOUS
    <2>1. AnswersAreGiven'
      BY AnswersAfterSend DEF AuthInv, Answered, Send
    <2> QED BY <2>1, QuietStep DEF Answered
  <1>3. ASSUME NEW d \in PermissionDecision, Decided(d) PROVE AuthInv'
    <2>1. AnswersAreGiven'
      BY <1>3, AnswersAfterSend DEF AuthInv, Decided, Send
    <2> QED BY <1>3, <2>1, QuietStep DEF Decided
  <1>4. ASSUME NEW s, NEW b, NEW c, c.type # "PermissionAnswer", UserCommand(s, b, c)
        PROVE AuthInv'
    <2>1. AnswersAreGiven'
      BY <1>4, AnswersAfterSend DEF AuthInv, UserCommand, Send
    <2> QED BY <1>4, <2>1, QuietStep DEF UserCommand
  <1>5. SendInput => AuthInv'
    BY <1>4 DEF SendInput
  <1>6. SendCancel => AuthInv'
    BY <1>4 DEF SendCancel
  <1>7. ASSUME NEW m \in Mode, SendMode(m) PROVE AuthInv'
    BY <1>4, <1>7 DEF SendMode
  <1>8. Close => AuthInv'
    BY SilentStep DEF Close
  <1> QED BY <1>1, <1>2, <1>3, <1>5, <1>6, <1>7, <1>8 DEF UserStep

(* AuthInv holds throughout.                                                 *)
THEOREM AuthInvariant == Spec => []AuthInv
  <1>1. Init => AuthInv
    <2> SUFFICES ASSUME Init PROVE AuthInv
      OBVIOUS
    <2>1. Raised = {} /\ pending = {} /\ effects = {} /\ commands = <<>>
      BY DEF Init, Raised
    <2>2. \A a \in Asker : st[a] = "off"
      BY DEF Init
    <2> QED BY <2>1, <2>2, InitType DEF AuthInv, AnswersAreGiven, PendingRecorded,
               RaisedIsWanted, AllowedAuthorized, EffectsAuthorized
  <1>2. AuthInv /\ [Next]_vars => AuthInv'
    <2>1. AuthInv /\ UNCHANGED vars => AuthInv'
      <3> SUFFICES ASSUME AuthInv, UNCHANGED vars PROVE AuthInv'
        OBVIOUS
      <3>1. TypeOK'
        BY DEF AuthInv, TypeOK, vars
      <3> QED BY <3>1, SilentStep DEF vars
    <2> QED BY <2>1, ToolStepAuth, EngineStepAuth, UserStepAuth DEF Next
  <1> QED BY <1>1, <1>2, PTL DEF Spec

(* HC-4 and the permission seam, for any number of agents, asks and turns:   *)
(* nothing a tool does behind a permission runs without an allowing decision *)
(* on record for exactly that ask, and outside the project root not without  *)
(* a person having allowed exactly that ask.                                 *)
THEOREM AuthorizationSafety == Spec => []EffectsAuthorized
  <1>1. AuthInv => EffectsAuthorized
    BY DEF AuthInv
  <1> QED BY <1>1, AuthInvariant, PTL

------------------------------------------------------------------------------
(* The records, the answers and the waits of the seam                        *)

------------------------------------------------------------------------------
(* Sequences                                                                 *)

(* What Tail keeps moves up by one place.                                    *)
LEMMA TailShifts ==
    ASSUME NEW S, NEW s \in Seq(S), s # <<>>, NEW t, t = Tail(s)
    PROVE  /\ Len(s) \in Nat /\ Len(t) \in Nat /\ Len(s) = Len(t) + 1
           /\ 1 \in 1..Len(s) /\ Head(s) = s[1] /\ Head(s) \in S
           /\ t \in Seq(S)
           /\ \A i \in 1..Len(t) : i + 1 \in 1..Len(s) /\ t[i] = s[i + 1]
           /\ \A i \in 1..Len(s) : i = 1 \/ (i - 1 \in 1..Len(t) /\ t[i - 1] = s[i])
  OBVIOUS

(* Append adds the last place.                                               *)
LEMMA AppendAdds ==
    ASSUME NEW S, NEW s \in Seq(S), NEW e, NEW t, t = Append(s, e)
    PROVE  /\ Len(s) \in Nat /\ Len(t) = Len(s) + 1
           /\ Len(t) \in 1..Len(t) /\ t[Len(t)] = e
           /\ \A i \in 1..Len(s) : i \in 1..Len(t) /\ t[i] = s[i]
           /\ \A i \in 1..Len(t) : i = Len(t) \/ (i \in 1..Len(s) /\ t[i] = s[i])
  OBVIOUS

------------------------------------------------------------------------------
(* Records.  A prompt is shown once: its id is on the wire once, or on the   *)
(* screen, or answered, and a decision is the user's answer or was made with *)
(* no prompt at all.                                                         *)

IsPrompt(i) == events[i].type = "PermissionRequest"

IdsBelow == \A r \in requests : 0 < r.id /\ r.id < nextPermissionId
IdsDistinct == \A r1, r2 \in requests : r1.id = r2.id => r1 = r2
DecisionsRequested == \A d \in decisions : \E r \in requests : r.id = d.id
DecisionsDistinct == \A d1, d2 \in decisions : d1.id = d2.id => d1 = d2
PendingOpen == \A p \in pending : \A d \in decisions : d.id # p.id

PromptsBelow ==
    /\ \A i \in 1..Len(events) :
          IsPrompt(i) => 0 < events[i].id /\ events[i].id < nextPermissionId
    /\ prompt < nextPermissionId
    /\ \A a \in answers : a.id < nextPermissionId

PromptsOnce ==
    /\ \A i, j \in 1..Len(events) :
          IsPrompt(i) /\ IsPrompt(j) /\ events[i].id = events[j].id => i = j
    /\ \A i \in 1..Len(events) : IsPrompt(i) => events[i].id # prompt
    /\ \A i \in 1..Len(events) : IsPrompt(i) => \A a \in answers : a.id # events[i].id
    /\ prompt # 0 => \A a \in answers : a.id # prompt
    /\ \A a1, a2 \in answers : a1.id = a2.id => a1 = a2

Unprompted(id) ==
    /\ \A i \in 1..Len(events) : IsPrompt(i) => events[i].id # id
    /\ prompt # id
    /\ \A a \in answers : a.id # id
DecisionsMeet ==
    \A d \in decisions :
        \/ \E a \in answers : a.id = d.id /\ a.decision = d.decision
        \/ Unprompted(d.id)

RecordInv ==
    /\ IdsBelow /\ IdsDistinct
    /\ DecisionsRequested /\ DecisionsDistinct /\ PendingOpen
    /\ PromptsBelow /\ PromptsOnce
    /\ DecisionsMeet

(* The wire, the screen and the ids are numbers.                             *)
LEMMA IdTypes ==
    ASSUME TypeOK
    PROVE  /\ nextPermissionId \in Nat \ {0} /\ prompt \in Nat
           /\ events \in Seq(EventSet) /\ Len(events) \in Nat
           /\ \A i \in 1..Len(events) : events[i].id \in Nat
           /\ \A a \in answers : a.id \in Nat
           /\ \A r \in requests : r.id \in Nat
           /\ \A d \in decisions : d.id \in Nat
  <1>1. \A i \in 1..Len(events) : events[i] \in EventSet
    BY DEF TypeOK
  <1> QED BY <1>1 DEF TypeOK, EventSet

(* Every id a decision has is of a request, hence below the next.            *)
LEMMA DecisionIds ==
    ASSUME TypeOK, RecordInv
    PROVE  \A d \in decisions : 0 < d.id /\ d.id < nextPermissionId
  BY DEF RecordInv, DecisionsRequested, IdsBelow

(* What a step that records, shows and answers nothing owes RecordInv: no    *)
(* new prompt on the wire, and the screen kept or cleared.                   *)
LEMMA RecordsKept ==
    ASSUME TypeOK, RecordInv,
           UNCHANGED <<requests, decisions, answers, nextPermissionId>>,
           pending' \subseteq pending, prompt' \in {prompt, 0},
           Len(events') \in Nat,
           \A i \in 1..Len(events') :
               IsPrompt(i)' => i \in 1..Len(events) /\ events'[i] = events[i]
    PROVE  RecordInv'
  <1> USE IdTypes
  <1>0. \A i \in 1..Len(events') :
            IsPrompt(i)' => i \in 1..Len(events) /\ IsPrompt(i) /\ events'[i] = events[i]
    BY DEF IsPrompt
  <1>1. (IdsBelow /\ IdsDistinct /\ DecisionsRequested /\ DecisionsDistinct /\ PendingOpen)'
    BY DEF RecordInv, IdsBelow, IdsDistinct, DecisionsRequested, DecisionsDistinct,
           PendingOpen
  <1>2. PromptsBelow'
    BY <1>0 DEF RecordInv, PromptsBelow
  <1>3. PromptsOnce'
    <2>1. \A i, j \in 1..Len(events') :
              (IsPrompt(i) /\ IsPrompt(j))' /\ events'[i].id = events'[j].id => i = j
      BY <1>0 DEF RecordInv, PromptsOnce
    <2>2. \A i \in 1..Len(events') : IsPrompt(i)' =>
              events'[i].id # prompt' /\ \A a \in answers : a.id # events'[i].id
      BY <1>0 DEF RecordInv, PromptsOnce, PromptsBelow
    <2>3. prompt' # 0 => \A a \in answers : a.id # prompt'
      BY DEF RecordInv, PromptsOnce
    <2> QED BY <2>1, <2>2, <2>3 DEF RecordInv, PromptsOnce
  <1>4. DecisionsMeet'
    <2> SUFFICES ASSUME NEW d \in decisions,
                        ~(\E a \in answers : a.id = d.id /\ a.decision = d.decision)
                 PROVE  Unprompted(d.id)'
      BY DEF DecisionsMeet
    <2>1. Unprompted(d.id)
      BY DEF RecordInv, DecisionsMeet
    <2>2. d.id # 0
      BY DecisionIds
    <2> QED BY <1>0, <2>1, <2>2 DEF Unprompted
  <1> QED BY <1>1, <1>2, <1>3, <1>4 DEF RecordInv

(* The same for a step that leaves the wire alone, or puts something else    *)
(* than a prompt on it.                                                      *)
LEMMA WireKept ==
    ASSUME TypeOK, NEW e,
           \/ events' = events
           \/ events' = <<>>
           \/ events' = Append(events, e) /\ e.type # "PermissionRequest"
    PROVE  /\ Len(events') \in Nat
           /\ \A i \in 1..Len(events') :
                  IsPrompt(i)' => i \in 1..Len(events) /\ events'[i] = events[i]
  <1>1. CASE events' = events
    BY <1>1, IdTypes
  <1>2. CASE events' = <<>>
    BY <1>2
  <1>3. CASE events' = Append(events, e) /\ e.type # "PermissionRequest"
    BY <1>3, IdTypes, AppendAdds DEF IsPrompt
  <1> QED BY <1>1, <1>2, <1>3

(* A step that leaves the wire alone keeps the records.                      *)
LEMMA RecordsUntouched ==
    ASSUME TypeOK, RecordInv,
           UNCHANGED <<requests, decisions, answers, nextPermissionId, events>>,
           pending' \subseteq pending, prompt' \in {prompt, 0}
    PROVE  RecordInv'
  BY RecordsKept, WireKept

(* Ending a turn or asking a question puts no permission prompt on the wire. *)
LEMMA RecordsEmit ==
    ASSUME TypeOK, RecordInv,
           UNCHANGED <<requests, decisions, answers, nextPermissionId, prompt>>,
           pending' \subseteq pending,
           NEW t, t # "PermissionRequest", NEW id, Emit(t, id)
    PROVE  RecordInv'
  <1>1. [type |-> t, id |-> id].type # "PermissionRequest"
    OBVIOUS
  <1> QED BY <1>1, RecordsKept, WireKept DEF Emit

(* The engine records an ask under a new id, and a decision or a prompt.     *)
LEMMA RecordsOnPermissionAsk ==
    ASSUME AuthInv, RecordInv, OnPermissionAsk
    PROVE  RecordInv'
  <1> DEFINE id == nextPermissionId
             new == [id |-> id, ask |-> Head(asks)]
  <1>t. TypeOK /\ pending \subseteq requests
    BY DEF AuthInv, PendingRecorded
  <1> USE <1>t, IdTypes
  <1>0. requests' = requests \cup {new} /\ nextPermissionId' = id + 1
        /\ UNCHANGED <<prompt, answers>>
    BY DEF OnPermissionAsk
  <1>1. IdsBelow' /\ IdsDistinct'
    BY <1>0 DEF RecordInv, IdsBelow, IdsDistinct
  <1>2. \A d \in decisions : d.id < id
    BY DecisionIds
  <1>3. \A p \in pending : p.id < id
    BY DEF RecordInv, IdsBelow
  <1>4. \A i \in 1..Len(events) : IsPrompt(i) => events[i].id < id
    BY DEF RecordInv, PromptsBelow
  <1>5. Unprompted(id)
    BY <1>4 DEF RecordInv, PromptsBelow, Unprompted
  <1>6. CASE /\ \E v, x : decisions' = decisions \cup
                              {[id |-> id, decision |-> v, executed |-> x]}
             /\ UNCHANGED <<events, pending>>
    <2> PICK v, x : decisions' = decisions \cup
                              {[id |-> id, decision |-> v, executed |-> x]}
      BY <1>6
    <2> DEFINE dec == [id |-> id, decision |-> v, executed |-> x]
    <2>0. dec.id = id /\ decisions' = decisions \cup {dec}
      OBVIOUS
    <2> HIDE DEF dec
    <2>1. DecisionsRequested'
      <3>1. new \in requests' /\ new.id = id
        BY <1>0
      <3> HIDE DEF new
      <3> QED BY <1>0, <2>0, <3>1 DEF RecordInv, DecisionsRequested
    <2>2. DecisionsDistinct'
      BY <1>2, <2>0 DEF RecordInv, DecisionsDistinct
    <2>3. PendingOpen'
      BY <1>3, <1>6, <2>0 DEF RecordInv, PendingOpen
    <2>4. PromptsBelow'
      BY <1>0, <1>6 DEF RecordInv, PromptsBelow, IsPrompt
    <2>5. PromptsOnce'
      BY <1>0, <1>6 DEF RecordInv, PromptsOnce, IsPrompt
    <2>6. DecisionsMeet'
      <3> SUFFICES ASSUME NEW d \in decisions'
                   PROVE  \/ \E a \in answers : a.id = d.id /\ a.decision = d.decision
                          \/ Unprompted(d.id)
        BY <1>0, <1>6 DEF DecisionsMeet, Unprompted, IsPrompt
      <3> QED BY <1>5, <2>0 DEF RecordInv, DecisionsMeet
    <2> QED BY <1>1, <2>1, <2>2, <2>3, <2>4, <2>5, <2>6 DEF RecordInv
  <1>7. CASE /\ Emit("PermissionRequest", id)
             /\ pending' = pending \cup {new} /\ UNCHANGED decisions
    <2> DEFINE e == [type |-> "PermissionRequest", id |-> id]
    <2>0. events' = events \/ events' = Append(events, e)
      BY <1>7 DEF Emit
    <2>1. \A i \in 1..Len(events') :
              \/ i \in 1..Len(events) /\ events'[i] = events[i]
              \/ i = Len(events) + 1 /\ events'[i] = e
      BY <2>0, AppendAdds
    <2>2. e.type = "PermissionRequest" /\ e.id = id
      OBVIOUS
    <2> HIDE DEF e
    <2>3. \A i \in 1..Len(events') : IsPrompt(i)' =>
              \/ i \in 1..Len(events) /\ IsPrompt(i) /\ events'[i] = events[i]
              \/ i = Len(events) + 1 /\ events'[i].id = id
      BY <2>1, <2>2 DEF IsPrompt
    <2>4. DecisionsRequested' /\ DecisionsDistinct'
      BY <1>0, <1>7 DEF RecordInv, DecisionsRequested, DecisionsDistinct
    <2>5. PendingOpen'
      BY <1>2, <1>7 DEF RecordInv, PendingOpen
    <2>6. PromptsBelow'
      BY <1>0, <2>3 DEF RecordInv, PromptsBelow
    <2>7. PromptsOnce'
      <3>1. \A i, j \in 1..Len(events') :
                (IsPrompt(i) /\ IsPrompt(j))' /\ events'[i].id = events'[j].id => i = j
        BY <1>4, <2>3 DEF RecordInv, PromptsOnce
      <3>2. \A i \in 1..Len(events') : IsPrompt(i)' =>
                events'[i].id # prompt /\ \A a \in answers : a.id # events'[i].id
        BY <1>5, <2>3 DEF RecordInv, PromptsOnce, Unprompted
      <3> QED BY <1>0, <3>1, <3>2 DEF RecordInv, PromptsOnce
    <2>8. DecisionsMeet'
      <3> SUFFICES ASSUME NEW d \in decisions, Unprompted(d.id)
                   PROVE  Unprompted(d.id)'
        BY <1>0, <1>7 DEF RecordInv, DecisionsMeet
      <3> QED BY <1>0, <1>2, <2>3 DEF Unprompted
    <2> QED BY <1>1, <2>4, <2>5, <2>6, <2>7, <2>8 DEF RecordInv
  <1> QED BY <1>6, <1>7 DEF OnPermissionAsk

(* An answer that meets its stashed ask is recorded as the user gave it.     *)
LEMMA RecordsAnswer ==
    ASSUME AuthInv, RecordInv, NEW id, NEW v, [id |-> id, decision |-> v] \in answers,
           AnswerPermission(id, v),
           UNCHANGED <<requests, answers, nextPermissionId, events, prompt>>
    PROVE  RecordInv'
  <1>t. TypeOK /\ pending \subseteq requests
    BY DEF AuthInv, PendingRecorded
  <1> USE <1>t
  <1>1. CASE UNCHANGED <<pending, decisions>>
    BY <1>1, RecordsUntouched
  <1>2. CASE \E p \in pending :
                /\ p.id = id
                /\ pending' = pending \ {p}
                /\ decisions' = decisions \cup
                      {[id |-> id, decision |-> v, executed |-> IsAllow(v)]}
    <2> PICK p \in pending :
                /\ p.id = id
                /\ pending' = pending \ {p}
                /\ decisions' = decisions \cup
                      {[id |-> id, decision |-> v, executed |-> IsAllow(v)]}
      BY <1>2
    <2> DEFINE dec == [id |-> id, decision |-> v, executed |-> IsAllow(v)]
    <2>0. /\ dec.id = id /\ dec.decision = v /\ decisions' = decisions \cup {dec}
      OBVIOUS
    <2> HIDE DEF dec
    <2>1. DecisionsRequested'
      BY <2>0 DEF RecordInv, DecisionsRequested
    <2>2. DecisionsDistinct'
      BY <2>0 DEF RecordInv, DecisionsDistinct, PendingOpen
    <2>3. PendingOpen'
      BY <2>0 DEF RecordInv, PendingOpen, IdsDistinct
    <2>4. DecisionsMeet'
      <3> SUFFICES ASSUME NEW d \in decisions'
                   PROVE  \/ \E a \in answers : a.id = d.id /\ a.decision = d.decision
                          \/ Unprompted(d.id)
        BY DEF DecisionsMeet, Unprompted, IsPrompt
      <3>1. CASE d = dec
        <4>1. [id |-> id, decision |-> v].id = id /\ [id |-> id, decision |-> v].decision = v
          OBVIOUS
        <4> QED BY <3>1, <2>0, <4>1
      <3> QED BY <3>1, <2>0 DEF RecordInv, DecisionsMeet
    <2>5. (IdsBelow /\ IdsDistinct /\ PromptsBelow /\ PromptsOnce)'
      BY DEF RecordInv, IdsBelow, IdsDistinct, PromptsBelow, PromptsOnce, IsPrompt
    <2> QED BY <2>1, <2>2, <2>3, <2>4, <2>5 DEF RecordInv
  <1> QED BY <1>1, <1>2 DEF AnswerPermission

(* A prompt moves from the wire to the screen, or another event goes.        *)
LEMMA RecordsApply ==
    ASSUME TypeOK, RecordInv, ApplyEvent
    PROVE  RecordInv'
  <1> USE IdTypes
  <1>0. /\ events # <<>> /\ events' = Tail(events)
        /\ prompt' = IF IsPrompt(1) THEN events[1].id ELSE prompt
        /\ UNCHANGED <<requests, decisions, pending, answers, nextPermissionId>>
    BY DEF ApplyEvent, IsPrompt
  <1>1. /\ 1 \in 1..Len(events)
        /\ \A i \in 1..Len(events') : /\ i + 1 \in 1..Len(events) /\ i + 1 # 1
                                      /\ events'[i] = events[i + 1]
                                      /\ IsPrompt(i)' <=> IsPrompt(i + 1)
    BY <1>0, TailShifts DEF IsPrompt
  <1>2. (IdsBelow /\ IdsDistinct /\ DecisionsRequested /\ DecisionsDistinct /\ PendingOpen)'
    BY <1>0 DEF RecordInv, IdsBelow, IdsDistinct, DecisionsRequested, DecisionsDistinct,
           PendingOpen
  <1>3. PromptsBelow'
    BY <1>0, <1>1 DEF RecordInv, PromptsBelow
  <1>4. PromptsOnce'
    <2>1. \A i, j \in 1..Len(events') :
              (IsPrompt(i) /\ IsPrompt(j))' /\ events'[i].id = events'[j].id => i = j
      <3> SUFFICES ASSUME NEW i \in 1..Len(events'), NEW j \in 1..Len(events'),
                          (IsPrompt(i) /\ IsPrompt(j))', events'[i].id = events'[j].id
                   PROVE  i = j
        OBVIOUS
      <3>1. i + 1 = j + 1
        BY <1>1 DEF RecordInv, PromptsOnce
      <3> QED BY <3>1
    <2>2. \A i \in 1..Len(events') : IsPrompt(i)' => events'[i].id # prompt'
      BY <1>0, <1>1 DEF RecordInv, PromptsOnce
    <2>3. \A i \in 1..Len(events') : IsPrompt(i)' => \A a \in answers : a.id # events'[i].id
      BY <1>1 DEF RecordInv, PromptsOnce
    <2>4. prompt' # 0 => \A a \in answers : a.id # prompt'
      BY <1>0, <1>1 DEF RecordInv, PromptsOnce
    <2> QED BY <1>0, <2>1, <2>2, <2>3, <2>4 DEF RecordInv, PromptsOnce
  <1>5. DecisionsMeet'
    <2> SUFFICES ASSUME NEW d \in decisions, Unprompted(d.id)
                 PROVE  Unprompted(d.id)'
      BY <1>0 DEF RecordInv, DecisionsMeet
    <2> QED BY <1>0, <1>1 DEF Unprompted
  <1> QED BY <1>2, <1>3, <1>4, <1>5 DEF RecordInv

(* The user answers the prompt on the screen, for the first time.            *)
LEMMA RecordsDecided ==
    ASSUME TypeOK, RecordInv, NEW v \in PermissionDecision, Decided(v)
    PROVE  RecordInv'
  <1> DEFINE given == [id |-> prompt, decision |-> v]
  <1> USE IdTypes
  <1>0. /\ prompt # 0 /\ prompt' = 0 /\ answers' = answers \cup {given}
        /\ UNCHANGED <<requests, decisions, pending, events, nextPermissionId>>
    BY DEF Decided
  <1>1. given.id = prompt
    OBVIOUS
  <1> HIDE DEF given
  <1>2. (IdsBelow /\ IdsDistinct /\ DecisionsRequested /\ DecisionsDistinct /\ PendingOpen)'
    BY <1>0 DEF RecordInv, IdsBelow, IdsDistinct, DecisionsRequested, DecisionsDistinct,
           PendingOpen
  <1>3. PromptsBelow'
    BY <1>0, <1>1 DEF RecordInv, PromptsBelow, IsPrompt
  <1>4. PromptsOnce'
    <2>1. \A i, j \in 1..Len(events') :
              (IsPrompt(i) /\ IsPrompt(j))' /\ events'[i].id = events'[j].id => i = j
      BY <1>0 DEF RecordInv, PromptsOnce, IsPrompt
    <2>2. \A i \in 1..Len(events') : IsPrompt(i)' =>
              events'[i].id # 0 /\ \A a \in answers' : a.id # events'[i].id
      BY <1>0, <1>1 DEF RecordInv, PromptsOnce, PromptsBelow, IsPrompt
    <2>3. \A a1, a2 \in answers' : a1.id = a2.id => a1 = a2
      BY <1>0, <1>1 DEF RecordInv, PromptsOnce
    <2> QED BY <1>0, <2>1, <2>2, <2>3 DEF PromptsOnce
  <1>5. DecisionsMeet'
    <2> SUFFICES ASSUME NEW d \in decisions, Unprompted(d.id)
                 PROVE  Unprompted(d.id)'
      BY <1>0 DEF RecordInv, DecisionsMeet
    <2>1. d.id # 0
      BY DecisionIds
    <2> QED BY <1>0, <1>1, <2>1 DEF Unprompted, IsPrompt
  <1> QED BY <1>2, <1>3, <1>4, <1>5 DEF RecordInv

(* A command taken in a tool call keeps the records.                         *)
LEMMA RecordsCallCommand ==
    ASSUME AuthInv, RecordInv, CallCommand
    PROVE  RecordInv'
  <1> DEFINE c == Head(commands)
  <1>t. TypeOK
    BY DEF AuthInv
  <1>0. /\ commands # <<>>
        /\ UNCHANGED <<requests, answers, nextPermissionId, prompt>>
    BY DEF CallCommand
  <1>1. CASE /\ c.type = "PermissionAnswer"
             /\ AnswerPermission(c.id, c.decision)
             /\ UNCHANGED events
    <2>1. 1 \in 1..Len(commands) /\ c = commands[1]
      BY <1>t, <1>0 DEF TypeOK
    <2>2. [id |-> c.id, decision |-> c.decision] \in answers
      BY <1>1, <2>1 DEF AuthInv, AnswersAreGiven
    <2> QED BY <1>0, <1>1, <2>2, RecordsAnswer
  <1>2. CASE UNCHANGED <<pending, decisions, events>>
    BY <1>t, <1>0, <1>2, RecordsUntouched
  <1>3. CASE CancelCall
    BY <1>t, <1>0, <1>3, RecordsEmit DEF CancelCall, LeaveCall
  <1> QED BY <1>1, <1>2, <1>3 DEF CallCommand

(* Every step keeps the records.                                             *)
LEMMA RecordsNext ==
    ASSUME AuthInv, RecordInv, [Next]_vars
    PROVE  RecordInv'
  <1>t. TypeOK
    BY DEF AuthInv
  <1> USE <1>t
  <1>1. CASE ToolStep
    <2>1. UNCHANGED <<requests, decisions, answers, nextPermissionId, events, pending, prompt>>
      BY <1>1 DEF ToolStep, Authorize, AskUser, RunAllowed, AskEngine, JoinReply
    <2> QED BY <2>1, RecordsUntouched
  <1>2. CASE EngineStep
    <2>1. OnUserAsk => RecordInv'
      BY RecordsEmit DEF OnUserAsk
    <2>2. (\E c \in ops : ServeOp(c)) \/ IdleCommand \/ IdleClosed => RecordInv'
      BY RecordsUntouched DEF ServeOp, IdleCommand, IdleClosed
    <2>3. FinishCall \/ CallClosed \/ (\E k \in 1..MaxCalls : StreamToolCalls(k))
             => RecordInv'
      BY RecordsUntouched DEF FinishCall, CallClosed, StreamToolCalls, StartCall, LeaveCall
    <2>4. StreamCommand => RecordInv'
      BY RecordsEmit, RecordsUntouched DEF StreamCommand
    <2>5. StreamTurnEnd => RecordInv'
      BY RecordsEmit DEF StreamTurnEnd
    <2> QED BY <1>2, <2>1, <2>2, <2>3, <2>4, <2>5, RecordsOnPermissionAsk,
               RecordsCallCommand DEF EngineStep
  <1>3. CASE UserStep
    <2>1. Answered => RecordInv'
      BY RecordsUntouched DEF Answered
    <2>2. ASSUME NEW s, NEW b, NEW c, UserCommand(s, b, c) PROVE RecordInv'
      BY <2>2, RecordsUntouched DEF UserCommand
    <2>3. Close => RecordInv'
      <3> SUFFICES ASSUME Close PROVE RecordInv'
        OBVIOUS
      <3> QED BY RecordsKept, WireKept DEF Close
    <2> QED BY <1>3, <2>1, <2>2, <2>3, RecordsApply, RecordsDecided
            DEF UserStep, SendInput, SendCancel, SendMode
  <1>4. CASE UNCHANGED vars
    BY <1>4, RecordsUntouched DEF vars
  <1> QED BY <1>1, <1>2, <1>3, <1>4 DEF Next

(* The records hold throughout.                                              *)
LEMMA RecordInvariant == Spec => []RecordInv
  <1>1. Init => RecordInv
    BY DEF Init, RecordInv, IdsBelow, IdsDistinct, DecisionsRequested, DecisionsDistinct,
           PendingOpen, PromptsBelow, PromptsOnce, DecisionsMeet
  <1>2. AuthInv /\ RecordInv /\ [Next]_vars => RecordInv'
    BY RecordsNext
  <1> QED BY <1>1, <1>2, AuthInvariant, PTL DEF Spec

(* The records agree.                                                        *)
LEMMA RecordsAgree == RecordInv => OneDecisionPerRequest
  BY DEF RecordInv, IdsDistinct, DecisionsRequested, DecisionsDistinct, DecisionsMeet,
         PromptsOnce, Unprompted, OneDecisionPerRequest

------------------------------------------------------------------------------
(* Grants.  The base rules stay in front, and what is appended is the rule   *)
(* of a recorded request that the user's answer names.                       *)

RuleSet == {BaseRules[i] : i \in DOMAIN BaseRules} \cup {GrantRule(q) : q \in Request}

GrantInv == rules \in Seq(RuleSet) /\ GrantsFromUser

(* A step that leaves the rules alone keeps the grants.                      *)
LEMMA GrantsKept ==
    ASSUME GrantInv, rules' = rules, requests \subseteq requests', answers \subseteq answers'
    PROVE  GrantInv'
  BY DEF GrantInv, GrantsFromUser

(* The one step that adds a rule.                                            *)
LEMMA GrantsAnswer ==
    ASSUME AuthInv, GrantInv, NEW id, NEW v, [id |-> id, decision |-> v] \in answers,
           AnswerPermission(id, v), UNCHANGED <<requests, answers>>
    PROVE  GrantInv'
  <1>1. CASE UNCHANGED rules
    BY <1>1, GrantsKept
  <1>2. CASE \E p \in pending : p.id = id /\ ApplyGrant(p.ask.req, v)
    <2> PICK p \in pending : p.id = id /\ ApplyGrant(p.ask.req, v)
      BY <1>2
    <2>1. CASE rules' = rules
      BY <2>1, GrantsKept
    <2>2. CASE /\ ~p.ask.req.outside_root /\ v \in {"AllowForSession", "AlwaysAllowInProject"}
               /\ rules' = Append(rules, GrantRule(p.ask.req))
      <3>1. p \in requests /\ p.ask.req \in Request
        BY DEF AuthInv, PendingRecorded, TypeOK, AskSet
      <3>2. GrantRule(p.ask.req) \in RuleSet
        BY <3>1 DEF RuleSet
      <3>3. rules' \in Seq(RuleSet)
        BY <2>2, <3>2 DEF GrantInv
      <3>4. /\ Len(rules') = Len(rules) + 1 /\ Len(rules) \in Nat
            /\ \A i \in 1..Len(rules') :
                  i = Len(rules') \/ (i \in 1..Len(rules) /\ rules'[i] = rules[i])
            /\ rules'[Len(rules')] = GrantRule(p.ask.req)
        BY <2>2, AppendAdds DEF GrantInv
      <3>5. \E r \in requests : \E a \in answers :
                /\ a.id = r.id /\ a.decision \in {"AllowForSession", "AlwaysAllowInProject"}
                /\ ~r.ask.req.outside_root /\ rules'[Len(rules')] = GrantRule(r.ask.req)
        <4>1. [id |-> id, decision |-> v].id = p.id /\ [id |-> id, decision |-> v].decision = v
          OBVIOUS
        <4> QED BY <2>2, <3>1, <3>4, <4>1
      <3>6. Len(BaseRules) \in Nat
        BY GatesAssumption DEF GatesAssumption
      <3>7. GrantsFromUser'
        <4> SUFFICES ASSUME NEW i \in (Len(BaseRules) + 1)..Len(rules')
                     PROVE  \E r \in requests : \E a \in answers :
                               /\ a.id = r.id
                               /\ a.decision \in {"AllowForSession", "AlwaysAllowInProject"}
                               /\ ~r.ask.req.outside_root /\ rules'[i] = GrantRule(r.ask.req)
          BY DEF GrantsFromUser
        <4>1. CASE i = Len(rules')
          BY <3>5, <4>1
        <4>2. CASE i # Len(rules')
          <5>1. i \in 1..Len(rules')
            BY <3>4, <3>6
          <5>2. i \in (Len(BaseRules) + 1)..Len(rules) /\ rules'[i] = rules[i]
            BY <3>4, <3>6, <4>2, <5>1
          <5> QED BY <5>2 DEF GrantInv, GrantsFromUser
        <4> QED BY <4>1, <4>2
      <3> QED BY <3>3, <3>7 DEF GrantInv
    <2> QED BY <2>1, <2>2 DEF ApplyGrant
  <1> QED BY <1>1, <1>2 DEF AnswerPermission

(* Every step keeps the grants.                                              *)
LEMMA GrantsNext ==
    ASSUME AuthInv, GrantInv, [Next]_vars
    PROVE  GrantInv'
  <1>1. CASE ToolStep
    BY <1>1, GrantsKept DEF ToolStep, Authorize, AskUser, RunAllowed, AskEngine, JoinReply
  <1>2. CASE EngineStep
    <2>1. OnPermissionAsk => GrantInv'
      BY GrantsKept DEF OnPermissionAsk
    <2>2. CallCommand => GrantInv'
      <3> SUFFICES ASSUME CallCommand PROVE GrantInv'
        OBVIOUS
      <3> DEFINE c == Head(commands)
      <3>0. commands # <<>> /\ UNCHANGED <<requests, answers>>
        BY DEF CallCommand
      <3>1. CASE c.type = "PermissionAnswer" /\ AnswerPermission(c.id, c.decision)
        <4>1. 1 \in 1..Len(commands) /\ c = commands[1]
          BY <3>0 DEF AuthInv, TypeOK
        <4>2. [id |-> c.id, decision |-> c.decision] \in answers
          BY <3>1, <4>1 DEF AuthInv, AnswersAreGiven
        <4> QED BY <3>0, <3>1, <4>2, GrantsAnswer
      <3>2. CASE UNCHANGED rules
        BY <3>0, <3>2, GrantsKept
      <3> QED BY <3>1, <3>2 DEF CallCommand, CancelCall
    <2>3. (OnUserAsk \/ (\E c \in ops : ServeOp(c)) \/ FinishCall \/ CallClosed) => GrantInv'
      BY GrantsKept DEF OnUserAsk, ServeOp, FinishCall, CallClosed
    <2>4. (IdleCommand \/ IdleClosed \/ StreamCommand \/ StreamTurnEnd) => GrantInv'
      BY GrantsKept DEF IdleCommand, IdleClosed, StreamCommand, StreamTurnEnd
    <2>5. (\E k \in 1..MaxCalls : StreamToolCalls(k)) => GrantInv'
      BY GrantsKept DEF StreamToolCalls
    <2> QED BY <1>2, <2>1, <2>2, <2>3, <2>4, <2>5 DEF EngineStep
  <1>3. CASE UserStep
    <2>1. (ApplyEvent \/ Answered \/ Close) => GrantInv'
      BY GrantsKept DEF ApplyEvent, Answered, Close
    <2>2. (\E d \in PermissionDecision : Decided(d)) => GrantInv'
      BY GrantsKept DEF Decided
    <2>3. ASSUME NEW s, NEW b, NEW c, UserCommand(s, b, c) PROVE GrantInv'
      BY <2>3, GrantsKept DEF UserCommand
    <2> QED BY <1>3, <2>1, <2>2, <2>3 DEF UserStep, SendInput, SendCancel, SendMode
  <1>4. CASE UNCHANGED vars
    BY <1>4, GrantsKept DEF vars
  <1> QED BY <1>1, <1>2, <1>3, <1>4 DEF Next

(* Only what the user granted joins the rules, throughout.                   *)
LEMMA GrantInvariant == Spec => []GrantInv
  <1>1. Init => GrantInv
    <2> SUFFICES ASSUME Init PROVE GrantInv
      OBVIOUS
    <2>1. rules = BaseRules /\ BaseRules \in Seq(RuleSet)
      BY GatesAssumption DEF Init, GatesAssumption, RuleSet
    <2>2. Len(rules) \in Nat
      BY <2>1
    <2>3. (Len(BaseRules) + 1)..Len(rules) = {}
      BY <2>1, <2>2
    <2> QED BY <2>1, <2>3 DEF GrantInv, GrantsFromUser
  <1>2. AuthInv /\ GrantInv /\ [Next]_vars => GrantInv'
    BY GrantsNext
  <1> QED BY <1>1, <1>2, AuthInvariant, PTL DEF Spec

------------------------------------------------------------------------------
(* Owners.  Every ask in a channel has a number of its own, above those the  *)
(* engine has taken, so that the one ask an agent waits for is in one place. *)

Same(x, y) == x.by = y.by /\ x.n = y.n

ChannelDistinct ==
    \A i, j \in 1..Len(asks) : Same(asks[i], asks[j]) => i = j
ChannelFresh ==
    \A i \in 1..Len(asks) : \A r \in requests : ~Same(asks[i], r.ask)
QuestionsKnown ==
    /\ \A i \in 1..Len(userAsks) : userAsks[i].n <= serial[userAsks[i].by]
    /\ \A p \in pendingUser : p.ask.n <= serial[p.ask.by]
QuestionsDistinct ==
    \A i, j \in 1..Len(userAsks) : Same(userAsks[i], userAsks[j]) => i = j
QuestionsFresh ==
    \A i \in 1..Len(userAsks) : \A p \in pendingUser : ~Same(userAsks[i], p.ask)

AsksInv == ChannelDistinct /\ ChannelFresh
QuestionsInv == QuestionsKnown /\ QuestionsDistinct /\ QuestionsFresh

(* WaitersAreOwned by its parts, for one agent and for the call.             *)
OwnedAsk(a) == st[a] = "asking" => (InChannel(a) <=> ~InPending(a))
OwnedQuestion(a) == st[a] = "questioning" => (InUserChannel(a) <=> ~InUserPending(a))
CallOwns ==
    /\ phase # "call" => pending = {} /\ pendingUser = {}
    /\ st[Root] = "op" => callNo \in ops

OwnerInv ==
    /\ AsksInv /\ QuestionsInv
    /\ \A a \in Asker : OwnedAsk(a) /\ OwnedQuestion(a)
    /\ CallOwns

(* Every waiter is owned.                                                    *)
LEMMA OwnersOwn == OwnerInv => WaitersAreOwned
  BY DEF OwnerInv, OwnedAsk, OwnedQuestion, CallOwns, WaitersAreOwned

(* What the channels hold is asks.                                           *)
LEMMA AskTypes ==
    ASSUME TypeOK
    PROVE  /\ asks \in Seq(AskSet) /\ userAsks \in Seq(QuestionSet)
           /\ Len(asks) \in Nat /\ Len(userAsks) \in Nat
           /\ \A i \in 1..Len(asks) : asks[i] \in AskSet
           /\ \A i \in 1..Len(userAsks) : userAsks[i] \in QuestionSet
           /\ \A r \in requests : r.ask \in AskSet
           /\ \A p \in pending : p.ask \in AskSet
           /\ \A p \in pendingUser : p.ask \in QuestionSet
           /\ \A a \in Asker : serial[a] \in Nat
  BY ConstantTypes DEF TypeOK

(* An ask says by whom it is, and its number.                                *)
LEMMA AskFields ==
    /\ \A x \in AskSet : x.by \in Asker /\ x.n \in Nat
    /\ \A x \in QuestionSet : x.by \in Asker /\ x.n \in Nat
  BY ConstantTypes DEF AskSet, QuestionSet

(* An agent that waits as before, with every ask where it was.               *)
LEMMA OwnersQuiet ==
    ASSUME OwnerInv,
           UNCHANGED <<serial, asks, userAsks, requests, pending, pendingUser>>,
           \A a \in Asker : st'[a] \in {"asking", "questioning"} => st'[a] = st[a],
           phase' # "call" => phase # "call",
           st'[Root] = "op" => callNo' \in ops'
    PROVE  OwnerInv'
  <1>1. AsksInv' /\ QuestionsInv'
    BY DEF OwnerInv, AsksInv, QuestionsInv, ChannelDistinct, ChannelFresh, QuestionsKnown,
           QuestionsDistinct, QuestionsFresh
  <1>2. \A a \in Asker : OwnedAsk(a)' /\ OwnedQuestion(a)'
    BY DEF OwnerInv, OwnedAsk, OwnedQuestion, InChannel, InPending, InUserChannel,
           InUserPending
  <1>3. CallOwns'
    BY DEF OwnerInv, CallOwns
  <1> QED BY <1>1, <1>2, <1>3 DEF OwnerInv

(* The vectors are dropped, and who waited on them with them.                *)
LEMMA OwnersDropped ==
    ASSUME OwnerInv,
           UNCHANGED <<serial, asks, userAsks, requests>>,
           pending' = {}, pendingUser' = {},
           \A a \in Asker : st'[a] \in {"asking", "questioning"} => st'[a] = FailClosed[a],
           st'[Root] = "op" => callNo' \in ops'
    PROVE  OwnerInv'
  <1>1. AsksInv' /\ QuestionsInv'
    BY DEF OwnerInv, AsksInv, QuestionsInv, ChannelDistinct, ChannelFresh, QuestionsKnown,
           QuestionsDistinct, QuestionsFresh
  <1>2. ASSUME NEW a \in Asker PROVE OwnedAsk(a)' /\ OwnedQuestion(a)'
    <2>1. st'[a] \in {"asking", "questioning"} => ~Abandoned(a) /\ st[a] = st'[a]
      BY DEF FailClosed
    <2>2. CASE st'[a] = "asking"
      <3>1. st[a] = "asking" /\ ~InPending(a)
        BY <2>1, <2>2 DEF Abandoned, InPending, Awaits
      <3>2. InChannel(a) /\ InChannel(a)'
        BY <3>1 DEF OwnerInv, OwnedAsk, InChannel
      <3> QED BY <2>2, <3>2 DEF OwnedAsk, OwnedQuestion, InPending
    <2>3. CASE st'[a] = "questioning"
      <3>1. st[a] = "questioning" /\ ~InUserPending(a)
        BY <2>1, <2>3 DEF Abandoned, InUserPending, Awaits
      <3>2. InUserChannel(a) /\ InUserChannel(a)'
        BY <3>1 DEF OwnerInv, OwnedQuestion, InUserChannel
      <3> QED BY <2>3, <3>2 DEF OwnedAsk, OwnedQuestion, InUserPending
    <2> QED BY <2>2, <2>3 DEF OwnedAsk, OwnedQuestion
  <1>3. CallOwns'
    BY DEF CallOwns
  <1> QED BY <1>1, <1>2, <1>3 DEF OwnerInv

(* What a reply does: it resumes the one who awaits it, and nobody else.     *)
LEMMA ReplyResumes ==
    ASSUME TypeOK, NEW ask, ask.by \in Asker, NEW s, NEW next, Reply(ask, s, next),
           NEW a \in Asker
    PROVE  \/ a = ask.by /\ Awaits(a, s, ask.n) /\ st'[a] = next
           \/ ~(a = ask.by /\ Awaits(a, s, ask.n)) /\ st'[a] = st[a]
  BY DEF TypeOK, Reply, Awaits

(* A tool asks for permission: the new ask is the only one of its number.    *)
LEMMA OwnersAuthorize ==
    ASSUME AuthInv, OwnerInv, NEW a \in Asker, NEW q \in Request, Authorize(a, q)
    PROVE  OwnerInv'
  <1> DEFINE new == [by |-> a, n |-> serial[a] + 1, req |-> q]
  <1>t. TypeOK /\ pending \subseteq requests
    BY DEF AuthInv, PendingRecorded
  <1> USE <1>t, AskTypes, AskFields
  <1>0. /\ st[a] = "running"
        /\ st' = [st EXCEPT ![a] = "asking"] /\ serial' = [serial EXCEPT ![a] = @ + 1]
        /\ asks' = Append(asks, new)
        /\ UNCHANGED <<userAsks, ops, requests, pending, pendingUser, phase, callNo>>
    BY DEF Authorize, Live
  <1>1. /\ serial'[a] = serial[a] + 1 /\ st'[a] = "asking"
        /\ \A b \in Asker : b # a => serial'[b] = serial[b] /\ st'[b] = st[b]
    BY <1>0 DEF TypeOK
  <1>2. new.by = a /\ new.n = serial[a] + 1
    OBVIOUS
  <1> HIDE DEF new
  <1>3. /\ Len(asks') = Len(asks) + 1 /\ asks'[Len(asks')] = new
        /\ \A i \in 1..Len(asks) : i \in 1..Len(asks') /\ asks'[i] = asks[i]
        /\ \A i \in 1..Len(asks') :
              i = Len(asks') \/ (i \in 1..Len(asks) /\ asks'[i] = asks[i])
        /\ Len(asks') \in 1..Len(asks')
    BY <1>0, AppendAdds
  <1>4. /\ \A i \in 1..Len(asks) : ~Same(asks[i], new)
        /\ \A r \in requests : ~Same(new, r.ask)
    <2>1. \A x \in Raised : x \in AskSet /\ x.n <= serial[x.by]
      BY RaisedType DEF AuthInv, RaisedIsWanted
    <2>2. \A x \in Raised : ~Same(x, new) /\ ~Same(new, x)
      BY <1>2, <2>1 DEF Same
    <2> QED BY <2>2 DEF Raised
  <1>5. AsksInv'
    <2>1. ChannelDistinct'
      <3> SUFFICES ASSUME NEW i \in 1..Len(asks'), NEW j \in 1..Len(asks'),
                          Same(asks'[i], asks'[j])
                   PROVE  i = j
        BY DEF ChannelDistinct, Same
      <3>1. CASE i = Len(asks') \/ j = Len(asks')
        BY <1>3, <1>4, <3>1 DEF Same
      <3>2. CASE i \in 1..Len(asks) /\ j \in 1..Len(asks)
        BY <1>3, <3>2 DEF OwnerInv, AsksInv, ChannelDistinct
      <3> QED BY <1>3, <3>1, <3>2
    <2>2. ChannelFresh'
      BY <1>0, <1>3, <1>4 DEF OwnerInv, AsksInv, ChannelFresh
    <2> QED BY <2>1, <2>2 DEF AsksInv
  <1>6. QuestionsInv'
    <2>1. QuestionsKnown'
      <3> SUFFICES ASSUME NEW x \in QuestionSet, x.n <= serial[x.by]
                   PROVE  x.n <= serial'[x.by]
        BY <1>0 DEF OwnerInv, QuestionsInv, QuestionsKnown
      <3>1. serial[x.by] \in Nat /\ (serial'[x.by] = serial[x.by] \/ serial'[x.by] = serial[x.by] + 1)
        BY <1>1
      <3> QED BY <3>1
    <2> QED BY <1>0, <2>1 DEF OwnerInv, QuestionsInv, QuestionsDistinct, QuestionsFresh
  <1>7. ASSUME NEW b \in Asker PROVE OwnedAsk(b)' /\ OwnedQuestion(b)'
    <2>1. CASE b = a
      <3>1. InChannel(a)'
        BY <1>1, <1>2, <1>3 DEF InChannel
      <3>2. ~InPending(a)'
        BY <1>0, <1>1, <1>2, <1>4 DEF InPending, Same
      <3> QED BY <1>1, <2>1, <3>1, <3>2 DEF OwnedAsk, OwnedQuestion
    <2>2. CASE b # a
      <3>1. InChannel(b)' <=> InChannel(b)
        BY <1>1, <1>2, <1>3, <2>2 DEF InChannel
      <3>2. /\ InPending(b)' <=> InPending(b)
            /\ InUserPending(b)' <=> InUserPending(b)
            /\ InUserChannel(b)' <=> InUserChannel(b)
        BY <1>0, <1>1, <2>2 DEF InPending, InUserPending, InUserChannel
      <3> QED BY <1>1, <2>2, <3>1, <3>2 DEF OwnerInv, OwnedAsk, OwnedQuestion
    <2> QED BY <2>1, <2>2
  <1>8. CallOwns'
    <2>1. st'[Root] = "op" => st[Root] = "op"
      BY <1>1, ConstantTypes
    <2> QED BY <1>0, <2>1 DEF OwnerInv, CallOwns
  <1> QED BY <1>5, <1>6, <1>7, <1>8 DEF OwnerInv

(* A tool asks the user: likewise.                                           *)
LEMMA OwnersAskUser ==
    ASSUME AuthInv, OwnerInv, NEW a \in Asker, AskUser(a)
    PROVE  OwnerInv'
  <1> DEFINE new == [by |-> a, n |-> serial[a] + 1]
  <1>t. TypeOK
    BY DEF AuthInv
  <1> USE <1>t, AskTypes, AskFields
  <1>0. /\ st' = [st EXCEPT ![a] = "questioning"] /\ serial' = [serial EXCEPT ![a] = @ + 1]
        /\ userAsks' = Append(userAsks, new)
        /\ UNCHANGED <<asks, ops, requests, pending, pendingUser, phase, callNo>>
    BY DEF AskUser
  <1>1. /\ serial'[a] = serial[a] + 1 /\ st'[a] = "questioning"
        /\ \A b \in Asker : b # a => serial'[b] = serial[b] /\ st'[b] = st[b]
    BY <1>0 DEF TypeOK
  <1>2. new.by = a /\ new.n = serial[a] + 1
    OBVIOUS
  <1> HIDE DEF new
  <1>3. /\ Len(userAsks') = Len(userAsks) + 1 /\ userAsks'[Len(userAsks')] = new
        /\ \A i \in 1..Len(userAsks) : i \in 1..Len(userAsks') /\ userAsks'[i] = userAsks[i]
        /\ \A i \in 1..Len(userAsks') :
              i = Len(userAsks') \/ (i \in 1..Len(userAsks) /\ userAsks'[i] = userAsks[i])
        /\ Len(userAsks') \in 1..Len(userAsks')
    BY <1>0, AppendAdds
  <1>4. /\ \A i \in 1..Len(userAsks) : ~Same(userAsks[i], new)
        /\ \A p \in pendingUser : ~Same(new, p.ask)
    BY <1>2 DEF OwnerInv, QuestionsInv, QuestionsKnown, Same
  <1>5. AsksInv'
    BY <1>0 DEF OwnerInv, AsksInv, ChannelDistinct, ChannelFresh
  <1>6. QuestionsInv'
    <2>0. \A x \in QuestionSet : x.n <= serial[x.by] => x.n <= serial'[x.by]
      <3> SUFFICES ASSUME NEW x \in QuestionSet, x.n <= serial[x.by]
                   PROVE  x.n <= serial'[x.by]
        OBVIOUS
      <3>1. serial[x.by] \in Nat /\ (serial'[x.by] = serial[x.by] \/ serial'[x.by] = serial[x.by] + 1)
        BY <1>1
      <3> QED BY <3>1
    <2>1. QuestionsKnown'
      BY <1>0, <1>1, <1>2, <1>3, <2>0 DEF OwnerInv, QuestionsInv, QuestionsKnown
    <2>2. QuestionsDistinct'
      <3> SUFFICES ASSUME NEW i \in 1..Len(userAsks'), NEW j \in 1..Len(userAsks'),
                          Same(userAsks'[i], userAsks'[j])
                   PROVE  i = j
        BY DEF QuestionsDistinct, Same
      <3>1. CASE i = Len(userAsks') \/ j = Len(userAsks')
        BY <1>3, <1>4, <3>1 DEF Same
      <3>2. CASE i \in 1..Len(userAsks) /\ j \in 1..Len(userAsks)
        BY <1>3, <3>2 DEF OwnerInv, QuestionsInv, QuestionsDistinct
      <3> QED BY <1>3, <3>1, <3>2
    <2>3. QuestionsFresh'
      BY <1>0, <1>3, <1>4 DEF OwnerInv, QuestionsInv, QuestionsFresh
    <2> QED BY <2>1, <2>2, <2>3 DEF QuestionsInv
  <1>7. ASSUME NEW b \in Asker PROVE OwnedAsk(b)' /\ OwnedQuestion(b)'
    <2>1. CASE b = a
      <3>1. InUserChannel(a)'
        BY <1>1, <1>2, <1>3 DEF InUserChannel
      <3>2. ~InUserPending(a)'
        BY <1>0, <1>1, <1>2, <1>4 DEF InUserPending, Same
      <3> QED BY <1>1, <2>1, <3>1, <3>2 DEF OwnedAsk, OwnedQuestion
    <2>2. CASE b # a
      <3>1. InUserChannel(b)' <=> InUserChannel(b)
        BY <1>1, <1>2, <1>3, <2>2 DEF InUserChannel
      <3>2. /\ InPending(b)' <=> InPending(b)
            /\ InUserPending(b)' <=> InUserPending(b)
            /\ InChannel(b)' <=> InChannel(b)
        BY <1>0, <1>1, <2>2 DEF InPending, InUserPending, InChannel
      <3> QED BY <1>1, <2>2, <3>1, <3>2 DEF OwnerInv, OwnedAsk, OwnedQuestion
    <2> QED BY <2>1, <2>2
  <1>8. CallOwns'
    <2>1. st'[Root] = "op" => st[Root] = "op"
      BY <1>1, ConstantTypes
    <2> QED BY <1>0, <2>1 DEF OwnerInv, CallOwns
  <1> QED BY <1>5, <1>6, <1>7, <1>8 DEF OwnerInv

(* The engine takes an ask off the channel: it answers it or stashes it.     *)
LEMMA OwnersOnPermissionAsk ==
    ASSUME AuthInv, OwnerInv, OnPermissionAsk
    PROVE  OwnerInv'
  <1> DEFINE ask == Head(asks)
             new == [id |-> nextPermissionId, ask |-> ask]
  <1>t. TypeOK
    BY DEF AuthInv
  <1> USE <1>t, AskTypes, AskFields
  <1>0. /\ phase = "call" /\ asks # <<>> /\ asks' = Tail(asks)
        /\ requests' = requests \cup {new}
        /\ UNCHANGED <<serial, userAsks, ops, pendingUser, phase, callNo>>
    BY DEF OnPermissionAsk, InCall
  <1>1. /\ Len(asks') \in Nat /\ Len(asks) = Len(asks') + 1
        /\ 1 \in 1..Len(asks) /\ ask = asks[1] /\ ask \in AskSet
        /\ \A i \in 1..Len(asks') : i + 1 \in 1..Len(asks) /\ i + 1 # 1
                                    /\ asks'[i] = asks[i + 1]
        /\ \A i \in 1..Len(asks) : i = 1 \/ (i - 1 \in 1..Len(asks') /\ asks'[i - 1] = asks[i])
    BY <1>0, TailShifts
  <1>2. new.ask = ask
    OBVIOUS
  <1>3. \/ pending' = pending /\ \E next \in {"allowed", "running"} : Reply(ask, "asking", next)
        \/ pending' = pending \cup {new} /\ st' = st
    BY DEF OnPermissionAsk, ReplyPermission
  <1> HIDE DEF ask, new
  <1>4. AsksInv'
    <2>1. ChannelDistinct'
      <3> SUFFICES ASSUME NEW i \in 1..Len(asks'), NEW j \in 1..Len(asks'),
                          Same(asks'[i], asks'[j])
                   PROVE  i = j
        BY DEF ChannelDistinct, Same
      <3>1. i + 1 = j + 1
        BY <1>1 DEF OwnerInv, AsksInv, ChannelDistinct
      <3> QED BY <3>1
    <2>2. ChannelFresh'
      <3> SUFFICES ASSUME NEW i \in 1..Len(asks'), NEW r \in requests'
                   PROVE  ~Same(asks'[i], r.ask)
        BY DEF ChannelFresh, Same
      <3>1. CASE r = new
        BY <1>1, <1>2, <3>1 DEF OwnerInv, AsksInv, ChannelDistinct
      <3>2. CASE r \in requests
        BY <1>1, <3>2 DEF OwnerInv, AsksInv, ChannelFresh
      <3> QED BY <1>0, <3>1, <3>2
    <2> QED BY <2>1, <2>2 DEF AsksInv
  <1>5. QuestionsInv'
    BY <1>0 DEF OwnerInv, QuestionsInv, QuestionsKnown, QuestionsDistinct, QuestionsFresh
  <1>6. ASSUME NEW b \in Asker PROVE OwnedAsk(b)' /\ OwnedQuestion(b)'
    <2> DEFINE Mine == ask.by = b /\ ask.n = serial[b]
    <2>1. st'[b] \in {"asking", "questioning"} => st[b] = st'[b]
      BY <1>1, <1>3, ReplyResumes
    <2>2. InChannel(b) <=> Mine \/ InChannel(b)'
      <3>0. serial'[b] = serial[b]
        BY <1>0
      <3>1. InChannel(b) => Mine \/ InChannel(b)'
        <4> SUFFICES ASSUME NEW i \in 1..Len(asks), asks[i].by = b,
                            asks[i].n = serial[b], ~Mine
                     PROVE  InChannel(b)'
          BY DEF InChannel
        <4>1. i - 1 \in 1..Len(asks') /\ asks'[i - 1] = asks[i]
          BY <1>1
        <4> QED BY <3>0, <4>1 DEF InChannel
      <3>2. Mine => InChannel(b)
        BY <1>1 DEF InChannel
      <3>3. InChannel(b)' => InChannel(b)
        <4> SUFFICES ASSUME NEW i \in 1..Len(asks'), asks'[i].by = b,
                            asks'[i].n = serial'[b]
                     PROVE  InChannel(b)
          BY DEF InChannel
        <4>1. i + 1 \in 1..Len(asks) /\ asks[i + 1] = asks'[i]
          BY <1>1
        <4> QED BY <3>0, <4>1 DEF InChannel
      <3> QED BY <3>1, <3>2, <3>3
    <2>3. Mine => ~InChannel(b)'
      BY <1>0, <1>1 DEF InChannel, OwnerInv, AsksInv, ChannelDistinct, Same
    <2>4. OwnedQuestion(b)'
      BY <1>0, <2>1 DEF OwnerInv, OwnedQuestion, InUserChannel, InUserPending
    <2>5. OwnedAsk(b)'
      <3> SUFFICES ASSUME st'[b] = "asking" PROVE InChannel(b)' <=> ~InPending(b)'
        BY DEF OwnedAsk
      <3>1. st[b] = "asking" /\ (InChannel(b) <=> ~InPending(b))
        BY <2>1 DEF OwnerInv, OwnedAsk
      <3>2. CASE pending' = pending /\ \E next \in {"allowed", "running"} :
                                          Reply(ask, "asking", next)
        <4>1. ~Mine
          BY <1>1, <3>1, <3>2, ReplyResumes DEF Awaits
        <4>2. InPending(b)' <=> InPending(b)
          BY <1>0, <3>2 DEF InPending
        <4> QED BY <2>2, <3>1, <4>1, <4>2
      <3>3. CASE pending' = pending \cup {new}
        <4>1. InPending(b)' <=> InPending(b) \/ Mine
          BY <1>0, <1>2, <3>3 DEF InPending
        <4> QED BY <2>2, <2>3, <3>1, <4>1
      <3> QED BY <1>3, <3>2, <3>3
    <2> QED BY <2>4, <2>5
  <1>7. CallOwns'
    <2>1. st'[Root] = "op" => st[Root] = "op"
      <3>1. Root \in Asker /\ ask.by \in Asker
        BY <1>1, ConstantTypes
      <3>2. CASE \E next \in {"allowed", "running"} : Reply(ask, "asking", next)
        <4> PICK next \in {"allowed", "running"} : Reply(ask, "asking", next)
          BY <3>2
        <4> QED BY <3>1, ReplyResumes
      <3>3. CASE st' = st
        BY <3>3
      <3> QED BY <1>3, <3>2, <3>3
    <2> QED BY <1>0, <2>1 DEF OwnerInv, CallOwns
  <1> QED BY <1>4, <1>5, <1>6, <1>7 DEF OwnerInv

(* The engine takes a question: it always stashes it.                        *)
LEMMA OwnersOnUserAsk ==
    ASSUME AuthInv, OwnerInv, OnUserAsk
    PROVE  OwnerInv'
  <1> DEFINE ask == Head(userAsks)
             new == [id |-> nextAskId, ask |-> ask]
  <1>t. TypeOK
    BY DEF AuthInv
  <1> USE <1>t, AskTypes, AskFields
  <1>0. /\ phase = "call" /\ userAsks # <<>> /\ userAsks' = Tail(userAsks)
        /\ pendingUser' = pendingUser \cup {new}
        /\ UNCHANGED <<st, serial, asks, ops, requests, pending, phase, callNo>>
    BY DEF OnUserAsk, InCall
  <1>1. /\ Len(userAsks') \in Nat /\ Len(userAsks) = Len(userAsks') + 1
        /\ 1 \in 1..Len(userAsks) /\ ask = userAsks[1] /\ ask \in QuestionSet
        /\ \A i \in 1..Len(userAsks') : i + 1 \in 1..Len(userAsks) /\ i + 1 # 1
                                        /\ userAsks'[i] = userAsks[i + 1]
        /\ \A i \in 1..Len(userAsks) :
              i = 1 \/ (i - 1 \in 1..Len(userAsks') /\ userAsks'[i - 1] = userAsks[i])
    BY <1>0, TailShifts
  <1>2. new.ask = ask
    OBVIOUS
  <1> HIDE DEF ask, new
  <1>3. AsksInv'
    BY <1>0 DEF OwnerInv, AsksInv, ChannelDistinct, ChannelFresh
  <1>4. QuestionsInv'
    <2>1. QuestionsKnown'
      BY <1>0, <1>1, <1>2 DEF OwnerInv, QuestionsInv, QuestionsKnown
    <2>2. QuestionsDistinct'
      <3> SUFFICES ASSUME NEW i \in 1..Len(userAsks'), NEW j \in 1..Len(userAsks'),
                          Same(userAsks'[i], userAsks'[j])
                   PROVE  i = j
        BY DEF QuestionsDistinct, Same
      <3>1. i + 1 = j + 1
        BY <1>1 DEF OwnerInv, QuestionsInv, QuestionsDistinct
      <3> QED BY <3>1
    <2>3. QuestionsFresh'
      <3> SUFFICES ASSUME NEW i \in 1..Len(userAsks'), NEW p \in pendingUser'
                   PROVE  ~Same(userAsks'[i], p.ask)
        BY DEF QuestionsFresh, Same
      <3>1. CASE p = new
        BY <1>1, <1>2, <3>1 DEF OwnerInv, QuestionsInv, QuestionsDistinct
      <3>2. CASE p \in pendingUser
        BY <1>1, <3>2 DEF OwnerInv, QuestionsInv, QuestionsFresh
      <3> QED BY <1>0, <3>1, <3>2
    <2> QED BY <2>1, <2>2, <2>3 DEF QuestionsInv
  <1>5. ASSUME NEW b \in Asker PROVE OwnedAsk(b)' /\ OwnedQuestion(b)'
    <2> DEFINE Mine == ask.by = b /\ ask.n = serial[b]
    <2>1. InUserChannel(b) <=> Mine \/ InUserChannel(b)'
      <3>0. serial'[b] = serial[b]
        BY <1>0
      <3>1. InUserChannel(b) => Mine \/ InUserChannel(b)'
        <4> SUFFICES ASSUME NEW i \in 1..Len(userAsks), userAsks[i].by = b,
                            userAsks[i].n = serial[b], ~Mine
                     PROVE  InUserChannel(b)'
          BY DEF InUserChannel
        <4>1. i - 1 \in 1..Len(userAsks') /\ userAsks'[i - 1] = userAsks[i]
          BY <1>1
        <4> QED BY <3>0, <4>1 DEF InUserChannel
      <3>2. Mine => InUserChannel(b)
        BY <1>1 DEF InUserChannel
      <3>3. InUserChannel(b)' => InUserChannel(b)
        <4> SUFFICES ASSUME NEW i \in 1..Len(userAsks'), userAsks'[i].by = b,
                            userAsks'[i].n = serial'[b]
                     PROVE  InUserChannel(b)
          BY DEF InUserChannel
        <4>1. i + 1 \in 1..Len(userAsks) /\ userAsks[i + 1] = userAsks'[i]
          BY <1>1
        <4> QED BY <3>0, <4>1 DEF InUserChannel
      <3> QED BY <3>1, <3>2, <3>3
    <2>2. Mine => ~InUserChannel(b)'
      BY <1>0, <1>1 DEF InUserChannel, OwnerInv, QuestionsInv, QuestionsDistinct, Same
    <2>3. InUserPending(b)' <=> InUserPending(b) \/ Mine
      BY <1>0, <1>2 DEF InUserPending
    <2>4. (InChannel(b)' <=> InChannel(b)) /\ (InPending(b)' <=> InPending(b))
      BY <1>0 DEF InChannel, InPending
    <2>5. OwnedAsk(b) /\ OwnedQuestion(b)
      BY DEF OwnerInv
    <2> QED BY <1>0, <2>1, <2>2, <2>3, <2>4, <2>5 DEF OwnedAsk, OwnedQuestion
  <1>6. CallOwns'
    BY <1>0 DEF OwnerInv, CallOwns
  <1> QED BY <1>3, <1>4, <1>5, <1>6 DEF OwnerInv

(* An answer takes one ask off a vector and resumes who awaits it.           *)
LEMMA OwnersAnswer ==
    ASSUME AuthInv, OwnerInv, phase = "call",
           UNCHANGED <<serial, asks, userAsks, requests, ops, phase, callNo>>,
           \/ /\ UNCHANGED pendingUser
              /\ \E p \in pending, next \in {"allowed", "running"} :
                     pending' = pending \ {p} /\ Reply(p.ask, "asking", next)
           \/ /\ UNCHANGED pending
              /\ \E p \in pendingUser :
                     pendingUser' = pendingUser \ {p} /\ Reply(p.ask, "questioning", "running")
    PROVE  OwnerInv'
  <1>t. TypeOK
    BY DEF AuthInv
  <1> USE <1>t, AskTypes, AskFields
  <1>0. pending' \subseteq pending /\ pendingUser' \subseteq pendingUser
    OBVIOUS
  <1>1. AsksInv'
    BY DEF OwnerInv, AsksInv, ChannelDistinct, ChannelFresh
  <1>2. QuestionsInv'
    BY <1>0 DEF OwnerInv, QuestionsInv, QuestionsKnown, QuestionsDistinct, QuestionsFresh
  <1>3. CASE /\ UNCHANGED pendingUser
             /\ \E p \in pending, next \in {"allowed", "running"} :
                    pending' = pending \ {p} /\ Reply(p.ask, "asking", next)
    <2> PICK p \in pending, next \in {"allowed", "running"} :
                    pending' = pending \ {p} /\ Reply(p.ask, "asking", next)
      BY <1>3
    <2>0. p.ask.by \in Asker
      OBVIOUS
    <2>1. ASSUME NEW b \in Asker PROVE OwnedAsk(b)' /\ OwnedQuestion(b)'
      <3>1. \/ b = p.ask.by /\ Awaits(b, "asking", p.ask.n) /\ st'[b] = next
            \/ ~(b = p.ask.by /\ Awaits(b, "asking", p.ask.n)) /\ st'[b] = st[b]
        BY <2>0, ReplyResumes
      <3>2. InChannel(b)' <=> InChannel(b)
        BY DEF InChannel
      <3>3. (InUserChannel(b)' <=> InUserChannel(b)) /\ (InUserPending(b)' <=> InUserPending(b))
        BY <1>3 DEF InUserChannel, InUserPending
      <3>4. st'[b] = "asking" => (InPending(b)' <=> InPending(b))
        BY <3>1 DEF InPending, Awaits
      <3>5. OwnedAsk(b) /\ OwnedQuestion(b)
        BY DEF OwnerInv
      <3> QED BY <3>1, <3>2, <3>3, <3>4, <3>5 DEF OwnedAsk, OwnedQuestion
    <2>2. CallOwns'
      <3>1. st'[Root] = "op" => st[Root] = "op"
        BY <2>0, ReplyResumes, ConstantTypes
      <3> QED BY <3>1 DEF OwnerInv, CallOwns
    <2> QED BY <1>1, <1>2, <2>1, <2>2 DEF OwnerInv
  <1>4. CASE /\ UNCHANGED pending
             /\ \E p \in pendingUser :
                    pendingUser' = pendingUser \ {p} /\ Reply(p.ask, "questioning", "running")
    <2> PICK p \in pendingUser :
                    pendingUser' = pendingUser \ {p} /\ Reply(p.ask, "questioning", "running")
      BY <1>4
    <2>0. p.ask.by \in Asker
      OBVIOUS
    <2>1. ASSUME NEW b \in Asker PROVE OwnedAsk(b)' /\ OwnedQuestion(b)'
      <3>1. \/ b = p.ask.by /\ Awaits(b, "questioning", p.ask.n) /\ st'[b] = "running"
            \/ ~(b = p.ask.by /\ Awaits(b, "questioning", p.ask.n)) /\ st'[b] = st[b]
        BY <2>0, ReplyResumes
      <3>2. (InChannel(b)' <=> InChannel(b)) /\ (InPending(b)' <=> InPending(b))
        BY <1>4 DEF InChannel, InPending
      <3>3. InUserChannel(b)' <=> InUserChannel(b)
        BY DEF InUserChannel
      <3>4. st'[b] = "questioning" => (InUserPending(b)' <=> InUserPending(b))
        BY <3>1 DEF InUserPending, Awaits
      <3>5. OwnedAsk(b) /\ OwnedQuestion(b)
        BY DEF OwnerInv
      <3> QED BY <3>1, <3>2, <3>3, <3>4, <3>5 DEF OwnedAsk, OwnedQuestion
    <2>2. CallOwns'
      <3>1. st'[Root] = "op" => st[Root] = "op"
        BY <2>0, ReplyResumes, ConstantTypes
      <3> QED BY <3>1 DEF OwnerInv, CallOwns
    <2> QED BY <1>1, <1>2, <2>1, <2>2 DEF OwnerInv
  <1> QED BY <1>3, <1>4

(* A command taken in a tool call keeps the owners.                          *)
LEMMA OwnersCallCommand ==
    ASSUME AuthInv, OwnerInv, CallCommand
    PROVE  OwnerInv'
  <1> DEFINE c == Head(commands)
  <1>t. TypeOK
    BY DEF AuthInv
  <1>0. phase = "call" /\ UNCHANGED <<serial, asks, userAsks, ops, requests>>
    BY DEF CallCommand, InCall
  <1>1. CASE /\ AnswerPermission(c.id, c.decision)
             /\ UNCHANGED <<phase, callNo, pendingUser>>
    <2>1. CASE UNCHANGED <<st, pending>>
      BY <1>0, <1>1, <2>1, OwnersQuiet DEF OwnerInv, CallOwns
    <2>2. CASE \E p \in pending : /\ pending' = pending \ {p}
                                  /\ ReplyPermission(p.ask, IsAllow(c.decision))
      <3>1. \E p \in pending, next \in {"allowed", "running"} :
                pending' = pending \ {p} /\ Reply(p.ask, "asking", next)
        BY <2>2 DEF ReplyPermission
      <3> QED BY <1>0, <1>1, <3>1, OwnersAnswer
    <2> QED BY <1>1, <2>1, <2>2 DEF AnswerPermission
  <1>2. CASE AnswerUserAsk(c.id) /\ UNCHANGED <<phase, callNo, pending>>
    <2>1. CASE UNCHANGED <<st, pendingUser>>
      BY <1>0, <1>2, <2>1, OwnersQuiet DEF OwnerInv, CallOwns
    <2>2. CASE \E p \in pendingUser : /\ pendingUser' = pendingUser \ {p}
                                      /\ Reply(p.ask, "questioning", "running")
      BY <1>0, <1>2, <2>2, OwnersAnswer
    <2> QED BY <1>2, <2>1, <2>2 DEF AnswerUserAsk
  <1>3. CASE CancelCall
    <2>1. /\ pending' = {} /\ pendingUser' = {} /\ st' = [FailClosed EXCEPT ![Root] = "off"]
      BY <1>3 DEF CancelCall, LeaveCall
    <2>2. /\ \A a \in Asker : st'[a] \in {"asking", "questioning"} => st'[a] = FailClosed[a]
          /\ st'[Root] # "op"
      BY <1>t, <2>1, FailClosedType, ConstantTypes
    <2> QED BY <1>0, <2>1, <2>2, OwnersDropped
  <1>4. CASE UNCHANGED <<st, callVars>>
    BY <1>0, <1>4, OwnersQuiet DEF OwnerInv, CallOwns
  <1> QED BY <1>1, <1>2, <1>3, <1>4 DEF CallCommand

(* Every step keeps the owners.                                              *)
LEMMA OwnersNext ==
    ASSUME AuthInv, OwnerInv, [Next]_vars
    PROVE  OwnerInv'
  <1>t. TypeOK
    BY DEF AuthInv
  <1>1. CASE ToolStep
    <2>1. ASSUME NEW a \in Asker, RunAllowed(a) PROVE OwnerInv'
      BY <1>t, <2>1, OwnersQuiet, ConstantTypes DEF RunAllowed, TypeOK, OwnerInv, CallOwns
    <2>2. AskEngine => OwnerInv'
      BY <1>t, OwnersQuiet, ConstantTypes DEF AskEngine, TypeOK
    <2>3. JoinReply => OwnerInv'
      BY <1>t, OwnersQuiet, ConstantTypes DEF JoinReply, TypeOK
    <2> QED BY <1>1, <2>1, <2>2, <2>3, OwnersAuthorize, OwnersAskUser DEF ToolStep
  <1>2. CASE EngineStep
    <2>1. ASSUME NEW c \in ops, ServeOp(c) PROVE OwnerInv'
      <3>1. \A a \in Asker : st'[a] \in {"asking", "questioning"} => st'[a] = st[a]
        BY <1>t, <2>1, ConstantTypes DEF ServeOp, TypeOK, Asker
      <3>2. st'[Root] = "op" => st[Root] = "op" /\ c # callNo
        BY <1>t, <2>1, ConstantTypes, GatesAssumption
           DEF ServeOp, TypeOK, Asker, GatesAssumption
      <3>3. st'[Root] = "op" => callNo' \in ops'
        BY <2>1, <3>2 DEF ServeOp, OwnerInv, CallOwns
      <3> QED BY <2>1, <3>1, <3>3, OwnersQuiet DEF ServeOp
    <2>2. FinishCall => OwnerInv'
      <3> SUFFICES ASSUME FinishCall PROVE OwnerInv'
        OBVIOUS
      <3>1. /\ pending' = {} /\ pendingUser' = {}
            /\ \E s \in {"off", "running"} : st' = [FailClosed EXCEPT ![Root] = s]
            /\ UNCHANGED <<serial, asks, userAsks, requests>>
        BY DEF FinishCall, StartCall, LeaveCall
      <3>2. /\ \A a \in Asker : st'[a] \in {"asking", "questioning"} => st'[a] = FailClosed[a]
            /\ st'[Root] # "op"
        BY <1>t, <3>1, FailClosedType, ConstantTypes
      <3> QED BY <3>1, <3>2, OwnersDropped
    <2>3. CallClosed => OwnerInv'
      <3> SUFFICES ASSUME CallClosed PROVE OwnerInv'
        OBVIOUS
      <3>1. st'[Root] = "op" => st[Root] = "op"
        BY <1>t, ConstantTypes DEF CallClosed, FailClosed
      <3> QED BY <3>1, OwnersDropped DEF CallClosed, OwnerInv, CallOwns
    <2>4. ASSUME NEW k \in 1..MaxCalls, StreamToolCalls(k) PROVE OwnerInv'
      <3>1. pending = {} /\ pendingUser = {}
        BY <2>4 DEF StreamToolCalls, OwnerInv, CallOwns
      <3>2. \A a \in Asker : FailClosed[a] = st[a]
        BY <3>1 DEF FailClosed, Abandoned
      <3>3. /\ pending' = {} /\ pendingUser' = {} /\ st' = [st EXCEPT ![Root] = "running"]
            /\ UNCHANGED <<serial, asks, userAsks, requests>>
        BY <2>4 DEF StreamToolCalls, StartCall
      <3>4. /\ \A a \in Asker : st'[a] \in {"asking", "questioning"} => st'[a] = FailClosed[a]
            /\ st'[Root] # "op"
        BY <1>t, <3>2, <3>3, ConstantTypes DEF TypeOK
      <3> QED BY <3>3, <3>4, OwnersDropped
    <2>5. (IdleCommand \/ IdleClosed \/ StreamCommand \/ StreamTurnEnd) => OwnerInv'
      BY OwnersQuiet DEF IdleCommand, IdleClosed, StreamCommand, StreamTurnEnd, OwnerInv,
                         CallOwns
    <2> QED BY <1>2, <2>1, <2>2, <2>3, <2>4, <2>5, OwnersOnPermissionAsk, OwnersOnUserAsk,
               OwnersCallCommand DEF EngineStep
  <1>3. CASE UserStep
    <2>1. UNCHANGED <<toolVars, callVars, chanVars, requests>>
      BY <1>3 DEF UserStep, ApplyEvent, Answered, Decided, SendInput, SendCancel, SendMode,
                  UserCommand, Close
    <2> QED BY <2>1, OwnersQuiet DEF OwnerInv, CallOwns
  <1>4. CASE UNCHANGED vars
    BY <1>4, OwnersQuiet DEF vars, OwnerInv, CallOwns
  <1> QED BY <1>1, <1>2, <1>3, <1>4 DEF Next

(* The owners hold throughout.                                               *)
LEMMA OwnerInvariant == Spec => []OwnerInv
  <1>1. Init => OwnerInv
    <2> SUFFICES ASSUME Init PROVE OwnerInv
      OBVIOUS
    <2>1. asks = <<>> /\ userAsks = <<>> /\ pending = {} /\ pendingUser = {}
          /\ \A a \in Asker : st[a] = "off"
      BY DEF Init
    <2>2. 1..Len(asks) = {} /\ 1..Len(userAsks) = {}
      BY <2>1
    <2> QED BY <2>1, <2>2, ConstantTypes
            DEF OwnerInv, AsksInv, QuestionsInv, ChannelDistinct, ChannelFresh,
                QuestionsKnown, QuestionsDistinct, QuestionsFresh, OwnedAsk, OwnedQuestion,
                CallOwns
  <1>2. AuthInv /\ OwnerInv /\ [Next]_vars => OwnerInv'
    BY OwnersNext
  <1> QED BY <1>1, <1>2, AuthInvariant, PTL DEF Spec

------------------------------------------------------------------------------
(* The permission seam, for any number of agents, asks and turns: one        *)
(* decision on record per request, and on a prompt the one the user chose;   *)
(* no rule but what the user granted; and every agent that waits has its ask *)
(* in the engine's hands, in one place.                                      *)
THEOREM SeamCorrect == Spec => []SeamHolds
  <1>1. RecordInv /\ GrantInv /\ OwnerInv => SeamHolds
    BY RecordsAgree, OwnersOwn DEF GrantInv, SeamHolds
  <1> QED BY <1>1, RecordInvariant, GrantInvariant, OwnerInvariant, PTL

------------------------------------------------------------------------------
(* The seam implements Authority: each of its steps raises, approves, allows  *)
(* or runs one ask as Authority says, or none.                                *)

(* An executing decision is on record.                                       *)
Executed(id) == \E d \in decisions : d.id = id /\ d.executed

(* Who is in the three sets the refinement maps to, before a step.           *)
LEMMA Members ==
    /\ \A x : x \in Raised <=>
                 (\E i \in 1..Len(asks) : asks[i] = x) \/ (\E r \in requests : r.ask = x)
    /\ \A x : x \in Approved <=> \E r \in requests : r.ask = x /\ UserAllowed(r.id)
    /\ \A x : x \in Allowed <=> \E r \in requests : r.ask = x /\ Executed(r.id)
  BY DEF Raised, Approved, Allowed, Executed

(* And after it.                                                             *)
LEMMA MembersAfter ==
    /\ \A x : x \in Raised' <=>
                 (\E i \in 1..Len(asks') : asks'[i] = x) \/ (\E r \in requests' : r.ask = x)
    /\ \A x : x \in Approved' <=> \E r \in requests' : r.ask = x /\ UserAllowed(r.id)'
    /\ \A x : x \in Allowed' <=> \E r \in requests' : r.ask = x /\ Executed(r.id)'
  BY DEF Raised, Approved, Allowed, Executed

AuthorityStep == A!Next \/ UNCHANGED <<Raised, Approved, Allowed, effects>>

(* A step that leaves the channel, the records, the answers and the effects  *)
(* alone is none of Authority's.                                             *)
LEMMA Stutters ==
    ASSUME UNCHANGED <<asks, requests, answers, decisions, effects>>
    PROVE  AuthorityStep
  BY DEF AuthorityStep, Raised, Approved, Allowed, UserAllowed

(* A tool that asks raises an ask nobody raised before.                      *)
LEMMA AuthorizeRaises ==
    ASSUME AuthInv, NEW a \in Asker, NEW q \in Request, Authorize(a, q)
    PROVE  AuthorityStep
  <1> DEFINE new == [by |-> a, n |-> serial[a] + 1, req |-> q]
  <1>t. TypeOK
    BY DEF AuthInv
  <1> USE <1>t, AskTypes
  <1>0. /\ asks' = Append(asks, new)
        /\ UNCHANGED <<requests, answers, decisions, effects>>
    BY DEF Authorize
  <1>1. new \in AskSet
    <2>1. serial[a] \in 0..MaxAsks /\ serial[a] < MaxAsks /\ MaxAsks \in Nat
      BY ConstantTypes DEF Authorize, TypeOK
    <2>2. serial[a] + 1 \in 0..MaxAsks
      BY <2>1
    <2> QED BY <2>2 DEF AskSet
  <1>2. new.by = a /\ new.n = serial[a] + 1
    OBVIOUS
  <1> HIDE DEF new
  <1>3. new \notin Raised
    <2> SUFFICES ASSUME new \in Raised PROVE FALSE
      OBVIOUS
    <2>1. new.n <= serial[new.by] /\ serial[a] \in Nat
      BY DEF AuthInv, RaisedIsWanted
    <2> QED BY <1>2, <2>1
  <1>4. Raised' = Raised \cup {new}
    <2>1. /\ \A i \in 1..Len(asks) : i \in 1..Len(asks') /\ asks'[i] = asks[i]
          /\ \A i \in 1..Len(asks') : asks'[i] = new \/ (i \in 1..Len(asks) /\ asks'[i] = asks[i])
          /\ Len(asks') \in 1..Len(asks') /\ asks'[Len(asks')] = new
      BY <1>0, AppendAdds
    <2>2. \A x : x \in Raised' <=> x \in Raised \/ x = new
      BY <1>0, <2>1, Members, MembersAfter
    <2> QED BY <2>2
  <1>5. UNCHANGED <<Approved, Allowed, effects>>
    BY <1>0 DEF Approved, Allowed, UserAllowed
  <1>6. A!Raise(new)
    BY <1>3, <1>4, <1>5 DEF A!Raise
  <1> QED BY <1>1, <1>6 DEF AuthorityStep, A!Next

(* A tool that goes on runs an ask the engine allowed.                       *)
LEMMA RunAllowedRuns ==
    ASSUME AuthInv, NEW a \in Asker, RunAllowed(a)
    PROVE  AuthorityStep
  <1>0. /\ effects' = effects \cup {Current(a)} /\ st[a] = "allowed"
        /\ UNCHANGED <<asks, requests, answers, decisions>>
    BY DEF RunAllowed, Current
  <1>1. Current(a) \in AskSet
    BY DEF AuthInv, TypeOK, Current, AskSet
  <1>2. Current(a) \in Allowed
    <2>1. Authorized(Current(a))
      BY <1>0 DEF AuthInv, AllowedAuthorized
    <2> QED BY <2>1, Members DEF Authorized, Executed
  <1>3. UNCHANGED <<Raised, Approved, Allowed>>
    BY <1>0 DEF Raised, Approved, Allowed, UserAllowed
  <1>4. CASE Current(a) \in effects
    BY <1>0, <1>3, <1>4 DEF AuthorityStep
  <1>5. CASE Current(a) \notin effects
    <2>1. A!Run(Current(a))
      BY <1>0, <1>2, <1>3, <1>5 DEF A!Run
    <2> QED BY <1>1, <2>1 DEF AuthorityStep, A!Next
  <1> QED BY <1>4, <1>5

(* What an allowing decision on one request adds, and a denying one does     *)
(* not: Authority's Allow of its ask, if the rules or a person may allow it. *)
LEMMA DecisionAllows ==
    ASSUME AuthInv, NEW r \in requests', r.ask \in Raised, NEW e \in BOOLEAN,
           UNCHANGED <<Raised, Approved, effects>>,
           \A s \in requests' : s.id = r.id => s = r,
           \A s \in requests' : s = r \/ s \in requests,
           requests \subseteq requests',
           \A s \in requests : Executed(s.id)' <=> Executed(s.id) \/ (e /\ s.id = r.id),
           Executed(r.id)' => e \/ r \in requests,
           e => Executed(r.id)',
           e => r.ask \in Approved \/ ~r.ask.req.outside_root
    PROVE  AuthorityStep
  <1>1. r.ask \in AskSet
    BY RaisedType DEF AuthInv
  <1>2. CASE e
    <2>1. Allowed' = Allowed \cup {r.ask}
      <3>1. \A x : x \in Allowed' => x \in Allowed \/ x = r.ask
        BY Members, MembersAfter
      <3>2. \A x : x \in Allowed => x \in Allowed'
        BY Members, MembersAfter
      <3>3. r.ask \in Allowed'
        BY <1>2, MembersAfter
      <3> QED BY <3>1, <3>2, <3>3
    <2>2. CASE r.ask \in Allowed
      BY <2>1, <2>2 DEF AuthorityStep
    <2>3. CASE r.ask \notin Allowed
      <3>1. A!Allow(r.ask)
        BY <1>2, <2>1, <2>3 DEF A!Allow, OutsideRoot
      <3> QED BY <1>1, <3>1 DEF AuthorityStep, A!Next
    <2> QED BY <2>2, <2>3
  <1>3. CASE ~e
    <2>1. \A x : x \in Allowed' <=> x \in Allowed
      BY <1>3, Members, MembersAfter
    <2> QED BY <2>1 DEF AuthorityStep
  <1> QED BY <1>2, <1>3

(* Serving an ask raises and approves nothing; it may allow that ask.        *)
LEMMA OnPermissionAskAllows ==
    ASSUME AuthInv, RecordInv, OnPermissionAsk
    PROVE  AuthorityStep
  <1> DEFINE id == nextPermissionId
             ask == Head(asks)
             new == [id |-> id, ask |-> ask]
  <1>t. TypeOK
    BY DEF AuthInv
  <1> USE <1>t, IdTypes
  <1>0. /\ asks # <<>> /\ asks' = Tail(asks) /\ requests' = requests \cup {new}
        /\ UNCHANGED <<answers, effects>>
    BY DEF OnPermissionAsk
  <1>1. /\ 1 \in 1..Len(asks) /\ ask = asks[1]
        /\ \A i \in 1..Len(asks') : i + 1 \in 1..Len(asks) /\ asks'[i] = asks[i + 1]
        /\ \A i \in 1..Len(asks) : i = 1 \/ (i - 1 \in 1..Len(asks') /\ asks'[i - 1] = asks[i])
    BY <1>0, AskTypes, TailShifts
  <1>2. new.ask = ask /\ new.id = id
    OBVIOUS
  <1>3. ask \in Raised /\ ask \in AskSet
    BY <1>1, Members, RaisedType
  <1>4. /\ \A r \in requests : r.id # id
        /\ \A a \in answers : a.id # id
        /\ \A d \in decisions : d.id # id
    BY DecisionIds DEF RecordInv, IdsBelow, PromptsBelow
  <1>5. ASSUME Evaluate(rules, ask.req, mode) = "allow"
        PROVE  ~ask.req.outside_root
    BY <1>3, <1>5, EvaluateOutside, ConstantTypes DEF AskSet
  <1>6. \/ /\ Evaluate(rules, ask.req, mode) = "allow"
           /\ decisions' = decisions \cup {[id |-> id, decision |-> "AllowOnce", executed |-> TRUE]}
        \/ decisions' = decisions \cup {[id |-> id, decision |-> "Deny", executed |-> FALSE]}
        \/ decisions' = decisions
    BY DEF OnPermissionAsk
  <1> HIDE DEF new, ask, id
  <1>7. Raised' = Raised
    <2>1. \A x : x \in Raised => x \in Raised'
      <3> SUFFICES ASSUME NEW i \in 1..Len(asks) PROVE asks[i] \in Raised'
        BY <1>0, Members, MembersAfter
      <3>1. CASE i = 1
        BY <1>0, <1>1, <1>2, <3>1, MembersAfter
      <3>2. CASE i # 1
        BY <1>1, <3>2, MembersAfter
      <3> QED BY <3>1, <3>2
    <2>2. \A x : x \in Raised' => x \in Raised
      <3>1. \A i \in 1..Len(asks') : asks'[i] \in Raised
        BY <1>1, Members
      <3>2. \A r \in requests' : r.ask \in Raised
        BY <1>0, <1>2, <1>3, Members
      <3> QED BY <3>1, <3>2, MembersAfter
    <2> QED BY <2>1, <2>2
  <1>8. Approved' = Approved
    <2>1. \A x : UserAllowed(x)' <=> UserAllowed(x)
      BY <1>0 DEF UserAllowed
    <2>2. ~UserAllowed(id)
      BY <1>4 DEF UserAllowed
    <2>3. \A x : x \in Approved' <=> x \in Approved
      BY <1>0, <1>2, <2>1, <2>2, Members, MembersAfter
    <2> QED BY <2>3
  <1>9. \E e \in BOOLEAN :
            /\ e => ~ask.req.outside_root
            /\ \A s : Executed(s)' <=> Executed(s) \/ (e /\ s = id)
    <2>1. CASE /\ Evaluate(rules, ask.req, mode) = "allow"
               /\ decisions' = decisions \cup
                      {[id |-> id, decision |-> "AllowOnce", executed |-> TRUE]}
      <3> DEFINE d == [id |-> id, decision |-> "AllowOnce", executed |-> TRUE]
      <3>1. d.id = id /\ d.executed /\ decisions' = decisions \cup {d}
        BY <2>1
      <3> HIDE DEF d
      <3>2. \A s : Executed(s)' <=> Executed(s) \/ s = id
        BY <3>1 DEF Executed
      <3> QED BY <1>5, <2>1, <3>2
    <2>2. CASE decisions' = decisions \cup {[id |-> id, decision |-> "Deny", executed |-> FALSE]}
      <3> DEFINE d == [id |-> id, decision |-> "Deny", executed |-> FALSE]
      <3>1. ~d.executed /\ decisions' = decisions \cup {d}
        BY <2>2
      <3> HIDE DEF d
      <3>2. \A s : Executed(s)' <=> Executed(s)
        BY <3>1 DEF Executed
      <3> QED BY <3>2
    <2>3. CASE decisions' = decisions
      BY <2>3 DEF Executed
    <2> QED BY <1>6, <2>1, <2>2, <2>3
  <1>10. PICK e \in BOOLEAN :
            /\ e => ~ask.req.outside_root
            /\ \A s : Executed(s)' <=> Executed(s) \/ (e /\ s = id)
    BY <1>9
  <1>11. new \in requests' /\ \A s \in requests' : s = new \/ s \in requests
    BY <1>0
  <1>12. ~Executed(id)
    BY <1>4 DEF Executed
  <1> QED BY <1>0, <1>2, <1>3, <1>4, <1>7, <1>8, <1>10, <1>11, <1>12, DecisionAllows

(* The user's answer at a prompt approves the request the prompt is for.     *)
LEMMA DecidedApproves ==
    ASSUME AuthInv, RecordInv, NEW v \in PermissionDecision, Decided(v)
    PROVE  AuthorityStep
  <1> DEFINE given == [id |-> prompt, decision |-> v]
  <1>t. TypeOK
    BY DEF AuthInv
  <1>0. answers' = answers \cup {given}
        /\ UNCHANGED <<asks, requests, decisions, effects>>
    BY DEF Decided
  <1>1. given.id = prompt /\ given.decision = v
    OBVIOUS
  <1> HIDE DEF given
  <1>2. UNCHANGED <<Raised, Allowed, effects>>
    BY <1>0 DEF Raised, Allowed
  <1>3. \A s : UserAllowed(s)' <=> UserAllowed(s) \/ (IsAllow(v) /\ s = prompt)
    BY <1>0, <1>1 DEF UserAllowed
  <1>4. CASE \E r \in requests : r.id = prompt /\ IsAllow(v)
    <2> PICK r \in requests : r.id = prompt /\ IsAllow(v)
      BY <1>4
    <2>1. \A s \in requests : s.id = prompt => s = r
      BY DEF RecordInv, IdsDistinct
    <2>2. \A x : x \in Approved' <=> x \in Approved \/ x = r.ask
      BY <1>0, <1>3, <2>1, Members, MembersAfter
    <2>3. r.ask \in Raised /\ r.ask \in AskSet
      BY <1>t, Members, RaisedType
    <2>4. A!Approve(r.ask)
      BY <1>2, <2>2, <2>3 DEF A!Approve
    <2> QED BY <2>3, <2>4 DEF AuthorityStep, A!Next
  <1>5. CASE ~\E r \in requests : r.id = prompt /\ IsAllow(v)
    <2>1. \A x : x \in Approved' <=> x \in Approved
      BY <1>0, <1>3, <1>5, Members, MembersAfter
    <2> QED BY <1>2, <2>1 DEF AuthorityStep
  <1> QED BY <1>4, <1>5

(* An answer that reaches its stashed ask allows it, if it is to be allowed. *)
LEMMA AnswerAllows ==
    ASSUME AuthInv, RecordInv, NEW id, NEW v, [id |-> id, decision |-> v] \in answers,
           AnswerPermission(id, v), UNCHANGED <<asks, requests, answers, effects>>
    PROVE  AuthorityStep
  <1>t. TypeOK
    BY DEF AuthInv
  <1>1. CASE UNCHANGED decisions
    BY <1>1, Stutters
  <1>2. CASE \E p \in pending :
                /\ p.id = id
                /\ decisions' = decisions \cup
                      {[id |-> id, decision |-> v, executed |-> IsAllow(v)]}
    <2> DEFINE d == [id |-> id, decision |-> v, executed |-> IsAllow(v)]
               given == [id |-> id, decision |-> v]
    <2> PICK p \in pending : p.id = id /\ decisions' = decisions \cup {d}
      BY <1>2
    <2>1. d.id = id /\ d.executed = IsAllow(v) /\ IsAllow(v) \in BOOLEAN
      BY DEF IsAllow
    <2>2. given \in answers /\ given.id = id /\ given.decision = v
      OBVIOUS
    <2> HIDE DEF d, given
    <2>3. p \in requests
      BY DEF AuthInv, PendingRecorded
    <2>4. \A s : Executed(s)' <=> Executed(s) \/ (IsAllow(v) /\ s = id)
      BY <2>1 DEF Executed
    <2>5. UNCHANGED <<Raised, Approved>>
      BY DEF Raised, Approved, UserAllowed
    <2>6. p.ask \in Raised
      BY <2>3, Members
    <2>7. IsAllow(v) => p.ask \in Approved
      BY <2>2, <2>3, Members DEF UserAllowed
    <2>8. \A s \in requests : s.id = p.id => s = p
      BY <2>3 DEF RecordInv, IdsDistinct
    <2> QED BY <2>1, <2>3, <2>4, <2>5, <2>6, <2>7, <2>8, DecisionAllows
  <1> QED BY <1>1, <1>2 DEF AnswerPermission

(* Every step of the seam is one of Authority's, or none.                    *)
LEMMA NextImplements ==
    ASSUME AuthInv, RecordInv, [Next]_vars
    PROVE  AuthorityStep
  <1>1. CASE ToolStep
    <2>1. ASSUME NEW a \in Asker, AskUser(a) PROVE AuthorityStep
      BY <2>1, Stutters DEF AskUser
    <2>2. AskEngine \/ JoinReply => AuthorityStep
      BY Stutters DEF AskEngine, JoinReply
    <2> QED BY <1>1, <2>1, <2>2, AuthorizeRaises, RunAllowedRuns DEF ToolStep
  <1>2. CASE CallCommand
    <2> DEFINE c == Head(commands)
    <2>0. commands # <<>> /\ UNCHANGED <<asks, requests, answers, effects>>
      BY <1>2 DEF CallCommand
    <2>1. CASE c.type = "PermissionAnswer" /\ AnswerPermission(c.id, c.decision)
      <3>1. 1 \in 1..Len(commands) /\ c = commands[1]
        BY <2>0 DEF AuthInv, TypeOK
      <3>2. [id |-> c.id, decision |-> c.decision] \in answers
        BY <2>1, <3>1 DEF AuthInv, AnswersAreGiven
      <3> QED BY <2>0, <2>1, <3>2, AnswerAllows
    <2>2. CASE UNCHANGED decisions
      BY <2>0, <2>2, Stutters
    <2> QED BY <1>2, <2>1, <2>2 DEF CallCommand, CancelCall
  <1>3. CASE EngineStep /\ ~CallCommand /\ ~OnPermissionAsk
    <2>1. UNCHANGED <<asks, requests, answers, decisions, effects>>
      BY <1>3 DEF EngineStep, OnUserAsk, ServeOp, FinishCall, CallClosed, IdleCommand,
                  IdleClosed, StreamCommand, StreamTurnEnd, StreamToolCalls
    <2> QED BY <2>1, Stutters
  <1>4. CASE UserStep
    <2>1. CASE ApplyEvent \/ Answered \/ SendInput \/ SendCancel
                 \/ (\E m \in Mode : SendMode(m)) \/ Close
      <3>1. UNCHANGED <<asks, requests, answers, decisions, effects>>
        BY <2>1 DEF ApplyEvent, Answered, SendInput, SendCancel, SendMode, UserCommand, Close
      <3> QED BY <3>1, Stutters
    <2> QED BY <1>4, <2>1, DecidedApproves DEF UserStep
  <1>5. CASE UNCHANGED vars
    BY <1>5, Stutters DEF vars
  <1> QED BY <1>1, <1>2, <1>3, <1>4, <1>5, OnPermissionAskAllows DEF Next, EngineStep

(* The permission seam keeps the promise Authority states, for any number of *)
(* agents, asks and turns.                                                   *)
THEOREM SeamImplementsAuthority == Spec => ImplementsAuthority
  <1>1. Init => A!Init
    <2> SUFFICES ASSUME Init PROVE A!Init
      OBVIOUS
    <2>1. asks = <<>> /\ requests = {} /\ effects = {} /\ 1..Len(asks) = {}
      BY DEF Init
    <2> QED BY <2>1 DEF A!Init, Raised, Approved, Allowed
  <1>2. AuthInv /\ RecordInv /\ [Next]_vars => [A!Next]_(A!vars)
    BY NextImplements DEF AuthorityStep, A!vars
  <1> QED BY <1>1, <1>2, AuthInvariant, RecordInvariant, PTL DEF Spec, ImplementsAuthority, A!Spec
==============================================================================
