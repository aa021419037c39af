--------------------------- MODULE SubagentsProofs ---------------------------
(* Subagents for every ceiling, queue, number of agents, calls and sessions: *)
(* every answer is that of its own turn, the ceiling holds, and each unit    *)
(* of usage is counted once.                                                 *)
EXTENDS Subagents, TLAPS, FiniteSetTheorems, WellFoundedInduction, NaturalsInduction,
        SequenceTheorems

USE DEF rootVars, agentVars

(* The bounds are numbers.                                                   *)
LEMMA Limits ==
    /\ MaxConcurrent \in Nat /\ MaxBatch \in Nat /\ MaxSpawned \in Nat /\ MaxCalls \in Nat
    /\ MaxSpent \in Nat /\ MaxSessions \in Nat \ {0} /\ QueueSlots \in Nat \ {0}
  BY SubagentsAssumption

------------------------------------------------------------------------------
(* The number of the last call made.                                         *)
LEMMA CurrentType == Current \in 0..MaxCalls
  <1> DEFINE T == {c \in Calls : calls[c] # "unmade"}
  <1>1. CASE T = {}
    BY <1>1, Limits DEF Current
  <1>2. CASE T # {}
    <2> DEFINE D == {MaxCalls - x : x \in T}
               R == {ss \in Nat \X Nat : ss[1] < ss[2]}
    <2>1. D \subseteq Nat /\ D # {}
      <3>1. \A x \in T : MaxCalls - x \in Nat
        BY Limits DEF Calls
      <3>2. PICK x \in T : TRUE
        BY <1>2
      <3>3. MaxCalls - x \in D
        OBVIOUS
      <3> QED BY <3>1, <3>3
    <2>2. IsWellFoundedOn(R, Nat)
      BY NatLessThanWellFounded DEF OpToRel
    <2> HIDE DEF R
    <2>3. PICK d \in D : \A y \in D : <<y, d>> \notin R
      BY <2>1, <2>2, WFMin
    <2>4. \A y \in D : ~(y < d)
      BY <2>1, <2>3 DEF R
    <2>5. PICK m \in T : d = MaxCalls - m
      BY <2>3
    <2>6. \A y \in T : m >= y
      <3> TAKE y \in T
      <3>1. MaxCalls - y \in D /\ ~(MaxCalls - y < MaxCalls - m)
        BY <2>4, <2>5
      <3>2. y \in Nat /\ m \in Nat
        BY DEF Calls
      <3> QED BY <3>1, <3>2, Limits
    <2>7. Max(T) \in T
      BY <2>5, <2>6 DEF Max
    <2> QED BY <1>2, <2>7, Limits DEF Current, Calls
  <1> QED BY <1>1, <1>2

------------------------------------------------------------------------------
(* Types                                                                     *)

AskSet ==
    [call : Calls, ask : [type : {"spawn"}, specs : Specs]]
        \cup [call : Calls, ask : [type : {"message", "end"}, to : Agents]]
        \cup [call : Calls, ask : [type : {"list"}]]
        \cup [call : {0}, ask : [type : {"usage"}, amount : Nat]]

Phases == {"unborn", "idle", "running", "asking", "halted", "dead"}
EngineSet == [phase : Phases, input : Seq(Requests), spent : Nat]
CallSet == {"unmade", "asked", "waiting", "over"}
DriverSet == [is : {"unborn", "waiting", "exited", "turn"}, turn : Requests \cup {NoRequest}]
OutcomeSet == [is : {"none", "waiting", "running", "failed", "answered"},
               turn : Requests \cup {NoRequest}]
EndSet == [turn : Requests, used : Nat, ok : BOOLEAN]

Shape ==
    /\ asks \in Seq(AskSet)
    /\ engine \in [Agents -> EngineSet]
    /\ events \in [Agents -> Seq(EndSet)]

(* A turn belongs to the request its driver has in hand: either the engine   *)
(* has it still, or has said how it ended; between turns nothing is left.    *)
OwnTurn(a) ==
    /\ engine[a].phase \in {"running", "asking", "halted"} => engine[a].input # <<>>
    /\ driver[a].is # "turn" =>
           events[a] = <<>> /\ (engine[a].phase # "dead" => engine[a].input = <<>>)
    /\ driver[a].is = "turn" =>
           \/ /\ events[a] = <<>>
              /\ engine[a].phase = "dead" \/ engine[a].input = <<driver[a].turn>>
           \/ /\ Len(events[a]) = 1 /\ events[a][1].turn = driver[a].turn
              /\ engine[a].input = <<>>
OwnTurns == \A a \in Agents : OwnTurn(a)

(* An agent that was not spawned yet has no driver.                          *)
Unborn == \A a \in Agents : a > nextSeq => driver[a].is = "unborn"

TurnInv == TypeOK /\ Shape /\ OwnTurns /\ Unborn

(* What each kind of ask carries.                                            *)
LEMMA AskFields ==
    \A x \in AskSet :
        /\ x.ask.type \in {"spawn", "message", "end", "list", "usage"}
        /\ x.ask.type = "spawn" => x.call \in Calls /\ x.ask.specs \in Specs
        /\ x.ask.type = "message" => x.call \in Calls /\ x.ask.to \in Agents
        /\ x.ask.type = "usage" => x.ask.amount \in Nat
  BY DEF AskSet

(* What is left of a sequence of one element.                                *)
LEMMA OnlyOne ==
    ASSUME NEW S, NEW s \in Seq(S), Len(s) = 1
    PROVE  Head(s) = s[1] /\ Head(s) \in S /\ Tail(s) = <<>>
  <1>1. s # <<>>
    OBVIOUS
  <1>2. Head(s) \in S /\ Tail(s) \in Seq(S) /\ Len(Tail(s)) = 0
    BY <1>1, HeadTailProperties
  <1>3. Tail(s) = <<>>
    BY <1>2, EmptySeq
  <1> QED BY <1>2, <1>3

(* A step of an engine that changes its phase alone.                         *)
LEMMA SetPhaseType ==
    ASSUME TurnInv, NEW a \in Agents, NEW phase \in Phases, SetPhase(a, phase)
    PROVE  /\ engine'[a] \in EngineSet /\ engine'[a].phase = phase
           /\ engine'[a].input = engine[a].input
  <1>1. engine'[a] = [engine[a] EXCEPT !.phase = phase] /\ engine[a] \in EngineSet
    BY DEF TurnInv, Shape, SetPhase
  <1> QED BY <1>1 DEF EngineSet

(* The invariant holds before the first call.                                *)
LEMMA TurnInit == Init => TurnInv
  <1> SUFFICES ASSUME Init PROVE TurnInv
    OBVIOUS
  <1>1. Shape
    BY DEF Init, Shape, EngineSet, Phases
  <1>2. OwnTurns /\ Unborn
    BY DEF Init, OwnTurns, OwnTurn, Unborn, Doing
  <1>3. TypeOK
    BY Limits DEF Init, TypeOK, Doing, Became, NoRequest
  <1> QED BY <1>1, <1>2, <1>3 DEF TurnInv

------------------------------------------------------------------------------
(* The agents' side: a driver and its engine                                 *)

(* A turn starts, goes on and ends with its request in its engine's input.   *)
LEMMA EngineStep ==
    ASSUME TurnInv, NEW a \in Agents, EngineNext(a)
    PROVE  TurnInv'
  <1>1. UNCHANGED <<root, held, session, total, asks, calls, instances, nextSeq, queue, driver,
                    seen, outcome>>
    BY DEF EngineNext, EngineTakesInput, Spend, AskRoot, RootAnswers, Halt, EndsTurn, EngineDies,
           EngineEnds, EngineOnly
  <1>2. TypeOK' /\ Unborn'
    BY <1>1 DEF TurnInv, TypeOK, Unborn
  <1>3. engine[a] \in EngineSet /\ events[a] \in Seq(EndSet) /\ OwnTurn(a)
    BY DEF TurnInv, Shape, OwnTurns
  <1>4. \E e : engine' = [engine EXCEPT ![a] = e]
    BY DEF EngineNext, EngineTakesInput, Spend, AskRoot, RootAnswers, Halt, EndsTurn, EngineDies,
           EngineEnds, SetPhase
  <1>5. \A b \in Agents : b # a => engine'[b] = engine[b] /\ events'[b] = events[b]
    <2>1. UNCHANGED events \/ \E e : events' = [events EXCEPT ![a] = e]
      BY DEF EngineNext, EngineTakesInput, Spend, AskRoot, RootAnswers, Halt, EndsTurn,
             EngineDies, EngineEnds
    <2> QED BY <1>4, <2>1 DEF TurnInv, Shape
  <1>6. engine'[a] \in EngineSet /\ events'[a] \in Seq(EndSet) /\ OwnTurn(a)'
    <2>1. CASE EndsTurn(a)
      <3>1. /\ engine[a].input # <<>> /\ driver[a].is = "turn" /\ events[a] = <<>>
            /\ engine[a].input = <<driver[a].turn>>
        BY <1>3, <2>1 DEF EndsTurn, OwnTurn
      <3>2. Tail(engine[a].input) = <<>> /\ Head(engine[a].input) = driver[a].turn
            /\ driver[a].turn \in Requests
        <4>1. engine[a].input \in Seq(Requests) /\ Len(engine[a].input) = 1
              /\ engine[a].input[1] = driver[a].turn
          <5> DEFINE turn == driver[a].turn
          <5>1. /\ engine[a].input \in Seq(Requests) /\ engine[a].input = <<turn>>
            BY <1>3, <3>1 DEF EngineSet
          <5> HIDE DEF turn
          <5>2. Len(engine[a].input) = 1 /\ engine[a].input[1] = turn
            BY <5>1
          <5> QED BY <5>1, <5>2 DEF turn
        <4> QED BY <4>1, OnlyOne
      <3>3. engine'[a] = [phase |-> "idle", input |-> <<>>, spent |-> engine[a].spent]
        BY <1>3, <2>1, <3>2 DEF EndsTurn, TurnInv, Shape, EngineSet
      <3>4. PICK ok \in BOOLEAN :
               events'[a] = <<[turn |-> driver[a].turn, used |-> engine[a].spent, ok |-> ok]>>
        BY <1>3, <2>1, <3>1, <3>2 DEF EndsTurn, TurnInv, Shape, EngineSet
      <3>5. engine[a].spent \in Nat /\ <<>> \in Seq(Requests)
        BY <1>3 DEF EngineSet
      <3> QED BY <1>1, <3>1, <3>2, <3>3, <3>4, <3>5 DEF OwnTurn, EngineSet, EndSet, Phases
    <2>2. CASE /\ events' = events /\ engine'[a].input = engine[a].input
               /\ engine'[a] \in EngineSet
               /\ \/ engine'[a].phase = "idle" /\ engine[a].phase = "idle"
                  \/ engine'[a].phase \in {"running", "asking", "halted"}
                     /\ engine[a].phase # "dead" /\ engine[a].input # <<>>
                  \/ engine'[a].phase = "dead" /\ engine[a].phase = "running"
                  \/ engine'[a].phase = "dead" /\ driver[a].is # "turn"
      BY <1>1, <1>3, <2>2 DEF OwnTurn
    <2>3. CASE EngineTakesInput(a)
      BY <1>3, <2>2, <2>3, SetPhaseType DEF EngineTakesInput, Phases
    <2>4. CASE AskRoot(a) \/ RootAnswers(a) \/ Halt(a)
      <3>1. PICK phase \in {"running", "asking", "halted"} : SetPhase(a, phase)
        BY <2>4 DEF AskRoot, RootAnswers, Halt
      <3>2. engine[a].phase \in {"running", "asking"} /\ events' = events
        BY <2>4 DEF AskRoot, RootAnswers, Halt
      <3> QED BY <1>3, <2>2, <3>1, <3>2, SetPhaseType DEF Phases, OwnTurn
    <2>5. CASE EngineDies(a)
      BY <2>2, <2>5, SetPhaseType DEF EngineDies, Phases
    <2>6. CASE Spend(a)
      <3>1. engine'[a] = [engine[a] EXCEPT !.spent = @ + 1] /\ events' = events
        BY <2>6 DEF Spend, TurnInv, Shape
      <3>2. /\ engine'[a].phase = engine[a].phase /\ engine'[a].input = engine[a].input
            /\ engine'[a] \in EngineSet
        BY <1>3, <3>1 DEF EngineSet
      <3> QED BY <1>3, <2>2, <2>6, <3>1, <3>2 DEF Spend, OwnTurn
    <2>7. CASE EngineEnds(a)
      BY <2>2, <2>7, SetPhaseType DEF EngineEnds, Phases, Doing
    <2> QED BY <2>1, <2>3, <2>4, <2>5, <2>6, <2>7 DEF EngineNext
  <1>7. Shape'
    <2>1. engine' \in [Agents -> EngineSet]
      BY <1>4, <1>5, <1>6 DEF TurnInv, Shape
    <2>2. events' \in [Agents -> Seq(EndSet)]
      BY <1>5, <1>6
      DEF TurnInv, Shape, EngineNext, EngineTakesInput, Spend, AskRoot, RootAnswers, Halt,
          EndsTurn, EngineDies, EngineEnds
    <2> QED BY <1>1, <2>1, <2>2 DEF TurnInv, Shape
  <1>8. OwnTurns'
    BY <1>1, <1>5, <1>6 DEF TurnInv, OwnTurns, OwnTurn
  <1> QED BY <1>2, <1>7, <1>8 DEF TurnInv

(* What a driver reports is an ask, whatever it comes to.                    *)
LEMMA FinishType ==
    ASSUME TurnInv, NEW a \in Agents, NEW used \in Nat, NEW end \in
               [is : {"failed", "answered"}, turn : Requests \cup {NoRequest}],
           Finish(a, used, end)
    PROVE  /\ asks' \in Seq(AskSet) /\ seen' \in [Agents -> Nat]
           /\ outcome' \in [Requests -> OutcomeSet]
           /\ driver' = [driver EXCEPT ![a] = Doing("waiting")]
  <1>1. asks' \in Seq(AskSet)
    <2>1. Delta(a, used) > 0 =>
              [call |-> 0, ask |-> [type |-> "usage", amount |-> Delta(a, used)]] \in AskSet
      <3>1. Delta(a, used) > 0 => Delta(a, used) \in Nat
        BY DEF TurnInv, TypeOK, Delta
      <3> QED BY <3>1 DEF AskSet
    <2> QED BY <2>1 DEF Finish, TurnInv, Shape
  <1>2. seen' \in [Agents -> Nat]
    BY DEF Finish, TurnInv, TypeOK
  <1>3. outcome' \in [Requests -> OutcomeSet]
    BY DEF Finish, TurnInv, TypeOK, OutcomeSet
  <1> QED BY <1>1, <1>2, <1>3 DEF Finish

(* What a driver does apart from a turn.                                     *)
LEMMA DoingType ==
    \A is \in {"unborn", "waiting", "exited"} :
        Doing(is) \in DriverSet
  BY DEF Doing, DriverSet

(* A driver takes one request at a time, and lets go of it with its end.     *)
LEMMA DriverStep ==
    ASSUME TurnInv, NEW a \in Agents, DriverNext(a)
    PROVE  TurnInv'
  <1>1. /\ engine[a] \in EngineSet /\ events[a] \in Seq(EndSet) /\ OwnTurn(a)
        /\ queue[a] \in Seq(Requests)
    BY DEF TurnInv, TypeOK, Shape, OwnTurns
  <1>2. CASE DriverTake(a)
    <2>1. /\ Head(queue[a]) \in Requests /\ Tail(queue[a]) \in Seq(Requests)
          /\ driver[a].is = "waiting" /\ a <= nextSeq
      BY <1>1, <1>2 DEF DriverTake, Doing, TurnInv, TypeOK, Unborn, Agents
    <2>2. queue' \in [Agents -> Seq(Requests)]
      BY <1>2, <2>1 DEF DriverTake, TurnInv, TypeOK
    <2>3. CASE engine[a].phase = "dead"
      <3>1. outcome' \in [Requests -> OutcomeSet]
        <4>1. outcome \in [Requests -> OutcomeSet]
          BY DEF TurnInv, TypeOK, OutcomeSet
        <4>2. Became("failed") \in OutcomeSet
          BY DEF Became, OutcomeSet
        <4>3. outcome' = [outcome EXCEPT ![Head(queue[a])] =
                             IF @ = Pending THEN Became("failed") ELSE @]
          BY <1>2, <2>3 DEF DriverTake
        <4> QED BY <2>1, <4>1, <4>2, <4>3
      <3> QED
        BY <1>2, <2>2, <2>3, <3>1
        DEF DriverTake, TurnInv, TypeOK, Shape, OwnTurns, OwnTurn, Unborn, OutcomeSet
    <2>4. CASE engine[a].phase # "dead"
      <3>1. /\ events[a] = <<>> /\ engine[a].input = <<>>
            /\ engine[a].phase \notin {"running", "asking", "halted"}
        BY <1>1, <2>1, <2>4 DEF OwnTurn
      <3>2. driver' = [driver EXCEPT ![a] = Turn(Head(queue[a]))]
            /\ engine' = [engine EXCEPT ![a].input = <<Head(queue[a])>>]
            /\ UNCHANGED <<outcome, rootVars, total, asks, calls, instances, nextSeq, events, seen>>
        BY <1>2, <2>4, <3>1 DEF DriverTake
      <3>3. engine'[a] = [phase |-> engine[a].phase, input |-> <<Head(queue[a])>>,
                          spent |-> engine[a].spent]
        BY <1>1, <3>2 DEF TurnInv, Shape, EngineSet
      <3>4. engine'[a] \in EngineSet
        BY <1>1, <2>1, <3>3 DEF EngineSet
      <3>5. engine' \in [Agents -> EngineSet] /\ \A b \in Agents : b # a => engine'[b] = engine[b]
        BY <3>2, <3>4 DEF TurnInv, Shape
      <3>6. Turn(Head(queue[a])) \in DriverSet
        BY <2>1 DEF Turn, DriverSet
      <3>7. /\ driver' \in [Agents -> DriverSet]
            /\ \A b \in Agents : b # a => driver'[b] = driver[b]
            /\ driver'[a] = Turn(Head(queue[a]))
        BY <3>2, <3>6 DEF TurnInv, TypeOK, DriverSet
      <3>8. TypeOK' /\ Shape'
        BY <2>2, <3>2, <3>5, <3>7 DEF TurnInv, TypeOK, Shape, DriverSet
      <3>9. OwnTurn(a)'
        BY <3>1, <3>2, <3>3, <3>7 DEF OwnTurn, Turn
      <3>10. OwnTurns' /\ Unborn'
        BY <2>1, <3>2, <3>5, <3>7, <3>9 DEF TurnInv, TypeOK, OwnTurns, OwnTurn, Unborn, Agents
      <3> QED BY <3>8, <3>10 DEF TurnInv
    <2> QED BY <2>3, <2>4
  <1>3. ASSUME /\ driver[a].is \in {"turn", "waiting"}
               /\ driver' = [driver EXCEPT ![a] = Doing("waiting")]
                     \/ driver' = [driver EXCEPT ![a] = Doing("exited")],
               asks' \in Seq(AskSet), seen' \in [Agents -> Nat],
               outcome' \in [Requests -> OutcomeSet],
               events' \in [Agents -> Seq(EndSet)], events'[a] = <<>>,
               \A b \in Agents : b # a => events'[b] = events[b],
               engine[a].phase = "dead" \/ engine[a].input = <<>>,
               UNCHANGED <<root, held, session, total, calls, instances, nextSeq, queue, engine>>
        PROVE  TurnInv'
    <2>1. /\ driver' \in [Agents -> DriverSet]
          /\ driver'[a].is \in {"waiting", "exited"}
          /\ \A b \in Agents : b # a => driver'[b] = driver[b]
      BY <1>3, DoingType DEF TurnInv, TypeOK, Doing, DriverSet
    <2>2. TypeOK' /\ Shape'
      BY <1>3, <2>1 DEF TurnInv, TypeOK, Shape, DriverSet, OutcomeSet
    <2>3. OwnTurns'
      BY <1>1, <1>3, <2>1 DEF TurnInv, OwnTurns, OwnTurn
    <2>4. Unborn'
      BY <1>3, <2>1 DEF TurnInv, Unborn
    <2> QED BY <2>2, <2>3, <2>4 DEF TurnInv
  <1>4. CASE DriverFinish(a)
    <2>1. /\ Len(events[a]) = 1 /\ events[a][1].turn = driver[a].turn /\ engine[a].input = <<>>
          /\ Head(events[a]) \in EndSet
      BY <1>1, <1>4 DEF DriverFinish, OwnTurn
    <2>2. Tail(events[a]) = <<>>
      BY <1>1, <2>1, OnlyOne
    <2> DEFINE end == Head(events[a])
               came == IF end.ok THEN Answered(end.turn) ELSE Became("failed")
    <2>3. /\ end.used \in Nat
          /\ came \in [is : {"failed", "answered"}, turn : Requests \cup {NoRequest}]
      BY <2>1 DEF EndSet, Answered, Became
    <2>4. Finish(a, end.used, came)
      BY <1>4 DEF DriverFinish
    <2> HIDE DEF came
    <2>5. /\ asks' \in Seq(AskSet) /\ seen' \in [Agents -> Nat]
          /\ outcome' \in [Requests -> OutcomeSet]
          /\ driver' = [driver EXCEPT ![a] = Doing("waiting")]
      BY <2>3, <2>4, FinishType
    <2>6. /\ events' \in [Agents -> Seq(EndSet)] /\ events'[a] = <<>>
          /\ \A b \in Agents : b # a => events'[b] = events[b]
      BY <1>4, <2>2 DEF DriverFinish, TurnInv, Shape
    <2> QED BY <1>3, <1>4, <2>1, <2>5, <2>6 DEF DriverFinish
  <1>5. CASE DriverLosesEngine(a)
    <2>1. engine[a].spent \in Nat
      BY <1>1 DEF EngineSet
    <2>2. Became("failed") \in [is : {"failed", "answered"}, turn : Requests \cup {NoRequest}]
      BY DEF Became
    <2>3. /\ asks' \in Seq(AskSet) /\ seen' \in [Agents -> Nat]
          /\ outcome' \in [Requests -> OutcomeSet]
          /\ driver' = [driver EXCEPT ![a] = Doing("waiting")]
      BY <1>5, <2>1, <2>2, FinishType DEF DriverLosesEngine
    <2> QED BY <1>3, <1>5, <2>3 DEF DriverLosesEngine, TurnInv, Shape
  <1>6. CASE DriverExit(a)
    <2>1. driver[a].is = "waiting" /\ events[a] = <<>>
          /\ (engine[a].phase = "dead" \/ engine[a].input = <<>>)
      BY <1>1, <1>6 DEF DriverExit, Doing, OwnTurn
    <2> QED BY <1>3, <1>6, <2>1 DEF DriverExit, TurnInv, TypeOK, Shape, OutcomeSet
  <1> QED BY <1>2, <1>4, <1>5, <1>6 DEF DriverNext

------------------------------------------------------------------------------
(* The root's side                                                           *)

(* A step that leaves the agents alone need only be well typed.              *)
LEMMA RootOnly ==
    ASSUME TurnInv, UNCHANGED <<agentVars, nextSeq>>,
           root' \in {"idle", "tool", "gone"}, held' \in Requests \cup {NoRequest},
           session' \in 1..MaxSessions, total' \in [1..MaxSessions -> Nat],
           asks' \in Seq(AskSet), calls' \in [Calls -> CallSet],
           instances' \in [Agents -> {"absent", "active", "idle"}],
           outcome' \in [Requests -> OutcomeSet]
    PROVE  TurnInv'
  <1>1. TypeOK' /\ Shape'
    BY DEF TurnInv, TypeOK, Shape, CallSet, OutcomeSet
  <1>2. OwnTurns' /\ Unborn'
    BY DEF TurnInv, OwnTurns, OwnTurn, Unborn
  <1> QED BY <1>1, <1>2 DEF TurnInv

(* The types of what the root's side changes.                                *)
LEMMA RootTypes ==
    ASSUME TurnInv
    PROVE  /\ root \in {"idle", "tool", "gone"} /\ held \in Requests \cup {NoRequest}
           /\ session \in 1..MaxSessions /\ total \in [1..MaxSessions -> Nat]
           /\ asks \in Seq(AskSet) /\ calls \in [Calls -> CallSet]
           /\ instances \in [Agents -> {"absent", "active", "idle"}]
           /\ outcome \in [Requests -> OutcomeSet]
           /\ nextSeq \in 0..MaxSpawned /\ queue \in [Agents -> Seq(Requests)]
  BY DEF TurnInv, TypeOK, Shape, CallSet, OutcomeSet

(* The head of the channel, when the root serves it, and what is left.       *)
LEMMA ServedType ==
    ASSUME TurnInv, asks # <<>>
    PROVE  Head(asks) \in AskSet /\ Tail(asks) \in Seq(AskSet)
  BY RootTypes, HeadTailProperties

(* What a request comes to, apart from an answer.                            *)
LEMMA OutcomeTypes ==
    /\ Pending \in OutcomeSet
    /\ \A is \in {"none", "running", "failed"} : Became(is) \in OutcomeSet
  BY DEF Pending, Became, OutcomeSet

(* A call waits for requests, or nobody does.                                *)
LEMMA AwaitType ==
    ASSUME TurnInv, NEW call, NEW requests, Await(call, requests)
    PROVE  calls' \in [Calls -> CallSet] /\ outcome' \in [Requests -> OutcomeSet]
  <1>1. calls \in [Calls -> CallSet] /\ outcome \in [Requests -> OutcomeSet]
    BY RootTypes
  <1>2. calls' \in [Calls -> CallSet]
    BY <1>1 DEF Await, CallSet
  <1>3. outcome' \in [Requests -> OutcomeSet]
    BY <1>1, OutcomeTypes DEF Await
  <1> QED BY <1>2, <1>3

(* One of the four tools is called.                                          *)
LEMMA AskStep ==
    ASSUME TurnInv, NEW ask,
           \A c \in Calls : [call |-> c, ask |-> ask] \in AskSet, Ask(ask)
    PROVE  TurnInv'
  <1>1. Current + 1 \in Calls
    BY CurrentType, Limits DEF Ask, Calls
  <1>2. asks' \in Seq(AskSet)
    BY <1>1, RootTypes DEF Ask
  <1>3. calls' \in [Calls -> CallSet]
    BY <1>1, RootTypes DEF Ask, CallSet
  <1> QED BY <1>2, <1>3, RootTypes, RootOnly DEF Ask

(* Each of the four tools.                                                   *)
LEMMA ToolStep ==
    ASSUME TurnInv, SpawnAgents \/ MessageAgent \/ EndAgent \/ ListAgents
    PROVE  TurnInv'
  <1>1. CASE SpawnAgents
    <2>1. PICK specs \in Specs : Ask([type |-> "spawn", specs |-> specs])
      BY <1>1 DEF SpawnAgents
    <2>2. \A c \in Calls : [call |-> c, ask |-> [type |-> "spawn", specs |-> specs]] \in AskSet
      BY DEF AskSet
    <2> QED BY <2>1, <2>2, AskStep
  <1>2. CASE MessageAgent \/ EndAgent
    <2>1. PICK a \in Agents, type \in {"message", "end"} : Ask([type |-> type, to |-> a])
      BY <1>2 DEF MessageAgent, EndAgent
    <2>2. \A c \in Calls : [call |-> c, ask |-> [type |-> type, to |-> a]] \in AskSet
      BY DEF AskSet
    <2> QED BY <2>1, <2>2, AskStep
  <1>3. CASE ListAgents
    <2>1. \A c \in Calls : [call |-> c, ask |-> [type |-> "list"]] \in AskSet
      BY DEF AskSet
    <2> QED BY <1>3, <2>1, AskStep DEF ListAgents
  <1> QED BY <1>1, <1>2, <1>3

(* The steps of the root that change neither an agent nor its queue.         *)
LEMMA RootStep ==
    ASSUME TurnInv,
           \/ OtherTool \/ ToolReturns \/ Cancel \/ ListOrEnd \/ RollUpUsage
           \/ ReapIdle \/ SwitchSession \/ RootEnds
    PROVE  TurnInv'
  <1>1. CASE OtherTool \/ ToolReturns
    BY <1>1, RootTypes, RootOnly DEF OtherTool, ToolReturns
  <1>2. CASE Cancel
    <2>1. calls' \in [Calls -> CallSet] /\ outcome' \in [Requests -> OutcomeSet]
      BY <1>2, OutcomeTypes DEF Cancel, CallSet
    <2> QED BY <1>2, <2>1, RootTypes, RootOnly DEF Cancel
  <1>3. CASE ListOrEnd
    <2>1. asks' \in Seq(AskSet)
      BY <1>3, ServedType DEF ListOrEnd, ServesAsks
    <2>2. calls' \in [Calls -> CallSet]
      BY <1>3, RootTypes DEF ListOrEnd, Reply, CallSet
    <2>3. instances' \in [Agents -> {"absent", "active", "idle"}]
      BY <1>3, RootTypes DEF ListOrEnd
    <2> QED BY <1>3, <2>1, <2>2, <2>3, RootTypes, RootOnly DEF ListOrEnd
  <1>4. CASE RollUpUsage
    <2>1. asks' \in Seq(AskSet)
      BY <1>4, ServedType DEF RollUpUsage, ServesAsks
    <2>2. Head(asks).ask.amount \in Nat
      BY <1>4, ServedType, AskFields DEF RollUpUsage, ServesAsks
    <2>3. total' \in [1..MaxSessions -> Nat]
      BY <1>4, <2>2, RootTypes DEF RollUpUsage
    <2> QED BY <1>4, <2>1, <2>3, RootTypes, RootOnly DEF RollUpUsage
  <1>5. CASE ReapIdle
    BY <1>5, RootTypes, RootOnly DEF ReapIdle
  <1>6. CASE SwitchSession
    BY <1>6, RootTypes, RootOnly, Limits DEF SwitchSession
  <1>7. CASE RootEnds
    BY <1>7, RootTypes, RootOnly DEF RootEnds
  <1> QED BY <1>1, <1>2, <1>3, <1>4, <1>5, <1>6, <1>7

(* A send into an agent's queue touches neither its driver nor its engine.   *)
LEMMA SendStep ==
    ASSUME TurnInv, MessageSubagent \/ HeldSendGoes
    PROVE  TurnInv'
  <1>1. ASSUME held' \in Requests \cup {NoRequest}, asks' \in Seq(AskSet),
               calls' \in [Calls -> CallSet], outcome' \in [Requests -> OutcomeSet],
               instances' \in [Agents -> {"absent", "active", "idle"}],
               queue' \in [Agents -> Seq(Requests)],
               UNCHANGED <<root, session, total, nextSeq, driver, engine, events, seen>>
        PROVE  TurnInv'
    <2>1. TypeOK' /\ Shape'
      BY <1>1 DEF TurnInv, TypeOK, Shape, CallSet, OutcomeSet
    <2>2. OwnTurns' /\ Unborn'
      BY <1>1 DEF TurnInv, OwnTurns, OwnTurn, Unborn
    <2> QED BY <2>1, <2>2 DEF TurnInv
  <1>2. CASE MessageSubagent
    <2> DEFINE call == Head(asks).call
               a == Head(asks).ask.to
    <2>1. call \in Calls /\ a \in Agents /\ asks' \in Seq(AskSet)
      BY <1>2, ServedType, AskFields DEF MessageSubagent, ServesAsks
    <2>2. <<call, a>> \in Requests
      BY <2>1 DEF Requests
    <2>3. CASE a \notin Alive
      <3>1. calls' \in [Calls -> CallSet]
        BY <1>2, <2>3, RootTypes DEF MessageSubagent, Reply, CallSet
      <3> QED BY <1>1, <1>2, <2>1, <2>3, <3>1, RootTypes DEF MessageSubagent
    <2>4. CASE a \in Alive
      <3>1. instances' \in [Agents -> {"absent", "active", "idle"}]
        BY <1>2, <2>4, RootTypes DEF MessageSubagent
      <3>2. CASE Len(queue[a]) < QueueSlots
        <4>1. /\ queue' = [queue EXCEPT ![a] = Append(@, <<call, a>>)]
              /\ Await(call, {<<call, a>>}) /\ UNCHANGED held
          BY <1>2, <2>4, <3>2 DEF MessageSubagent
        <4>2. queue' \in [Agents -> Seq(Requests)]
          BY <2>1, <2>2, <4>1, RootTypes
        <4>3. calls' \in [Calls -> CallSet] /\ outcome' \in [Requests -> OutcomeSet]
          BY <4>1, AwaitType
        <4> QED BY <1>1, <1>2, <2>1, <3>1, <4>1, <4>2, <4>3, RootTypes DEF MessageSubagent
      <3>3. CASE ~(Len(queue[a]) < QueueSlots)
        <4>1. held' = <<call, a>> /\ UNCHANGED <<calls, queue, outcome>>
          BY <1>2, <2>4, <3>3 DEF MessageSubagent
        <4> QED BY <1>1, <1>2, <2>1, <2>2, <3>1, <4>1, RootTypes DEF MessageSubagent
      <3> QED BY <3>2, <3>3
    <2> QED BY <2>3, <2>4
  <1>3. CASE HeldSendGoes
    <2>1. held \in Requests /\ held[2] \in Agents
      BY <1>3, RootTypes DEF HeldSendGoes, Requests
    <2>2. queue' \in [Agents -> Seq(Requests)]
      BY <1>3, <2>1, RootTypes DEF HeldSendGoes
    <2>3. calls' \in [Calls -> CallSet] /\ outcome' \in [Requests -> OutcomeSet]
      BY <1>3, AwaitType DEF HeldSendGoes
    <2> QED BY <1>1, <1>3, <2>2, <2>3, RootTypes DEF HeldSendGoes
  <1> QED BY <1>2, <1>3

------------------------------------------------------------------------------
(* The birth of a batch                                                      *)

Born == (nextSeq + 1)..(nextSeq + Cardinality(Admitted(Head(asks).ask.specs)))

(* The agents that can be addressed can be counted.                          *)
LEMMA AliveFinite == IsFiniteSet(Alive) /\ Cardinality(Alive) \in Nat
  <1>1. IsFiniteSet(Agents)
    BY FS_Interval, Limits DEF Agents
  <1>2. Alive \subseteq Agents
    BY DEF Alive
  <1>3. IsFiniteSet(Alive)
    BY <1>1, <1>2, FS_Subset
  <1> QED BY <1>3, FS_CardinalityType

(* What is admitted fits under the ceiling, and is born once.                *)
LEMMA BornType ==
    ASSUME TurnInv, AtMostConcurrent, SpawnSubagents
    PROVE  /\ Head(asks).call \in Calls
           /\ IsFiniteSet(Born) /\ Cardinality(Born) \in Nat
           /\ Cardinality(Born) <= MaxConcurrent - Cardinality(Alive)
           /\ Born \subseteq Agents /\ nextSeq' = nextSeq + Cardinality(Born)
           /\ Born = (nextSeq + 1)..(nextSeq + Cardinality(Born))
           /\ \A a \in Born : a > nextSeq /\ a <= nextSeq'
  <1> DEFINE specs == Head(asks).ask.specs
             room == MaxConcurrent - Cardinality(Alive)
             k == Cardinality(Admitted(specs))
  <1>1. Head(asks).call \in Calls /\ specs \in Specs
    BY ServedType, AskFields DEF SpawnSubagents, ServesAsks
  <1>2. IsFiniteSet(Alive) /\ Cardinality(Alive) \in Nat
    BY AliveFinite
  <1>3. room \in Nat
    BY <1>2, Limits DEF AtMostConcurrent
  <1>4. Admitted(specs) \subseteq 1..room
    <2>1. PICK n \in 1..MaxBatch : specs \in [1..n -> BOOLEAN]
      BY <1>1 DEF Specs
    <2> QED BY <1>3, <2>1 DEF Admitted
  <1>5. IsFiniteSet(1..room) /\ Cardinality(1..room) = room
    BY <1>3, FS_Interval
  <1>6. k \in Nat /\ k <= room
    BY <1>4, <1>5, FS_Subset, FS_CardinalityType
  <1>7. nextSeq \in Nat
    BY RootTypes
  <1>8. Born = (nextSeq + 1)..(nextSeq + k)
    BY DEF Born
  <1> HIDE DEF k, room
  <1>9. IsFiniteSet(Born) /\ Cardinality(Born) = k
    BY <1>6, <1>7, <1>8, FS_Interval
  <1>10. Born \subseteq Agents /\ nextSeq' = nextSeq + Cardinality(Born)
    BY DEF SpawnSubagents, Born
  <1> QED BY <1>1, <1>6, <1>7, <1>8, <1>9, <1>10 DEF room

(* A batch is born with drivers that wait and engines that are idle.         *)
LEMMA SpawnStep ==
    ASSUME TurnInv, AtMostConcurrent, SpawnSubagents
    PROVE  TurnInv'
  <1> DEFINE call == Head(asks).call
  <1>1. /\ call \in Calls /\ Born \subseteq Agents /\ Cardinality(Born) \in Nat
        /\ nextSeq' = nextSeq + Cardinality(Born)
        /\ \A a \in Born : a > nextSeq /\ a <= nextSeq'
    BY BornType
  <1>2. /\ SpawnOne(call, Born) /\ Await(call, {call} \X Born)
        /\ asks' = Tail(asks) /\ UNCHANGED <<rootVars, total, events, seen>>
    BY DEF SpawnSubagents, Born
  <1>3. calls' \in [Calls -> CallSet] /\ outcome' \in [Requests -> OutcomeSet]
    BY <1>2, AwaitType
  <1>4. asks' \in Seq(AskSet)
    BY <1>2, ServedType DEF SpawnSubagents, ServesAsks
  <1>5. nextSeq' \in 0..MaxSpawned
    <2>1. nextSeq \in 0..MaxSpawned
      BY RootTypes
    <2>2. Cardinality(Born) = 0 \/ nextSeq + Cardinality(Born) \in Agents
      <3>1. Born = (nextSeq + 1)..(nextSeq + Cardinality(Born))
        BY BornType
      <3> HIDE DEF Born
      <3>2. Cardinality(Born) # 0 => nextSeq + Cardinality(Born) \in Born
        BY <1>1, <2>1, <3>1
      <3> QED BY <1>1, <3>2
    <2> QED BY <1>1, <2>1, <2>2, Limits DEF Agents
  <1>6. instances' \in [Agents -> {"absent", "active", "idle"}]
    BY <1>2, RootTypes DEF SpawnOne
  <1>7. queue' \in [Agents -> Seq(Requests)]
    <2>1. \A a \in Agents : <<<<call, a>>>> \in Seq(Requests)
      BY <1>1 DEF Requests
    <2> QED BY <1>2, <2>1, RootTypes DEF SpawnOne
  <1>8. driver' \in [Agents -> DriverSet]
    BY <1>2, DoingType DEF SpawnOne, TurnInv, TypeOK, DriverSet
  <1>9. engine' \in [Agents -> EngineSet]
    <2>1. NewEngine \in EngineSet
      BY DEF NewEngine, EngineSet, Phases
    <2> QED BY <1>2, <2>1 DEF SpawnOne, TurnInv, Shape
  <1>10. TypeOK' /\ Shape'
    BY <1>2, <1>3, <1>4, <1>5, <1>6, <1>7, <1>8, <1>9
    DEF TurnInv, TypeOK, Shape, CallSet, DriverSet, OutcomeSet
  <1>11. OwnTurns'
    <2> SUFFICES ASSUME NEW a \in Agents PROVE OwnTurn(a)'
      BY DEF OwnTurns
    <2>1. OwnTurn(a) /\ events'[a] = events[a]
      BY <1>2 DEF TurnInv, OwnTurns
    <2>2. CASE a \in Born
      <3>1. driver[a].is = "unborn"
        BY <1>1, <2>2 DEF TurnInv, Unborn
      <3>2. engine'[a] = NewEngine /\ driver'[a] = Doing("waiting")
        BY <1>2, <2>2 DEF SpawnOne
      <3> QED BY <2>1, <3>1, <3>2 DEF OwnTurn, NewEngine, Doing
    <2>3. CASE a \notin Born
      <3>1. engine'[a] = engine[a] /\ driver'[a] = driver[a]
        BY <1>2, <2>3 DEF SpawnOne
      <3> QED BY <2>1, <3>1 DEF OwnTurn
    <2> QED BY <2>2, <2>3
  <1>12. Unborn'
    <2> SUFFICES ASSUME NEW a \in Agents, a > nextSeq' PROVE driver'[a].is = "unborn"
      BY DEF Unborn
    <2>1. a \notin Born /\ a > nextSeq
      BY <1>1, RootTypes DEF Agents
    <2> QED BY <1>2, <2>1 DEF SpawnOne, TurnInv, Unborn
  <1> QED BY <1>10, <1>11, <1>12 DEF TurnInv

------------------------------------------------------------------------------
(* The ceiling                                                               *)

(* Only a spawn makes agents, and it counts those there are.                 *)
LEMMA CeilingStep ==
    ASSUME TurnInv, AtMostConcurrent, [Next]_vars
    PROVE  AtMostConcurrent'
  <1>1. IsFiniteSet(Alive) /\ Cardinality(Alive) \in Nat
    BY AliveFinite
  <1>2. CASE SpawnSubagents
    <2>1. /\ IsFiniteSet(Born) /\ Cardinality(Born) \in Nat
          /\ Cardinality(Born) <= MaxConcurrent - Cardinality(Alive)
      BY <1>2, BornType
    <2>2. Alive' = Alive \cup Born
      BY <1>2, BornType DEF SpawnSubagents, SpawnOne, Alive, Born
    <2>3. Cardinality(Alive') <= Cardinality(Alive) + Cardinality(Born)
      <3>1. Cardinality(Alive \cup Born)
                = Cardinality(Alive) + Cardinality(Born) - Cardinality(Alive \cap Born)
        BY <1>1, <2>1, FS_Union
      <3>2. Cardinality(Alive \cap Born) \in Nat
        BY <1>1, FS_Intersection, FS_CardinalityType
      <3> QED BY <1>1, <2>1, <2>2, <3>1, <3>2
    <2>4. Cardinality(Alive') \in Nat
      BY <1>1, <2>1, <2>2, FS_Union, FS_CardinalityType
    <2> QED BY <1>1, <2>1, <2>3, <2>4, Limits DEF AtMostConcurrent
  <1>3. CASE ~SpawnSubagents
    <2>1. Alive' \subseteq Alive
      BY <1>3, RootTypes DEF Next, RootNext, OtherTool, ToolReturns, Cancel, SpawnAgents,
         MessageAgent, EndAgent, ListAgents, Ask, MessageSubagent, HeldSendGoes, ListOrEnd,
         RollUpUsage, ReapIdle, SwitchSession, RootEnds, Timeout, Join, DriverNext, DriverTake,
         DriverFinish, DriverLosesEngine, DriverExit, EngineNext, EngineTakesInput, Spend,
         AskRoot, RootAnswers, Halt, EndsTurn, EngineDies, EngineEnds, EngineOnly, GrowsIdle,
         Alive, vars
    <2>2. Cardinality(Alive') <= Cardinality(Alive) /\ Cardinality(Alive') \in Nat
      BY <1>1, <2>1, FS_Subset, FS_CardinalityType
    <2> QED BY <1>1, <2>2, Limits DEF AtMostConcurrent
  <1> QED BY <1>2, <1>3

------------------------------------------------------------------------------
(* Every step keeps the invariant, the ceiling given.                        *)
LEMMA TurnStep ==
    ASSUME TurnInv, AtMostConcurrent, [Next]_vars
    PROVE  TurnInv'
  <1>1. CASE RootNext
    BY <1>1, ToolStep, RootStep, SendStep, SpawnStep DEF RootNext
  <1>2. ASSUME NEW r \in Requests, Timeout(r) PROVE TurnInv'
    <2>1. outcome' \in [Requests -> OutcomeSet]
      BY <1>2, RootTypes, OutcomeTypes DEF Timeout
    <2> QED BY <1>2, <2>1, RootTypes, RootOnly DEF Timeout
  <1>3. ASSUME NEW call \in Calls, Join(call) PROVE TurnInv'
    <2>1. outcome' \in [Requests -> OutcomeSet]
      BY <1>3, RootTypes, OutcomeTypes DEF Join
    <2>2. calls' \in [Calls -> CallSet]
      BY <1>3, RootTypes DEF Join, Reply, CallSet
    <2> QED BY <1>3, <2>1, <2>2, RootTypes, RootOnly DEF Join
  <1>4. ASSUME NEW a \in Agents, GrowsIdle(a) PROVE TurnInv'
    BY <1>4, RootTypes, RootOnly DEF GrowsIdle
  <1>5. CASE UNCHANGED vars
    BY <1>5, RootTypes, RootOnly DEF vars
  <1> QED BY <1>1, <1>2, <1>3, <1>4, <1>5, DriverStep, EngineStep DEF Next

(* An answer is written only for the request in the driver's hand, and the   *)
(* turn that ended is that request's.                                        *)
LEMMA AnswerStep ==
    ASSUME TurnInv, AnsweredByOwnTurn, [Next]_vars
    PROVE  AnsweredByOwnTurn'
  <1> SUFFICES ASSUME NEW r \in Requests, outcome'[r].is = "answered"
               PROVE  outcome'[r].turn = r
    BY DEF AnsweredByOwnTurn
  <1>1. outcome[r].is = "answered" => outcome[r].turn = r
    BY DEF AnsweredByOwnTurn
  <1>2. outcome \in [Requests -> OutcomeSet]
    BY RootTypes
  <1>3. CASE UNCHANGED outcome
    BY <1>1, <1>3
  <1>4. ASSUME NEW call, NEW requests, Await(call, requests) PROVE outcome'[r].turn = r
    BY <1>1, <1>4 DEF Await, Pending
  <1>5. ASSUME NEW a \in Agents, NEW used, NEW end, Finish(a, used, end),
               end.is = "answered" => end.turn = driver[a].turn
        PROVE  outcome'[r].turn = r
    <2>1. outcome' = [outcome EXCEPT ![driver[a].turn] = IF @ = Pending THEN end ELSE @]
      BY <1>5 DEF Finish
    <2>2. CASE r = driver[a].turn
      BY <1>1, <1>2, <1>5, <2>1, <2>2
    <2>3. CASE r # driver[a].turn
      BY <1>1, <1>2, <2>1, <2>3
    <2> QED BY <2>2, <2>3
  <1>6. CASE RootNext
    <2>1. CASE Cancel
      BY <2>1 DEF Cancel, Became
    <2>2. CASE SpawnSubagents
      <3>1. Await(Head(asks).call, {Head(asks).call} \X Born)
        BY <2>2 DEF SpawnSubagents, Born
      <3> QED BY <1>4, <3>1
    <2>3. CASE MessageSubagent
      <3>1. UNCHANGED outcome \/ \E call, requests : Await(call, requests)
        BY <2>3 DEF MessageSubagent
      <3> QED BY <1>3, <1>4, <3>1
    <2>4. CASE HeldSendGoes
      <3>1. Await(held[1], {held})
        BY <2>4 DEF HeldSendGoes
      <3> QED BY <1>4, <3>1
    <2>5. CASE OtherTool \/ ToolReturns \/ SpawnAgents \/ MessageAgent \/ EndAgent \/ ListAgents
      BY <1>3, <2>5
      DEF OtherTool, ToolReturns, SpawnAgents, MessageAgent, EndAgent, ListAgents, Ask
    <2>6. CASE ListOrEnd \/ RollUpUsage \/ ReapIdle \/ SwitchSession \/ RootEnds
      BY <1>3, <2>6 DEF ListOrEnd, RollUpUsage, ReapIdle, SwitchSession, RootEnds
    <2> QED BY <1>6, <2>1, <2>2, <2>3, <2>4, <2>5, <2>6 DEF RootNext
  <1>7. ASSUME NEW q \in Requests, Timeout(q) PROVE outcome'[r].turn = r
    BY <1>1, <1>2, <1>7 DEF Timeout, Became
  <1>8. ASSUME NEW call \in Calls, Join(call) PROVE outcome'[r].turn = r
    BY <1>1, <1>8 DEF Join, Became
  <1>9. ASSUME NEW a \in Agents, DriverNext(a) PROVE outcome'[r].turn = r
    <2>1. OwnTurn(a)
      BY DEF TurnInv, OwnTurns
    <2>2. CASE DriverTake(a)
      BY <1>1, <1>2, <2>2 DEF DriverTake, Became
    <2>3. CASE DriverFinish(a)
      <3> DEFINE end == Head(events[a])
                 came == IF end.ok THEN Answered(end.turn) ELSE Became("failed")
      <3>1. end.turn = driver[a].turn
        BY <2>1, <2>3, OnlyOne DEF DriverFinish, OwnTurn, TurnInv, Shape
      <3>2. Finish(a, end.used, came)
        BY <2>3 DEF DriverFinish
      <3>3. came.is = "answered" => came.turn = driver[a].turn
        BY <3>1 DEF Answered, Became
      <3> HIDE DEF came
      <3> QED BY <1>5, <3>2, <3>3
    <2>4. CASE DriverLosesEngine(a)
      <3>1. Finish(a, engine[a].spent, Became("failed")) /\ Became("failed").is # "answered"
        BY <2>4 DEF DriverLosesEngine, Became
      <3> QED BY <1>5, <3>1
    <2>5. CASE DriverExit(a)
      BY <1>3, <2>5 DEF DriverExit
    <2> QED BY <1>9, <2>2, <2>3, <2>4, <2>5 DEF DriverNext
  <1>10. ASSUME NEW a \in Agents, EngineNext(a) \/ GrowsIdle(a) PROVE outcome'[r].turn = r
    BY <1>3, <1>10
    DEF EngineNext, EngineTakesInput, Spend, AskRoot, RootAnswers, Halt, EndsTurn, EngineDies,
        EngineEnds, EngineOnly, GrowsIdle
  <1>11. CASE UNCHANGED vars
    BY <1>3, <1>11 DEF vars
  <1> QED BY <1>6, <1>7, <1>8, <1>9, <1>10, <1>11 DEF Next

(* No answer and no agent at first.                                          *)
LEMMA AnswerInit == Init => AnsweredByOwnTurn /\ AtMostConcurrent
  <1> SUFFICES ASSUME Init PROVE AnsweredByOwnTurn /\ AtMostConcurrent
    OBVIOUS
  <1>1. AnsweredByOwnTurn
    BY DEF Init, AnsweredByOwnTurn, Became
  <1>2. Alive = {}
    BY DEF Init, Alive
  <1> QED BY <1>1, <1>2, FS_EmptySet, Limits DEF AtMostConcurrent

------------------------------------------------------------------------------
(* Sums                                                                      *)

(* The partial sums of a family.                                             *)
Sums(f, n, s) == s = [i \in 0..n |-> IF i = 0 THEN 0 ELSE s[i - 1] + f[i]]

(* What holds of zero, and after each number it holds of, holds of all.      *)
LEMMA Climb ==
    ASSUME NEW T, 0 \in T, \A n \in Nat : n \in T => n + 1 \in T
    PROVE  Nat \subseteq T
  <1> DEFINE D == Nat \ T
             R == {ss \in Nat \X Nat : ss[1] < ss[2]}
  <1> SUFFICES ASSUME D # {} PROVE FALSE
    OBVIOUS
  <1>1. IsWellFoundedOn(R, Nat)
    BY NatLessThanWellFounded DEF OpToRel
  <1> HIDE DEF R
  <1>2. PICK d \in D : \A y \in D : <<y, d>> \notin R
    BY <1>1, WFMin
  <1>3. d \in Nat /\ d # 0
    OBVIOUS
  <1>4. d - 1 \in Nat /\ d - 1 < d /\ (d - 1) + 1 = d
    BY <1>3
  <1>5. d - 1 \in T
    BY <1>2, <1>3, <1>4 DEF R
  <1>6. d \in T
    BY <1>4, <1>5
  <1> QED BY <1>2, <1>6

(* Every family of numbers has partial sums. *)
LEMMA SumsExist ==
    ASSUME NEW f, NEW n \in Nat, \A i \in 1..n : f[i] \in Int
    PROVE  \E s : Sums(f, n, s)
  <1> DEFINE T == {k \in Nat : k <= n => \E s : Sums(f, k, s)}
  <1>1. 0 \in T
    <2>1. Sums(f, 0, [i \in 0..0 |-> 0])
      BY DEF Sums
    <2> QED BY <2>1
  <1>2. \A k \in Nat : k \in T => k + 1 \in T
    <2> SUFFICES ASSUME NEW k \in Nat, k + 1 <= n, k \in T PROVE \E s : Sums(f, k + 1, s)
      OBVIOUS
    <2>1. PICK s : Sums(f, k, s)
      OBVIOUS
    <2> DEFINE t == [i \in 0..(k + 1) |-> IF i = k + 1 THEN s[k] + f[k + 1] ELSE s[i]]
    <2>2. \A i \in 0..k : s[i] = IF i = 0 THEN 0 ELSE s[i - 1] + f[i]
      BY <2>1 DEF Sums
    <2>3. \A i \in 0..(k + 1) : t[i] = IF i = 0 THEN 0 ELSE t[i - 1] + f[i]
      BY <2>2
    <2>4. Sums(f, k + 1, t)
      BY <2>3 DEF Sums
    <2> QED BY <2>4
  <1> HIDE DEF T
  <1>3. n \in T
    BY <1>1, <1>2, Climb
  <1> QED BY <1>3 DEF T

(* The partial sums are those of SumOf. *)
LEMMA SumIs ==
    ASSUME NEW f, NEW n \in Nat, \A i \in 1..n : f[i] \in Int
    PROVE  \E s : /\ \A k \in 0..n : s[k] = IF k = 0 THEN 0 ELSE s[k - 1] + f[k]
                  /\ SumOf(f, n) = s[n]
  <1> DEFINE s == CHOOSE t : Sums(f, n, t)
  <1>1. SumOf(f, n) = s[n]
    BY DEF SumOf, Sums
  <1>2. Sums(f, n, s)
    BY SumsExist
  <1> HIDE DEF s
  <1>3. \A k \in 0..n : s[k] = IF k = 0 THEN 0 ELSE s[k - 1] + f[k]
    BY <1>2 DEF Sums
  <1> QED BY <1>1, <1>3

(* A family of which one member grows by d.                                  *)
LEMMA SumChanged ==
    ASSUME NEW f, NEW g, NEW n \in Nat, NEW k \in 1..n, NEW d \in Int,
           \A i \in 1..n : f[i] \in Int,
           \A i \in 1..n : g[i] = IF i = k THEN f[i] + d ELSE f[i]
    PROVE  SumOf(g, n) = SumOf(f, n) + d
  <1>1. PICK s : /\ \A i \in 0..n : s[i] = IF i = 0 THEN 0 ELSE s[i - 1] + f[i]
                 /\ SumOf(f, n) = s[n]
    BY SumIs
  <1>2. \A i \in 1..n : g[i] \in Int
    OBVIOUS
  <1>3. PICK t : /\ \A i \in 0..n : t[i] = IF i = 0 THEN 0 ELSE t[i - 1] + g[i]
                 /\ SumOf(g, n) = t[n]
    BY <1>2, SumIs
  <1> DEFINE T == {i \in Nat : i <= n => s[i] \in Int /\ t[i] = s[i] + (IF k <= i THEN d ELSE 0)}
  <1>4. 0 \in T
    BY <1>1, <1>3
  <1>5. \A i \in Nat : i \in T => i + 1 \in T
    <2> SUFFICES ASSUME NEW i \in Nat, i + 1 <= n, i \in T PROVE i + 1 \in T
      OBVIOUS
    <2>1. s[i + 1] = s[i] + f[i + 1] /\ t[i + 1] = t[i] + g[i + 1]
      BY <1>1, <1>3
    <2>2. s[i] \in Int /\ t[i] = s[i] + (IF k <= i THEN d ELSE 0)
      OBVIOUS
    <2>3. f[i + 1] \in Int /\ g[i + 1] = f[i + 1] + (IF i + 1 = k THEN d ELSE 0)
      OBVIOUS
    <2>4. s[i + 1] \in Int /\ t[i + 1] = s[i + 1] + (IF k <= i + 1 THEN d ELSE 0)
      BY <2>1, <2>2, <2>3
    <2> QED BY <2>4
  <1> HIDE DEF T
  <1>6. n \in T
    BY <1>4, <1>5, Climb
  <1> QED BY <1>1, <1>3, <1>6 DEF T

(* A sum of numbers is a number.                                             *)
LEMMA SumType ==
    ASSUME NEW f, NEW n \in Nat, \A i \in 1..n : f[i] \in Int
    PROVE  SumOf(f, n) \in Int
  <1>1. PICK s : /\ \A i \in 0..n : s[i] = IF i = 0 THEN 0 ELSE s[i - 1] + f[i]
                 /\ SumOf(f, n) = s[n]
    BY SumIs
  <1> DEFINE T == {i \in Nat : i <= n => s[i] \in Int}
  <1>2. 0 \in T
    BY <1>1
  <1>3. \A i \in Nat : i \in T => i + 1 \in T
    BY <1>1
  <1> HIDE DEF T
  <1>4. n \in T
    BY <1>2, <1>3, Climb
  <1> QED BY <1>1, <1>4 DEF T

(* The sum of differences is the difference of the sums.                     *)
LEMMA SumDifference ==
    ASSUME NEW f, NEW g, NEW h, NEW n \in Nat,
           \A i \in 1..n : f[i] \in Int /\ g[i] \in Int /\ h[i] = f[i] - g[i]
    PROVE  SumOf(h, n) = SumOf(f, n) - SumOf(g, n)
  <1>1. PICK s : /\ \A i \in 0..n : s[i] = IF i = 0 THEN 0 ELSE s[i - 1] + f[i]
                 /\ SumOf(f, n) = s[n]
    BY SumIs
  <1>2. PICK t : /\ \A i \in 0..n : t[i] = IF i = 0 THEN 0 ELSE t[i - 1] + g[i]
                 /\ SumOf(g, n) = t[n]
    BY SumIs
  <1>3. \A i \in 1..n : h[i] \in Int
    OBVIOUS
  <1>4. PICK u : /\ \A i \in 0..n : u[i] = IF i = 0 THEN 0 ELSE u[i - 1] + h[i]
                 /\ SumOf(h, n) = u[n]
    BY <1>3, SumIs
  <1> DEFINE T == {i \in Nat : i <= n => s[i] \in Int /\ t[i] \in Int /\ u[i] = s[i] - t[i]}
  <1>5. 0 \in T
    BY <1>1, <1>2, <1>4
  <1>6. \A i \in Nat : i \in T => i + 1 \in T
    <2> SUFFICES ASSUME NEW i \in Nat, i + 1 <= n, i \in T PROVE i + 1 \in T
      OBVIOUS
    <2>1. /\ s[i + 1] = s[i] + f[i + 1] /\ t[i + 1] = t[i] + g[i + 1]
          /\ u[i + 1] = u[i] + h[i + 1]
      BY <1>1, <1>2, <1>4
    <2>2. s[i] \in Int /\ t[i] \in Int /\ u[i] = s[i] - t[i]
      OBVIOUS
    <2>3. f[i + 1] \in Int /\ g[i + 1] \in Int /\ h[i + 1] = f[i + 1] - g[i + 1]
      OBVIOUS
    <2>4. s[i + 1] \in Int /\ t[i + 1] \in Int /\ u[i + 1] = s[i + 1] - t[i + 1]
      BY <2>1, <2>2, <2>3
    <2> QED BY <2>4
  <1> HIDE DEF T
  <1>7. n \in T
    BY <1>5, <1>6, Climb
  <1> QED BY <1>1, <1>2, <1>4, <1>7 DEF T

(* Nothing adds up to nothing.                                               *)
LEMMA SumOfZeros ==
    ASSUME NEW f, NEW n \in Nat, \A i \in 1..n : f[i] = 0
    PROVE  SumOf(f, n) = 0
  <1>1. \A i \in 1..n : f[i] \in Int /\ f[i] = f[i] - f[i]
    OBVIOUS
  <1>2. SumOf(f, n) = SumOf(f, n) - SumOf(f, n) /\ SumOf(f, n) \in Int
    BY <1>1, SumDifference, SumType
  <1> QED BY <1>2

(* A family that goes on by one member.                                      *)
LEMMA SumAdded ==
    ASSUME NEW f, NEW g, NEW n \in Nat, \A i \in 1..n : f[i] \in Int /\ g[i] = f[i],
           g[n + 1] \in Int
    PROVE  SumOf(g, n + 1) = SumOf(f, n) + g[n + 1]
  <1>1. PICK s : /\ \A i \in 0..n : s[i] = IF i = 0 THEN 0 ELSE s[i - 1] + f[i]
                 /\ SumOf(f, n) = s[n]
    BY SumIs
  <1>2. \A i \in 1..(n + 1) : g[i] \in Int
    OBVIOUS
  <1>3. PICK t : /\ \A i \in 0..(n + 1) : t[i] = IF i = 0 THEN 0 ELSE t[i - 1] + g[i]
                 /\ SumOf(g, n + 1) = t[n + 1]
    BY <1>2, SumIs
  <1> DEFINE T == {i \in Nat : i <= n => t[i] = s[i]}
  <1>4. 0 \in T
    BY <1>1, <1>3
  <1>5. \A i \in Nat : i \in T => i + 1 \in T
    <2> SUFFICES ASSUME NEW i \in Nat, i + 1 <= n, i \in T PROVE t[i + 1] = s[i + 1]
      OBVIOUS
    <2>1. s[i + 1] = s[i] + f[i + 1] /\ t[i + 1] = t[i] + g[i + 1]
      BY <1>1, <1>3
    <2> QED BY <2>1
  <1> HIDE DEF T
  <1>6. n \in T
    BY <1>4, <1>5, Climb
  <1>7. t[n + 1] = t[n] + g[n + 1]
    BY <1>3
  <1> QED BY <1>1, <1>3, <1>6, <1>7 DEF T

(* A family that lost its first member.                                      *)
LEMMA SumTaken ==
    ASSUME NEW f, NEW g, NEW n \in Nat, \A i \in 1..(n + 1) : f[i] \in Int,
           \A i \in 1..n : g[i] = f[i + 1]
    PROVE  SumOf(f, n + 1) = f[1] + SumOf(g, n)
  <1>1. PICK s : /\ \A i \in 0..(n + 1) : s[i] = IF i = 0 THEN 0 ELSE s[i - 1] + f[i]
                 /\ SumOf(f, n + 1) = s[n + 1]
    BY SumIs
  <1>2. \A i \in 1..n : g[i] \in Int
    OBVIOUS
  <1>3. PICK t : /\ \A i \in 0..n : t[i] = IF i = 0 THEN 0 ELSE t[i - 1] + g[i]
                 /\ SumOf(g, n) = t[n]
    BY <1>2, SumIs
  <1> DEFINE T == {i \in Nat : i <= n => t[i] \in Int /\ s[i + 1] = f[1] + t[i]}
  <1>4. 0 \in T
    <2>1. s[0] = 0 /\ s[1] = s[0] + f[1] /\ t[0] = 0 /\ f[1] \in Int
      BY <1>1, <1>3
    <2> QED BY <2>1
  <1>5. \A i \in Nat : i \in T => i + 1 \in T
    <2> SUFFICES ASSUME NEW i \in Nat, i + 1 <= n, i \in T PROVE i + 1 \in T
      OBVIOUS
    <2>1. s[(i + 1) + 1] = s[i + 1] + f[(i + 1) + 1] /\ t[i + 1] = t[i] + g[i + 1]
      BY <1>1, <1>3
    <2>2. f[1] \in Int /\ g[i + 1] \in Int /\ g[i + 1] = f[(i + 1) + 1]
      BY <1>2
    <2>3. t[i] \in Int /\ s[i + 1] = f[1] + t[i]
      OBVIOUS
    <2>4. t[i + 1] \in Int /\ s[(i + 1) + 1] = f[1] + t[i + 1]
      BY <2>1, <2>2, <2>3
    <2> QED BY <2>4
  <1> HIDE DEF T
  <1>6. n \in T
    BY <1>4, <1>5, Climb
  <1> QED BY <1>1, <1>3, <1>6 DEF T

------------------------------------------------------------------------------
(* The account of usage                                                      *)

(* What a driver reported of an agent is what the agent spent at an earlier  *)
(* time; a turn's end on its way says what was spent in between; before its  *)
(* birth an agent spends nothing.                                            *)
InOrder(a) ==
    /\ seen[a] <= engine[a].spent
    /\ events[a] # <<>> => seen[a] <= events[a][1].used /\ events[a][1].used <= engine[a].spent
    /\ a > nextSeq => engine[a].phase = "unborn" /\ engine[a].spent = 0
AllInOrder == \A a \in Agents : InOrder(a)

(* What was reported is in a session's total or in the channel.              *)
Balance == root # "gone" => SumOf(total, MaxSessions) + SumOf(Reported, Len(asks))
                                = SumOf(seen, MaxSpawned)

AccountInv == AllInOrder /\ Balance

(* What an ask counts for.                                                   *)
Amount(ask) == IF ask.ask.type = "usage" THEN ask.ask.amount ELSE 0

(* The numbers that are summed.                                              *)
LEMMA Numbers ==
    ASSUME TurnInv
    PROVE  /\ \A s \in 1..MaxSessions : total[s] \in Int
           /\ \A a \in 1..MaxSpawned : seen[a] \in Nat /\ engine[a].spent \in Nat
           /\ Len(asks) \in Nat /\ DOMAIN asks = 1..Len(asks)
           /\ \A i \in 1..Len(asks) : Reported[i] = Amount(asks[i]) /\ Reported[i] \in Int
  <1>1. \A s \in 1..MaxSessions : total[s] \in Int
    BY RootTypes
  <1>2. \A a \in 1..MaxSpawned : seen[a] \in Nat /\ engine[a].spent \in Nat
    BY DEF TurnInv, TypeOK, Shape, EngineSet, Agents
  <1>3. asks \in Seq(AskSet)
    BY RootTypes
  <1>4. Len(asks) \in Nat /\ DOMAIN asks = 1..Len(asks)
    BY <1>3
  <1>5. \A i \in 1..Len(asks) : asks[i] \in AskSet
    BY <1>3, ElementOfSeq
  <1>6. \A i \in 1..Len(asks) : Amount(asks[i]) \in Int
    BY <1>5, AskFields DEF Amount
  <1>7. \A i \in 1..Len(asks) : Reported[i] = Amount(asks[i])
    BY <1>4 DEF Reported, Amount
  <1> QED BY <1>1, <1>2, <1>4, <1>6, <1>7

(* The channel gets one more ask, or one less.                               *)
LEMMA ChannelAdds ==
    ASSUME TurnInv, TurnInv', NEW ask, asks' = Append(asks, ask)
    PROVE  SumOf(Reported, Len(asks))' = SumOf(Reported, Len(asks)) + Amount(ask)
  <1>1. asks \in Seq(AskSet) /\ Len(asks) \in Nat
    BY RootTypes
  <1>2. /\ Len(asks') = Len(asks) + 1 /\ asks'[Len(asks) + 1] = ask
        /\ \A i \in 1..Len(asks) : asks'[i] = asks[i]
        /\ DOMAIN asks' = 1..(Len(asks) + 1)
    BY <1>1
  <1>3. \A i \in 1..(Len(asks) + 1) : Reported'[i] = Amount(asks'[i])
    BY <1>2 DEF Reported, Amount
  <1>4. \A i \in 1..Len(asks) : Reported[i] \in Int /\ Reported[i] = Amount(asks[i])
    BY Numbers
  <1>5. Amount(ask) \in Int
    <2>1. asks' \in Seq(AskSet)
      BY DEF TurnInv, Shape
    <2>2. ask \in AskSet
      BY <1>1, <1>2, <2>1, ElementOfSeq
    <2> QED BY <2>2, AskFields DEF Amount
  <1>6. Reported'[Len(asks) + 1] \in Int
    BY <1>1, <1>2, <1>3, <1>5
  <1>7. \A i \in 1..Len(asks) : Reported[i] \in Int /\ Reported'[i] = Reported[i]
    BY <1>1, <1>2, <1>3, <1>4
  <1>8. SumOf(Reported', Len(asks) + 1) = SumOf(Reported, Len(asks)) + Reported'[Len(asks) + 1]
    BY <1>1, <1>6, <1>7, SumAdded
  <1>9. Reported'[Len(asks) + 1] = Amount(ask)
    BY <1>1, <1>2, <1>3
  <1>10. SumOf(Reported, Len(asks))' = SumOf(Reported', Len(asks'))
    OBVIOUS
  <1> QED BY <1>2, <1>8, <1>9, <1>10

(* The root serves the head of its channel.                                  *)
LEMMA ChannelLoses ==
    ASSUME TurnInv, asks # <<>>, asks' = Tail(asks)
    PROVE  /\ SumOf(Reported, Len(asks)) = SumOf(Reported, Len(asks))' + Amount(Head(asks))
           /\ SumOf(Reported, Len(asks))' \in Int
  <1>1. asks \in Seq(AskSet)
    BY RootTypes
  <1>2. Len(asks) \in Nat \ {0}
    BY <1>1, EmptySeq
  <1>3. PICK n \in Nat : Len(asks) = n + 1
    <2>1. Len(asks) - 1 \in Nat /\ Len(asks) = (Len(asks) - 1) + 1
      BY <1>2
    <2> QED BY <2>1
  <1>4. /\ Tail(asks) \in Seq(AskSet) /\ Len(asks') = n /\ Head(asks) = asks[1]
        /\ DOMAIN asks' = 1..n
        /\ \A i \in 1..n : asks'[i] = asks[i + 1]
    BY <1>1, <1>3, HeadTailProperties
  <1>5. \A i \in 1..(n + 1) : Reported[i] \in Int /\ Reported[i] = Amount(asks[i])
    BY <1>3, Numbers
  <1>6. \A i \in 1..n : Reported'[i] = Amount(asks'[i])
    BY <1>4 DEF Reported, Amount
  <1>7. \A i \in 1..n : Reported'[i] = Reported[i + 1]
    BY <1>4, <1>5, <1>6
  <1>8. SumOf(Reported, n + 1) = Reported[1] + SumOf(Reported', n)
    BY <1>5, <1>7, SumTaken
  <1>9. \A i \in 1..n : Reported'[i] \in Int
    BY <1>5, <1>7
  <1>10. SumOf(Reported', n) \in Int
    BY <1>9, SumType
  <1>11. Reported[1] = Amount(Head(asks)) /\ Amount(Head(asks)) \in Int
    BY <1>4, <1>5
  <1>12. SumOf(Reported, Len(asks))' = SumOf(Reported', n)
    BY <1>4
  <1> QED BY <1>3, <1>8, <1>10, <1>11, <1>12

(* The sums are numbers.                                                     *)
LEMMA SumsAreNumbers ==
    ASSUME TurnInv
    PROVE  /\ SumOf(total, MaxSessions) \in Int /\ SumOf(Reported, Len(asks)) \in Int
           /\ SumOf(seen, MaxSpawned) \in Int
  <1>1. SumOf(total, MaxSessions) \in Int
    BY Numbers, SumType, Limits
  <1>2. SumOf(Reported, Len(asks)) \in Int
    <2>1. Len(asks) \in Nat /\ \A i \in 1..Len(asks) : Reported[i] \in Int
      BY Numbers
    <2> QED BY <2>1, SumType
  <1>3. SumOf(seen, MaxSpawned) \in Int
    BY Numbers, SumType, Limits
  <1> QED BY <1>1, <1>2, <1>3

(* A step that reports nothing and takes no report from the channel.         *)
LEMMA NothingCounted ==
    ASSUME TurnInv, TurnInv', Balance, UNCHANGED <<total, seen>>, root' # "gone" => root # "gone",
           \/ UNCHANGED asks
           \/ root' = "gone"
           \/ \E ask : asks' = Append(asks, ask) /\ ask.ask.type # "usage"
           \/ asks # <<>> /\ asks' = Tail(asks) /\ Head(asks).ask.type # "usage"
    PROVE  Balance'
  <1>1. CASE root' = "gone"
    BY <1>1 DEF Balance
  <1>2. ASSUME SumOf(Reported, Len(asks))' = SumOf(Reported, Len(asks)) PROVE Balance'
    BY <1>2 DEF Balance
  <1>3. CASE UNCHANGED asks
    <2>1. Reported' = Reported
      BY <1>3 DEF Reported
    <2> QED BY <1>2, <1>3, <2>1
  <1>4. ASSUME NEW ask, asks' = Append(asks, ask), ask.ask.type # "usage" PROVE Balance'
    <2>1. SumOf(Reported, Len(asks))' = SumOf(Reported, Len(asks)) + 0
      BY <1>4, ChannelAdds DEF Amount
    <2> QED BY <1>2, <2>1, SumsAreNumbers
  <1>5. CASE asks # <<>> /\ asks' = Tail(asks) /\ Head(asks).ask.type # "usage"
    <2>1. /\ SumOf(Reported, Len(asks)) = SumOf(Reported, Len(asks))' + 0
          /\ SumOf(Reported, Len(asks))' \in Int
      BY <1>5, ChannelLoses DEF Amount
    <2> QED BY <1>2, <2>1
  <1> QED BY <1>1, <1>3, <1>4, <1>5

(* A driver reports exactly what was spent since its last report.            *)
LEMMA FinishCounts ==
    ASSUME TurnInv, TurnInv', Balance, NEW a \in Agents, NEW used \in Nat, NEW ended,
           Finish(a, used, ended), seen[a] <= used, UNCHANGED <<root, total>>
    PROVE  Balance'
  <1>1. CASE root = "gone"
    BY <1>1 DEF Balance
  <1>2. CASE root # "gone"
    <2>1. seen[a] \in Nat /\ Delta(a, used) \in Nat /\ Delta(a, used) = used - seen[a]
      BY DEF TurnInv, TypeOK, Delta
    <2>2. SumOf(seen', MaxSpawned) = SumOf(seen, MaxSpawned) + Delta(a, used)
      <3> DEFINE d == Delta(a, used)
      <3>1. seen \in [1..MaxSpawned -> Nat] /\ seen' = [seen EXCEPT ![a] = used]
        BY DEF Finish, TurnInv, TypeOK, Agents
      <3>2. d \in Int /\ MaxSpawned \in Nat /\ used = seen[a] + d
        BY <2>1, Limits
      <3> HIDE DEF d
      <3>3. \A b \in 1..MaxSpawned : seen[b] \in Int
        BY <3>1
      <3>4. \A b \in 1..MaxSpawned : seen'[b] = IF b = a THEN seen[b] + d ELSE seen[b]
        BY <3>1, <3>2
      <3>5. SumOf(seen', MaxSpawned) = SumOf(seen, MaxSpawned) + d
        <4>1. a \in 1..MaxSpawned /\ d \in Int /\ MaxSpawned \in Nat
          BY <3>2 DEF Agents
        <4> QED BY <3>3, <3>4, <4>1, SumChanged
      <3> QED BY <3>5 DEF d
    <2>3. SumOf(Reported, Len(asks))' = SumOf(Reported, Len(asks)) + Delta(a, used)
      <3>1. CASE Delta(a, used) > 0
        <4> DEFINE ask == [call |-> 0, ask |-> [type |-> "usage", amount |-> Delta(a, used)]]
        <4>1. asks' = Append(asks, ask)
          BY <1>2, <3>1 DEF Finish
        <4>2. Amount(ask) = Delta(a, used)
          BY DEF Amount
        <4> HIDE DEF ask
        <4> QED BY <4>1, <4>2, ChannelAdds
      <3>2. CASE Delta(a, used) = 0
        <4>1. UNCHANGED asks
          BY <3>2 DEF Finish
        <4>2. Reported' = Reported
          BY <4>1 DEF Reported
        <4> QED BY <3>2, <4>1, <4>2, SumsAreNumbers
      <3> QED BY <2>1, <3>1, <3>2
    <2>4. SumOf(seen, MaxSpawned)' = SumOf(seen', MaxSpawned)
      OBVIOUS
    <2> QED BY <1>2, <2>1, <2>2, <2>3, <2>4, SumsAreNumbers DEF Balance
  <1> QED BY <1>1, <1>2

(* What the root takes from its channel it adds to one session's total.      *)
LEMMA RollUpCounts ==
    ASSUME TurnInv, Balance, RollUpUsage
    PROVE  Balance'
  <1> DEFINE d == Head(asks).ask.amount
  <1>1. d \in Nat /\ Amount(Head(asks)) = d
    BY ServedType, AskFields DEF RollUpUsage, ServesAsks, Amount
  <1>2. /\ SumOf(Reported, Len(asks)) = SumOf(Reported, Len(asks))' + d
        /\ SumOf(Reported, Len(asks))' \in Int
    BY <1>1, ChannelLoses DEF RollUpUsage, ServesAsks
  <1>3. SumOf(total', MaxSessions) = SumOf(total, MaxSessions) + d
    <2>1. session \in 1..MaxSessions /\ total \in [1..MaxSessions -> Nat]
      BY RootTypes
    <2>2. total' = [total EXCEPT ![session] = @ + d]
      BY DEF RollUpUsage
    <2> HIDE DEF d
    <2>3. \A s \in 1..MaxSessions : total[s] \in Int
      BY <2>1
    <2>4. \A s \in 1..MaxSessions : total'[s] = IF s = session THEN total[s] + d ELSE total[s]
      BY <1>1, <2>1, <2>2
    <2>5. MaxSessions \in Nat /\ d \in Int
      BY <1>1, Limits
    <2> QED BY <2>1, <2>3, <2>4, <2>5, SumChanged
  <1>4. UNCHANGED <<root, seen>> /\ root # "gone"
    BY DEF RollUpUsage, ServesAsks
  <1> HIDE DEF d
  <1>5. SumOf(total, MaxSessions)' = SumOf(total', MaxSessions)
    OBVIOUS
  <1> QED BY <1>1, <1>2, <1>3, <1>4, <1>5, SumsAreNumbers DEF Balance

(* A step of one agent's engine or driver keeps what is said of the others.  *)
LEMMA OthersInOrder ==
    ASSUME TurnInv, AllInOrder, NEW a \in Agents, nextSeq' = nextSeq,
           \A b \in Agents \ {a} :
               seen'[b] = seen[b] /\ engine'[b] = engine[b] /\ events'[b] = events[b],
           InOrder(a)'
    PROVE  AllInOrder'
  <1>1. \A b \in Agents \ {a} : InOrder(b)'
    BY DEF AllInOrder, InOrder
  <1> QED BY <1>1 DEF AllInOrder

(* An engine only adds to what it spent, and says at a turn's end how much   *)
(* that is.                                                                  *)
LEMMA EngineInOrder ==
    ASSUME TurnInv, AllInOrder, NEW a \in Agents, EngineNext(a)
    PROVE  AllInOrder'
  <1>1. /\ engine \in [Agents -> EngineSet] /\ events \in [Agents -> Seq(EndSet)]
        /\ engine[a] \in EngineSet /\ engine[a].spent \in Nat /\ seen[a] \in Nat
        /\ InOrder(a) /\ OwnTurn(a) /\ nextSeq' = nextSeq /\ seen' = seen
    BY DEF TurnInv, TypeOK, Shape, EngineSet, AllInOrder, OwnTurns, EngineNext, EngineTakesInput,
           Spend, AskRoot, RootAnswers, Halt, EndsTurn, EngineDies, EngineEnds, EngineOnly
  <1>2. a <= nextSeq
    <2>1. engine[a].phase # "unborn"
      <3>1. engine[a].phase \in {"idle", "running", "asking"}
        BY DEF EngineNext, EngineTakesInput, Spend, AskRoot, RootAnswers, Halt, EndsTurn,
               EngineDies, EngineEnds
      <3> QED BY <3>1
    <2> QED BY <1>1, <2>1, RootTypes DEF InOrder, Agents
  <1>3. CASE EndsTurn(a)
    <2>1. /\ events[a] = <<>>
          /\ engine' = [engine EXCEPT ![a].phase = "idle", ![a].input = Tail(@)]
      BY <1>1, <1>3 DEF EndsTurn, OwnTurn
    <2>2. /\ engine'[a].spent = engine[a].spent
          /\ \A b \in Agents \ {a} : engine'[b] = engine[b]
      BY <1>1, <2>1 DEF EngineSet
    <2>3. PICK ok \in BOOLEAN : events' = [events EXCEPT ![a] = Append(@,
                 [turn |-> Head(engine[a].input), used |-> engine[a].spent, ok |-> ok])]
      BY <1>3 DEF EndsTurn
    <2>4. /\ events'[a][1].used = engine[a].spent
          /\ \A b \in Agents \ {a} : events'[b] = events[b]
      BY <1>1, <2>1, <2>3
    <2>5. InOrder(a)'
      BY <1>1, <1>2, <2>2, <2>4, RootTypes DEF InOrder, Agents
    <2> QED BY <1>1, <2>2, <2>4, <2>5, OthersInOrder
  <1>4. CASE Spend(a)
    <2>1. engine' = [engine EXCEPT ![a].spent = @ + 1] /\ events' = events
      BY <1>4 DEF Spend
    <2>2. engine'[a].spent = engine[a].spent + 1
          /\ \A b \in Agents \ {a} : engine'[b] = engine[b]
      BY <1>1, <2>1 DEF EngineSet
    <2>3. events[a] # <<>> => events[a][1].used \in Nat
      <3> SUFFICES ASSUME events[a] # <<>> PROVE events[a][1].used \in Nat
        OBVIOUS
      <3>1. Head(events[a]) \in EndSet /\ Head(events[a]) = events[a][1]
        BY <1>1
      <3> QED BY <3>1 DEF EndSet
    <2>4. InOrder(a)'
      BY <1>1, <1>2, <2>1, <2>2, <2>3, RootTypes DEF InOrder, Agents
    <2> QED BY <1>1, <2>1, <2>2, <2>4, OthersInOrder
  <1>5. CASE EngineTakesInput(a) \/ AskRoot(a) \/ RootAnswers(a) \/ Halt(a) \/ EngineDies(a)
               \/ EngineEnds(a)
    <2>1. events' = events /\ \E phase : engine' = [engine EXCEPT ![a].phase = phase]
      BY <1>5 DEF EngineTakesInput, AskRoot, RootAnswers, Halt, EngineDies, EngineEnds, SetPhase
    <2>2. engine'[a].spent = engine[a].spent
          /\ \A b \in Agents \ {a} : engine'[b] = engine[b]
      BY <1>1, <2>1 DEF EngineSet
    <2>3. InOrder(a)'
      BY <1>1, <1>2, <2>1, <2>2, RootTypes DEF InOrder, Agents
    <2> QED BY <1>1, <2>1, <2>2, <2>3, OthersInOrder
  <1> QED BY <1>3, <1>4, <1>5 DEF EngineNext

(* A driver takes what an end says for what is reported from now on.         *)
LEMMA DriverInOrder ==
    ASSUME TurnInv, TurnInv', AllInOrder, Balance, NEW a \in Agents, DriverNext(a)
    PROVE  AllInOrder' /\ Balance'
  <1>1. /\ engine \in [Agents -> EngineSet] /\ events \in [Agents -> Seq(EndSet)]
        /\ seen \in [Agents -> Nat] /\ engine[a] \in EngineSet /\ engine[a].spent \in Nat
        /\ InOrder(a) /\ OwnTurn(a)
        /\ UNCHANGED <<root, total, nextSeq>>
    BY DEF TurnInv, TypeOK, Shape, EngineSet, AllInOrder, OwnTurns, DriverNext, DriverTake,
           DriverFinish, DriverLosesEngine, DriverExit
  <1>2. CASE DriverTake(a)
    <2>1. UNCHANGED <<events, seen, asks>>
      BY <1>2 DEF DriverTake
    <2>2. engine' = engine \/ \E i : engine' = [engine EXCEPT ![a].input = i]
      BY <1>2 DEF DriverTake
    <2>3. /\ engine'[a].spent = engine[a].spent /\ engine'[a].phase = engine[a].phase
          /\ \A b \in Agents \ {a} : engine'[b] = engine[b]
      BY <1>1, <2>2 DEF EngineSet
    <2>4. InOrder(a)'
      BY <1>1, <2>1, <2>3 DEF InOrder
    <2> QED BY <1>1, <2>1, <2>3, <2>4, OthersInOrder, NothingCounted
  <1>3. CASE DriverFinish(a)
    <2> DEFINE end == Head(events[a])
               came == IF end.ok THEN Answered(end.turn) ELSE Became("failed")
    <2>1. /\ events[a] # <<>> /\ events[a] \in Seq(EndSet) /\ Len(events[a]) = 1
          /\ end = events[a][1]
      BY <1>1, <1>3, OnlyOne DEF DriverFinish, OwnTurn
    <2>2. Tail(events[a]) = <<>> /\ end \in EndSet
      BY <2>1, OnlyOne
    <2>3. end.used \in Nat /\ seen[a] <= end.used /\ end.used <= engine[a].spent
      BY <1>1, <2>1, <2>2 DEF InOrder, EndSet
    <2>4. Finish(a, end.used, came) /\ engine' = engine
          /\ events' = [events EXCEPT ![a] = Tail(@)]
      BY <1>3 DEF DriverFinish
    <2> HIDE DEF came, end
    <2>5. Balance'
      BY <1>1, <2>3, <2>4, FinishCounts
    <2>6. /\ seen'[a] = end.used /\ events'[a] = <<>>
          /\ \A b \in Agents \ {a} : seen'[b] = seen[b] /\ events'[b] = events[b]
      BY <1>1, <2>2, <2>4 DEF Finish
    <2>7. InOrder(a)'
      BY <1>1, <2>3, <2>4, <2>6 DEF InOrder
    <2> QED BY <1>1, <2>4, <2>5, <2>6, <2>7, OthersInOrder
  <1>4. CASE DriverLosesEngine(a)
    <2>1. Finish(a, engine[a].spent, Became("failed")) /\ engine' = engine /\ events' = events
          /\ events[a] = <<>>
      BY <1>4 DEF DriverLosesEngine
    <2>2. seen[a] <= engine[a].spent
      BY <1>1 DEF InOrder
    <2>3. Balance'
      BY <1>1, <2>1, <2>2, FinishCounts
    <2>4. /\ seen'[a] = engine[a].spent
          /\ \A b \in Agents \ {a} : seen'[b] = seen[b]
      BY <1>1, <2>1 DEF Finish
    <2>5. InOrder(a)'
      BY <1>1, <2>1, <2>4 DEF InOrder
    <2> QED BY <1>1, <2>1, <2>3, <2>4, <2>5, OthersInOrder
  <1>5. CASE DriverExit(a)
    <2>1. UNCHANGED <<engine, events, seen, asks>>
      BY <1>5 DEF DriverExit
    <2>2. AllInOrder'
      BY <1>1, <2>1 DEF AllInOrder, InOrder
    <2> QED BY <1>1, <2>1, <2>2, NothingCounted
  <1> QED BY <1>2, <1>3, <1>4, <1>5 DEF DriverNext

(* Steps that leave engines, their events and reports alone.                 *)
LEMMA OrderKept ==
    ASSUME AllInOrder, UNCHANGED <<engine, events, seen, nextSeq>>
    PROVE  AllInOrder'
  BY DEF AllInOrder, InOrder

(* The root counts what it takes from its channel, and nothing else.         *)
LEMMA RootCounts ==
    ASSUME TurnInv, TurnInv', AtMostConcurrent, AllInOrder, Balance, RootNext
    PROVE  AllInOrder' /\ Balance'
  <1>1. CASE RollUpUsage
    BY <1>1, RollUpCounts, OrderKept DEF RollUpUsage
  <1>2. CASE OtherTool \/ ToolReturns \/ Cancel \/ HeldSendGoes \/ ReapIdle \/ SwitchSession
    <2>1. /\ UNCHANGED <<total, seen, asks, engine, events, nextSeq>>
          /\ root' # "gone" => root # "gone"
      BY <1>2 DEF OtherTool, ToolReturns, Cancel, HeldSendGoes, ReapIdle, SwitchSession
    <2> QED BY <2>1, NothingCounted, OrderKept
  <1>3. CASE RootEnds
    <2>1. UNCHANGED <<total, seen, engine, events, nextSeq>> /\ root' = "gone"
      BY <1>3 DEF RootEnds
    <2> QED BY <2>1, NothingCounted, OrderKept
  <1>4. CASE SpawnAgents \/ MessageAgent \/ EndAgent \/ ListAgents
    <2>1. PICK ask : Ask(ask) /\ ask.type # "usage"
      <3>1. CASE SpawnAgents
        <4>1. PICK specs \in Specs : Ask([type |-> "spawn", specs |-> specs])
          BY <3>1 DEF SpawnAgents
        <4>2. [type |-> "spawn", specs |-> specs].type # "usage"
          OBVIOUS
        <4> QED BY <4>1, <4>2
      <3>2. CASE MessageAgent \/ EndAgent
        <4>1. PICK a \in Agents, type \in {"message", "end"} : Ask([type |-> type, to |-> a])
          BY <3>2 DEF MessageAgent, EndAgent
        <4>2. [type |-> type, to |-> a].type # "usage"
          OBVIOUS
        <4> QED BY <4>1, <4>2
      <3>3. CASE ListAgents
        <4>1. Ask([type |-> "list"]) /\ [type |-> "list"].type # "usage"
          BY <3>3 DEF ListAgents
        <4> QED BY <4>1
      <3> QED BY <1>4, <3>1, <3>2, <3>3
    <2>2. /\ UNCHANGED <<total, seen, engine, events, nextSeq>> /\ root # "gone"
          /\ asks' = Append(asks, [call |-> Current + 1, ask |-> ask])
      BY <2>1 DEF Ask
    <2>3. \E it : asks' = Append(asks, it) /\ it.ask.type # "usage"
      BY <2>1, <2>2
    <2> QED BY <2>2, <2>3, NothingCounted, OrderKept
  <1>5. CASE MessageSubagent \/ ListOrEnd
    <2>1. /\ UNCHANGED <<root, total, seen, engine, events, nextSeq>>
          /\ asks # <<>> /\ asks' = Tail(asks) /\ Head(asks).ask.type # "usage"
      BY <1>5 DEF MessageSubagent, ListOrEnd, ServesAsks
    <2> QED BY <2>1, NothingCounted, OrderKept
  <1>6. CASE SpawnSubagents
    <2>1. /\ UNCHANGED <<root, total, seen, events>>
          /\ asks # <<>> /\ asks' = Tail(asks) /\ Head(asks).ask.type # "usage"
      BY <1>6 DEF SpawnSubagents, ServesAsks
    <2>2. Balance'
      BY <2>1, NothingCounted
    <2>3. /\ Cardinality(Born) \in Nat /\ nextSeq' = nextSeq + Cardinality(Born)
          /\ \A a \in Born : a > nextSeq /\ a <= nextSeq'
      BY <1>6, BornType
    <2>4. SpawnOne(Head(asks).call, Born)
      BY <1>6 DEF SpawnSubagents, Born
    <2> HIDE DEF Born
    <2>5. AllInOrder'
      <3> SUFFICES ASSUME NEW a \in Agents PROVE InOrder(a)'
        BY DEF AllInOrder
      <3>1. InOrder(a) /\ nextSeq \in Nat /\ a \in Nat
        BY RootTypes DEF AllInOrder, Agents
      <3>2. CASE a \in Born
        <4>1. engine'[a] = NewEngine /\ engine[a].spent = 0 /\ a <= nextSeq'
          BY <2>3, <2>4, <3>1, <3>2 DEF SpawnOne, InOrder
        <4>2. engine'[a].spent = engine[a].spent
          BY <4>1 DEF NewEngine
        <4> QED BY <2>1, <2>3, <3>1, <4>1, <4>2 DEF InOrder
      <3>3. CASE a \notin Born
        <4>1. engine'[a] = engine[a]
          BY <2>4, <3>3 DEF SpawnOne
        <4>2. a > nextSeq' => a > nextSeq
          BY <2>3, <3>1
        <4> QED BY <2>1, <3>1, <4>1, <4>2 DEF InOrder
      <3> QED BY <3>2, <3>3
    <2> QED BY <2>2, <2>5
  <1> QED BY <1>1, <1>2, <1>3, <1>4, <1>5, <1>6 DEF RootNext

(* Every step keeps the account.                                             *)
LEMMA AccountStep ==
    ASSUME TurnInv, TurnInv', AtMostConcurrent, AccountInv, [Next]_vars
    PROVE  AccountInv'
  <1>1. AllInOrder /\ Balance
    BY DEF AccountInv
  <1>2. CASE RootNext
    BY <1>1, <1>2, RootCounts DEF AccountInv
  <1>3. ASSUME NEW a \in Agents, DriverNext(a) PROVE AccountInv'
    BY <1>1, <1>3, DriverInOrder DEF AccountInv
  <1>4. ASSUME NEW a \in Agents, EngineNext(a) PROVE AccountInv'
    <2>1. UNCHANGED <<root, total, seen, asks>>
      BY <1>4 DEF EngineNext, EngineTakesInput, Spend, AskRoot, RootAnswers, Halt, EndsTurn,
             EngineDies, EngineEnds, EngineOnly
    <2> QED BY <1>1, <1>4, <2>1, EngineInOrder, NothingCounted DEF AccountInv
  <1>5. CASE \/ \E r \in Requests : Timeout(r)
             \/ \E call \in Calls : Join(call)
             \/ \E a \in Agents : GrowsIdle(a)
             \/ UNCHANGED vars
    <2>1. UNCHANGED <<root, total, seen, asks, engine, events, nextSeq>>
      BY <1>5 DEF Timeout, Join, GrowsIdle, vars
    <2> QED BY <1>1, <2>1, OrderKept, NothingCounted DEF AccountInv
  <1> QED BY <1>2, <1>3, <1>4, <1>5 DEF Next

(* Nothing is spent and nothing reported at first.                           *)
LEMMA AccountInit == Init => AccountInv
  <1> SUFFICES ASSUME Init PROVE AccountInv
    OBVIOUS
  <1>1. AllInOrder
    BY DEF Init, AllInOrder, InOrder
  <1>2. SumOf(total, MaxSessions) = 0
    BY SumOfZeros, Limits DEF Init
  <1>3. SumOf(seen, MaxSpawned) = 0
    <2>1. \A a \in 1..MaxSpawned : seen[a] = 0
      BY DEF Init, Agents
    <2> QED BY <2>1, SumOfZeros, Limits
  <1>4. SumOf(Reported, Len(asks)) = 0
    <2>1. Len(asks) = 0
      BY DEF Init
    <2> QED BY <2>1, SumOfZeros
  <1> QED BY <1>1, <1>2, <1>3, <1>4 DEF AccountInv, Balance

(* What was not reported is what was spent and not seen.                     *)
LEMMA AccountKept == TurnInv /\ AccountInv => UsageCountedOnce
  <1> SUFFICES ASSUME TurnInv, AccountInv, root # "gone" PROVE UsageCountedOnce
    BY DEF UsageCountedOnce
  <1>1. \A a \in 1..MaxSpawned :
           Spent[a] \in Int /\ seen[a] \in Int /\ ToReport[a] = Spent[a] - seen[a]
    BY Numbers DEF Spent, ToReport, Agents
  <1>2. SumOf(ToReport, MaxSpawned) = SumOf(Spent, MaxSpawned) - SumOf(seen, MaxSpawned)
    BY <1>1, SumDifference, Limits
  <1>3. SumOf(Spent, MaxSpawned) \in Int
    BY <1>1, SumType, Limits
  <1>4. SumOf(total, MaxSessions) + SumOf(Reported, Len(asks)) = SumOf(seen, MaxSpawned)
    BY DEF AccountInv, Balance
  <1> QED BY <1>2, <1>3, <1>4, SumsAreNumbers DEF UsageCountedOnce

------------------------------------------------------------------------------
(* The ceiling holds, every variable has its type, and each unit of usage is *)
(* counted once, through spawns that fail, ends, reaps, session switches and *)
(* canceled calls whose ask is handled later.                                *)
(* (subagents.rs, spawn_subagents and roll_up_subagent_usage)                *)
THEOREM AccountCorrect == Spec => []AccountHolds
  <1>1. Init => TurnInv /\ AtMostConcurrent /\ AccountInv
    BY TurnInit, AnswerInit, AccountInit
  <1>2. TurnInv /\ AtMostConcurrent /\ AccountInv /\ [Next]_vars
            => TurnInv' /\ AtMostConcurrent' /\ AccountInv'
    <2> SUFFICES ASSUME TurnInv, AtMostConcurrent, AccountInv, [Next]_vars
                 PROVE  TurnInv' /\ AtMostConcurrent' /\ AccountInv'
      OBVIOUS
    <2>1. TurnInv' /\ AtMostConcurrent'
      BY TurnStep, CeilingStep
    <2> QED BY <2>1, AccountStep
  <1>3. TurnInv /\ AtMostConcurrent /\ AccountInv => AccountHolds
    BY AccountKept DEF TurnInv, AccountHolds
  <1> QED BY <1>1, <1>2, <1>3, PTL DEF Spec

(* Whatever turns outlive the calls that asked for them, an answer is that   *)
(* of the call's own turn.  (subagents.rs, message_subagent and              *)
(* run_subagent_driver)                                                      *)
THEOREM AnswersCorrect == Spec => []AnsweredByOwnTurn
  <1>1. Init => TurnInv /\ AtMostConcurrent /\ AnsweredByOwnTurn
    BY TurnInit, AnswerInit
  <1>2. TurnInv /\ AtMostConcurrent /\ AnsweredByOwnTurn /\ [Next]_vars
            => TurnInv' /\ AtMostConcurrent' /\ AnsweredByOwnTurn'
    BY TurnStep, CeilingStep, AnswerStep
  <1> QED BY <1>1, <1>2, PTL DEF Spec
==============================================================================
