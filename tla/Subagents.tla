------------------------------ MODULE Subagents ------------------------------
(* The subagents of a session: nested engines, the driver task of each, and  *)
(* the calls of the root's tools that spawn, message, list and end them.     *)
(* (engine/subagents.rs; spawn_agents.rs, message_agent.rs, end_agent.rs,    *)
(* list_agents.rs and subagent.rs of emberly-tools)                          *)
(*                                                                          *)
(* The root engine reads its subagent channel only while one of its own tool *)
(* calls runs, and ends idle subagents only between its turns.  A request is *)
(* <<call, agent>>: the turn that a call wants an agent to run.              *)
EXTENDS Integers, Sequences, FiniteSets, FiniteSetsExt

CONSTANTS
    MaxConcurrent,  \* AgentsConfig.max_concurrent
    QueueSlots,     \* capacity of turn_tx
    CanHalt,        \* may the guardrail or the gate park a subagent's turn
    MaxBatch,       \* bound: subagents of one spawn_agents call
    MaxSpawned,     \* bound: subagents ever created
    MaxCalls,       \* bound: calls of the four tools
    MaxSpent,       \* bound: completions, hence units of usage, of a subagent
    MaxSessions     \* bound: sessions of the root engine

ASSUME SubagentsAssumption ==
    /\ {MaxConcurrent, MaxBatch, MaxSpawned, MaxCalls, MaxSpent, MaxSessions} \subseteq Nat
    /\ QueueSlots \in Nat \ {0}
    /\ MaxSessions > 0
    /\ CanHalt \in BOOLEAN

Agents == 1..MaxSpawned
Calls == 1..MaxCalls
Requests == Calls \X Agents
NoRequest == <<0, 0>>

VARIABLES
    root,       \* tool while a tool call runs; idle between two turns and
                \* between two tools of one; gone
    held,       \* the request whose turn_tx.send holds the root's handler
    session,    \* the root's current session
    total,      \* SessionState.usage of each session of the root
    asks,       \* the subagent channel
    calls,      \* of each call: unmade, asked, waiting, or over
    instances,  \* AgentState.instances: of each agent absent, active or idle
    nextSeq,    \* AgentState.next_seq
    queue,      \* turn_tx of each agent
    driver,     \* its driver: unborn, waiting, exited, or the request it runs
    engine,     \* its engine: phase, input, spent
    events,     \* its engine's events that end a turn
    seen,       \* last_usage of the driver
    outcome     \* of each request of a waiting call: waiting, running, failed,
                \* or answered with the request whose turn the answer is from

rootVars == <<root, held, session>>
agentVars == <<queue, driver, engine, events, seen>>
vars == <<rootVars, total, asks, calls, instances, nextSeq, agentVars, outcome>>

Alive == {a \in Agents : instances[a] # "absent"}
RequestsOf(call) == {call} \X Agents
\* What became of a request, apart from an answer, which names its turn.
Pending == [is |-> "waiting", turn |-> NoRequest]
Became(is) == [is |-> is, turn |-> NoRequest]
Answered(turn) == [is |-> "answered", turn |-> turn]
\* What a driver or its engine is doing.
Doing(is) == [is |-> is, turn |-> NoRequest]
Turn(r) == [is |-> "turn", turn |-> r]

Init ==
    /\ root = "idle" /\ held = NoRequest /\ session = 1
    /\ total = [s \in 1..MaxSessions |-> 0]
    /\ asks = <<>>
    /\ calls = [c \in Calls |-> "unmade"]
    /\ instances = [a \in Agents |-> "absent"]
    /\ nextSeq = 0
    /\ queue = [a \in Agents |-> <<>>]
    /\ driver = [a \in Agents |-> Doing("unborn")]
    /\ engine = [a \in Agents |-> [phase |-> "unborn", input |-> <<>>, spent |-> 0]]
    /\ events = [a \in Agents |-> <<>>]
    /\ seen = [a \in Agents |-> 0]
    /\ outcome = [r \in Requests |-> Became("none")]

------------------------------------------------------------------------------
(* The root's turns and the calls of the four tools                          *)

Current == IF \E c \in Calls : calls[c] # "unmade"
           THEN Max({c \in Calls : calls[c] # "unmade"}) ELSE 0

(* A tool of another kind: the root serves its channels while it runs.       *)
OtherTool ==
    /\ root = "idle" /\ root' = "tool"
    /\ UNCHANGED <<held, session, total, asks, calls, instances, nextSeq, agentVars, outcome>>

(* The running tool has its answer, or never asked anything.                 *)
ToolReturns ==
    /\ root = "tool" /\ held = NoRequest
    /\ \A c \in Calls : calls[c] \in {"unmade", "over"}
    /\ root' = "idle"
    /\ UNCHANGED <<held, session, total, asks, calls, instances, nextSeq, agentVars, outcome>>

(* A tool's execute sends its ask and waits for the reply.                   *)
Ask(ask) ==
    /\ root = "idle"
    /\ Current < MaxCalls
    /\ asks' = Append(asks, [call |-> Current + 1, ask |-> ask])
    /\ calls' = [calls EXCEPT ![Current + 1] = "asked"]
    /\ root' = "tool"
    /\ UNCHANGED <<held, session, total, instances, nextSeq, agentVars, outcome>>

(* A spec is good unless its tools, its profile or its model cannot be had:  *)
(* a subagent gets no tool that its parent lacks, and none of these four.    *)
Specs == UNION {[1..n -> BOOLEAN] : n \in 1..MaxBatch}

SpawnAgents ==
    \E specs \in Specs :
        /\ nextSeq + Len(specs) <= MaxSpawned
        /\ Ask([type |-> "spawn", specs |-> specs])

(* An id nobody has is as good as one that ended.                            *)
MessageAgent == \E a \in Agents : Ask([type |-> "message", to |-> a])
EndAgent == \E a \in Agents : Ask([type |-> "end", to |-> a])
ListAgents == Ask([type |-> "list"])

(* Command::Cancel: the tool's future is dropped, and its ask stays where it *)
(* is.  A handler that is held reads no command.                             *)
Cancel ==
    /\ root = "tool" /\ held = NoRequest
    /\ calls' = [c \in Calls |-> IF calls[c] = "unmade" THEN "unmade" ELSE "over"]
    /\ outcome' = [r \in Requests |-> Became("none")]
    /\ root' = "idle"
    /\ UNCHANGED <<held, session, total, asks, instances, nextSeq, agentVars>>

------------------------------------------------------------------------------
(* on_subagent_ask, inside the select of the running tool call               *)

ServesAsks == root = "tool" /\ held = NoRequest /\ asks # <<>>
Reply(call) == [calls EXCEPT ![call] = "over"]
\* A detached task waits for the outcomes of the requests; that of a canceled
\* call tells nobody.
Await(call, requests) ==
    /\ calls' = [calls EXCEPT ![call] = IF @ = "asked" THEN "waiting" ELSE @]
    /\ outcome' = [r \in Requests |->
                      IF r \in requests /\ calls[call] = "asked" THEN Pending ELSE outcome[r]]

(* The specs of a batch that are spawned: the ceiling counts the places of   *)
(* the batch, spawned or not.                                                *)
Admitted(specs) ==
    {i \in DOMAIN specs : i <= MaxConcurrent - Cardinality(Alive) /\ specs[i]}

(* What a subagent's engine starts with: a conversation, a transcript and    *)
(* usage of its own, and gates that ask the root.                            *)
NewEngine == [phase |-> "idle", input |-> <<>>, spent |-> 0]

(* spawn_one_subagent, for each agent that is born: its engine and driver    *)
(* run, and its first turn is queued.                                        *)
SpawnOne(call, born) ==
    /\ instances' = [a \in Agents |-> IF a \in born THEN "active" ELSE instances[a]]
    /\ queue' = [a \in Agents |-> IF a \in born THEN <<<<call, a>>>> ELSE queue[a]]
    /\ driver' = [a \in Agents |-> IF a \in born THEN Doing("waiting") ELSE driver[a]]
    /\ engine' = [a \in Agents |-> IF a \in born THEN NewEngine ELSE engine[a]]

SpawnSubagents ==
    /\ ServesAsks /\ Head(asks).ask.type = "spawn"
    /\ LET call == Head(asks).call
           born == (nextSeq + 1)..(nextSeq + Cardinality(Admitted(Head(asks).ask.specs)))
       IN  /\ born \subseteq Agents
           /\ nextSeq' = nextSeq + Cardinality(born)
           /\ SpawnOne(call, born)
           /\ Await(call, {call} \X born)
    /\ asks' = Tail(asks)
    /\ UNCHANGED <<rootVars, total, events, seen>>

(* message_subagent: the send waits for room in the agent's queue.           *)
MessageSubagent ==
    /\ ServesAsks /\ Head(asks).ask.type = "message"
    /\ LET call == Head(asks).call
           a == Head(asks).ask.to
       IN  \/ /\ a \notin Alive
              /\ calls' = Reply(call)
              /\ UNCHANGED <<held, instances, queue, outcome>>
           \/ /\ a \in Alive
              /\ instances' = [instances EXCEPT ![a] = "active"]
              /\ IF Len(queue[a]) < QueueSlots
                 THEN /\ queue' = [queue EXCEPT ![a] = Append(@, <<call, a>>)]
                      /\ Await(call, {<<call, a>>})
                      /\ UNCHANGED held
                 ELSE held' = <<call, a>> /\ UNCHANGED <<calls, queue, outcome>>
    /\ asks' = Tail(asks)
    /\ UNCHANGED <<root, session, total, nextSeq, driver, engine, events, seen>>

HeldSendGoes ==
    /\ held # NoRequest /\ Len(queue[held[2]]) < QueueSlots
    /\ queue' = [queue EXCEPT ![held[2]] = Append(@, held)]
    /\ Await(held[1], {held})
    /\ held' = NoRequest
    /\ UNCHANGED <<root, session, total, asks, instances, nextSeq, driver, engine, events, seen>>

(* SubagentAsk::List and SubagentAsk::End                                    *)
ListOrEnd ==
    /\ ServesAsks /\ Head(asks).ask.type \in {"list", "end"}
    /\ instances' = [a \in Agents |->
                        IF Head(asks).ask = [type |-> "end", to |-> a] THEN "absent"
                        ELSE instances[a]]
    /\ calls' = Reply(Head(asks).call)
    /\ asks' = Tail(asks)
    /\ UNCHANGED <<rootVars, total, nextSeq, agentVars, outcome>>

(* SubagentAsk::ReportUsage: roll_up_subagent_usage into the session the     *)
(* root is in by now.                                                        *)
RollUpUsage ==
    /\ ServesAsks /\ Head(asks).ask.type = "usage"
    /\ total' = [total EXCEPT ![session] = @ + Head(asks).ask.amount]
    /\ asks' = Tail(asks)
    /\ UNCHANGED <<rootVars, calls, instances, nextSeq, agentVars, outcome>>

------------------------------------------------------------------------------
(* The detached task of a spawn or message call                              *)

\* Mutant: the driver gives its turn up when the caller's time is over.
TimeoutGivesUp(r) ==
    /\ outcome[r] = Pending
    /\ outcome' = [outcome EXCEPT ![r] = Became("running")]
    /\ driver' = IF driver[r[2]] = Turn(r)
                 THEN [driver EXCEPT ![r[2]] = Doing("waiting")] ELSE driver
    /\ UNCHANGED <<rootVars, total, asks, calls, instances, nextSeq, queue, engine, events, seen>>

(* spawn_timeout: the request is still running for its caller; the agent's   *)
(* turn goes on.                                                             *)
Timeout(r) ==
    /\ outcome[r] = Pending
    /\ outcome' = [outcome EXCEPT ![r] = Became("running")]
    /\ UNCHANGED <<rootVars, total, asks, calls, instances, nextSeq, agentVars>>

(* The call answers once every request of it came to something (join_all),   *)
(* and its tool returns.                                                     *)
Join(call) ==
    /\ calls[call] = "waiting"
    /\ \A r \in RequestsOf(call) : outcome[r] # Pending
    /\ calls' = Reply(call)
    /\ outcome' = [r \in Requests |-> IF r[1] = call THEN Became("none") ELSE outcome[r]]
    /\ UNCHANGED <<rootVars, total, asks, instances, nextSeq, agentVars>>

------------------------------------------------------------------------------
(* A subagent's driver: run_subagent_driver                                  *)

(* A queued request becomes a UserInput of the nested engine.                *)
DriverTake(a) ==
    /\ driver[a] = Doing("waiting") /\ queue[a] # <<>>
    /\ queue' = [queue EXCEPT ![a] = Tail(@)]
    /\ IF engine[a].phase = "dead"
       THEN /\ outcome' = [outcome EXCEPT ![Head(queue[a])] =
                              IF @ = Pending THEN Became("failed") ELSE @]
            /\ UNCHANGED <<driver, engine>>
       ELSE /\ driver' = [driver EXCEPT ![a] = Turn(Head(queue[a]))]
            /\ engine' = [engine EXCEPT ![a].input = Append(@, Head(queue[a]))]
            /\ outcome' = outcome
    /\ UNCHANGED <<rootVars, total, asks, calls, instances, nextSeq, events, seen>>

\* Mutant: the session's usage is reported as if it were the turn's.
Cumulative(a, used) == used
(* What was spent since the last report.                                     *)
Delta(a, used) == used - seen[a]

(* The turn's end, or the end of the engine's events: what was spent since   *)
(* the last report goes to the root, and the request gets its outcome, which *)
(* nobody takes once its caller stopped waiting.                             *)
Finish(a, used, ended) ==
    /\ asks' = IF Delta(a, used) > 0 /\ root # "gone"
               THEN Append(asks, [call |-> 0, ask |-> [type |-> "usage", amount |-> Delta(a, used)]])
               ELSE asks
    /\ seen' = [seen EXCEPT ![a] = used]
    /\ outcome' = [outcome EXCEPT ![driver[a].turn] = IF @ = Pending THEN ended ELSE @]
    /\ driver' = [driver EXCEPT ![a] = Doing("waiting")]

DriverFinish(a) ==
    /\ driver[a].is = "turn" /\ events[a] # <<>>
    /\ LET end == Head(events[a])
       IN  Finish(a, end.used, IF end.ok THEN Answered(end.turn) ELSE Became("failed"))
    /\ events' = [events EXCEPT ![a] = Tail(@)]
    /\ UNCHANGED <<rootVars, total, calls, instances, nextSeq, queue, engine>>

(* The engine's task ended without a TurnEnded.                              *)
DriverLosesEngine(a) ==
    /\ driver[a].is = "turn" /\ events[a] = <<>> /\ engine[a].phase = "dead"
    /\ Finish(a, engine[a].spent, Became("failed"))
    /\ UNCHANGED <<rootVars, total, calls, instances, nextSeq, queue, engine, events>>

\* Mutant: the root keeps a turn_tx of every agent until it ends.
DriverExitAtEnd(a) ==
    /\ driver[a] = Doing("waiting") /\ queue[a] = <<>>
    /\ root = "gone"
    /\ driver' = [driver EXCEPT ![a] = Doing("exited")]
    /\ UNCHANGED <<rootVars, total, asks, calls, instances, nextSeq, queue, engine, events, seen, outcome>>

(* Nobody holds turn_tx any more: the loop ends, and commands_tx with it.    *)
DriverExit(a) ==
    /\ driver[a] = Doing("waiting") /\ queue[a] = <<>>
    /\ a \notin Alive /\ held[2] # a
    /\ driver' = [driver EXCEPT ![a] = Doing("exited")]
    /\ UNCHANGED <<rootVars, total, asks, calls, instances, nextSeq, queue, engine, events, seen, outcome>>

------------------------------------------------------------------------------
(* A subagent's engine: Engine::run over the commands its driver sends       *)

SetPhase(a, phase) == engine' = [engine EXCEPT ![a].phase = phase]
EngineOnly == UNCHANGED <<rootVars, total, asks, calls, instances, nextSeq, queue,
                          driver, seen, outcome>>

EngineTakesInput(a) ==
    /\ engine[a].phase = "idle" /\ engine[a].input # <<>>
    /\ SetPhase(a, "running")
    /\ EngineOnly /\ UNCHANGED events

(* A completion's usage; of an idle engine, that of a compaction's summary.  *)
Spend(a) ==
    /\ engine[a].phase = "running" \/ (engine[a].phase = "idle" /\ engine[a].spent > 0)
    /\ engine[a].spent < MaxSpent
    /\ engine' = [engine EXCEPT ![a].spent = @ + 1]
    /\ EngineOnly /\ UNCHANGED events

(* A tool of the subagent asks the root for permission, and waits until the  *)
(* root serves it during a tool call of its own; once the root is gone the   *)
(* gate fails closed.  (SubagentPermissionGate, SubagentAskUserGate)         *)
AskRoot(a) ==
    /\ engine[a].phase = "running" /\ SetPhase(a, "asking")
    /\ EngineOnly /\ UNCHANGED events

RootAnswers(a) ==
    /\ engine[a].phase = "asking"
    /\ (root = "tool" /\ held = NoRequest) \/ root = "gone"
    /\ SetPhase(a, "running")
    /\ EngineOnly /\ UNCHANGED events

(* The guardrail or the completion gate parks the turn until a command of    *)
(* the user comes, which no driver sends.  (guardrail.rs)                    *)
Halt(a) ==
    /\ CanHalt
    /\ engine[a].phase = "running" /\ SetPhase(a, "halted")
    /\ EngineOnly /\ UNCHANGED events

(* TurnEnded, with or without a HarnessError before it.                      *)
EndsTurn(a) ==
    /\ engine[a].phase = "running"
    /\ \E ok \in BOOLEAN :
         events' = [events EXCEPT ![a] = Append(@,
                      [turn |-> Head(engine[a].input), used |-> engine[a].spent, ok |-> ok])]
    /\ engine' = [engine EXCEPT ![a].phase = "idle", ![a].input = Tail(@)]
    /\ EngineOnly

(* A panic of the engine's task.                                             *)
EngineDies(a) ==
    /\ engine[a].phase = "running" /\ SetPhase(a, "dead")
    /\ EngineOnly /\ UNCHANGED events

(* The driver dropped commands_tx: run ends, and writes its session_end.     *)
EngineEnds(a) ==
    /\ driver[a] = Doing("exited")
    /\ engine[a].phase = "idle" /\ engine[a].input = <<>>
    /\ SetPhase(a, "dead")
    /\ EngineOnly /\ UNCHANGED events

------------------------------------------------------------------------------
(* The idle root                                                             *)

(* idle_timeout_secs go by without a message to the agent.                   *)
GrowsIdle(a) ==
    /\ instances[a] = "active"
    /\ instances' = [instances EXCEPT ![a] = "idle"]
    /\ UNCHANGED <<rootVars, total, asks, calls, nextSeq, agentVars, outcome>>

(* reap_idle_subagents, on the tick of the idle loop                         *)
ReapIdle ==
    /\ root = "idle"
    /\ \E a \in Agents : instances[a] = "idle"
    /\ instances' = [a \in Agents |-> IF instances[a] = "idle" THEN "absent" ELSE instances[a]]
    /\ UNCHANGED <<rootVars, total, asks, calls, nextSeq, agentVars, outcome>>

(* start_new_session, resume_session: the agents and their channel stay.     *)
SwitchSession ==
    /\ root = "idle" /\ session < MaxSessions
    /\ session' = session + 1
    /\ UNCHANGED <<root, held, total, asks, calls, instances, nextSeq, agentVars, outcome>>

(* The frontend is gone and run ends: the engine is dropped, and with it     *)
(* every agent and the subagent channel.                                     *)
RootEnds ==
    /\ root = "idle" /\ root' = "gone"
    /\ instances' = [a \in Agents |-> "absent"]
    /\ asks' = <<>>
    /\ UNCHANGED <<held, session, total, calls, nextSeq, agentVars, outcome>>

------------------------------------------------------------------------------
RootNext ==
    \/ OtherTool \/ ToolReturns \/ Cancel
    \/ SpawnAgents \/ MessageAgent \/ EndAgent \/ ListAgents
    \/ SpawnSubagents \/ MessageSubagent \/ HeldSendGoes \/ ListOrEnd \/ RollUpUsage
    \/ ReapIdle \/ SwitchSession \/ RootEnds

DriverNext(a) == DriverTake(a) \/ DriverFinish(a) \/ DriverLosesEngine(a) \/ DriverExit(a)

EngineNext(a) ==
    \/ EngineTakesInput(a) \/ Spend(a) \/ AskRoot(a) \/ RootAnswers(a) \/ Halt(a)
    \/ EndsTurn(a) \/ EngineDies(a) \/ EngineEnds(a)

Next ==
    \/ RootNext
    \/ \E r \in Requests : Timeout(r)
    \/ \E call \in Calls : Join(call)
    \/ \E a \in Agents : DriverNext(a) \/ EngineNext(a) \/ GrowsIdle(a)

(* Timers fire, tasks are scheduled, a user answers what the root is asked,   *)
(* and a turn ends, the retries and the guardrail bounding it; no tool of    *)
(* the root need ever be called.                                             *)
Fairness ==
    /\ WF_vars(SpawnSubagents \/ MessageSubagent \/ HeldSendGoes \/ ListOrEnd \/ RollUpUsage)
    /\ \A r \in Requests : WF_vars(Timeout(r))
    /\ \A call \in Calls : WF_vars(Join(call))
    /\ \A a \in Agents :
        /\ WF_vars(DriverNext(a))
        /\ WF_vars(EngineTakesInput(a) \/ EngineEnds(a))
        /\ WF_vars(RootAnswers(a))
        /\ WF_vars(EndsTurn(a) \/ EngineDies(a))

Spec == Init /\ [][Next]_vars /\ Fairness

------------------------------------------------------------------------------
(* Properties                                                                *)

TypeOK ==
    /\ root \in {"idle", "tool", "gone"}
    /\ held \in Requests \cup {NoRequest}
    /\ session \in 1..MaxSessions
    /\ total \in [1..MaxSessions -> Nat]
    /\ calls \in [Calls -> {"unmade", "asked", "waiting", "over"}]
    /\ instances \in [Agents -> {"absent", "active", "idle"}]
    /\ nextSeq \in 0..MaxSpawned
    /\ queue \in [Agents -> Seq(Requests)]
    /\ driver \in [Agents -> [is : {"unborn", "waiting", "exited", "turn"},
                              turn : Requests \cup {NoRequest}]]
    /\ seen \in [Agents -> Nat]
    /\ outcome \in [Requests -> [is : {"none", "waiting", "running", "failed", "answered"},
                                 turn : Requests \cup {NoRequest}]]

(* The sum of the first n members of a family of numbers.                    *)
SumOf(f, n) ==
    LET sum[i \in 0..n] == IF i = 0 THEN 0 ELSE sum[i - 1] + f[i] IN sum[n]

Spent == [a \in Agents |-> engine[a].spent]
ToReport == [a \in Agents |-> engine[a].spent - seen[a]]
Reported == [i \in DOMAIN asks |-> IF asks[i].ask.type = "usage" THEN asks[i].ask.amount ELSE 0]

(* Each unit that a subagent spent is in one session's total, on its way in  *)
(* the channel, or still to be reported by the agent's driver: none is       *)
(* counted twice and none is lost, however turns, time-outs, ends, reaps and *)
(* session switches interleave, as long as the root engine is there to be    *)
(* told.  (subagents.rs, run_subagent_driver and roll_up_subagent_usage)     *)
UsageCountedOnce ==
    root # "gone" =>
        SumOf(total, MaxSessions) + SumOf(Reported, Len(asks)) + SumOf(ToReport, MaxSpawned)
            = SumOf(Spent, MaxSpawned)

(* What a call is told an agent answered is the answer to what that call     *)
(* said, though an earlier call's time ran out and its turn ended late.      *)
(* (subagents.rs, message_subagent and run_subagent_driver)                  *)
AnsweredByOwnTurn ==
    \A r \in Requests : outcome[r].is = "answered" => outcome[r].turn = r

(* No more subagents can be addressed than the configured ceiling, through   *)
(* spawns that fail, ends, reaps and canceled calls whose ask is handled     *)
(* later.  (subagents.rs, spawn_subagents)                                   *)
AtMostConcurrent == Cardinality(Alive) <= MaxConcurrent

(* The user's account of the subagents holds: each token is in one session's *)
(* total once, and no more agents spend at a time than were configured.      *)
(* (subagents.rs, roll_up_subagent_usage and spawn_subagents)                *)
AccountHolds == TypeOK /\ UsageCountedOnce /\ AtMostConcurrent

(* A subagent that was ended, reaped or left by a root that is gone winds    *)
(* down by itself, its driver and its engine, unless its turn is parked at a *)
(* halt, waits for a root that runs no tool, or the root itself is held by   *)
(* the send to it.  (subagents.rs, SubagentInstance)                         *)
EndedWindsDown ==
    \A a \in Agents :
        (a <= nextSeq /\ a \notin Alive)
            ~> \/ driver[a] = Doing("exited") /\ engine[a].phase = "dead"
               \/ engine[a].phase \in {"halted", "asking"}

(* The module's comment: a handler does only fast, non-blocking work, a send *)
(* into a channel with spare buffer capacity among it, because the root must *)
(* stay able to serve the subagent's own asks.                               *)
HandlerReturns == (held # NoRequest) ~> (held = NoRequest)
==============================================================================
