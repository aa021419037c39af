# Emberly Code in TLA+

A verification development of [Emberly Code](../src/README.md), a terminal
coding agent: an engine that drives a language model and its tools, and a
frontend through which one person watches, answers and interrupts. The modules
here model the engine's core protocol, the frontends on one side of it and the
providers, tools and files on the other; TLC checks them on small instances,
TLAPS proves the facts that matter most for every instance.

Paths below are relative to `src/crates/`; `core` is `emberly-core/src`, `tui`
is `emberly-tui/src`, `tools` is `emberly-tools/src`, `providers` is
`emberly-providers/src`, `sandbox` is `emberly-sandbox/src`.

## The system

One process runs one session at a time. Two tasks carry it, joined by two
channels (`core/channels.rs`): commands from the frontend to the engine, events
back. The engine (`core/engine/`) owns all state. While it waits for the
provider's stream, or for a tool, it selects over that and the commands.

| Part | State | Operations | Talks to |
|---|---|---|---|
| Permission rules (`sandbox/rules.rs`, `mode.rs`) | rules in order, `base_len`, mode | evaluate, grant, reload | called by the seam |
| Permission and question seam (`core/gate.rs`, `engine/permissions.rs`, `engine/asks.rs`) | ask channels, a vector of pending asks per tool call, id counters | ask, decide by rule, stash, answer, drop | tools and subagents ask, the user answers |
| Turn loop (`engine/turn.rs`) | position in the turn, retries, the answer so far | open and consume a stream, run a batch, cancel | provider, tools |
| Guardrail and completion gate (`engine/guardrail.rs`) | what was seen, two streaks, attempts | judge a batch, run checks, park at a halt | the user, by halts |
| Run loop and sessions (`engine/mod.rs`, `engine/session.rs`) | session identity, pending requests | take a command at idle, switch or end a session | everything |
| Context (`engine/context.rs`) | messages, turn map, next turn, compaction request and latch | push, window, compact | transcript |
| Transcript, resume, cache (`core/transcript.rs`, `resume.rs`, `view_cache.rs`) | JSONL file, sidecar cache | append, replay, load or refuse a cache | next process |
| Subagents (`engine/subagents.rs`) | nested engines, drivers, queues | spawn, message, end, reap | the seam, by shared channels |
| Terminal frontend (`tui/app/`, `tui.rs`) | one slot per prompt kind, overlays, palette, `busy`, the view | keys to commands, events to view | engine |
| Line frontend (`tui/line.rs`) | one pending prompt, mirrored mode | lines to commands, events to text | engine |
| Providers (`providers/`) | frame buffer, stream mapper | parse, map, build a request | turn loop |
| Builtin tools (`tools/builtin/`, `reduce.rs`, `truncate.rs`) | files, a process group, an output | read, write, edit, run, reduce | the seam, the machine |
| Confinement (`sandbox/confine.rs`, `git.rs`, `probe.rs`, `core/spawn.rs`) | backend, recorded git, snapshot of the root | probe, fence a spawn | bash |
| Memory (`core/memory.rs`, `engine/memory.rs`, `tui/app/memory.rs`) | entry files, an index, the pinned index, the inspector | upsert, delete, list, view | root, subagents, user |
| Skills (`core/skills.rs`, `engine/skills.rs`) | folders of two scopes, the catalog | discover, resolve, reload | model, user |
| MCP client (`core/mcp_client.rs`) | a lock, ids, two pipes | call, match, time out | several engines, a child |
| Configuration and launch (`emberly/src/`) | files in tiers, keys, the trust store | merge, reload, wizard, trust gate | everything, other processes |

What is hard about it:

* **Interleaving.** Tools, subagents, engine and user run concurrently. An
  answer carries the id of a request, a halt's answer carries nothing; commands
  already under way meet an engine that has moved on.
* **Ownership of waiting tools.** A tool waits on a oneshot whose other end is
  in a channel or in a vector that lives as long as one tool call.
* **Stages that read no commands**: opening a stream, waiting to retry, running
  completion checks. A Cancel has to survive them.
* **Two derivations of one conversation**: the live one and the replay of the
  transcript, joined by compaction records that hold indices.
* **Bounded queues between tasks that wait for each other**: a subagent's queue
  is filled by a handler of the root, and drains only when a turn ends.
* **Time-outs that answer while the work goes on**: a subagent's turn, a tool
  server's answer, a command's process group.
* **Crashes** anywhere, in two-step writes of a transcript, of memory, of the
  trust store, which several processes share without a lock.
* **What changes while a prompt is up**: files, links, the inspector's list.

`PROJECT.json` lists these as hazards, each at its line, with the properties
that cover it or the reason none does.

## The modules

| Module | Models | Builds on |
|---|---|---|
| `Rules` | the rule engine as pure operators | |
| `RuleEngine` | the life of a project's rules | `Rules` |
| `Authority` | abstract: what the permission seam promises | |
| `Gates` | the seam, the tool calls that serve it, the prompts | `Rules`, implements `Authority` |
| `TurnLoop` | turns, retries, halts, and the frontend's view of them | |
| `History` | conversation, transcript, compaction, window, cache, resume | |
| `Subagents` | nested engines, their drivers, the four tools that use them | |
| `Frontend` | the terminal's prompts, overlays and keys against an engine | |
| `LineFrontend` | the line frontend against an engine | |
| `Editor` | the input box | |
| `Sse`, `Streams`, `Requests` | event frames; a streamed answer; request bodies | |
| `McpClient` | callers that share one tool server | |
| `BashTool`, `FileTools`, `Output`, `Confine` | a command's processes; file tools; what the model sees; the fence | |
| `Memory`, `Skills`, `Config`, `Launch`, `SessionFile` | what outlives a process | |
| `GatesProofs` | theorems about `Gates`, its refinement of `Authority` among them | |
| `TurnLoopProofs`, `SubagentsProofs`, `HistoryProofs` | theorems about `TurnLoop`, `Subagents`, `History` | |
| `Disk` | the five modules before it in one specification, each behaviour of one of them | `Launch`, instances of the others |
| `Frontends` | the terminal, the line frontend and the editor in one specification, each behaviour of one of them | `Frontend`, instances of the others |
| `Tools` | the rules, a command, the file tools, output and the fence in one specification, each behaviour of one of them | `RuleEngine`, instances of the others |
| `Wire` | what comes in from a tool server and a provider and what is sent, in one specification, each behaviour of one of them | `McpClient`, instances of `Sse`, `Streams`, `Requests` |
| `FrontendProofs`, `DiskProofs`, `RuleEngineProofs`, `McpClientProofs` | theorems about `Frontends` and its parts, `Disk` and its parts, `RuleEngine` and three more parts of `Tools`, `McpClient` and the frames and answers of `Wire` | |
| `MCGates`, `MCTurnLoop`, `MCHistory`, `MCSubagents` | small instances of one module each | |
| `MCWire`, `MCFrontends`, `MCTools`, `MCDisk` | small instances of several modules side by side | |

The last four check modules that share no state in one run. Each extends one
component (`McpClient`, `Frontend`, `RuleEngine`, `Launch`), whose properties
the run checks by their own names, and instantiates the others. They do so
through `Wire`, `Frontends`, `Tools` and `Disk`, which have no instance's values
in them and are what `McpClientProofs`, `FrontendProofs`, `RuleEngineProofs` and
`DiskProofs` prove about. A behaviour of such a run is a behaviour of one part:
`part` says which, chosen at the start.
The variables of the extended component move in its part only and stay as they
began in the others; those of another part are the first of `x1`, `x2`, ...
Nothing is composed there but the cost of a run. The modules
that do interact are composed where they interact: `Gates` holds engine, tools,
subagents' asks and prompts; `TurnLoop`, `Frontend`, `LineFrontend` and
`Memory` each hold both ends of the two channels; `Subagents` holds root,
drivers and nested engines.

### Rules and RuleEngine

A command is the sequence of its tokens, because matching is by a prefix that
ends at a token boundary. `Evaluate` is `RuleEngine::evaluate`: the rule
decision first, then the outside-root line, then the mode. `RuleEngine` keeps
the list `rules` with its split `baseLen`, the file and what was last loaded
from it; its actions are the two standing grants, an edit by hand, `/reload`
(`reload_config`, only its rule part) and a restart. A persisted grant may fail
to be written, and is then a session grant only. Two history variables say what
the user was promised.

### Gates

`st[a]` is what the tool of agent `a` does: it runs, waits for a permission, for
an answer, or for the engine to act for it. An ask is `[by, n, req]`, and `n`
names its oneshot: a reply reaches its tool only while that tool still waits on
ask `n`, as a send on a oneshot whose receiver was dropped goes nowhere. `asks`,
`userAsks` and `ops` are the channels, `pending` and `pendingUser` the vectors
of the running call. `StartCall` and `LeaveCall` drop those vectors, which
resumes every tool waiting on one with the fail-closed answer (`ask_engine`'s
fallback). `CallCommand` is the command arm of the select in
`run_one_tool_call` and `CallClosed` its `None` arm; `StreamCommand` and
`IdleCommand` are the other two places that take commands. The frontend has one
slot for a permission prompt and one for a question; `ApplyEvent` overwrites
them, as `apply_event` does. All asks of engine-side gates are one operation
`ServeOp`, which may be one that starts a subagent and answers later.

`requests` and `decisions` are the transcript's records; `answers`, `effects`
and `opsDone` are history: what the user chose, what tools did, which operations
were performed.

`Authority` is the promise in four actions: an ask is raised, a person approves
it, it is allowed (outside the root only after an approval), it runs. The
mapping reads `raised` off the channel and the log, `approved` off the log and
the answers, `allowed` off the decisions.

### TurnLoop

One `phase` per place the engine waits in. `StreamEnds` has the four ends of a
stream; a drop counts against the turn and reopens from unchanged history.
`ToolsEnd` gives `evaluate_loop` a signature, a result and the files modified.
`LoopHaltCommand` and `GateHaltCommand` are the two halts; both keep their
streaks or attempts on Stop, as the code does. `TurnCommand` is the same for
the stream and for a tool: Cancel ends the turn, the rest is dropped (asks and
modes are `Gates`' subject). The frontend sends input whether or not it is
busy, and its `busy` is set by its own key and cleared by `TurnEnded`.
Commands, events and halt surfaces carry a history bit `live`: whether they are
about the halt the engine is parked in now.

A message typed at a halt is not sent (`NoPrompt`), since a halt surface owns
the keyboard. An answer to a halt becomes `resume` (continue, steer) or `stop`
(stop, finish). A session switch is one command, which may fail; it resets what
`adopt_session` resets.

### History

A message is known by the index of the transcript record it came from, and 0 is
a message no record holds: an image or document a tool returned, the report of
a failed check. `view` is what a `ViewCache` holds: the messages, their turn
numbers, the next number, whether something was compacted, whether the original
task was recorded. `Push`, `TurnStarts`, `CutBefore`, `BuildTurnMap`, `Sent`
and `Replay` are the code's functions on lists; the rest is one action per
handler, with its records in the order the code writes them. `Crash` may happen
between any two handlers, and `CrashAnswering` in the middle of the only
handler that writes several records of one answer. `offRecord` is history: the
conversation and the transcript no longer hold the same messages.

Whether usage is over the threshold is a free choice at each report. That is
coarser than the code, where usage depends on the messages; it only adds
behaviours.

### Subagents

A request is a call and the agent it wants a turn of. `driver[a]` is
`run_subagent_driver`, `engine[a]` the nested engine as the driver sees it:
hearing, in a turn, asking the root, parked at a halt, dead. `held` is the one
place the root's handler can wait, `turn_tx.send` on a full queue. A time-out
answers the call and leaves the turn running; its late answer meets nobody.
Ending or reaping drops the instance, and driver and engine wind down by
themselves. Usage is a number of units; each report adds the difference to what
was reported before to the session that is current then.

### Frontend, LineFrontend, Editor

`Frontend` is the terminal's keyboard focus: palette, wizard, overlays, four
prompt slots, editor, in the order `on_key` asks them, and what each key sends.
The engine is what a frontend meets of it: between turns it reads everything,
in a turn few commands, in some stages (`TurnsDeaf`) none. A prompt carries its
id and a serial that no other shares; ids restart with a resumed session, so
whether an answer met its own request is a question (`history.misdirected`).
`history.early` says that a switch was sent before the last turn's end was
shown, which the frontend means to refuse. `MaxActs` bounds messages, requests
and switches together.
`LineFrontend` has no slots but one `pending`, which an event replaces, and what
a typed line becomes depends on it alone. `Editor` has text over a few kinds of
characters (wide, combining, space, newline) and positions between them.

### Sse, Streams, Requests, McpClient

`Sse` is the parser byte by byte with its scan position and its cap; `Streams`
takes frames whole and runs them through either mapper into `TurnOutput`, with
the silence windows, drops, retries and the commit. `server` and `answer` are
what the provider meant, which the committed message is compared with.
`Requests` builds both providers' bodies from one conversation under model
switches, cancels and windows. In `McpClient` a line travels in two halves, so
that a call canceled in the middle leaves half a request or half an answer in a
pipe; the lock is tokio's mutex, and the server may be silent, talkative or gone.

### BashTool, FileTools, Output, Confine

`BashTool` has the operating system's processes, groups and zombies; a process
id is free again when no process and no group has it. `FileTools` has three
places and a link that leads to one of them; a call resolves, reads, asks and
writes in the code's order while the user edits and relinks. `Output` computes
reduction and truncation over texts of a few units, with their size limits.
`Confine` has the probe, the git recorded at start, the scan of a command for
shell syntax and both backends' decision over the root's entries and inodes.

### Memory, Skills, Config, Launch, SessionFile

`Memory` writes entry and index in two steps, by two engines, with a crash in
between, and carries the inspector's requests and replies over bounded channels.
`Skills` scans for the catalog and searches again at every invocation.
`Config` merges tiers, with provenance as `load` reports it, and follows a
reload, a profile switch and the wizard's two writes while the user edits.
`Launch` is the trust gate of several processes over one store; a save
truncates, writes and makes private in three steps, and a process may die
between any two. `SessionFile` is the transcript as pieces of two writes each.

## What the runs check

Twelve runs; `PROJECT.json` says what each shows, and names for every property
of a passing run a mutation of a modelled definition that breaks it.

| Run | Shows | Bounds and why they are enough |
|---|---|---|
| `gates` | authorization, records, owners; refinement of `Authority` | one subagent, three requests (an edit inside, one outside, a denied command), two calls, one ask per asker, one message, cancel and mode change: two askers are needed for every mix-up of answers, two calls for an ask that crosses from one into the next; no property counts asks |
| `gates_live` | stashed asks reach a prompt, the root's asks an answer | no subagent, two asks: a second follows an answered or canceled one |
| `turn_loop` | the guardrail's bound, halts on the screen, turns end, the user in control | two signatures, one result, repeat window 2, no-progress 3, two attempts each, two commands and one event under way: with one result a batch is new once; two signatures let the streaks differ; two commands let a stale one precede a live one |
| `history` | replay, cache, numbering, what is sent | keep and window one turn, two calls, eight records, two lives: a compaction needs three turns, a window two, a split batch two calls, a resume a second life |
| `subagents` | usage counted once, the ceiling, answers of their own turn, winding down | ceiling 1, queue of 1, two agents ever, a batch of 2, three calls, two sessions: one agent over the ceiling, one message over the queue, one call behind a timed-out one |
| `wire` | frames, answers, tool server calls, request bodies | bodies of 7 bytes in chunks up to 5 with a cap of 3; two attempts, two calls of two fragments, two thoughts, three blocks; two callers, three calls and a pipe of three lines; four messages, one output limit too small for any thinking budget and one that caps the larger budgets |
| `frontends` | prompts, answers and views of both frontends; the editor | three typed lines and two tool calls; two prompts, three messages, a request and a switch, four of them in all, one overlay, two places per channel; texts of four characters, two of history |
| `tools` | rules, process groups, approved writes, output, fence | eight queries that differ one by one in what a rule looks at, four files, two grants; four process ids and forks; two callers, one link, one change under the prompt; outputs of up to four lines around limits of three; quotes and escapes in every order up to three |
| `disk` | memory, configuration, trust, session file, skills | two names that share a file, two scopes, a crash; one profile and one edit; two terminals, three folders, one inside another, four launches; two writers, four records, three runs; two spellings of one name, an edit |
| `prompts_queue`, `replay_correct`, `subagent_blocks_root` | disagreements, below | as small as shows them |

`turn_loop` and `history` check for deadlock; `TurnLoop` and `History` end in
explicit self-loops (the process is over, the session is left, the transcript
is at its bound). The others do not: users, tools and servers with a bounded
number of commands, asks and lines may stop.

The `Max...` constants, `Capacity`, `CommandRoom` and `EventRoom` (256 in the
code) are the only bounds; a bound is always in a guard or on a counter that is
only ever compared with it.

### Fairness

`FairSpec` of `Gates` and of `TurnLoop` assume that the engine's task, the
tools and the frontend run; that streams end (idle time-out) and tools that are
not waiting end (tool time-outs); that the user answers a prompt that stays on
the screen (`Gates` only). tokio's `select!` polls its ready branches in random
order, so a command that is there again and again is taken: strong fairness of
`StreamCommand` and `ToolsCommand`, whose stages come and go. No fairness makes
the user send anything, leave, or resolve a halt, nor makes the model stop
asking for tools. `UserKeepsControl` has no asks in it: with a tool that asks
after the frontend left, the end of a session is not promised (below).

`Subagents` assumes that timers fire and tasks run, that a user answers what
the root asks, and that a turn ends or parks; the root need never call a tool.
`Streams` assumes its timers and the engine's steps, nothing of the provider:
`TurnEnds` is about one that falls silent. `McpClient` assumes its timers and
that the lock is handed to each waiter in turn (strong fairness of `Acquire`:
tokio's mutex is a queue), nothing of the server. `LineFrontend` assumes that
both arms of its select and the engine's loop go on; nobody has to type.

## Where code and documents disagree

Each of three is a run that TLC finds violated; `PROJECT.json` quotes the lines.

* `prompts_queue`: a second permission request replaces the prompt on the
  screen; the documents say it queues.
* `replay_correct`: replay applies a compaction's indices to a shorter list and
  loses messages, when an image, a document or a gate report came before it.
* `subagent_blocks_root`: a message to a busy subagent whose queue is full holds
  the root's handler, which the comment says never waits, and with it the root
  that the subagent's ask may be waiting for.

Others were met on the way. The models have the behaviour, the properties
exclude exactly that case and say so, and `PROJECT.json` has each as a hazard:

* an ask that arrives after the frontend left is awaited for ever
  (`engine/turn.rs:348`), which `LeavingEnds` excludes;
* an operation of a canceled call is performed in a later call, while the
  history says the call never ran (`engine/turn.rs:336`);
* a message sent before the last turn's end is shown loses its spinner to that
  end, and the frontend then lets a switch through in the middle of a turn
  (`app/actions.rs:322` says that it gates this). The dropped switch has reset
  the view; a prompt of the old session that is still on the screen may then
  answer a request of the new one that bears the same id, which
  `AnswersMeetTheirRequest` excludes;
* a switch can reach a running turn, which drops it after the frontend has
  already switched (`engine/mod.rs:1459`), which `SettledViewAgrees` excludes;
* the guardrail's memory outlives the session (`engine/session.rs:127`);
* an image in the middle of a batch starts a "turn" there, so that the window
  may separate a call from its result, which `SentIsWhole` excludes;
* the conditions of `ReplayFaithful` (both sides hold the same messages),
  `MemoryHolds` (no index spoiled by two writers or a crash), `AnswerIsWhole`
  (one thought) and `TrustHolds` (a revocation no save overlaps) are each a
  place where the unconditional promise is false of the code.

## What is proved

### The permission seam

For every set of subagents, every set of requests, every base rule set, every
bound, and whether or not the frontend may leave. The only assumption is
`GatesAssumption`: the constants have their types, and the base rules are a
sequence of what they contain.

* `TypeCorrect`: `Spec => []TypeOK`.
* `AuthInvariant`: `Spec => []AuthInv`.
* `AuthorizationSafety`: `Spec => []EffectsAuthorized`: whatever a tool does
  behind a permission was asked for by that agent, recorded with an allowing
  decision, and, outside the root, allowed by the user at a prompt for that very
  ask.
* `SeamCorrect`: `Spec => []SeamHolds`: each request is decided at most once,
  each standing grant comes from the user's answer to a request it covers, and
  every tool that waits has an owner that will resume it.
* `SeamImplementsAuthority`: `Spec => ImplementsAuthority`: initial states map
  to initial states, and every step maps to one of `Authority`'s or a stutter.

`EffectsAuthorized` is not inductive: it speaks of what tools did, and says
nothing of a tool that is about to act. `AuthInv` adds what leads there: an
answer under way in `commands` is one the user gave (`AnswersAreGiven`); a
stashed ask is recorded under its id (`PendingRecorded`); an ask in the channel
or the log that its tool still waits on is about what the tool wants
(`RaisedIsWanted`), since tools act on `want` and the engine decides on the ask;
and a tool in state `allowed` is `Authorized` for its current ask
(`AllowedAuthorized`), which `RunAllowed` turns into `EffectsAuthorized`. The
step lemmas follow the three groups of `Next`; most steps reply to nobody and
record nothing, which two lemmas (`QuietStep`, `SilentStep`) settle once.

Behind `SeamCorrect` is one invariant for each part of `SeamHolds`.
`RecordInv`: ids are below the counter and distinct; a prompt's id is on its way
once, or on the screen, or answered; a pending ask is undecided; a decision is
the user's answer or was made without a prompt. `GrantInv`: what follows the
base rules are grants that the user's answers gave. `OwnerInv`: the asks in
channels and vectors are distinct, so that the one an agent waits on is in one
place, and dropping or answering it resumes that agent alone. The refinement
uses `AuthInv` and `RecordInv` to show, action by action, which of the four
abstract steps is taken: an ask raised is new, and a decision that executes is
about a raised ask, approved if it is outside the root.

### Turns and halts

For every set of signatures, results and files, every limit (positive numbers,
`TurnLoopAssumption`) and every bound on what is under way:

* `TurnTypeCorrect`: `Spec => []TypeOK`, with the bounds of every counter in it.
  What makes it inductive is `DropsLeft`: a turn under way has dropped fewer
  streams than `MaxAttempts`, so the next drop still fits.
* `SpinCorrect`: `Spec => []NeverSpinsOn`. `SpinInv` adds that `spinning`, the
  batches in a row that showed nothing new, never exceeds the guardrail's own
  `noProgress` while it is on: something new resets both, nothing new adds to
  both, and only `spinning` starts over with each turn.
* `HaltCorrect`: `Spec => []HaltReachesUser`. `HaltInv` says in three parts that
  a frontend that left has no events and no prompts (`Gone`), that nothing under
  way or on the screen belongs to a halt unless the engine is parked
  (`NothingLive`), and that a parked engine's own notice is the last event, on
  the screen with no event behind it, or answered (`OwnSurface`, `Reached`).

### Subagents' answers, ceiling and usage

For every ceiling, queue, batch, number of agents, calls and sessions:

* `AnswersCorrect`: `Spec => []AnsweredByOwnTurn`. The answer a driver hands on
  names no turn: the driver takes the next `TurnEnded` for that of the request
  in its hand. `OwnTurn` is why that is right: while a driver has a request, its
  engine has that one alone, or has ended it with one event; while it has none,
  the engine and its events are empty, unless the engine is dead. A time-out
  changes the caller's side only, so it cannot break this; the mutant that makes
  the driver give up does.
* `AccountCorrect`: `Spec => []AccountHolds`, in three parts. Types. The ceiling:
  a batch is born with new numbers (`Unborn`: an agent above `nextSeq` has no
  driver), at most as many as the ceiling leaves (`BornType`), and no other step
  adds an agent. The account: `Balance` says that the sessions' totals and the
  reports in the channel add up to what the drivers reported, and `InOrder` that
  what was reported is never more than a turn's end on its way says, nor that
  more than was spent, so that no difference is ever negative. Sums are
  recursive functions (`SumOf`); that they exist, and what one more, one fewer
  or one changed member does to them, is proved from the well-ordering of the
  numbers (`Climb`).

### The transcript and its cache

For every length of the transcript, number of turns kept, calls, lives and
compactions:

* `ReplayCorrect`: `Spec => []ReplayFaithful`. `Inv` holds the property also
  while the session is away (`Faithful`), since a resume starts from there. The
  lemmas say what one more record does to a replay: nothing (`ReplayQuiet`), one
  message (`ReplayUser`, `ReplayResult`), a splice (`ReplayCompaction`), or, for
  the records of one answer together, one message with all its calls
  (`ReplayAnswer`). That last one needs that no record of another answer comes
  right before, which would swallow the new one's calls (`StreamClean`). A
  replay is a recursive function over the transcript; `ReplayIs` gives its
  values one by one, and `Climb`, induction over a set of numbers, goes through
  them.
* `ResumeCorrect`: `Spec => ResumeRestoresView`. A cache as long as the
  transcript holds the conversation (`CacheAgrees`): every step that leaves the
  cache behind makes the transcript longer. An ended transcript that has a cache
  has one of its length (`EndCached`).
* `CompactionCorrect`: `Spec => CompactionKeeps`. `Numbered` adds to the
  property that no two messages come from one record and none from a record to
  come (`Apart`), also across replays (`ReplayApart`): so a message that stays
  is found again by its record. Pushes, splices and replays keep both
  (`NamedLonger`, `NamedSpliced`, `ReplayedNumbers`). A splice does because what
  follows a cut begins with a user's message (`CutIsTurn`, from counting a
  finite set from its end, `FromTheEnd`); without that, the messages after the
  summary would bear a number whose turn's first message is gone, and not their
  predecessor's.
* `SentCorrect`: `Spec => []SentIsWhole`. `PairInv` is `Batch` (calls that wait
  have no result yet, each waits once; in a first life every other call has its
  result) and `Conversations`: `Sound` holds of the conversation and also of the
  replay of its transcript, which a resume adopts. `Sound` is `Pinned` (the task
  comes first, after it the latest summary) and `Whole`: a call is made by one
  message only, results belong to calls that got one, users' messages to none,
  and an answered call has its result at or after its message. A cut in front of
  a user's message cannot part a call from its result, since between the two
  there is no user's message (`IsPair`); and a call that still waits is
  `OpenAt`: none has come after it. `Whole` is claimed only of transcripts whose
  compactions were computed on recorded messages (`Clean`) and of conversations
  in which no result follows an unrecorded message (`Unbroken`): the property
  has the same two conditions (`BatchesWhole`), since an image attached in the
  middle of a batch does separate calls from results. `WholeSpliced` carries it
  over windows and compactions, `WholeAnswer` and `WholeResult` over a batch.

### The terminal's prompts, answers and view

For any number of messages, acts, prompts, requests, switches, overlays and
places in the channels (`FrontendAssumption`):

* `FrontendTypeCorrect`: `Spec => []TypeOK`, the types of `FrontendProofs`.
* `ReachCorrect`: `Spec => []PromptReachesUser`. That the prompt the engine is
  parked at is on its way, in its slot or answered is not inductive: an older
  prompt behind it on the way could replace it in the slot. `RaisedInOrder`
  excludes that: serials grow along the events, none is above that of the prompt
  raised last, and the engine waits on the last one.
* `SettleCorrect`: `Spec => []SettledViewAgrees`. `SpinnerTells`: a spinner
  turns only while a message, a turn or a turn's end is on its way.
  `ViewFollows`: the view is of the engine's session and no switch is on its
  way, or of the session that the last switch on its way names, or a switch went
  astray.
* `AnswersMeetCorrect`: `Spec => []AnswersMeetTheirRequest`. Questions' ids never
  restart, so a question's answer is current for good (`AskCurrent`). Those of
  permissions restart with a session, and what saves the answers is order: a
  switch is only on its way when no prompt, no turn's end and no message is
  before it (`SwitchesFirst`), and no prompt outlives its turn's end on the way
  (`PromptBeforeEnd`), unless a switch went early.

### Lines typed at the prompt, and the text being typed

About `Frontends`, under `FrontendsAssumption`:

* `LineCorrect`: `FrontendsSpec => []LineFollowsEngine`, for any number of lines,
  prompts and tool calls. The property speaks of the moment when both channels
  are empty; `LineInv` says what holds while they are not. What the engine waits
  on is the last prompt among the events under way; or none is under way and it
  is the open one; or its answer is among the commands under way (`Reached`). A
  line typed at an open prompt moves it from the second case to the third, for
  which it matters that a call's answers carry its number (`WaitsInPlace`). The
  mode is that of the last change under way, or the one shown (`ModeFollows`).
* `MotionsCorrect`: `FrontendsSpec => MotionsKeepText`, the action property, for
  texts of any length and history. `EditorInv` keeps the cursor in the text, the
  entry on show in the history and what was put aside equal to what was being
  typed. Each target of a key is then the least or the greatest of a set of
  boundaries (`LeastIs`, `GreatestIs`), and a boundary of a line is one of the
  text since a newline ends the line before it (`ColumnIs`). How wide a character
  is does not matter to the proof.

### Calls to a tool server

* `AnswersMatchCorrect`: for every set of callers and any number of calls, lines
  and places in the pipes, `Spec => []AnswersMatch`, if the server sends no
  requests of its own (`~ServerAsks`: one with a call's id is taken for its
  answer, a hazard that `PROJECT.json` lists). A call canceled between the two
  halves of a line leaves the first with the client and the second in the pipe:
  what comes are halves in pairs (`InPairs`), the last pair possibly unfinished
  (`InTheMiddle`), and what was read of a line is the first of the next pair
  (`ReadSoFar`). So whatever line is completed, by whichever call, is one line.

### What a provider sends

* `FramesCorrect`: for every body, every way to cut it into chunks and every cap,
  `WireSpec => []FramesAreWhole`. `Scan` is the loop of `push` as a recursive
  function on texts; the proof first builds it, length by length, to know that
  it is the function its equation describes (`ScansExist`, `ScansAgree`,
  `ScanIs`). Then `ScanGoesOn`: a text scanned with more after it gives the
  events of the text and those of what was left joined with the more, since a
  first separator stays the first (`FirstStays`). `ResumeMissesNothing` is why
  three bytes back are enough: none of the four can lie in what holds no
  separator. So what was dispatched and what is kept is always what one scan of
  all bytes so far gives (`SseInv`, which TLC checked before).
* `WholeAnswersCorrect`: for either wire and any number of attempts, calls,
  fragments, thoughts and blocks, `WireSpec => []AnswerIsWhole`. `StreamsInv`
  (in `Streams`, under "The invariant") says that, were the events that wait
  taken, the engine would have what the provider has said so far
  (`Told(After(out, queue))`); taking an event changes neither (`TakeKeeps`), so
  what is left is one lemma per kind of frame, each with at most two events.
  A fragment finds its call because calls bear different ids (`FragmentGoes`):
  OpenAI's index in the table is the call's own, or one made of the index;
  Anthropic's block is counted. A thought has no signature while its block is
  open, and the one its mapper gathers is the provider's (`ThoughtsTold`); at
  the end there is reasoning to sign, or the signature is of a redacted one. The
  model has one delta of text, and numbers instead of the content of other
  deltas.

### The life of the rules

Under `Inputs` (queries, allowlist and configuration files are made of words; a
configured rule has no empty prefix and is not of the session):

* `GrantsLastCorrect`: `Spec => []GrantsLast`. `EngineInv` says where each rule
  came from: up to `base_len` none is of the session, after it each is a grant
  the user gave; every grant is held, and a persisted one is in the file with
  nothing behind it that would outrank it. `ReloadKeeps` is its core.
* `RankCorrect`: `Spec => []RulesKeepRank`. That `decide` has a winner, and one
  only, is the existence of a greatest match under its order, by well-founded
  induction (`GreatestBounded`, `WinnerExists`, `WinnerUnique`).

### What a command and an edit leave behind

About `Tools`; the first two for every value of its constants, the last under
`ToolsAssumption` (engines and entries of the root are finitely many, `.git` is
not among the other entries, a command's text is a sequence):

* `KillCorrect`: `ToolsSpec => NothingOutlivesTheKill`, an action property.
  `BashInv` says that a process of somebody else's is always in a group of its
  own name, that nobody was struck before the call's end, and that while the
  call runs the leader's identifier is the leader's until it is reaped. So the
  group that is killed is the command's and no other.
* `WritesCorrect`: `ToolsSpec => WritesAsApproved`, an action property. By
  `FilesInv` a call that was allowed, or has emptied its file, is about the
  place and the content approved, which is not under `.git`; the link may have
  moved since, and is not asked again.
* `ConfinementCorrect`: `ToolsSpec => []ConfinementHolds`. `ScanIsShell` is about
  texts of any length: that `HasDangerousShellSyntax`, a scan from left to right,
  finds fault just when `OnlyWords`, which cuts the text into pieces, finds no
  cut. Both are recursive functions, whose existence is proved by climbing to
  the length of the text (`ScanExists`, `EndsExist`). One way, wherever the scan
  stands there is a row of pieces behind it, up to an open quote if it is in one
  (`ScanIsSound`); the other way, the scan comes to the end of every piece of a
  cut (`PieceScanned`). Inside double quotes they agree because a character is
  escaped just when the one before it is a backslash that is not
  (`EscapedNext`), while the model asks for an odd run of them. `ConfineInv` then
  relates what a command was granted at its spawn to the entries as they are
  now: a new entry has an inode that no running command was given (`FreshIs`),
  so `.git` is never among the inodes of a command that is not git's, and every
  other entry of the spawn is.

### What outlives a process

`DiskProofs` proves the six properties of the `disk` run as theorems of `Disk`,
for every value of the constants under `DiskAssumption`: folders are among their
own ancestors (`Nesting`), a memory starts with finitely many entries, bounds
are numbers. The invariant of a part stands in its module, under "The
invariant"; TLC checked each before it was proved. An invariant of a part is
carried over `DiskNext` because a step of another part leaves its variables.

* `TrustCorrect`: any number of processes and launches, any allowlist, any tree
  of folders. `TrustInv` adds what each process holds in its hands: a copy of
  the store is always a set of accepted folders, and a save under way brings
  back nothing revoked but the folder it was accepted for.
* `MemoryCorrect`: any names, any slugs of them, any room in the channels, any
  number of calls, questions and crashes. `MemoryInv` has eight parts. An entry
  is in the file of its own name and bears that file's text (`EntriesAtHome`);
  every row of a list, on the screen or on its way, is of a file that a name
  has, and every body or edit on its way is of the file of its key (`Screen`).
  That a scope is not spoiled means that nobody else was between a file and the
  index when its writer was (`SharedIsSpoiled`); `IndexLists` then follows the
  writer from file to scan to index. `StatusFollows` says that the last status
  among the events under way, or the one shown when there is none, is the
  count of the directories. What is counted is a finite set, which each write
  changes by one at most.
* `RecordsCorrect`: any number of runs, records and kills. Pieces are `Dead`
  when a kill left them and `Joined` when no newline parts them; each append
  that is cut adds at most one dead piece, each that finds another's open line
  at most one join (`Costs`). A lost record is one that a dead piece or a join
  spoils, and `LossPaid` maps the lost into those two sets one by one, which is
  the bound. Numbers that grow along the file (`Numbered`) make records
  distinct.
* `CatalogCorrect`: any slugs, any folders, any setting. While no folder changed
  since the catalog was derived, it is one that a derivation of the present
  folders gives (`CatalogInv`); and where folders bear the names of their skills,
  the search goes to the scope that won the scan (`DerivedTells`).
* `SettingsCorrect` and `WritesOnlyAdd`: any options, profiles and fields.
  `ProvenanceNamesWinner` holds of every content of the files: `WinnerNamed`
  sets the chain of tests beside the merge, tier by tier. The invariant is that
  both files and the keys are tables (`Tables`), which every edit keeps, and
  that what was reported written can be built. `ProfileWritten` is the step that
  matters: the written name resolved to nothing, so the entry under it is the
  new one alone, and every other profile is the merge of what it was.

### Only model-checked

The other safety properties, and everything about time. Out of the prover's
reach are the liveness properties (it has no fairness and no ENABLED) and the
runs' properties about data that is computed: `Output`'s reduction and the
bodies of `Requests` are folds over texts and conversations.

## What is not modelled

`PROJECT.json` lists every part with its status. In short:

* Text: wording, layout, markdown, themes, diff layout, JSON and TOML syntax,
  slash-command arguments, tool descriptions, the system prompt's sections. They
  carry no state a property is about.
* Rendering and view state: scrolling, text selection, palette filtering,
  animation. `Frontend` has only which surfaces a frame leaves clickable.
* Pure I/O: scratch directories and cleaning, export, init templates, listing
  sessions, TLS, headers and authentication, image decoding, search.
* Numbers without a property: token estimates, cost, the jittered retry delay.
* Back-pressure of the 256-place channels, except in `Memory` and `Frontend`
  (small bounds) and the four-place queue of `Subagents`.
* The rebuild of the tool registry and of MCP connections on `/reload`, and the
  handshake of an MCP server.
* Titles, and attachments staged for a message outside `Frontend`.

In `History` a handler is atomic with respect to a crash, except the recording
of an answer; `session_end` and its cache are written in one step (a crash
between them leaves an older cache, which the length guard refuses). Torn
records are the subject of `SessionFile`, which has no conversation.

## What is left

* Compositions: `TurnLoop` with `Gates` over one pair of bounded channels, for
  two full channels that wait for each other; `SessionFile` under `History`, so
  that the whole-record log is a refinement of the file.
* `/reload` of tools and servers, and the subagents that still hold the old
  ones.
