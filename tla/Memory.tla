------------------------------- MODULE Memory -------------------------------
(* The durable memory: a directory per scope, of entry files and an index,   *)
(* written by the root engine for its tool and for the inspector, and by a   *)
(* subagent's engine, which shares the directories and nothing else; the     *)
(* index each engine pins into its prompt; the inspector of the frontend.    *)
(* (core memory.rs and engine/memory.rs; memory.rs and builtin/memory.rs of  *)
(* emberly-tools; app/memory.rs and tui.rs of emberly-tui)                   *)
EXTENDS Integers, Sequences, FiniteSets, SequencesExt

CONSTANTS
    Keys,         \* what an entry is asked for by: [scope, name]
    Slug(_),      \* the stem of the file a name is stored in
    Earlier,      \* bound: the sets of entries earlier sessions may have left
    Descriptions, \* the one-line summaries entries are given
    CommandRoom,  \* bound: commands under way (the code: 256)
    EventRoom,    \* bound: events under way (the code: 256)
    MaxCalls,     \* bound: calls of the memory tool
    MaxAsks,      \* bound: requests of the inspector
    MaxCrashes    \* bound: ends of the process

MemoryAssumption ==
    /\ Earlier \subseteq SUBSET Keys
    /\ \A stored \in Earlier : IsFiniteSet(stored)
    /\ \A k \in Keys : k.scope \in {"user", "project"}
    /\ {CommandRoom, EventRoom, MaxCalls, MaxAsks, MaxCrashes} \subseteq Nat

Scopes == {"user", "project"}
Writers == {"root", "subagent"}
FileOf(key) == [scope |-> key.scope, stem |-> Slug(key.name)]
Files == {FileOf(k) : k \in Keys}

(* What a file holds.  Of a body only the file whose text it is counts.      *)
Entry(key, description, text) ==
    [is |-> "entry", name |-> key.name, description |-> description, text |-> text]
Absent == [is |-> "absent"]
Torn == [is |-> "torn"]
Closed == [open |-> FALSE, rows |-> <<>>, selected |-> 1, confirm |-> FALSE]
NoFetch == [intent |-> "none"]
NoOp == [step |-> "none"]

VARIABLES
    trusted,   \* is there a project_dir
    files,     \* the entry files
    index,     \* MEMORY.md of each scope, a set of lines
    op,        \* of each writer the request it executes
    pinned,    \* MemoryState.user_index and project_index of the root
    turn,      \* is a turn of the root running
    commands, events,
    inspector, \* the inspector's overlay
    fetch,     \* MemoryPanel.fetch
    status,    \* MemoryPanel.user and .project
    made,      \* bounds: calls, requests and crashes so far
    history    \* asked: the row a waiting delete was begun on; dirty: scopes of
               \* which two writers or a crash spoiled the index; foreign: the
               \* subagent wrote since the root last looked; dropped: a status
               \* found no room

disk == <<files, index>>
screen == <<inspector, fetch, status>>
vars == <<trusted, disk, op, pinned, turn, commands, events, screen, made, history>>

Available(scope) == scope = "project" => trusted
Existing(scope) == {f \in Files : f.scope = scope /\ files[f].is # "absent"}
(* count_entries counts the files, scan_entry_metas lists those that parse.  *)
Count(scope) == IF Available(scope) THEN Cardinality(Existing(scope)) ELSE 0
Counts == [s \in Scopes |-> Count(s)]
Line(f) == [name |-> files[f].name, description |-> files[f].description]
Listing(scope) == {Line(f) : f \in {f \in Existing(scope) : files[f].is = "entry"}}
Rows(scope) ==
    IF ~Available(scope) THEN <<>>
    ELSE SetToSeq({[key |-> [scope |-> scope, name |-> l.name], description |-> l.description] :
                      l \in Listing(scope)})

(* load_index: an index is read as it is, however old (a missing one is      *)
(* built, here when the process first starts).                               *)
Load == [s \in Scopes |-> IF Available(s) THEN index[s] ELSE {}]

Status == [type |-> "Status", counts |-> Counts]
Emits(e) == Len(events) < EventRoom /\ events' = Append(events, e)

Init ==
    /\ trusted \in BOOLEAN
    /\ \E stored \in Earlier, d \in Descriptions :
           files = [f \in Files |->
                       IF \E k \in stored : FileOf(k) = f
                       THEN Entry(CHOOSE k \in stored : FileOf(k) = f, d, f) ELSE Absent]
    /\ index = [s \in Scopes |-> IF Available(s) THEN Listing(s) ELSE {}]
    /\ op = [w \in Writers |-> NoOp]
    /\ pinned = Load
    /\ turn = FALSE /\ commands = <<>> /\ events = <<>>
    /\ inspector = Closed /\ fetch = NoFetch /\ status = Counts
    /\ made = [w \in {"tool", "inspector", "crash"} |-> 0]
    /\ history = [asked |-> <<>>, dirty |-> {}, foreign |-> FALSE, dropped |-> FALSE]

------------------------------------------------------------------------------
(* execute_memory_op, whose file operations interleave with another engine's *)

Busy(w) == op[w].step \in {"file", "scan", "index"}
Other(w) == CHOOSE v \in Writers : v # w
Foreign(w) == history.foreign \/ w = "subagent"

AfterRemove == "refresh"

\* A subagent's pinned index and its events are its own.
After(w, step) == IF w = "root" THEN [step |-> step] ELSE NoOp

(* MemoryStore::execute up to its first write.  Two writes that overlap in a *)
(* scope spoil each other's index.                                           *)
Begin(w, kind, key, description, text) ==
    LET f == FileOf(key)
        stores == \/ kind = "write" /\ Available(key.scope) /\ files[f].is = "absent"
                  \/ kind = "update" /\ Available(key.scope)
        removes == kind = "remove" /\ Available(key.scope)
        overlap == stores /\ Busy(Other(w)) /\ op[Other(w)].key.scope = key.scope
    IN  /\ op[w] = NoOp
        /\ op' = [v \in Writers |->
                     IF v # w THEN IF overlap THEN [op[v] EXCEPT !.clean = FALSE] ELSE op[v]
                     ELSE IF stores
                          THEN [step |-> "file", kind |-> kind, key |-> key, clean |-> ~overlap,
                                entry |-> Entry(key, description, text), lines |-> {}]
                          ELSE After(w, IF removes THEN AfterRemove ELSE "refresh")]
        /\ files' = IF removes THEN [files EXCEPT ![f] = Absent] ELSE files
        /\ history' = [history EXCEPT !.dirty = @ \union (IF overlap THEN {key.scope} ELSE {}),
                                      !.foreign = Foreign(w)]
        /\ UNCHANGED index

Aside == UNCHANGED <<trusted, turn, commands, screen, made>>

AfterFile(kind) == "scan"

WriteFile(w) ==
    /\ op[w].step = "file"
    /\ op' = [op EXCEPT ![w] = IF AfterFile(op[w].kind) = "scan"
                                 THEN [@ EXCEPT !.step = "scan"]
                                 ELSE After(w, AfterFile(op[w].kind))]
    /\ files' = [files EXCEPT ![FileOf(op[w].key)] = op[w].entry]
    /\ history' = [history EXCEPT !.foreign = Foreign(w)]
    /\ UNCHANGED <<index, pinned, events>> /\ Aside

(* regenerate_index reads the directory, then writes the index.              *)
Scan(w) ==
    /\ op[w].step = "scan"
    /\ op' = [op EXCEPT ![w].step = "index", ![w].lines = Listing(op[w].key.scope)]
    /\ UNCHANGED <<disk, pinned, events, history>> /\ Aside

WriteIndex(w) ==
    /\ op[w].step = "index"
    /\ op' = [op EXCEPT ![w] = After(w, "refresh")]
    /\ index' = [index EXCEPT ![op[w].key.scope] = op[w].lines]
    /\ history' = [history EXCEPT !.dirty = @ \ (IF op[w].clean THEN {op[w].key.scope} ELSE {}),
                                  !.foreign = Foreign(w)]
    /\ UNCHANGED <<files, pinned, events>> /\ Aside

(* refresh_memory_indexes and MemoryStatus.                                  *)
Refresh ==
    /\ op["root"].step = "refresh"
    /\ op' = [op EXCEPT !["root"] = NoOp]
    /\ pinned' = Load
    /\ Emits(Status)
    /\ history' = [history EXCEPT !.foreign = FALSE]
    /\ UNCHANGED disk /\ Aside

------------------------------------------------------------------------------
(* The engines                                                               *)

Counted(what, limit) == made[what] < limit /\ made' = [made EXCEPT ![what] = @ + 1]

(* A call of the memory tool: the root's while a turn runs, a subagent's any *)
(* time.                                                                     *)
ToolCalls(w) ==
    /\ w = "root" => turn
    /\ Counted("tool", MaxCalls)
    /\ \E kind \in {"write", "update", "remove", "recall"}, key \in Keys, d \in Descriptions :
           Begin(w, kind, key, d, FileOf(key))
    /\ UNCHANGED <<trusted, pinned, turn, commands, events, screen>>

StartOrEndTurn ==
    /\ op["root"] = NoOp
    /\ turn' = ~turn
    /\ UNCHANGED <<trusted, disk, op, pinned, commands, events, screen, made, history>>

(* MemoryView is a recall that neither refreshes nor counts.                 *)
BodyOf(key) ==
    LET f == FileOf(key) IN
    [type |-> "Body", key |-> key,
     text |-> IF Available(key.scope) /\ files[f].is = "entry" THEN files[f].text ELSE f]

(* Between two turns; during one a command of the inspector is dropped.      *)
TakeCommand ==
    /\ commands # <<>> /\ op["root"] = NoOp
    /\ commands' = Tail(commands)
    /\ LET c == Head(commands) IN
       \/ /\ turn
          /\ UNCHANGED <<disk, op, events, history>>
       \/ /\ ~turn /\ c.type = "List"
          /\ Emits([type |-> "Entries", rows |-> Rows("user") \o Rows("project")])
          /\ UNCHANGED <<disk, op, history>>
       \/ /\ ~turn /\ c.type = "View"
          /\ Emits(BodyOf(c.key))
          /\ UNCHANGED <<disk, op, history>>
       \/ /\ ~turn /\ c.type = "Mutate"
          /\ Begin("root", c.kind, c.key, c.description, c.text)
          /\ UNCHANGED events
    /\ UNCHANGED <<trusted, pinned, turn, screen, made>>

(* apply_session_state of a new or resumed session: the status is sent only  *)
(* if there is room.                                                         *)
SwitchSession ==
    /\ ~turn /\ op["root"] = NoOp
    /\ pinned' = Load
    /\ \/ /\ Emits(Status)
          /\ history' = [history EXCEPT !.foreign = FALSE]
       \/ /\ Len(events) = EventRoom
          /\ history' = [history EXCEPT !.foreign = FALSE, !.dropped = TRUE]
          /\ UNCHANGED events
    /\ UNCHANGED <<trusted, disk, op, turn, commands, screen, made>>

(* The process ends, perhaps in the middle of a file, and starts again.      *)
Crash ==
    /\ Counted("crash", MaxCrashes)
    /\ \E torn \in SUBSET {FileOf(op[w].key) : w \in {w \in Writers : op[w].step = "file"}},
          empty \in SUBSET {op[w].key.scope : w \in {w \in Writers : op[w].step = "index"}} :
           /\ files' = [f \in Files |-> IF f \in torn THEN Torn ELSE files[f]]
           /\ index' = [s \in Scopes |-> IF s \in empty THEN {} ELSE index[s]]
    /\ history' = [asked |-> <<>>, foreign |-> FALSE, dropped |-> FALSE,
                   dirty |-> history.dirty
                             \union {op[w].key.scope : w \in {w \in Writers : Busy(w)}}]
    /\ op' = [w \in Writers |-> NoOp]
    /\ pinned' = [s \in Scopes |-> IF Available(s) THEN index'[s] ELSE {}]
    /\ turn' = FALSE /\ commands' = <<>>
    /\ inspector' = Closed /\ fetch' = NoFetch
    /\ status' = [s \in Scopes |->
                     IF Available(s) THEN Cardinality({f \in Files : f.scope = s /\ files'[f].is # "absent"})
                     ELSE 0]
    /\ events' = <<>>
    /\ UNCHANGED trusted

------------------------------------------------------------------------------
(* The inspector                                                             *)

Sends(cs) == Len(commands) + Len(cs) <= CommandRoom /\ commands' = commands \o cs
List == [type |-> "List"]
Mutate(kind, key, description, text) ==
    [type |-> "Mutate", kind |-> kind, key |-> key, description |-> description, text |-> text]
Row == inspector.rows[inspector.selected]
Keyed == inspector.open /\ inspector.rows # <<>>
InScreen == UNCHANGED <<trusted, disk, op, pinned, turn, events, status>>

OpenInspector ==
    /\ ~inspector.open
    /\ Counted("inspector", MaxAsks)
    /\ Sends(<<List>>)
    /\ InScreen /\ UNCHANGED <<inspector, fetch, history>>

Dismiss ==
    /\ inspector.open /\ ~inspector.confirm
    /\ inspector' = Closed
    /\ InScreen /\ UNCHANGED <<commands, fetch, made, history>>

Select ==
    /\ Keyed /\ ~inspector.confirm
    /\ \E i \in 1..Len(inspector.rows) : inspector' = [inspector EXCEPT !.selected = i]
    /\ InScreen /\ UNCHANGED <<commands, fetch, made, history>>

(* d, then y; any other key gives the delete up.                             *)
BeginDelete ==
    /\ Keyed /\ ~inspector.confirm
    /\ inspector' = [inspector EXCEPT !.confirm = TRUE]
    /\ history' = [history EXCEPT !.asked = <<Row>>]
    /\ InScreen /\ UNCHANGED <<commands, fetch, made>>

FinishDelete ==
    /\ inspector.confirm
    /\ inspector' = [inspector EXCEPT !.confirm = FALSE]
    /\ \/ /\ Keyed /\ Counted("inspector", MaxAsks)
          /\ Sends(<<Mutate("remove", Row.key, Row.description, FileOf(Row.key)), List>>)
       \/ UNCHANGED <<commands, made>>
    /\ history' = [history EXCEPT !.asked = <<>>]
    /\ InScreen /\ UNCHANGED fetch

BeginFetch ==
    /\ Keyed /\ ~inspector.confirm
    /\ Counted("inspector", MaxAsks)
    /\ \E intent \in {"view", "edit"} : fetch' = [intent |-> intent, row |-> Row]
    /\ Sends(<<[type |-> "View", key |-> Row.key]>>)
    /\ InScreen /\ UNCHANGED <<inspector, history>>

(* apply_memory_entries: the selection stays in range, a half-finished       *)
(* delete does not stay.                                                     *)
Refreshed(rows) ==
    [open |-> TRUE, rows |-> rows, confirm |-> FALSE,
     selected |-> IF inspector.selected <= Len(rows) THEN inspector.selected
                  ELSE IF rows = <<>> THEN 1 ELSE Len(rows)]

\* Mutant: whichever body comes is taken for the one asked for.
ExpectedAny(key) == fetch # NoFetch
(* apply_memory_body: is it a reply to the fetch that is remembered.         *)
Expected(key) == fetch # NoFetch /\ fetch.row.key = key

(* The reply to an edit runs $EDITOR at once, and what is saved goes back    *)
(* under the row's name with the row's description.                          *)
ApplyEvent ==
    /\ events # <<>>
    /\ events' = Tail(events)
    /\ LET e == Head(events) IN
       \/ /\ e.type = "Status"
          /\ status' = e.counts
          /\ UNCHANGED <<commands, inspector, fetch, history>>
       \/ /\ e.type = "Entries"
          /\ inspector' = Refreshed(e.rows)
          /\ history' = [history EXCEPT !.asked = IF inspector'.confirm THEN @ ELSE <<>>]
          /\ UNCHANGED <<commands, fetch, status>>
       \/ /\ e.type = "Body" /\ Expected(e.key) /\ fetch.intent = "edit"
          /\ Sends(<<Mutate("update", fetch.row.key, fetch.row.description, e.text), List>>)
          /\ fetch' = NoFetch
          /\ UNCHANGED <<inspector, status, history>>
       \/ /\ e.type = "Body"
          /\ fetch' = NoFetch
          /\ UNCHANGED <<commands, inspector, status, history>>
    /\ UNCHANGED <<trusted, disk, op, pinned, turn, made>>

Writes == Refresh \/ \E w \in Writers : WriteFile(w) \/ Scan(w) \/ WriteIndex(w)
Calls == \E w \in Writers : ToolCalls(w)

Next ==
    \/ Writes \/ Calls \/ StartOrEndTurn \/ TakeCommand \/ SwitchSession \/ Crash
    \/ OpenInspector \/ Dismiss \/ Select \/ BeginDelete \/ FinishDelete \/ BeginFetch
    \/ ApplyEvent

Spec == Init /\ [][Next]_vars

------------------------------------------------------------------------------
(* Properties                                                                *)

(* What is stored is listed: the root's prompt has the line of each entry,   *)
(* but for scopes whose index two writers or a crash spoiled and for what a  *)
(* subagent wrote since the root last looked.                                *)
PromptListsEntries ==
    op["root"] = NoOp /\ ~Busy("subagent") /\ ~history.foreign =>
        \A s \in {s \in Scopes : Available(s)} \ history.dirty : Listing(s) \subseteq pinned[s]

(* No edit through the inspector puts one entry's text under another's name, *)
(* whatever replies were under way when it began.                            *)
EditsStayHome == \A f \in Files : files[f].is = "entry" => files[f].text = f

(* The entry a waiting delete would remove is the one it was begun on,       *)
(* whatever the list did since.                                              *)
DeletesWhatWasAsked == inspector.confirm => Keyed /\ <<Row>> = history.asked

(* Once nothing is under way the counts on the screen are the directories'.  *)
StatusSettles ==
    events = <<>> /\ op["root"] = NoOp /\ ~history.foreign /\ ~history.dropped =>
        status = Counts
------------------------------------------------------------------------------
(* The invariant                                                             *)

\* A key of an entry that has a file.
Filed(key) == FileOf(key) \in Files

(* What each writer does, and what it is to write: the text of its own file. *)
Doing(w) ==
    \/ op[w] = NoOp
    \/ w = "root" /\ op[w] = [step |-> "refresh"]
    \/ /\ op[w].step \in {"file", "scan", "index"}
       /\ op[w] = [step |-> op[w].step, kind |-> op[w].kind, key |-> op[w].key,
                   clean |-> op[w].clean, entry |-> op[w].entry, lines |-> op[w].lines]
       /\ op[w].clean \in BOOLEAN
       /\ op[w].entry = Entry(op[w].key, op[w].entry.description, FileOf(op[w].key))

\* Entries are in the files of their names, and there are finitely many.
EntriesAtHome ==
    /\ files = [f \in Files |-> files[f]]
    /\ \A f \in Files :
          \/ files[f] \in {Absent, Torn}
          \/ Slug(files[f].name) = f.stem
             /\ files[f] = [is |-> "entry", name |-> files[f].name,
                            description |-> files[f].description, text |-> f]
    /\ \A s \in Scopes : IsFiniteSet(Existing(s))

\* The rows of a list are of files.
RowsFiled(rows) ==
    /\ \E S : rows \in Seq(S)
    /\ \A i \in DOMAIN rows : Filed(rows[i].key)

CommandSent(c) ==
    /\ c.type = "View" => Filed(c.key)
    /\ c.type = "Mutate" => c.text = FileOf(c.key)
EventSent(e) ==
    /\ e.type = "Entries" => RowsFiled(e.rows)
    /\ e.type = "Body" => e.text = FileOf(e.key)

Screen ==
    /\ \E rows, open, confirm, selected :
          inspector = [open |-> open, rows |-> rows, selected |-> selected, confirm |-> confirm]
    /\ inspector.confirm \in BOOLEAN
    /\ fetch # NoFetch => fetch = [intent |-> fetch.intent, row |-> fetch.row]
    /\ RowsFiled(inspector.rows)
    /\ inspector.selected \in Nat \ {0}
    /\ inspector.rows # <<>> => inspector.selected \in DOMAIN inspector.rows
    /\ \A i \in DOMAIN commands : CommandSent(commands[i])
    /\ \A i \in DOMAIN events : EventSent(events[i])
    /\ \E S : commands \in Seq(S)
    /\ \E S : events \in Seq(S)

(* A scope that two writers are in, or one that shares its index with        *)
(* another's, is spoiled.                                                    *)
SharedIsSpoiled ==
    /\ \A w \in Writers : Busy(w) /\ ~op[w].clean => op[w].key.scope \in history.dirty
    /\ Busy("root") /\ Busy("subagent") /\ op["root"].key.scope = op["subagent"].key.scope
          => ~op["root"].clean /\ ~op["subagent"].clean

\* An index lists its entries once nobody is between a file and the index.
IndexLists ==
    /\ \A s \in Scopes \ history.dirty :
          Available(s) /\ (\A w \in Writers : op[w].step \in {"scan", "index"} => op[w].key.scope # s)
              => Listing(s) \subseteq index[s]
    /\ \A w \in Writers :
          op[w].step = "index" /\ op[w].clean => Listing(op[w].key.scope) \subseteq op[w].lines

PinnedFollows == op["root"] = NoOp /\ ~history.foreign => pinned = Load

\* The last status under way, or the one shown, counts the directories.
IsLast(i) ==
    events[i].type = "Status" /\ \A j \in (i + 1)..Len(events) : events[j].type # "Status"
StatusFollows ==
    op["root"] = NoOp /\ ~history.foreign /\ ~history.dropped =>
        \/ status = Counts /\ \A i \in DOMAIN events : events[i].type # "Status"
        \/ \E i \in DOMAIN events : IsLast(i) /\ events[i].counts = Counts

Shapes ==
    /\ history = [asked |-> history.asked, dirty |-> history.dirty,
                  foreign |-> history.foreign, dropped |-> history.dropped]
    /\ history.foreign \in BOOLEAN /\ history.dropped \in BOOLEAN
    /\ op = [w \in Writers |-> op[w]] /\ index = [s \in Scopes |-> index[s]]
    /\ \A w \in Writers : Doing(w)

MemoryInv ==
    /\ Shapes /\ EntriesAtHome /\ Screen
    /\ SharedIsSpoiled /\ IndexLists /\ PinnedFollows
    /\ DeletesWhatWasAsked /\ StatusFollows
==============================================================================
