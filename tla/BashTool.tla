------------------------------ MODULE BashTool ------------------------------
(***************************************************************************)
(* One call of the bash tool and the processes it leads to: the command    *)
(* runs as leader of a process group of its own, what it starts inherits   *)
(* the group and, unless redirected, the output pipe, and the call waits   *)
(* for the leader's exit and for the pipe to close.  A timeout, or a       *)
(* cancel that drops the call, kills the group; a clean wait does not.     *)
(*                                                                         *)
(* A process identifier is free again when no process has it and no        *)
(* process group is named by it; the leader's is held until it is reaped,  *)
(* which the wait does as soon as it exits, before the pipe closes.        *)
(***************************************************************************)
EXTENDS Naturals, FiniteSets

CONSTANTS Pids, MaxForks    \* process identifiers; bound on what is started

VARIABLES
    os,        \* the processes: whose, in which group, alive or a zombie, with the pipe
    call,      \* how the call stands
    leader,    \* the guard's group: the identifier the child had
    reaped,    \* the wait has collected the leader's exit
    struck,    \* whose processes the guard has killed
    forks

vars == <<os, call, leader, reaped, struck, forks>>

Free == [owner |-> "none", group |-> 0, state |-> "none", pipe |-> FALSE]

Taken(p) == os[p].owner # "none" \/ \E q \in Pids : os[q].owner # "none" /\ os[q].group = p
Alive(p, owner) == os[p].owner = owner /\ os[p].state = "alive"
Group(p) == {q \in Pids : os[q].state = "alive" /\ os[q].group = p}

Init ==
    /\ os = [p \in Pids |-> Free]
    /\ call = "permitted"
    /\ leader = 0
    /\ reaped = FALSE
    /\ struck = {}
    /\ forks = 0

\* The user has let the command run: it is spawned, and the guard armed.
Spawn ==
    /\ call = "permitted"
    /\ \E p \in Pids :
          /\ ~Taken(p)
          /\ os' = [os EXCEPT ![p] = [owner |-> "command", group |-> p, state |-> "alive",
                                      pipe |-> TRUE]]
          /\ leader' = p
    /\ call' = "running"
    /\ UNCHANGED <<reaped, struck, forks>>

SpawnFails ==
    /\ call = "permitted"
    /\ call' = "failed"
    /\ UNCHANGED <<os, leader, reaped, struck, forks>>

(***************************************************************************)
(* The operating system and the command's own doing.                       *)
(***************************************************************************)
Fork(p) ==
    /\ Alive(p, "command") /\ forks < MaxForks
    /\ \E q \in Pids, redirected \in BOOLEAN :
          /\ ~Taken(q)
          /\ os' = [os EXCEPT ![q] = [os[p] EXCEPT !.pipe = @ /\ ~redirected]]
    /\ forks' = forks + 1
    /\ UNCHANGED <<call, leader, reaped, struck>>

\* A daemon leaves the group (the leader of a group cannot).
Setsid(p) ==
    /\ Alive(p, "command") /\ os[p].group # p
    /\ os' = [os EXCEPT ![p].group = p]
    /\ UNCHANGED <<call, leader, reaped, struck, forks>>

Exit(p) ==
    /\ os[p].state = "alive"
    /\ os' = [os EXCEPT ![p] = IF p = leader /\ @.owner = "command" /\ ~reaped
                               THEN [@ EXCEPT !.state = "zombie", !.pipe = FALSE] ELSE Free]
    /\ UNCHANGED <<call, leader, reaped, struck, forks>>

\* Somebody else's program.
Stranger ==
    /\ forks < MaxForks
    /\ \E p \in Pids :
          /\ ~Taken(p)
          /\ os' = [os EXCEPT ![p] = [owner |-> "other", group |-> p, state |-> "alive",
                                      pipe |-> FALSE]]
    /\ forks' = forks + 1
    /\ UNCHANGED <<call, leader, reaped, struck>>

(***************************************************************************)
(* The call.                                                               *)
(***************************************************************************)
PipeOpen == \E p \in Pids : os[p].pipe

\* The wait sees the leader's exit; unless something still holds the pipe it
\* is over with that, and the guard is disarmed.
Reap ==
    /\ call = "running" /\ os[leader].state = "zombie"
    /\ os' = [os EXCEPT ![leader] = Free]
    /\ reaped' = TRUE
    /\ call' = IF PipeOpen THEN call ELSE "completed"
    /\ UNCHANGED <<leader, struck, forks>>

\* The pipe closes after the leader was reaped.
Complete ==
    /\ call = "running" /\ reaped /\ ~PipeOpen
    /\ call' = "completed"
    /\ UNCHANGED <<os, leader, reaped, struck, forks>>

\* What is killed when the call is dropped: the child itself, unless reaped,
\* and every member of the group its identifier names.
LeaderOnly == IF reaped THEN {} ELSE {leader}
Killed == Group(leader) \cup LeaderOnly

\* The timeout passes while there is something to wait for, or the turn is
\* canceled, between any two polls.
Drop(how) ==
    /\ call = "running"
    /\ how = "timed out" => ~reaped \/ PipeOpen
    /\ os' = [p \in Pids |-> IF p \in Killed THEN Free ELSE os[p]]
    /\ struck' = struck \cup {os[p].owner : p \in Killed}
    /\ reaped' = TRUE
    /\ call' = how
    /\ UNCHANGED <<leader, forks>>

Next ==
    \/ Spawn \/ SpawnFails \/ Reap \/ Complete
    \/ \E how \in {"timed out", "canceled"} : Drop(how)
    \/ \E p \in Pids : Fork(p) \/ Setsid(p) \/ Exit(p)
    \/ Stranger

Spec == Init /\ [][Next]_vars

(***************************************************************************)
(* Properties.                                                             *)
(***************************************************************************)
\* A call that timed out or was canceled leaves nothing of its command
\* running but what left the group: `sh -c` grandchildren included, and
\* also when the leader had exited and been reaped already.  Until then the
\* kill reaches nobody else's process.
KillIsExact ==
    (call = "running" /\ call' \in {"timed out", "canceled"}) =>
        /\ \A p \in Pids : Alive(p, "command")' => os'[p].group # leader
        /\ ~reaped => "other" \notin struck'

NothingOutlivesTheKill == [][KillIsExact]_vars

(***************************************************************************)
(* The invariant: until the guard kills, nobody was struck, and until it   *)
(* is reaped the leader keeps its identifier, and so its group's name,     *)
(* from everybody else: whoever is not the command's own group is himself. *)
(***************************************************************************)
Process ==
    [owner : {"none", "command", "other"}, group : Pids \cup {0},
     state : {"none", "alive", "zombie"}, pipe : BOOLEAN]

LeaderHolds ==
    /\ leader \in Pids
    /\ ~reaped => os[leader].owner = "command" /\ os[leader].group = leader

BashInv ==
    /\ os \in [Pids -> Process]
    /\ \A p \in Pids : os[p].owner = "other" => os[p].group = p
    /\ call \in {"permitted", "running"} => struck = {}
    /\ call = "running" => LeaderHolds
=============================================================================
