------------------------------- MODULE Launch -------------------------------
(***************************************************************************)
(* Workspace trust across the processes of one user: `emberly` started in  *)
(* several terminals, and `emberly trust revoke` beside them.  All of them *)
(* read and rewrite one trust store (trust.toml) with no lock: a save      *)
(* truncates the file, writes it whole, then makes it private.             *)
(*                                                                         *)
(* A folder is a name; Ancestors gives a folder and what it lies in.  A    *)
(* launch that passes the gate goes on through the checks that may refuse  *)
(* it before, and one that may refuse it after, its session file exists.   *)
(***************************************************************************)
EXTENDS Naturals, FiniteSets

CONSTANTS
    Procs,      \* terminals
    Folders,
    Ancestors,  \* [Folders -> SUBSET Folders], each folder among its own
    Allowlist,  \* trust.trusted_dirs of the global config
    MaxJobs     \* bound on the processes started

Nesting ==
    /\ Ancestors \in [Folders -> SUBSET Folders]
    /\ \A f \in Folders : f \in Ancestors[f]

VARIABLES
    store,      \* trust.toml: its entries, whether it exists, is private, is garbled
    proc,       \* what each terminal runs, and how far it is
    sessions,   \* the folders session files were opened in
    accepted,   \* the folders the user ever accepted at a prompt
    revoked,    \* revoked with no save racing it, and not accepted since
    jobs

vars == <<store, proc, sessions, accepted, revoked, jobs>>

Off == [job |-> "none", at |-> "off", folder |-> CHOOSE f \in Folders : TRUE, copy |-> {}]

Init ==
    /\ store = [exists |-> FALSE, private |-> FALSE, garbled |-> FALSE, entries |-> {}]
    /\ proc = [p \in Procs |-> Off]
    /\ sessions = {}
    /\ accepted = {}
    /\ revoked = {}
    /\ jobs = 0

Start(p, job, folder) ==
    /\ proc[p].at = "off" /\ jobs < MaxJobs
    /\ proc' = [proc EXCEPT ![p] = [job |-> job, at |-> "loading", folder |-> folder, copy |-> {}]]
    /\ jobs' = jobs + 1
    /\ UNCHANGED <<store, sessions, accepted, revoked>>

GoTo(p, at) == proc' = [proc EXCEPT ![p].at = at]
Leave(p) == proc' = [proc EXCEPT ![p] = Off]

(***************************************************************************)
(* Reading the store: absent is empty, readable by others or unparseable   *)
(* is an error, one caught between truncation and writing is empty.        *)
(***************************************************************************)
Reads == ~store.exists \/ (store.private /\ ~store.garbled)

MemberOfSubtree(folder, trusted) ==
    \E f \in trusted : folder \in Ancestors[f] \/ f \in Ancestors[folder]
IsMember(folder, trusted) == Ancestors[folder] \cap trusted # {}

Gate(p) ==
    /\ proc[p].at = "loading" /\ proc[p].job = "launch"
    /\ IF ~Reads THEN Leave(p)
       ELSE IF IsMember(proc[p].folder, store.entries \cup Allowlist) THEN GoTo(p, "granted")
       ELSE proc' = [proc EXCEPT ![p].at = "prompt", ![p].copy = store.entries]
    /\ UNCHANGED <<store, sessions, accepted, revoked, jobs>>

\* "trust", "yes" or "y"; anything else, and a launch without a terminal,
\* declines and leaves.
Answer(p, yes) ==
    /\ proc[p].at = "prompt"
    /\ IF yes
       THEN GoTo(p, "recording") /\ accepted' = accepted \cup {proc[p].folder}
       ELSE Leave(p) /\ UNCHANGED accepted
    /\ UNCHANGED <<store, sessions, revoked, jobs>>

\* record_trust reads the store again: the prompt may have been up for long.
Copy(p) == store.entries

Record(p) ==
    /\ proc[p].at = "recording"
    /\ IF ~Reads THEN Leave(p)
       ELSE proc' = [proc EXCEPT ![p].at = "truncating", ![p].copy = Copy(p) \cup {proc[p].folder}]
    /\ UNCHANGED <<store, sessions, accepted, revoked, jobs>>

\* revoke_at: an entry for the folder itself, never for one around it.
Revoke(p) ==
    /\ proc[p].at = "loading" /\ proc[p].job = "revoke"
    /\ IF ~Reads \/ proc[p].folder \notin store.entries THEN Leave(p)
       ELSE proc' = [proc EXCEPT ![p].at = "truncating", ![p].copy = store.entries \ {proc[p].folder}]
    /\ UNCHANGED <<store, sessions, accepted, revoked, jobs>>

(***************************************************************************)
(* save_store_at.  A writer whose file was rewritten since it truncated it *)
(* may leave a mixture of both texts.                                      *)
(***************************************************************************)
Truncate(p) ==
    /\ proc[p].at = "truncating"
    /\ store' = [store EXCEPT !.exists = TRUE, !.entries = {}, !.garbled = FALSE]
    /\ GoTo(p, "writing")
    /\ UNCHANGED <<sessions, accepted, revoked, jobs>>

Saving(p) == proc[p].at \in {"truncating", "writing"}

Write(p) ==
    /\ proc[p].at = "writing"
    /\ \E mixed \in (IF store.entries = {} THEN {FALSE} ELSE BOOLEAN) :
          store' = [store EXCEPT !.entries = proc[p].copy, !.garbled = mixed]
    /\ revoked' = IF \E q \in Procs \ {p} : Saving(q) THEN {}
                  ELSE IF proc[p].job = "revoke" THEN revoked \cup {proc[p].folder}
                  ELSE revoked \ {proc[p].folder}
    /\ GoTo(p, "closing")
    /\ UNCHANGED <<sessions, accepted, jobs>>

MakePrivate(p) ==
    /\ proc[p].at = "closing"
    /\ store' = [store EXCEPT !.private = TRUE]
    /\ IF proc[p].job = "revoke" THEN Leave(p) ELSE GoTo(p, "granted")
    /\ UNCHANGED <<sessions, accepted, revoked, jobs>>

(***************************************************************************)
(* After the gate: configuration, sandbox.require and the provider may     *)
(* each refuse; then the session file is opened; building the tools may    *)
(* still fail, with the file there; then the session runs until it ends.   *)
(***************************************************************************)
Refuse(p) ==
    /\ proc[p].at = "granted"
    /\ Leave(p)
    /\ UNCHANGED <<store, sessions, accepted, revoked, jobs>>

OpenSession(p) ==
    /\ proc[p].at = "granted"
    /\ sessions' = sessions \cup {proc[p].folder}
    /\ GoTo(p, "running")
    /\ UNCHANGED <<store, accepted, revoked, jobs>>

\* The session ends, or its tools could not be built.
End(p) ==
    /\ proc[p].at = "running"
    /\ Leave(p)
    /\ UNCHANGED <<store, sessions, accepted, revoked, jobs>>

\* The process is killed, in the middle of a save too.
Kill(p) ==
    /\ proc[p].at # "off"
    /\ Leave(p)
    /\ UNCHANGED <<store, sessions, accepted, revoked, jobs>>

\* `chmod 600`, or removing a file that no longer parses, as the error says.
Repair ==
    /\ ~Reads
    /\ store' = IF store.garbled THEN [exists |-> FALSE, private |-> FALSE, garbled |-> FALSE,
                                       entries |-> {}]
                ELSE [store EXCEPT !.private = TRUE]
    /\ UNCHANGED <<proc, sessions, accepted, revoked, jobs>>

Next ==
    \/ \E p \in Procs, job \in {"launch", "revoke"}, f \in Folders : Start(p, job, f)
    \/ \E p \in Procs : \/ Gate(p) \/ Record(p) \/ Revoke(p)
                        \/ \E yes \in BOOLEAN : Answer(p, yes)
    \/ \E p \in Procs : Truncate(p) \/ Write(p) \/ MakePrivate(p)
    \/ \E p \in Procs : Refuse(p) \/ OpenSession(p) \/ End(p) \/ Kill(p)
    \/ Repair

Spec == Init /\ [][Next]_vars

(***************************************************************************)
(* Properties.                                                             *)
(***************************************************************************)
\* A session is opened only in a folder the user accepted, or allowed, at
\* that folder or around it: no interleaving of saves, kills and repairs
\* makes the store trust what nobody accepted.
SessionsOnlyWhereAccepted ==
    \A f \in sessions : Ancestors[f] \cap (accepted \cup Allowlist) # {}

\* A revoked folder stays out of the store until it is accepted again, even
\* when another terminal was at its prompt while it was revoked.  (Two saves
\* that overlap are excepted: the later one wins.)
RevokeHolds == revoked \cap store.entries = {}

\* Trust is what the user said last: it comes from an acceptance and ends
\* with a revocation, over any number of processes (trust.rs).
TrustHolds == SessionsOnlyWhereAccepted /\ RevokeHolds
=============================================================================
