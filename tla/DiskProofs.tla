----------------------------- MODULE DiskProofs ------------------------------
(* What outlives a process is what it was: for every tree of folders, every  *)
(* name an entry may have, every room in the channels.  The trust store, for *)
(* any number of processes and launches; the memory, whatever two engines    *)
(* write at once; a session's file, whatever kills and overlaps cut; the     *)
(* skills, however folders change; the settings, whatever the user and the   *)
(* wizard write.  The proofs of a part use the names of its module; x1 to   *)
(* x13 are its variables in the order in which Disk gives them.              *)
(*   Memory: trusted, files, index, op, pinned, turn, commands, events,      *)
(*     inspector, fetch, status, made, history.                              *)
(*   SessionFile: file, run, writing, acked, nextId, runs, tears, overlaps.  *)
(*   Skills: disk, trusted, enabled, config, metas, shown, answer, fresh,    *)
(*     edits.                                                                *)
(*   Config: cli, env, disk, keys, eng, seen, wizard, said, edits.           *)
EXTENDS Disk, TLAPS, FiniteSetTheorems, SequenceTheorems

Places == {"off", "loading", "prompt", "recording", "truncating", "writing", "closing",
           "granted", "running"}
Process == [job : {"none", "launch", "revoke"}, at : Places, folder : Folders,
            copy : SUBSET Folders]

\* What each process holds, and what the store has.
TypeOK ==
    /\ store \in [exists : BOOLEAN, private : BOOLEAN, garbled : BOOLEAN,
                  entries : SUBSET Folders]
    /\ proc \in [Procs -> Process]
    /\ sessions \subseteq Folders
    /\ accepted \subseteq Folders /\ revoked \subseteq Folders

\* What the store trusts was accepted.
StoreAccepted == store.entries \subseteq accepted

\* One process is in order: what it may write was accepted, and so was the
\* folder of a launch that records it; only a launch asks, records or goes
\* past the gate, and past it is in a folder within a trusted one; a save
\* under way puts nothing back that was revoked but the folder it was accepted
\* for, and one of a revocation leaves its own folder out.
Sound(p) ==
    /\ proc[p].copy \subseteq accepted
    /\ proc[p].at \in {"recording", "truncating", "writing", "closing"}
            /\ proc[p].job # "revoke" => proc[p].folder \in accepted
    /\ proc[p].at # "off" => proc[p].job # "none"
    /\ proc[p].at \in {"prompt", "recording", "granted"} => proc[p].job = "launch"
    /\ proc[p].at = "granted" =>
            Ancestors[proc[p].folder] \cap (accepted \cup Allowlist) # {}
    /\ Saving(p) =>
        IF proc[p].job = "revoke"
        THEN proc[p].copy \cap (revoked \cup {proc[p].folder}) = {}
        ELSE proc[p].copy \cap revoked \subseteq {proc[p].folder}

ProcInv == \A p \in Procs : Sound(p)

TrustInv ==
    /\ TypeOK
    /\ StoreAccepted /\ ProcInv
    /\ SessionsOnlyWhereAccepted /\ RevokeHolds

------------------------------------------------------------------------------
\* A process that runs nothing is a process.
LEMMA OffType ==
    ASSUME Folders # {}
    PROVE  /\ Off \in Process
           /\ Off.at = "off" /\ Off.copy = {}
  BY DEF Off, Process, Places

\* The initial state: nobody runs, nothing is trusted.
LEMMA TrustInit ==
    ASSUME Folders # {}, Init
    PROVE  TrustInv
  <1>1. TypeOK
    BY OffType DEF Init, TypeOK
  <1>2. \A p \in Procs : proc[p].at = "off" /\ proc[p].copy = {}
    BY OffType DEF Init
  <1>3. ProcInv
    BY <1>2 DEF ProcInv, Sound, Saving
  <1> QED
    BY <1>1, <1>3 DEF TrustInv, Init, StoreAccepted, SessionsOnlyWhereAccepted, RevokeHolds

\* A step of one process that accepts nothing back, and revokes nothing more,
\* leaves every other process in order.
LEMMA OthersSound ==
    ASSUME TypeOK, NEW p \in Procs, NEW s,
           \A q \in Procs : Sound(q),
           proc' = [proc EXCEPT ![p] = s],
           accepted \subseteq accepted', revoked' \subseteq revoked
    PROVE  \A q \in Procs \ {p} : Sound(q)'
  <1> SUFFICES ASSUME NEW q \in Procs \ {p} PROVE Sound(q)'
    OBVIOUS
  <1>1. proc'[q] = proc[q]
    BY DEF TypeOK
  <1>2. Saving(q)' = Saving(q)
    BY <1>1 DEF Saving
  <1>3. Sound(q)
    OBVIOUS
  <1> QED BY <1>1, <1>2, <1>3 DEF Sound

\* A process that leaves leaves everything in order.
LEMMA LeaveSound ==
    ASSUME Folders # {}, TrustInv, NEW p \in Procs, Leave(p),
           UNCHANGED <<store, sessions, accepted, revoked>>
    PROVE  TrustInv'
  <1>1. proc'[p] = Off /\ proc' \in [Procs -> Process]
    BY OffType DEF TrustInv, TypeOK, Leave
  <1>2. Sound(p)'
    BY <1>1, OffType DEF Sound, Saving
  <1>3. \A q \in Procs \ {p} : Sound(q)'
    BY OthersSound DEF ProcInv, TrustInv, Leave
  <1>4. ProcInv'
    BY <1>2, <1>3 DEF ProcInv
  <1> QED
    BY <1>1, <1>4 DEF TrustInv, TypeOK, StoreAccepted, SessionsOnlyWhereAccepted, RevokeHolds

\* A terminal starts a launch or a revocation.
LEMMA StartKeeps ==
    ASSUME TrustInv, NEW p \in Procs, NEW job \in {"launch", "revoke"},
           NEW f \in Folders, Start(p, job, f)
    PROVE  TrustInv'
  <1> DEFINE s == [job |-> job, at |-> "loading", folder |-> f, copy |-> {}]
  <1>1. s \in Process /\ proc' = [proc EXCEPT ![p] = s]
    BY DEF Start, Process, Places
  <1>2. proc'[p] = s /\ proc' \in [Procs -> Process]
    BY <1>1 DEF TrustInv, TypeOK
  <1>3. Sound(p)'
    BY <1>2 DEF Sound, Saving
  <1>4. \A q \in Procs \ {p} : Sound(q)'
    BY <1>1, OthersSound DEF ProcInv, TrustInv, Start
  <1>5. ProcInv'
    BY <1>3, <1>4 DEF ProcInv
  <1> QED
    BY <1>2, <1>5 DEF TrustInv, TypeOK, Start, StoreAccepted, SessionsOnlyWhereAccepted,
                      RevokeHolds

\* A step of one process that leaves the store, the sessions and what was
\* revoked alone.
LEMMA ProcStep ==
    ASSUME TrustInv, NEW p \in Procs, NEW s \in Process,
           proc' = [proc EXCEPT ![p] = s], Sound(p)',
           accepted \subseteq accepted', accepted' \subseteq Folders,
           UNCHANGED <<store, sessions, revoked>>
    PROVE  TrustInv'
  <1>1. proc' \in [Procs -> Process]
    BY DEF TrustInv, TypeOK
  <1>2. \A q \in Procs \ {p} : Sound(q)'
    BY OthersSound DEF ProcInv, TrustInv
  <1>3. ProcInv'
    BY <1>2 DEF ProcInv
  <1>4. TypeOK'
    BY <1>1 DEF TrustInv, TypeOK
  <1>5. SessionsOnlyWhereAccepted'
    BY DEF TrustInv, SessionsOnlyWhereAccepted
  <1> QED
    BY <1>3, <1>4, <1>5 DEF TrustInv, StoreAccepted, RevokeHolds

\* The gate lets in what the store or the allowlist trusts.
LEMMA GateKeeps ==
    ASSUME Folders # {}, TrustInv, NEW p \in Procs, Gate(p)
    PROVE  TrustInv'
  <1>1. CASE ~Reads
    BY <1>1, LeaveSound DEF Gate
  <1>2. CASE Reads /\ IsMember(proc[p].folder, store.entries \cup Allowlist)
    <2> DEFINE s == [proc[p] EXCEPT !.at = "granted"]
    <2>1. s \in Process /\ proc' = [proc EXCEPT ![p] = s]
      BY <1>2 DEF Gate, GoTo, TrustInv, TypeOK, Process, Places
    <2>2. proc'[p] = s /\ s.at = "granted" /\ s.folder = proc[p].folder
          /\ s.copy = proc[p].copy /\ s.job = "launch"
      BY <2>1, <1>2 DEF Gate, TrustInv, TypeOK, Process
    <2>3. Ancestors[s.folder] \cap (accepted \cup Allowlist) # {}
      BY <1>2, <2>2 DEF IsMember, TrustInv, StoreAccepted
    <2>4. Sound(p)
      BY DEF ProcInv, TrustInv
    <2> HIDE DEF s
    <2>5. Sound(p)'
      BY <2>2, <2>3, <2>4, <1>2 DEF Sound, Saving, Gate
    <2> QED BY <2>1, <2>5, <1>2, ProcStep DEF Gate, TrustInv, TypeOK
  <1>3. CASE Reads /\ ~IsMember(proc[p].folder, store.entries \cup Allowlist)
    <2> DEFINE s == [proc[p] EXCEPT !.at = "prompt", !.copy = store.entries]
    <2>1. s \in Process /\ proc' = [proc EXCEPT ![p] = s]
      BY <1>3 DEF Gate, TrustInv, TypeOK, Process, Places
    <2>2. proc'[p] = s /\ s.at = "prompt" /\ s.copy = store.entries /\ s.job = "launch"
      BY <2>1, <1>3 DEF Gate, TrustInv, TypeOK, Process
    <2> HIDE DEF s
    <2>3. Sound(p)'
      BY <2>2, <1>3 DEF Sound, Saving, Gate, TrustInv, StoreAccepted
    <2> QED BY <2>1, <2>3, <1>3, ProcStep DEF Gate, TrustInv, TypeOK
  <1> QED BY <1>1, <1>2, <1>3

\* An acceptance is of the folder that is then recorded.
LEMMA AnswerKeeps ==
    ASSUME Folders # {}, TrustInv, NEW p \in Procs, NEW yes \in BOOLEAN, Answer(p, yes)
    PROVE  TrustInv'
  <1>1. CASE ~yes
    BY <1>1, LeaveSound DEF Answer
  <1>2. CASE yes
    <2> DEFINE s == [proc[p] EXCEPT !.at = "recording"]
    <2>1. s \in Process /\ proc' = [proc EXCEPT ![p] = s]
      BY <1>2 DEF Answer, GoTo, TrustInv, TypeOK, Process, Places
    <2>2. /\ proc'[p] = s /\ s.at = "recording" /\ s.folder = proc[p].folder
          /\ s.copy = proc[p].copy /\ s.job = proc[p].job /\ s.folder \in Folders
      BY <2>1 DEF TrustInv, TypeOK, Process
    <2>3. Sound(p) /\ proc[p].at = "prompt"
      BY DEF ProcInv, TrustInv, Answer
    <2>4. accepted' = accepted \cup {proc[p].folder}
      BY <1>2 DEF Answer
    <2> HIDE DEF s
    <2>5. Sound(p)'
      BY <2>2, <2>3, <2>4 DEF Sound, Saving
    <2>6. accepted' \subseteq Folders
      BY <2>2, <2>4 DEF TrustInv, TypeOK
    <2> QED BY <2>1, <2>4, <2>5, <2>6, ProcStep DEF Answer
  <1> QED BY <1>1, <1>2

\* What is to be recorded is the store as it is now and an accepted folder.
LEMMA RecordKeeps ==
    ASSUME Folders # {}, TrustInv, NEW p \in Procs, Record(p)
    PROVE  TrustInv'
  <1>1. CASE ~Reads
    BY <1>1, LeaveSound DEF Record
  <1>2. CASE Reads
    <2> DEFINE s == [proc[p] EXCEPT !.at = "truncating",
                                    !.copy = store.entries \cup {proc[p].folder}]
    <2>1. s \in Process /\ proc' = [proc EXCEPT ![p] = s]
      BY <1>2 DEF Record, Copy, TrustInv, TypeOK, Process, Places
    <2>2. /\ proc'[p] = s /\ s.at = "truncating" /\ s.folder = proc[p].folder
          /\ s.copy = store.entries \cup {proc[p].folder} /\ s.job = proc[p].job
      BY <2>1 DEF TrustInv, TypeOK, Process
    <2>3. Sound(p) /\ proc[p].at = "recording"
      BY DEF ProcInv, TrustInv, Record
    <2>4. proc[p].folder \in accepted /\ s.job = "launch"
      BY <2>2, <2>3 DEF Sound
    <2>5. s.copy \cap revoked \subseteq {s.folder} /\ s.copy \subseteq accepted
      BY <2>2, <2>4 DEF TrustInv, RevokeHolds, StoreAccepted
    <2> HIDE DEF s
    <2>6. Sound(p)'
      BY <2>2, <2>4, <2>5 DEF Sound, Saving, Record
    <2> QED BY <2>1, <2>6, ProcStep DEF Record, TrustInv, TypeOK
  <1> QED BY <1>1, <1>2

\* A revocation is to leave its folder out.
LEMMA RevokeKeeps ==
    ASSUME Folders # {}, TrustInv, NEW p \in Procs, Revoke(p)
    PROVE  TrustInv'
  <1>1. CASE ~Reads \/ proc[p].folder \notin store.entries
    BY <1>1, LeaveSound DEF Revoke
  <1>2. CASE ~(~Reads \/ proc[p].folder \notin store.entries)
    <2> DEFINE s == [proc[p] EXCEPT !.at = "truncating",
                                    !.copy = store.entries \ {proc[p].folder}]
    <2>1. s \in Process /\ proc' = [proc EXCEPT ![p] = s]
      BY <1>2 DEF Revoke, TrustInv, TypeOK, Process, Places
    <2>2. /\ proc'[p] = s /\ s.at = "truncating" /\ s.folder = proc[p].folder
          /\ s.copy = store.entries \ {proc[p].folder} /\ s.job = "revoke"
      BY <2>1 DEF Revoke, TrustInv, TypeOK, Process
    <2>3. s.copy \cap (revoked \cup {s.folder}) = {} /\ s.copy \subseteq accepted
      BY <2>2 DEF TrustInv, RevokeHolds, StoreAccepted
    <2> HIDE DEF s
    <2>4. Sound(p)'
      BY <2>2, <2>3 DEF Sound, Saving, Revoke
    <2> QED BY <2>1, <2>4, ProcStep DEF Revoke, TrustInv, TypeOK
  <1> QED BY <1>1, <1>2

\* A save empties the file first.
LEMMA TruncateKeeps ==
    ASSUME TrustInv, NEW p \in Procs, Truncate(p)
    PROVE  TrustInv'
  <1> DEFINE s == [proc[p] EXCEPT !.at = "writing"]
  <1>1. s \in Process /\ proc' = [proc EXCEPT ![p] = s]
    BY DEF Truncate, GoTo, TrustInv, TypeOK, Process, Places
  <1>2. /\ proc'[p] = s /\ s.at = "writing" /\ s.folder = proc[p].folder
        /\ s.copy = proc[p].copy /\ s.job = proc[p].job
    BY <1>1 DEF TrustInv, TypeOK, Process
  <1>3. Sound(p) /\ proc[p].at = "truncating"
    BY DEF ProcInv, TrustInv, Truncate
  <1> HIDE DEF s
  <1>4. Sound(p)'
    BY <1>2, <1>3 DEF Sound, Saving, Truncate
  <1>5. \A q \in Procs \ {p} : Sound(q)'
    BY <1>1, OthersSound DEF ProcInv, TrustInv, Truncate
  <1>6. ProcInv'
    BY <1>4, <1>5 DEF ProcInv
  <1>7. store'.entries = {} /\ TypeOK'
    BY <1>1 DEF Truncate, TrustInv, TypeOK
  <1> QED
    BY <1>6, <1>7 DEF TrustInv, Truncate, StoreAccepted, SessionsOnlyWhereAccepted, RevokeHolds

\* The one step that puts entries into the store.  What it means for the
\* revoked folders depends on whether another save is under way.
LEMMA WriteKeeps ==
    ASSUME TrustInv, NEW p \in Procs, Write(p)
    PROVE  TrustInv'
  <1> DEFINE s == [proc[p] EXCEPT !.at = "closing"]
  <1>1. s \in Process /\ proc' = [proc EXCEPT ![p] = s]
    BY DEF Write, GoTo, TrustInv, TypeOK, Process, Places
  <1>2. /\ proc'[p] = s /\ s.at = "closing" /\ s.folder = proc[p].folder
        /\ s.copy = proc[p].copy /\ s.job = proc[p].job
    BY <1>1 DEF TrustInv, TypeOK, Process
  <1>3. Sound(p) /\ proc[p].at = "writing" /\ Saving(p)
    BY DEF ProcInv, TrustInv, Write, Saving
  <1> HIDE DEF s
  <1>4. Sound(p)'
    BY <1>2, <1>3 DEF Sound, Saving, Write
  <1>5. store'.entries = proc[p].copy
    BY DEF Write, TrustInv, TypeOK
  <1>6. TypeOK'
    <2>1. store' \in [exists : BOOLEAN, private : BOOLEAN, garbled : BOOLEAN,
                      entries : SUBSET Folders]
      BY DEF Write, TrustInv, TypeOK, Process
    <2>2. revoked' \subseteq Folders
      BY DEF Write, TrustInv, TypeOK, Process
    <2>3. proc' \in [Procs -> Process]
      BY <1>1 DEF TrustInv, TypeOK
    <2> QED BY <2>1, <2>2, <2>3 DEF Write, TrustInv, TypeOK
  <1>7. StoreAccepted'
    BY <1>3, <1>5 DEF Write, Sound, StoreAccepted
  <1>8. RevokeHolds'
    <2>1. CASE \E q \in Procs \ {p} : Saving(q)
      BY <2>1 DEF Write, RevokeHolds
    <2>2. CASE ~(\E q \in Procs \ {p} : Saving(q)) /\ proc[p].job = "revoke"
      BY <2>2, <1>3, <1>5 DEF Write, RevokeHolds, Sound
    <2>3. CASE ~(\E q \in Procs \ {p} : Saving(q)) /\ proc[p].job # "revoke"
      BY <2>3, <1>3, <1>5 DEF Write, RevokeHolds, Sound
    <2> QED BY <2>1, <2>2, <2>3
  <1>9. \A q \in Procs \ {p} : Sound(q)'
    <2> SUFFICES ASSUME NEW q \in Procs \ {p} PROVE Sound(q)'
      OBVIOUS
    <2>1. proc'[q] = proc[q] /\ Sound(q)
      BY <1>1 DEF ProcInv, TrustInv, TypeOK
    <2>2. Saving(q)' = Saving(q)
      BY <2>1 DEF Saving
    <2>3. Saving(q) => revoked' = {}
      BY DEF Write
    <2>4. accepted' = accepted
      BY DEF Write
    <2> QED BY <2>1, <2>2, <2>3, <2>4 DEF Sound
  <1>10. ProcInv'
    BY <1>4, <1>9 DEF ProcInv
  <1> QED
    BY <1>6, <1>7, <1>8, <1>10 DEF TrustInv, Write, SessionsOnlyWhereAccepted

\* After its save a launch goes on in the folder it was accepted for.
LEMMA MakePrivateKeeps ==
    ASSUME Nesting, Folders # {}, TrustInv, NEW p \in Procs, MakePrivate(p)
    PROVE  TrustInv'
  <1> DEFINE s == IF proc[p].job = "revoke" THEN Off ELSE [proc[p] EXCEPT !.at = "granted"]
  <1>1. s \in Process /\ proc' = [proc EXCEPT ![p] = s]
    BY OffType DEF MakePrivate, GoTo, Leave, TrustInv, TypeOK, Process, Places
  <1>2. /\ proc'[p] = s
        /\ \/ s.at = "off" /\ s.copy = {}
           \/ /\ s.at = "granted" /\ s.folder = proc[p].folder /\ s.copy = proc[p].copy
              /\ s.job = proc[p].job /\ s.job # "revoke" /\ s.job \in {"none", "launch"}
    BY <1>1, OffType DEF TrustInv, TypeOK, Process
  <1>3. Sound(p) /\ proc[p].at = "closing"
    BY DEF ProcInv, TrustInv, MakePrivate
  <1>4. proc[p].folder \in Ancestors[proc[p].folder]
    BY DEF Nesting, TrustInv, TypeOK, Process
  <1> HIDE DEF s
  <1>5. Sound(p)'
    BY <1>2, <1>3, <1>4 DEF Sound, Saving, MakePrivate
  <1>6. \A q \in Procs \ {p} : Sound(q)'
    BY <1>1, OthersSound DEF ProcInv, TrustInv, MakePrivate
  <1>7. ProcInv'
    BY <1>5, <1>6 DEF ProcInv
  <1>8. store'.entries = store.entries /\ TypeOK'
    BY <1>1 DEF MakePrivate, TrustInv, TypeOK
  <1> QED
    BY <1>7, <1>8 DEF TrustInv, MakePrivate, StoreAccepted, SessionsOnlyWhereAccepted,
                      RevokeHolds

\* A session file is opened past the gate only.
LEMMA OpenSessionKeeps ==
    ASSUME TrustInv, NEW p \in Procs, OpenSession(p)
    PROVE  TrustInv'
  <1> DEFINE s == [proc[p] EXCEPT !.at = "running"]
  <1>1. s \in Process /\ proc' = [proc EXCEPT ![p] = s]
    BY DEF OpenSession, GoTo, TrustInv, TypeOK, Process, Places
  <1>2. /\ proc'[p] = s /\ s.at = "running" /\ s.copy = proc[p].copy /\ s.job = proc[p].job
    BY <1>1 DEF TrustInv, TypeOK, Process
  <1>3. Sound(p) /\ proc[p].at = "granted"
    BY DEF ProcInv, TrustInv, OpenSession
  <1> HIDE DEF s
  <1>4. Sound(p)'
    BY <1>2, <1>3 DEF Sound, Saving, OpenSession
  <1>5. \A q \in Procs \ {p} : Sound(q)'
    BY <1>1, OthersSound DEF ProcInv, TrustInv, OpenSession
  <1>6. ProcInv'
    BY <1>4, <1>5 DEF ProcInv
  <1>7. SessionsOnlyWhereAccepted'
    BY <1>3 DEF OpenSession, Sound, TrustInv, SessionsOnlyWhereAccepted
  <1>8. TypeOK'
    BY <1>1 DEF OpenSession, TrustInv, TypeOK, Process
  <1> QED
    BY <1>6, <1>7, <1>8 DEF TrustInv, OpenSession, StoreAccepted, RevokeHolds

\* A repair removes the store or makes it private.
LEMMA RepairKeeps ==
    ASSUME TrustInv, Repair
    PROVE  TrustInv'
  <1>1. store'.entries \subseteq store.entries /\ TypeOK'
    BY DEF Repair, TrustInv, TypeOK
  <1>2. \A p \in Procs : Sound(p)'
    <2> SUFFICES ASSUME NEW p \in Procs PROVE Sound(p)'
      OBVIOUS
    <2>1. Sound(p) /\ UNCHANGED <<proc, accepted, revoked>>
      BY DEF ProcInv, TrustInv, Repair
    <2> QED BY <2>1 DEF Sound, Saving
  <1>3. ProcInv'
    BY <1>2 DEF ProcInv
  <1> QED
    BY <1>1, <1>3 DEF TrustInv, Repair, StoreAccepted, SessionsOnlyWhereAccepted, RevokeHolds

\* A step of nobody changes nothing.
LEMMA StutterKeeps ==
    ASSUME TrustInv, UNCHANGED vars
    PROVE  TrustInv'
  <1>1. \A p \in Procs : Sound(p)'
    <2> SUFFICES ASSUME NEW p \in Procs PROVE Sound(p)'
      OBVIOUS
    <2>1. Sound(p) /\ UNCHANGED <<proc, accepted, revoked>>
      BY DEF ProcInv, TrustInv, vars
    <2> QED BY <2>1 DEF Sound, Saving
  <1>2. ProcInv'
    BY <1>1 DEF ProcInv
  <1> QED
    BY <1>2 DEF TrustInv, vars, TypeOK, StoreAccepted, SessionsOnlyWhereAccepted, RevokeHolds

\* Every step keeps the invariant.
LEMMA TrustNext ==
    ASSUME Nesting, Folders # {}, TrustInv, [Next]_vars
    PROVE  TrustInv'
  <1>1. ASSUME NEW p \in Procs, NEW job \in {"launch", "revoke"}, NEW f \in Folders,
               Start(p, job, f)
        PROVE  TrustInv'
    BY <1>1, StartKeeps
  <1>2. ASSUME NEW p \in Procs, Gate(p) \/ Record(p) \/ Revoke(p)
        PROVE  TrustInv'
    BY <1>2, GateKeeps, RecordKeeps, RevokeKeeps
  <1>3. ASSUME NEW p \in Procs, NEW yes \in BOOLEAN, Answer(p, yes)
        PROVE  TrustInv'
    BY <1>3, AnswerKeeps
  <1>4. ASSUME NEW p \in Procs, Truncate(p) \/ Write(p) \/ MakePrivate(p)
        PROVE  TrustInv'
    BY <1>4, TruncateKeeps, WriteKeeps, MakePrivateKeeps
  <1>5. ASSUME NEW p \in Procs, Refuse(p) \/ End(p) \/ Kill(p)
        PROVE  TrustInv'
    BY <1>5, LeaveSound DEF Refuse, End, Kill
  <1>6. ASSUME NEW p \in Procs, OpenSession(p)
        PROVE  TrustInv'
    BY <1>6, OpenSessionKeeps
  <1>7. CASE Repair
    BY <1>7, RepairKeeps
  <1>8. CASE UNCHANGED vars
    BY <1>8, StutterKeeps
  <1> QED
    BY <1>1, <1>2, <1>3, <1>4, <1>5, <1>6, <1>7, <1>8 DEF Next

------------------------------------------------------------------------------
\* Whatever terminals do with the one trust store, with no lock between
\* them: sessions are opened only where the user accepted (or the allowlist
\* has) the folder or one around it, and a revocation that raced no save
\* holds until the folder is accepted again (trust.rs).
THEOREM TrustCorrect ==
    ASSUME Nesting, Folders # {}
    PROVE  Spec => []TrustHolds
  <1>1. Init => TrustInv
    BY TrustInit
  <1>2. TrustInv /\ [Next]_vars => TrustInv'
    BY TrustNext
  <1>3. TrustInv => TrustHolds
    BY DEF TrustInv, TrustHolds
  <1> QED BY <1>1, <1>2, <1>3, PTL DEF Spec
------------------------------------------------------------------------------
\* The finite sets are the same in the part.
LEMMA MemFinite == \A S : Mem!IsFiniteSet(S) <=> IsFiniteSet(S)
  BY DEF Mem!IsFiniteSet, IsFiniteSet

\* And so are their sizes.
LEMMA MemSize == \A S : Mem!Cardinality(S) = Cardinality(S)
  BY DEF Mem!Cardinality, Cardinality

(* A writer begins.                                                          *)
LEMMA Begun ==
    ASSUME Mem!MemoryInv, NEW w \in Mem!Writers, NEW kind, NEW key, NEW d, NEW text,
           text = Mem!FileOf(key), Mem!Begin(w, kind, key, d, text), x1' = x1
    PROVE  /\ Mem!Shapes' /\ Mem!EntriesAtHome' /\ Mem!SharedIsSpoiled' /\ Mem!IndexLists'
           /\ x4'["root"] # Mem!NoOp \/ x13'.foreign
  <1> DEFINE f == Mem!FileOf(key)
             stores == \/ kind = "write" /\ Mem!Available(key.scope) /\ x2[f].is = "absent"
                       \/ kind = "update" /\ Mem!Available(key.scope)
             removes == kind = "remove" /\ Mem!Available(key.scope)
             overlap == stores /\ Mem!Busy(Mem!Other(w)) /\ x4[Mem!Other(w)].key.scope = key.scope
  <1>1. PICK v \in Mem!Writers : v = Mem!Other(w) /\ v # w /\ Mem!Writers = {v, w}
    BY DEF Mem!Writers, Mem!Other
  <1>2. \E writes, both \in BOOLEAN :
            /\ both <=> writes /\ Mem!Busy(v) /\ x4[v].key.scope = key.scope
            /\ writes => x4'[w] = [step |-> "file", kind |-> kind, key |-> key, clean |-> ~both,
                                   entry |-> Mem!Entry(key, d, text), lines |-> {}]
            /\ ~writes => x4'[w] = Mem!After(w, "refresh")
            /\ x4'[v] = IF both THEN [x4[v] EXCEPT !.clean = FALSE] ELSE x4[v]
            /\ x13' = [x13 EXCEPT !.dirty = @ \union (IF both THEN {key.scope} ELSE {}),
                                  !.foreign = Mem!Foreign(w)]
    <2>1. stores \in BOOLEAN /\ overlap \in BOOLEAN
      OBVIOUS
    <2>2. overlap <=> stores /\ Mem!Busy(v) /\ x4[v].key.scope = key.scope
      BY <1>1
    <2>3. /\ stores => x4'[w] = [step |-> "file", kind |-> kind, key |-> key, clean |-> ~overlap,
                                 entry |-> Mem!Entry(key, d, text), lines |-> {}]
          /\ ~stores => x4'[w] = Mem!After(w, "refresh")
      BY DEF Mem!Begin, Mem!AfterRemove
    <2>4. x4'[v] = IF overlap THEN [x4[v] EXCEPT !.clean = FALSE] ELSE x4[v]
      BY <1>1 DEF Mem!Begin
    <2>5. x13' = [x13 EXCEPT !.dirty = @ \union (IF overlap THEN {key.scope} ELSE {}),
                             !.foreign = Mem!Foreign(w)]
      BY <1>1 DEF Mem!Begin
    <2> HIDE DEF stores, overlap
    <2> QED BY <2>1, <2>2, <2>3, <2>4, <2>5
  <1>3. x4' = [u \in Mem!Writers |-> x4'[u]] /\ x3' = x3
    BY DEF Mem!Begin
  <1>4. x2' = x2 \/ x2' = [x2 EXCEPT ![f] = Mem!Absent]
    BY DEF Mem!Begin
  <1> HIDE DEF stores, removes, overlap
  <1>5. PICK storing, both \in BOOLEAN :
            /\ both <=> storing /\ Mem!Busy(v) /\ x4[v].key.scope = key.scope
            /\ storing => x4'[w] = [step |-> "file", kind |-> kind, key |-> key, clean |-> ~both,
                                   entry |-> Mem!Entry(key, d, text), lines |-> {}]
            /\ ~storing => x4'[w] = Mem!After(w, "refresh")
            /\ x4'[v] = IF both THEN [x4[v] EXCEPT !.clean = FALSE] ELSE x4[v]
            /\ x13' = [x13 EXCEPT !.dirty = @ \union (IF both THEN {key.scope} ELSE {}),
                                  !.foreign = Mem!Foreign(w)]
    BY <1>2
  <1>6. both => Mem!Busy(v) /\ x4'[v] = [x4[v] EXCEPT !.clean = FALSE]
    BY <1>5
  <1>7. Mem!Shapes /\ Mem!EntriesAtHome /\ Mem!SharedIsSpoiled /\ Mem!IndexLists
    BY DEF Mem!MemoryInv
  <1>8. Mem!Doing(w)'
    <2>1. CASE storing
      <3>1. x4'[w].entry = Mem!Entry(key, d, f) /\ x4'[w].entry.description = d
        BY <1>5, <2>1 DEF Mem!Entry
      <3>2. x4'[w].clean \in BOOLEAN /\ x4'[w].key = key /\ x4'[w].step = "file"
        <4>1. x4'[w].key = key /\ x4'[w].step = "file" /\ x4'[w].clean = ~both
          BY <1>5, <2>1
        <4>2. CASE both
          BY <4>1, <4>2
        <4>3. CASE ~both
          BY <4>1, <4>3
        <4> QED BY <4>1, <4>2, <4>3
      <3>3. x4'[w] = [step |-> x4'[w].step, kind |-> x4'[w].kind, key |-> x4'[w].key,
                      clean |-> x4'[w].clean, entry |-> x4'[w].entry, lines |-> x4'[w].lines]
        BY <1>5, <2>1
      <3> QED BY <3>1, <3>2, <3>3 DEF Mem!Doing
    <2>2. CASE ~storing
      BY <1>5, <2>2 DEF Mem!Doing, Mem!After, Mem!NoOp
    <2> QED BY <2>1, <2>2
  <1>9. both => x4'[v] = [step |-> x4[v].step, kind |-> x4[v].kind, key |-> x4[v].key,
                          clean |-> FALSE, entry |-> x4[v].entry, lines |-> x4[v].lines]
    <2>1. Mem!Doing(v)
      BY <1>7 DEF Mem!Shapes
    <2>2. SUFFICES ASSUME both PROVE x4'[v] =
             [step |-> x4[v].step, kind |-> x4[v].kind, key |-> x4[v].key,
              clean |-> FALSE, entry |-> x4[v].entry, lines |-> x4[v].lines]
      OBVIOUS
    <2>3. x4[v].step \in {"file", "scan", "index"} /\ x4[v] # Mem!NoOp /\ x4[v] # [step |-> "refresh"]
      BY <1>6, <2>2 DEF Mem!Busy, Mem!NoOp
    <2>4. x4[v] = [step |-> x4[v].step, kind |-> x4[v].kind, key |-> x4[v].key,
                   clean |-> x4[v].clean, entry |-> x4[v].entry, lines |-> x4[v].lines]
      BY <2>1, <2>3 DEF Mem!Doing
    <2>5. PICK s, k, e, c, x, l :
              x4[v] = [step |-> s, kind |-> k, key |-> e, clean |-> c, entry |-> x, lines |-> l]
      BY <2>4
    <2> QED BY <1>6, <2>2, <2>5
  <1>10. Mem!Doing(v)'
    <2>1. Mem!Doing(v)
      BY <1>7 DEF Mem!Shapes
    <2>2. CASE both
      BY <1>6, <1>9, <2>1, <2>2 DEF Mem!Doing, Mem!Busy, Mem!NoOp
    <2>3. CASE ~both
      BY <1>5, <2>1, <2>3 DEF Mem!Doing
    <2> QED BY <2>2, <2>3
  <1>11. Mem!Shapes'
    <2>1. Mem!Writers = {v, w}
      BY <1>1
    <2>2. /\ x13' = [asked |-> x13.asked, foreign |-> Mem!Foreign(w), dropped |-> x13.dropped,
                     dirty |-> x13.dirty \union (IF both THEN {key.scope} ELSE {})]
          /\ Mem!Foreign(w) \in BOOLEAN
      BY <1>5, <1>7 DEF Mem!Shapes, Mem!Foreign
    <2> QED BY <1>3, <1>7, <1>8, <1>10, <2>1, <2>2 DEF Mem!Shapes
  <1>12. Mem!EntriesAtHome'
    <2>1. ASSUME NEW s \in Mem!Scopes PROVE IsFiniteSet(Mem!Existing(s)')
      <3>1. Mem!Existing(s)' \subseteq Mem!Existing(s)
        BY <1>4, <1>7 DEF Mem!EntriesAtHome, Mem!Existing, Mem!Absent
      <3> QED BY <1>7, <3>1, FS_Subset, MemFinite DEF Mem!EntriesAtHome
    <2> QED BY <1>4, <1>7, <2>1, MemFinite DEF Mem!EntriesAtHome
  <1>13. Mem!SharedIsSpoiled'
    <2>1. Mem!Busy(v)' => /\ Mem!Busy(v) /\ x4'[v].key = x4[v].key
                          /\ ~x4'[v].clean => both \/ ~x4[v].clean
      BY <1>5, <1>9 DEF Mem!Busy, Mem!NoOp
    <2>2. Mem!Busy(w)' => storing /\ x4'[w].key = key /\ x4'[w].clean = ~both
      BY <1>5 DEF Mem!After, Mem!Busy, Mem!NoOp
    <2>3. x13'.dirty = x13.dirty \union (IF both THEN {key.scope} ELSE {})
      BY <1>5, <1>7 DEF Mem!Shapes
    <2>4. both => x4'[v].clean = FALSE /\ x4[v].key.scope = key.scope
      BY <1>5, <1>9
    <2>5. ASSUME NEW u \in Mem!Writers, Mem!Busy(u)', ~x4'[u].clean PROVE x4'[u].key.scope \in x13'.dirty
      <3>1. CASE u = w
        BY <2>2, <2>3, <2>5, <3>1
      <3>2. CASE u = v
        BY <1>7, <2>1, <2>3, <2>4, <2>5, <3>2 DEF Mem!SharedIsSpoiled
      <3> QED BY <1>1, <2>5, <3>1, <3>2
    <2>6. ASSUME Mem!Busy(v)', Mem!Busy(w)', x4'[v].key.scope = x4'[w].key.scope
          PROVE  ~x4'[v].clean /\ ~x4'[w].clean
      BY <1>5, <2>1, <2>2, <2>4, <2>6
    <2>7. \A u \in Mem!Writers : Mem!Busy(u)' /\ ~x4'[u].clean => x4'[u].key.scope \in x13'.dirty
      BY <2>5
    <2>8. Mem!Writers = {"root", "subagent"} /\ v # w /\ v \in Mem!Writers /\ w \in Mem!Writers
      BY <1>1 DEF Mem!Writers
    <2> QED BY <2>6, <2>7, <2>8 DEF Mem!SharedIsSpoiled
  <1>14. ASSUME NEW s PROVE Mem!Listing(s)' \subseteq Mem!Listing(s)
    <2>1. ASSUME NEW l \in Mem!Listing(s)' PROVE l \in Mem!Listing(s)
      <3>1. PICK g \in Mem!Files : g.scope = s /\ x2'[g].is = "entry" /\ l = Mem!Line(g)'
        BY DEF Mem!Listing, Mem!Existing
      <3>2. x2'[g] = x2[g]
        BY <1>4, <1>7, <3>1 DEF Mem!EntriesAtHome, Mem!Absent
      <3> QED BY <3>1, <3>2 DEF Mem!Listing, Mem!Existing, Mem!Line
    <2> QED BY <2>1
  <1>15. Mem!IndexLists'
    <2>1. x13.dirty \subseteq x13'.dirty
      BY <1>5, <1>7 DEF Mem!Shapes
    <2>2. ASSUME NEW u \in Mem!Writers, x4[u].step \in {"scan", "index"}
          PROVE  /\ x4'[u].step = x4[u].step /\ x4'[u].key = x4[u].key /\ x4'[u].lines = x4[u].lines
                 /\ x4'[u].clean => x4[u].clean
      BY <1>1, <1>5, <1>9, <2>2, <1>11 DEF Mem!Shapes, Mem!NoOp, Mem!Begin
    <2>3. ASSUME NEW u \in Mem!Writers, x4'[u].step \in {"scan", "index"}
          PROVE  x4[u].step \in {"scan", "index"}
      BY <1>1, <1>5, <1>9, <2>3 DEF Mem!NoOp, Mem!After
    <2>4. ASSUME NEW s \in Mem!Scopes \ x13'.dirty, Mem!Available(s)',
                 \A u \in Mem!Writers : x4'[u].step \in {"scan", "index"} => x4'[u].key.scope # s
          PROVE  Mem!Listing(s)' \subseteq x3'[s]
      <3>1. Mem!Available(s)
        BY <2>4 DEF Mem!Available
      <3> QED BY <1>3, <1>7, <1>14, <2>1, <2>2, <2>4, <3>1 DEF Mem!IndexLists
    <2>5. ASSUME NEW u \in Mem!Writers, x4'[u].step = "index", x4'[u].clean
          PROVE  \A s : s = x4'[u].key.scope => Mem!Listing(s)' \subseteq x4'[u].lines
      <3>1. x4[u].step = "index" /\ x4[u].clean /\ x4'[u].key = x4[u].key /\ x4'[u].lines = x4[u].lines
        BY <2>2, <2>3, <2>5
      <3>2. ASSUME NEW s, s = x4[u].key.scope PROVE Mem!Listing(s) \subseteq x4[u].lines
        BY <1>7, <3>1, <3>2 DEF Mem!IndexLists
      <3> QED BY <1>14, <3>1, <3>2
    <2> QED BY <2>4, <2>5 DEF Mem!IndexLists
  <1>16. x4'["root"] # Mem!NoOp \/ x13'.foreign
    <2>1. w = "root" => x4'[w].step # "none"
      BY <1>5 DEF Mem!After
    <2>2. w # "root" => w = "subagent" /\ x13'.foreign
      BY <1>5, <1>7 DEF Mem!Shapes, Mem!Foreign, Mem!Writers
    <2> QED BY <2>1, <2>2 DEF Mem!NoOp
  <1> QED BY <1>11, <1>12, <1>13, <1>15, <1>16


(* A writer in the middle is one of these.                                   *)
LEMMA InTheMiddle ==
    ASSUME Mem!MemoryInv, NEW w \in Mem!Writers, Mem!Busy(w)
    PROVE  /\ x4[w] = [step |-> x4[w].step, kind |-> x4[w].kind, key |-> x4[w].key,
                       clean |-> x4[w].clean, entry |-> x4[w].entry, lines |-> x4[w].lines]
           /\ x4[w].clean \in BOOLEAN
           /\ x4[w].entry = Mem!Entry(x4[w].key, x4[w].entry.description, Mem!FileOf(x4[w].key))
  <1>1. x4[w] # Mem!NoOp /\ x4[w] # [step |-> "refresh"]
    BY DEF Mem!Busy, Mem!NoOp
  <1> QED BY <1>1 DEF Mem!MemoryInv, Mem!Shapes, Mem!Doing

(* The file is written.                                                      *)
LEMMA FileWritten ==
    ASSUME Mem!MemoryInv, NEW w \in Mem!Writers, Mem!WriteFile(w)
    PROVE  /\ Mem!Shapes' /\ Mem!EntriesAtHome' /\ Mem!SharedIsSpoiled' /\ Mem!IndexLists'
           /\ x4'["root"] # Mem!NoOp \/ x13'.foreign
  <1>1. PICK o : o = x4[w] /\ o.step = "file" /\ Mem!Busy(w)
    BY DEF Mem!WriteFile, Mem!Busy
  <1>2. /\ o = [step |-> o.step, kind |-> o.kind, key |-> o.key, clean |-> o.clean,
                entry |-> o.entry, lines |-> o.lines]
        /\ o.clean \in BOOLEAN /\ o.entry = Mem!Entry(o.key, o.entry.description, Mem!FileOf(o.key))
    BY <1>1, InTheMiddle
  <1>3. Mem!Shapes /\ Mem!EntriesAtHome /\ Mem!SharedIsSpoiled /\ Mem!IndexLists
    BY DEF Mem!MemoryInv
  <1>4. /\ x4' = [x4 EXCEPT ![w] = [o EXCEPT !.step = "scan"]]
        /\ x2' = [x2 EXCEPT ![Mem!FileOf(o.key)] = o.entry]
        /\ x13' = [x13 EXCEPT !.foreign = Mem!Foreign(w)]
        /\ x3' = x3 /\ x1' = x1
    BY <1>1 DEF Mem!WriteFile, Mem!AfterFile, Mem!Aside
  <1>a. PICK kk, ee, cc, xx, ll, ss :
            o = [step |-> ss, kind |-> kk, key |-> ee, clean |-> cc, entry |-> xx, lines |-> ll]
    BY <1>2
  <1>b. PICK new : new = [o EXCEPT !.step = "scan"]
    OBVIOUS
  <1>5. /\ new.step = "scan" /\ new # Mem!NoOp
        /\ new = [step |-> "scan", kind |-> o.kind, key |-> o.key, clean |-> o.clean,
                  entry |-> o.entry, lines |-> o.lines]
    <2>1. new = [step |-> "scan", kind |-> kk, key |-> ee, clean |-> cc, entry |-> xx, lines |-> ll]
      BY <1>a, <1>b
    <2>2. new.step = "scan"
      BY <2>1
    <2>3. new # Mem!NoOp
      BY <2>2 DEF Mem!NoOp
    <2> QED BY <1>a, <2>1, <2>2, <2>3
  <1>6. x4' = [u \in Mem!Writers |-> IF u = w THEN new ELSE x4[u]]
    BY <1>3, <1>4, <1>b DEF Mem!Shapes
  <1>7. x13' = [asked |-> x13.asked, dirty |-> x13.dirty,
                foreign |-> Mem!Foreign(w), dropped |-> x13.dropped]
        /\ Mem!Foreign(w) \in BOOLEAN
    BY <1>3, <1>4 DEF Mem!Shapes, Mem!Foreign
  <1>8. Mem!Shapes'
    <2>1. ASSUME NEW u \in Mem!Writers PROVE Mem!Doing(u)'
      <3>1. CASE u = w
        BY <1>2, <1>5, <1>6, <3>1 DEF Mem!Doing
      <3>2. CASE u # w
        BY <1>3, <1>6, <3>2 DEF Mem!Shapes, Mem!Doing
      <3> QED BY <3>1, <3>2
    <2> QED BY <1>3, <1>4, <1>6, <1>7, <2>1 DEF Mem!Shapes
  <1>9. Mem!EntriesAtHome'
    <2>1. x2' = [f \in Mem!Files |-> x2'[f]]
      BY <1>3, <1>4 DEF Mem!EntriesAtHome
    <2>2. ASSUME NEW f \in Mem!Files
          PROVE  \/ x2'[f] = x2[f]
                 \/ /\ x2'[f] = [is |-> "entry", name |-> x2'[f].name,
                                 description |-> x2'[f].description, text |-> f]
                    /\ MemorySlug(x2'[f].name) = f.stem
      BY <1>2, <1>3, <1>4 DEF Mem!EntriesAtHome, Mem!Entry, Mem!FileOf
    <2>3. ASSUME NEW s \in Mem!Scopes PROVE IsFiniteSet(Mem!Existing(s)')
      <3>1. Mem!Existing(s)' \subseteq Mem!Existing(s) \cup {Mem!FileOf(o.key)}
        BY <1>3, <1>4 DEF Mem!EntriesAtHome, Mem!Existing
      <3>2. IsFiniteSet(Mem!Existing(s) \cup {Mem!FileOf(o.key)})
        BY <1>3, FS_AddElement, MemFinite DEF Mem!EntriesAtHome
      <3> QED BY <3>1, <3>2, FS_Subset
    <2> QED BY <1>3, <2>1, <2>2, <2>3, MemFinite DEF Mem!EntriesAtHome
  <1>10. \A u \in Mem!Writers : /\ Mem!Busy(u)' <=> Mem!Busy(u)
                                /\ Mem!Busy(u) => x4'[u].clean = x4[u].clean /\ x4'[u].key = x4[u].key
    BY <1>1, <1>5, <1>6 DEF Mem!Busy
  <1>11. Mem!SharedIsSpoiled'
    BY <1>3, <1>7, <1>10 DEF Mem!SharedIsSpoiled, Mem!Writers
  <1>12. ASSUME NEW s, s # o.key.scope PROVE Mem!Listing(s)' \subseteq Mem!Listing(s)
    <2>1. ASSUME NEW l \in Mem!Listing(s)' PROVE l \in Mem!Listing(s)
      <3>1. PICK g \in Mem!Files : g.scope = s /\ x2'[g].is = "entry" /\ l = Mem!Line(g)'
        BY DEF Mem!Listing, Mem!Existing
      <3>2. x2'[g] = x2[g]
        BY <1>3, <1>4, <1>12, <3>1 DEF Mem!EntriesAtHome, Mem!FileOf
      <3> QED BY <3>1, <3>2 DEF Mem!Listing, Mem!Existing, Mem!Line
    <2> QED BY <2>1
  <1>13. Mem!IndexLists'
    <2>1. ASSUME NEW s \in Mem!Scopes \ x13'.dirty, Mem!Available(s)',
                 \A u \in Mem!Writers : x4'[u].step \in {"scan", "index"} => x4'[u].key.scope # s
          PROVE  Mem!Listing(s)' \subseteq x3'[s]
      <3>1. s # o.key.scope
        BY <1>5, <1>6, <2>1
      <3>2. \A u \in Mem!Writers : x4[u].step \in {"scan", "index"} => x4[u].key.scope # s
        BY <1>1, <1>6, <2>1
      <3>3. Mem!Available(s) /\ s \in Mem!Scopes \ x13.dirty
        BY <1>4, <1>7, <2>1 DEF Mem!Available
      <3>4. Mem!Listing(s) \subseteq x3[s]
        BY <1>3, <3>2, <3>3 DEF Mem!IndexLists
      <3> QED BY <1>4, <1>12, <3>1, <3>4
    <2>2. ASSUME NEW u \in Mem!Writers, x4'[u].step = "index", x4'[u].clean
          PROVE  \A s : s = x4'[u].key.scope => Mem!Listing(s)' \subseteq x4'[u].lines
      <3>1. u # w /\ x4'[u] = x4[u]
        BY <1>5, <1>6, <2>2
      <3>2. Mem!Busy(u) /\ Mem!Busy(w)
        BY <1>1, <2>2, <3>1 DEF Mem!Busy
      <3>3. x4[u].key.scope # o.key.scope
        BY <1>1, <1>3, <2>2, <3>1, <3>2 DEF Mem!SharedIsSpoiled, Mem!Writers
      <3>4. \A s : s = x4[u].key.scope => Mem!Listing(s) \subseteq x4[u].lines
        BY <1>3, <2>2, <3>1 DEF Mem!IndexLists
      <3> QED BY <1>12, <3>1, <3>3, <3>4
    <2> QED BY <2>1, <2>2 DEF Mem!IndexLists
  <1>14. x4'["root"] # Mem!NoOp \/ x13'.foreign
    <2>1. w = "root" => x4'["root"] # Mem!NoOp
      BY <1>5, <1>6
    <2>2. w # "root" => x13'.foreign
      BY <1>7 DEF Mem!Foreign, Mem!Writers
    <2> QED BY <2>1, <2>2
  <1> QED BY <1>8, <1>9, <1>11, <1>13, <1>14

(* The directory is read.                                                    *)
LEMMA Scanned ==
    ASSUME Mem!MemoryInv, NEW w \in Mem!Writers, Mem!Scan(w)
    PROVE  /\ Mem!Shapes' /\ Mem!EntriesAtHome' /\ Mem!SharedIsSpoiled' /\ Mem!IndexLists'
           /\ x4'["root"] = Mem!NoOp => x4["root"] = Mem!NoOp
  <1>1. PICK o : o = x4[w] /\ o.step = "scan" /\ Mem!Busy(w)
    BY DEF Mem!Scan, Mem!Busy
  <1>2. /\ o = [step |-> o.step, kind |-> o.kind, key |-> o.key, clean |-> o.clean,
                entry |-> o.entry, lines |-> o.lines]
        /\ o.clean \in BOOLEAN /\ o.entry = Mem!Entry(o.key, o.entry.description, Mem!FileOf(o.key))
    BY <1>1, InTheMiddle
  <1>3. Mem!Shapes /\ Mem!EntriesAtHome /\ Mem!SharedIsSpoiled /\ Mem!IndexLists
    BY DEF Mem!MemoryInv
  <1>4. PICK lines : lines = Mem!Listing(o.key.scope)
    OBVIOUS
  <1>5. /\ x4' = [x4 EXCEPT ![w].step = "index", ![w].lines = lines]
        /\ x2' = x2 /\ x3' = x3 /\ x13' = x13 /\ x1' = x1
    BY <1>1, <1>4 DEF Mem!Scan, Mem!Aside, Mem!disk
  <1>a. PICK kk, ee, cc, xx, ll, ss :
            o = [step |-> ss, kind |-> kk, key |-> ee, clean |-> cc, entry |-> xx, lines |-> ll]
    BY <1>2
  <1>b. PICK new : new = [o EXCEPT !.step = "index", !.lines = lines]
    OBVIOUS
  <1>6. /\ new = [step |-> "index", kind |-> o.kind, key |-> o.key, clean |-> o.clean,
                  entry |-> o.entry, lines |-> lines]
        /\ new # Mem!NoOp
    <2>1. new = [step |-> "index", kind |-> kk, key |-> ee, clean |-> cc, entry |-> xx, lines |-> lines]
      BY <1>a, <1>b
    <2>2. new.step = "index"
      BY <2>1
    <2>3. new # Mem!NoOp
      BY <2>2 DEF Mem!NoOp
    <2> QED BY <1>a, <2>1, <2>3
  <1>7. x4' = [u \in Mem!Writers |-> IF u = w THEN new ELSE x4[u]]
    BY <1>1, <1>3, <1>5, <1>b DEF Mem!Shapes
  <1>8. Mem!Shapes'
    <2>1. ASSUME NEW u \in Mem!Writers PROVE Mem!Doing(u)'
      <3>1. CASE u = w
        BY <1>2, <1>6, <1>7, <3>1 DEF Mem!Doing
      <3>2. CASE u # w
        BY <1>3, <1>7, <3>2 DEF Mem!Shapes, Mem!Doing
      <3> QED BY <3>1, <3>2
    <2> QED BY <1>3, <1>5, <1>7, <2>1 DEF Mem!Shapes
  <1>9. Mem!EntriesAtHome'
    BY <1>3, <1>5 DEF Mem!EntriesAtHome, Mem!Existing
  <1>10. \A u \in Mem!Writers : /\ Mem!Busy(u)' <=> Mem!Busy(u)
                                /\ Mem!Busy(u) => x4'[u].clean = x4[u].clean /\ x4'[u].key = x4[u].key
    BY <1>1, <1>6, <1>7 DEF Mem!Busy
  <1>11. Mem!SharedIsSpoiled'
    BY <1>3, <1>5, <1>10 DEF Mem!SharedIsSpoiled, Mem!Writers
  <1>12. \A s : Mem!Listing(s)' = Mem!Listing(s) /\ (Mem!Available(s)' <=> Mem!Available(s))
    BY <1>5 DEF Mem!Listing, Mem!Existing, Mem!Line, Mem!Available
  <1>13. Mem!IndexLists'
    <2>1. ASSUME NEW s \in Mem!Scopes \ x13'.dirty, Mem!Available(s)',
                 \A u \in Mem!Writers : x4'[u].step \in {"scan", "index"} => x4'[u].key.scope # s
          PROVE  Mem!Listing(s)' \subseteq x3'[s]
      <3>1. \A u \in Mem!Writers : x4[u].step \in {"scan", "index"} => x4[u].key.scope # s
        BY <1>1, <1>6, <1>7, <2>1
      <3> QED BY <1>3, <1>5, <1>12, <2>1, <3>1 DEF Mem!IndexLists
    <2>2. ASSUME NEW u \in Mem!Writers, x4'[u].step = "index", x4'[u].clean
          PROVE  \A s : s = x4'[u].key.scope => Mem!Listing(s)' \subseteq x4'[u].lines
      <3>1. CASE u = w
        BY <1>4, <1>6, <1>7, <1>12, <3>1
      <3>2. CASE u # w
        <4>1. x4'[u] = x4[u]
          BY <1>7, <3>2
        <4>2. \A s : s = x4[u].key.scope => Mem!Listing(s) \subseteq x4[u].lines
          BY <1>3, <2>2, <4>1 DEF Mem!IndexLists
        <4> QED BY <1>12, <4>1, <4>2
      <3> QED BY <3>1, <3>2
    <2> QED BY <2>1, <2>2 DEF Mem!IndexLists
  <1>14. x4'["root"] = Mem!NoOp => x4["root"] = Mem!NoOp
    BY <1>6, <1>7 DEF Mem!Writers
  <1> QED BY <1>8, <1>9, <1>11, <1>13, <1>14

(* The index is written.                                                     *)
LEMMA IndexWritten ==
    ASSUME Mem!MemoryInv, NEW w \in Mem!Writers, Mem!WriteIndex(w)
    PROVE  /\ Mem!Shapes' /\ Mem!EntriesAtHome' /\ Mem!SharedIsSpoiled' /\ Mem!IndexLists'
           /\ x4'["root"] # Mem!NoOp \/ x13'.foreign
  <1>1. PICK o : o = x4[w] /\ o.step = "index" /\ Mem!Busy(w)
    BY DEF Mem!WriteIndex, Mem!Busy
  <1>2. o.clean \in BOOLEAN
    BY <1>1, InTheMiddle
  <1>3. Mem!Shapes /\ Mem!EntriesAtHome /\ Mem!SharedIsSpoiled /\ Mem!IndexLists
    BY DEF Mem!MemoryInv
  <1>4. /\ x4' = [x4 EXCEPT ![w] = Mem!After(w, "refresh")]
        /\ x3' = [x3 EXCEPT ![o.key.scope] = o.lines]
        /\ x13' = [x13 EXCEPT !.dirty = @ \ (IF o.clean THEN {o.key.scope} ELSE {}),
                              !.foreign = Mem!Foreign(w)]
        /\ x2' = x2 /\ x1' = x1
    BY <1>1 DEF Mem!WriteIndex, Mem!Aside
  <1>a. PICK new : new = Mem!After(w, "refresh")
    OBVIOUS
  <1>5. new.step \notin {"file", "scan", "index"} /\ (w = "root" => new # Mem!NoOp)
    <2>1. new = IF w = "root" THEN [step |-> "refresh"] ELSE [step |-> "none"]
      BY <1>a DEF Mem!After, Mem!NoOp
    <2>2. new.step = IF w = "root" THEN "refresh" ELSE "none"
      BY <2>1
    <2> QED BY <2>2 DEF Mem!NoOp
  <1>6. x4' = [u \in Mem!Writers |-> IF u = w THEN new ELSE x4[u]]
    BY <1>3, <1>4, <1>a DEF Mem!Shapes
  <1>7. x13' = [asked |-> x13.asked, foreign |-> Mem!Foreign(w), dropped |-> x13.dropped,
                dirty |-> x13.dirty \ (IF o.clean THEN {o.key.scope} ELSE {})]
        /\ Mem!Foreign(w) \in BOOLEAN
    BY <1>3, <1>4 DEF Mem!Shapes, Mem!Foreign
  <1>8. Mem!Shapes'
    <2>1. ASSUME NEW u \in Mem!Writers PROVE Mem!Doing(u)'
      <3>1. CASE u = w
        BY <1>a, <1>6, <3>1 DEF Mem!Doing, Mem!After
      <3>2. CASE u # w
        BY <1>3, <1>6, <3>2 DEF Mem!Shapes, Mem!Doing
      <3> QED BY <3>1, <3>2
    <2>2. x3' = [s \in Mem!Scopes |-> x3'[s]]
      BY <1>3, <1>4 DEF Mem!Shapes
    <2> QED BY <1>3, <1>6, <1>7, <2>1, <2>2 DEF Mem!Shapes
  <1>9. Mem!EntriesAtHome'
    BY <1>3, <1>4 DEF Mem!EntriesAtHome, Mem!Existing
  <1>10. ASSUME NEW u \in Mem!Writers, x4'[u].step \in {"file", "scan", "index"}
         PROVE  u # w /\ x4'[u] = x4[u]
    BY <1>5, <1>6, <1>10
  <1>11. Mem!SharedIsSpoiled'
    <2>1. ASSUME NEW u \in Mem!Writers, Mem!Busy(u)', ~x4'[u].clean PROVE x4'[u].key.scope \in x13'.dirty
      <3>1. u # w /\ x4'[u] = x4[u] /\ Mem!Busy(u)
        BY <1>10, <2>1 DEF Mem!Busy
      <3>2. x4[u].key.scope \in x13.dirty
        BY <1>3, <2>1, <3>1 DEF Mem!SharedIsSpoiled
      <3>3. o.clean => x4[u].key.scope # o.key.scope
        BY <1>1, <1>3, <3>1 DEF Mem!SharedIsSpoiled, Mem!Writers
      <3> QED BY <1>7, <3>1, <3>2, <3>3
    <2>2. ~(Mem!Busy("root")' /\ Mem!Busy("subagent")')
      BY <1>10 DEF Mem!Busy, Mem!Writers
    <2> QED BY <2>1, <2>2 DEF Mem!SharedIsSpoiled
  <1>12. \A s : Mem!Listing(s)' = Mem!Listing(s) /\ (Mem!Available(s)' <=> Mem!Available(s))
    BY <1>4 DEF Mem!Listing, Mem!Existing, Mem!Line, Mem!Available
  <1>13. Mem!IndexLists'
    <2>1. ASSUME NEW s \in Mem!Scopes \ x13'.dirty, Mem!Available(s)',
                 \A u \in Mem!Writers : x4'[u].step \in {"scan", "index"} => x4'[u].key.scope # s
          PROVE  Mem!Listing(s)' \subseteq x3'[s]
      <3>1. CASE s = o.key.scope
        <4>1. o.clean
          BY <1>1, <1>3, <1>7, <2>1, <3>1 DEF Mem!SharedIsSpoiled
        <4>2. Mem!Listing(s) \subseteq o.lines
          BY <1>1, <1>3, <3>1, <4>1 DEF Mem!IndexLists
        <4> QED BY <1>3, <1>4, <1>12, <2>1, <3>1, <4>2 DEF Mem!Shapes
      <3>2. CASE s # o.key.scope
        <4>1. \A u \in Mem!Writers : x4[u].step \in {"scan", "index"} => x4[u].key.scope # s
          BY <1>1, <1>6, <2>1, <3>2
        <4>2. s \in Mem!Scopes \ x13.dirty
          BY <1>7, <2>1, <3>2
        <4>3. Mem!Listing(s) \subseteq x3[s]
          BY <1>3, <1>12, <2>1, <4>1, <4>2 DEF Mem!IndexLists
        <4> QED BY <1>3, <1>4, <1>12, <3>2, <4>3 DEF Mem!Shapes
      <3> QED BY <3>1, <3>2
    <2>2. ASSUME NEW u \in Mem!Writers, x4'[u].step = "index", x4'[u].clean
          PROVE  \A s : s = x4'[u].key.scope => Mem!Listing(s)' \subseteq x4'[u].lines
      <3>1. x4'[u] = x4[u]
        BY <1>10, <2>2
      <3>2. \A s : s = x4[u].key.scope => Mem!Listing(s) \subseteq x4[u].lines
        BY <1>3, <2>2, <3>1 DEF Mem!IndexLists
      <3> QED BY <1>12, <3>1, <3>2
    <2> QED BY <2>1, <2>2 DEF Mem!IndexLists
  <1>14. x4'["root"] # Mem!NoOp \/ x13'.foreign
    <2>1. w = "root" => x4'["root"] # Mem!NoOp
      BY <1>5, <1>6
    <2>2. w # "root" => x13'.foreign
      BY <1>7 DEF Mem!Foreign, Mem!Writers
    <2> QED BY <2>1, <2>2
  <1> QED BY <1>8, <1>9, <1>11, <1>13, <1>14

------------------------------------------------------------------------------
(* Nothing of the writers or the directories changes.                        *)
LEMMA CoreSame ==
    ASSUME Mem!MemoryInv, UNCHANGED <<x1, x2, x3, x4>>, x13'.dirty = x13.dirty,
           x13' = [asked |-> x13'.asked, dirty |-> x13'.dirty,
                   foreign |-> x13'.foreign, dropped |-> x13'.dropped],
           x13'.foreign \in BOOLEAN, x13'.dropped \in BOOLEAN
    PROVE  Mem!Shapes' /\ Mem!EntriesAtHome' /\ Mem!SharedIsSpoiled' /\ Mem!IndexLists'
  <1>1. Mem!Shapes /\ Mem!EntriesAtHome /\ Mem!SharedIsSpoiled /\ Mem!IndexLists
    BY DEF Mem!MemoryInv
  <1>2. \A w : (Mem!Busy(w)' <=> Mem!Busy(w)) /\ (Mem!Doing(w)' <=> Mem!Doing(w))
    BY DEF Mem!Busy, Mem!Doing
  <1>3. \A s : /\ Mem!Listing(s)' = Mem!Listing(s) /\ (Mem!Available(s)' <=> Mem!Available(s))
               /\ Mem!Existing(s)' = Mem!Existing(s)
    BY DEF Mem!Listing, Mem!Existing, Mem!Line, Mem!Available
  <1>4. Mem!Shapes'
    BY <1>1, <1>2 DEF Mem!Shapes
  <1>5. Mem!EntriesAtHome'
    BY <1>1, <1>3 DEF Mem!EntriesAtHome
  <1>6. Mem!SharedIsSpoiled'
    BY <1>1, <1>2 DEF Mem!SharedIsSpoiled
  <1>7. Mem!IndexLists'
    <2>1. \A w \in Mem!Writers : x4[w].step = "index" /\ x4[w].clean =>
              \A s : s = x4[w].key.scope => Mem!Listing(s)' \subseteq x4[w].lines
      BY <1>1, <1>3 DEF Mem!IndexLists
    <2> QED BY <1>1, <1>3, <2>1 DEF Mem!IndexLists
  <1> QED BY <1>4, <1>5, <1>6, <1>7

(* Nothing of the inspector changes.                                         *)
LEMMA ScreenSame ==
    ASSUME Mem!MemoryInv, UNCHANGED <<x9, x10, x7, x8>>,
           x13'.asked = x13.asked
    PROVE  Mem!Screen' /\ Mem!DeletesWhatWasAsked'
  <1>1. Mem!Screen' <=> Mem!Screen
    BY DEF Mem!Screen
  <1>2. Mem!DeletesWhatWasAsked' <=> Mem!DeletesWhatWasAsked
    BY DEF Mem!DeletesWhatWasAsked, Mem!Keyed, Mem!Row
  <1> QED BY <1>1, <1>2 DEF Mem!MemoryInv

(* The root is at work or a subagent has written.                            *)
LEMMA FollowLater ==
    ASSUME x4'["root"] # Mem!NoOp \/ x13'.foreign
    PROVE  Mem!PinnedFollows' /\ Mem!StatusFollows'
  BY DEF Mem!PinnedFollows, Mem!StatusFollows

(* What the counts and the pinned index are of does not change.              *)
LEMMA FollowSame ==
    ASSUME Mem!MemoryInv, UNCHANGED <<x1, x2, x3, x5, x8, x11>>,
           x4'["root"] = Mem!NoOp => x4["root"] = Mem!NoOp,
           x13'.foreign = x13.foreign, x13'.dropped = x13.dropped
    PROVE  Mem!PinnedFollows' /\ Mem!StatusFollows'
  <1>1. Mem!Load' = Mem!Load /\ Mem!Counts' = Mem!Counts
    BY DEF Mem!Load, Mem!Counts, Mem!Count, Mem!Existing, Mem!Available
  <1>2. Mem!PinnedFollows'
    BY <1>1 DEF Mem!MemoryInv, Mem!PinnedFollows
  <1>3. Mem!StatusFollows'
    BY <1>1 DEF Mem!MemoryInv, Mem!StatusFollows, Mem!IsLast
  <1> QED BY <1>2, <1>3

(* A message is added to those under way.                                    *)
LEMMA EventSends ==
    ASSUME Mem!Screen, NEW e, Mem!EventSent(e), x8' = Append(x8, e)
    PROVE  /\ \A i \in DOMAIN x8' : Mem!EventSent(x8'[i])
           /\ \E S : x8' \in Seq(S)
           /\ Len(x8) \in Nat /\ Len(x8') = Len(x8) + 1
           /\ DOMAIN x8 = 1..Len(x8) /\ DOMAIN x8' = 1..Len(x8')
           /\ \A i \in 1..Len(x8) : x8'[i] = x8[i]
           /\ x8'[Len(x8')] = e
  <1>1. PICK S : x8 \in Seq(S)
    BY DEF Mem!Screen
  <1>2. x8 \in Seq(S \cup {e}) /\ e \in S \cup {e}
    BY <1>1, SeqMonotonic
  <1>3. /\ x8' \in Seq(S \cup {e}) /\ Len(x8') = Len(x8) + 1
        /\ \A i \in 1..Len(x8) : x8'[i] = x8[i]
        /\ x8'[Len(x8) + 1] = e
    BY <1>2, AppendProperties
  <1>4. /\ Len(x8) \in Nat /\ DOMAIN x8 = 1..Len(x8)
        /\ DOMAIN x8' = 1..Len(x8')
    BY <1>2, <1>3, LenProperties
  <1>5. \A i \in DOMAIN x8 : Mem!EventSent(x8[i])
    BY DEF Mem!Screen
  <1>6. ASSUME NEW i \in DOMAIN x8' PROVE Mem!EventSent(x8'[i])
    <2>1. CASE i = Len(x8) + 1
      BY <1>3, <2>1
    <2>2. CASE i # Len(x8) + 1
      <3>1. i \in 1..Len(x8)
        BY <1>3, <1>4, <2>2
      <3> QED BY <1>3, <1>4, <1>5, <3>1
    <2> QED BY <2>1, <2>2
  <1> QED BY <1>3, <1>4, <1>6

(* A status under way is the last, and tells the counts.                     *)
LEMMA StatusSent ==
    ASSUME Mem!MemoryInv, UNCHANGED <<x1, x2, x3>>, x8' = Append(x8, Mem!Status),
           x5' = Mem!Load
    PROVE  Mem!PinnedFollows' /\ Mem!StatusFollows'
  <1>1. Mem!Load' = Mem!Load /\ Mem!Counts' = Mem!Counts
    BY DEF Mem!Load, Mem!Counts, Mem!Count, Mem!Existing, Mem!Available
  <1>2. Mem!EventSent(Mem!Status) /\ Mem!Status.type = "Status" /\ Mem!Status.counts = Mem!Counts
    BY DEF Mem!EventSent, Mem!Status
  <1>3. /\ DOMAIN x8' = 1..Len(x8') /\ x8'[Len(x8')] = Mem!Status
        /\ Len(x8') \in Nat \ {0}
    BY <1>2, EventSends DEF Mem!MemoryInv
  <1>4. PICK n \in Nat \ {0} : n = Len(x8')
    BY <1>3
  <1>5. Mem!StatusFollows'
    <2>1. n \in DOMAIN x8' /\ x8'[n] = Mem!Status /\ Mem!IsLast(n)'
      BY <1>2, <1>3, <1>4 DEF Mem!IsLast
    <2> QED BY <1>1, <1>2, <2>1 DEF Mem!StatusFollows
  <1> QED BY <1>1, <1>5 DEF Mem!PinnedFollows

(* Another message leaves the last status the last.                          *)
LEMMA OtherSent ==
    ASSUME Mem!MemoryInv, UNCHANGED <<x1, x2, x3, x5, x11>>,
           NEW e, x8' = Append(x8, e), e.type # "Status", Mem!EventSent(e),
           x4'["root"] = Mem!NoOp => x4["root"] = Mem!NoOp,
           x13'.foreign = x13.foreign, x13'.dropped = x13.dropped
    PROVE  Mem!PinnedFollows' /\ Mem!StatusFollows'
  <1>1. Mem!Load' = Mem!Load /\ Mem!Counts' = Mem!Counts
    BY DEF Mem!Load, Mem!Counts, Mem!Count, Mem!Existing, Mem!Available
  <1>2. /\ DOMAIN x8 = 1..Len(x8) /\ Len(x8) \in Nat /\ Len(x8') = Len(x8) + 1
        /\ DOMAIN x8' = 1..Len(x8')
        /\ \A i \in 1..Len(x8) : x8'[i] = x8[i]
        /\ x8'[Len(x8')] = e
    BY EventSends DEF Mem!MemoryInv
  <1>3. ASSUME NEW i \in DOMAIN x8, Mem!IsLast(i) PROVE i \in DOMAIN x8' /\ Mem!IsLast(i)'
    BY <1>2, <1>3 DEF Mem!IsLast
  <1>4. ASSUME \A i \in DOMAIN x8 : x8[i].type # "Status"
        PROVE  \A i \in DOMAIN x8' : x8'[i].type # "Status"
    BY <1>2, <1>4
  <1>5. Mem!StatusFollows'
    <2>1. SUFFICES ASSUME x4["root"] = Mem!NoOp, ~x13.foreign, ~x13.dropped
                   PROVE  Mem!StatusFollows'
      BY DEF Mem!StatusFollows
    <2>2. CASE x11 = Mem!Counts /\ \A i \in DOMAIN x8 : x8[i].type # "Status"
      BY <1>1, <1>4, <2>2 DEF Mem!StatusFollows
    <2>3. CASE \E i \in DOMAIN x8 : Mem!IsLast(i) /\ x8[i].counts = Mem!Counts
      BY <1>1, <1>2, <1>3, <2>3 DEF Mem!StatusFollows
    <2> QED BY <2>1, <2>2, <2>3 DEF Mem!MemoryInv, Mem!StatusFollows
  <1>6. Mem!PinnedFollows'
    BY <1>1 DEF Mem!MemoryInv, Mem!PinnedFollows
  <1> QED BY <1>5, <1>6

(* A list is of entries that have files.                                     *)
LEMMA RowsAreFiled ==
    ASSUME Mem!EntriesAtHome, NEW s \in Mem!Scopes
    PROVE  Mem!RowsFiled(Mem!Rows(s))
  <1>1. CASE ~Mem!Available(s)
    <2>1. Mem!Rows(s) = <<>> /\ <<>> \in Seq({})
      BY <1>1 DEF Mem!Rows
    <2> QED BY <2>1 DEF Mem!RowsFiled
  <1>2. CASE Mem!Available(s)
    <2> DEFINE R == {[key |-> [scope |-> s, name |-> l.name], description |-> l.description] :
                        l \in Mem!Listing(s)}
               Parsed == {f \in Mem!Existing(s) : x2[f].is = "entry"}
               Of(f) == [key |-> [scope |-> s, name |-> Mem!Line(f).name],
                         description |-> Mem!Line(f).description]
    <2>1. Mem!Rows(s) = Mem!SetToSeq(R)
      BY <1>2 DEF Mem!Rows
    <2>2. IsFiniteSet(Parsed)
      BY FS_Subset, MemFinite DEF Mem!EntriesAtHome
    <2>3. R = {Of(f) : f \in Parsed}
      BY DEF Mem!Listing
    <2>4. IsFiniteSet(R)
      <3> DEFINE onto == [f \in Parsed |-> Of(f)]
      <3>1. onto \in Surjection(Parsed, R)
        BY <2>3 DEF Surjection
      <3> QED BY <2>2, <3>1, FS_Surjection DEF ExistsSurjection
    <2>5. Cardinality(R) \in Nat /\ Mem!Rows(s) \in [1..Cardinality(R) -> R]
      <3>1. Cardinality(R) \in Nat /\ ExistsBijection(1..Cardinality(R), R)
        BY <2>4, FS_CardinalityType
      <3>2. \E g \in [1..Cardinality(R) -> R] : IsInjective(g)
        BY <3>1 DEF ExistsBijection, Bijection, Injection
      <3> HIDE DEF R
      <3> QED BY <2>1, <3>1, <3>2, MemSize DEF Mem!SetToSeq, Mem!IsInjective, IsInjective
    <2>6. Mem!Rows(s) \in Seq(R)
      <3>1. PICK n \in Nat : Mem!Rows(s) \in [1..n -> R]
        BY <2>5
      <3>2. [i \in 1..n |-> Mem!Rows(s)[i]] \in Seq(R)
        <4> HIDE DEF R
        <4>1. \A i \in 1..n : Mem!Rows(s)[i] \in R
          BY <3>1
        <4> QED BY <4>1, IsASeq
      <3> QED BY <3>1, <3>2
    <2>7. ASSUME NEW r \in R PROVE Mem!Filed(r.key)
      <3>1. PICK f \in Parsed : r = Of(f)
        BY <2>3
      <3>2. f \in Mem!Files /\ f.scope = s /\ x2[f].is = "entry"
        BY DEF Mem!Existing
      <3>3. MemorySlug(x2[f].name) = f.stem
        BY <3>2 DEF Mem!EntriesAtHome, Mem!Absent, Mem!Torn
      <3>4. f = [scope |-> s, stem |-> f.stem]
        BY <3>2 DEF Mem!Files, Mem!FileOf
      <3>5. r.key = [scope |-> s, name |-> x2[f].name]
        BY <3>1 DEF Mem!Line
      <3> QED BY <3>2, <3>3, <3>4, <3>5 DEF Mem!Filed, Mem!FileOf
    <2> HIDE DEF R
    <2>8. \A i \in DOMAIN Mem!Rows(s) : Mem!Filed(Mem!Rows(s)[i].key)
      BY <2>5, <2>7
    <2> QED BY <2>6, <2>8 DEF Mem!RowsFiled
  <1> QED BY <1>1, <1>2

(* Two lists make one.                                                       *)
LEMMA RowsTogether ==
    ASSUME NEW a, NEW b, Mem!RowsFiled(a), Mem!RowsFiled(b)
    PROVE  Mem!RowsFiled(a \o b)
  <1>1. PICK S : a \in Seq(S)
    BY DEF Mem!RowsFiled
  <1>2. PICK T : b \in Seq(T)
    BY DEF Mem!RowsFiled
  <1>3. a \in Seq(S \cup T) /\ b \in Seq(S \cup T)
    BY <1>1, <1>2, SeqMonotonic
  <1>4. /\ a \o b \in Seq(S \cup T) /\ Len(a \o b) = Len(a) + Len(b)
        /\ \A i \in 1 .. Len(a) + Len(b) : (a \o b)[i] = IF i <= Len(a) THEN a[i] ELSE b[i - Len(a)]
    BY <1>3, ConcatProperties
  <1>5. /\ DOMAIN a = 1..Len(a) /\ DOMAIN b = 1..Len(b) /\ DOMAIN (a \o b) = 1..Len(a \o b)
        /\ Len(a) \in Nat /\ Len(b) \in Nat
    BY <1>3, <1>4, LenProperties
  <1>6. ASSUME NEW i \in DOMAIN (a \o b) PROVE Mem!Filed((a \o b)[i].key)
    <2>1. CASE i <= Len(a)
      <3>1. i \in DOMAIN a /\ (a \o b)[i] = a[i]
        BY <1>4, <1>5, <2>1
      <3> QED BY <3>1 DEF Mem!RowsFiled
    <2>2. CASE ~(i <= Len(a))
      <3>1. i - Len(a) \in DOMAIN b /\ (a \o b)[i] = b[i - Len(a)]
        BY <1>4, <1>5, <2>2
      <3> QED BY <3>1 DEF Mem!RowsFiled
    <2> QED BY <2>1, <2>2
  <1> QED BY <1>4, <1>6 DEF Mem!RowsFiled

------------------------------------------------------------------------------
(* The root's request ends, and its index is read.                           *)
LEMMA RefreshDone ==
    ASSUME Mem!MemoryInv, Mem!Refresh
    PROVE  Mem!MemoryInv'
  <1>1. Mem!Shapes /\ Mem!EntriesAtHome /\ Mem!Screen /\ Mem!SharedIsSpoiled /\ Mem!IndexLists
    BY DEF Mem!MemoryInv
  <1>2. /\ x4["root"].step = "refresh" /\ x4' = [x4 EXCEPT !["root"] = Mem!NoOp]
        /\ x5' = Mem!Load /\ x8' = Append(x8, Mem!Status)
        /\ x13' = [x13 EXCEPT !.foreign = FALSE]
        /\ UNCHANGED <<x1, x2, x3, x7, x9, x10, x11>>
    BY DEF Mem!Refresh, Mem!Emits, Mem!disk, Mem!Aside, Mem!screen
  <1>3. x4' = [w \in Mem!Writers |-> IF w = "root" THEN Mem!NoOp ELSE x4[w]]
    BY <1>1, <1>2 DEF Mem!Shapes
  <1>4. x13' = [asked |-> x13.asked, dirty |-> x13.dirty,
                foreign |-> FALSE, dropped |-> x13.dropped]
    BY <1>1, <1>2 DEF Mem!Shapes
  <1>5. \A w \in Mem!Writers : /\ Mem!Busy(w)' <=> Mem!Busy(w)
                               /\ Mem!Busy(w)' => x4'[w] = x4[w]
    BY <1>2, <1>3 DEF Mem!Busy, Mem!NoOp
  <1>6. \A s : Mem!Listing(s)' = Mem!Listing(s) /\ (Mem!Available(s)' <=> Mem!Available(s)) /\ Mem!Existing(s)' = Mem!Existing(s)
    BY <1>2 DEF Mem!Listing, Mem!Existing, Mem!Line, Mem!Available
  <1>7. Mem!Shapes'
    <2>1. ASSUME NEW w \in Mem!Writers PROVE Mem!Doing(w)'
      BY <1>1, <1>3 DEF Mem!Doing, Mem!Shapes
    <2> QED BY <1>1, <1>2, <1>3, <1>4, <2>1 DEF Mem!Shapes
  <1>8. Mem!EntriesAtHome'
    BY <1>1, <1>2, <1>6 DEF Mem!EntriesAtHome
  <1>9. Mem!SharedIsSpoiled'
    BY <1>1, <1>4, <1>5 DEF Mem!SharedIsSpoiled, Mem!Writers
  <1>10. Mem!IndexLists'
    <2>1. ASSUME NEW w \in Mem!Writers PROVE
             /\ x4'[w].step \in {"scan", "index"} <=> x4[w].step \in {"scan", "index"}
             /\ x4'[w].step \in {"scan", "index"} => x4'[w] = x4[w]
      BY <1>2, <1>3 DEF Mem!NoOp
    <2>2. \A w \in Mem!Writers : x4'[w].step = "index" /\ x4'[w].clean =>
              \A s : s = x4'[w].key.scope => Mem!Listing(s)' \subseteq x4'[w].lines
      BY <1>1, <1>6, <2>1 DEF Mem!IndexLists
    <2>3. \A s \in Mem!Scopes \ x13'.dirty :
            Mem!Available(s)' /\ (\A w \in Mem!Writers : x4'[w].step \in {"scan", "index"} => x4'[w].key.scope # s)
              => Mem!Listing(s)' \subseteq x3'[s]
      BY <1>1, <1>2, <1>4, <1>6, <2>1 DEF Mem!IndexLists
    <2> QED BY <2>2, <2>3 DEF Mem!IndexLists
  <1>11. Mem!EventSent(Mem!Status)
    BY DEF Mem!EventSent, Mem!Status
  <1>12. Mem!Screen'
    <2>1. (\A i \in DOMAIN x8' : Mem!EventSent(x8'[i])) /\ \E S : x8' \in Seq(S)
      BY <1>1, <1>2, <1>11, EventSends
    <2> QED BY <1>1, <1>2, <2>1 DEF Mem!Screen
  <1>13. Mem!DeletesWhatWasAsked'
    BY <1>2, <1>4 DEF Mem!MemoryInv, Mem!DeletesWhatWasAsked, Mem!Keyed, Mem!Row
  <1>14. Mem!PinnedFollows' /\ Mem!StatusFollows'
    BY <1>2, StatusSent
  <1> QED BY <1>7, <1>8, <1>9, <1>10, <1>12, <1>13, <1>14 DEF Mem!MemoryInv

(* A new or resumed session reads the index, and sends a status if it can.   *)
LEMMA Switched ==
    ASSUME Mem!MemoryInv, Mem!SwitchSession
    PROVE  Mem!MemoryInv'
  <1>1. /\ x4["root"] = Mem!NoOp /\ x5' = Mem!Load
        /\ UNCHANGED <<x1, x2, x3, x4, x7, x9, x10, x11>>
    BY DEF Mem!SwitchSession, Mem!disk, Mem!screen
  <1>2. Mem!Shapes /\ Mem!Screen
    BY DEF Mem!MemoryInv
  <1>3. /\ x13' = [asked |-> x13'.asked, dirty |-> x13'.dirty,
                   foreign |-> x13'.foreign, dropped |-> x13'.dropped]
        /\ x13'.asked = x13.asked /\ x13'.dirty = x13.dirty
        /\ x13'.foreign = FALSE /\ x13'.dropped \in BOOLEAN
    BY <1>2 DEF Mem!SwitchSession, Mem!Shapes
  <1>4. Mem!Shapes' /\ Mem!EntriesAtHome' /\ Mem!SharedIsSpoiled' /\ Mem!IndexLists'
    BY <1>1, <1>3, CoreSame
  <1>5. Mem!DeletesWhatWasAsked'
    BY <1>1, <1>3 DEF Mem!MemoryInv, Mem!DeletesWhatWasAsked, Mem!Keyed, Mem!Row
  <1>6. CASE x8' = Append(x8, Mem!Status)
    <2>1. Mem!EventSent(Mem!Status)
      BY DEF Mem!EventSent, Mem!Status
    <2>2. (\A i \in DOMAIN x8' : Mem!EventSent(x8'[i])) /\ \E S : x8' \in Seq(S)
      BY <1>2, <1>6, <2>1, EventSends
    <2>3. Mem!Screen'
      BY <1>1, <1>2, <2>2 DEF Mem!Screen
    <2>4. Mem!PinnedFollows' /\ Mem!StatusFollows'
      BY <1>1, <1>6, StatusSent
    <2> QED BY <1>4, <1>5, <2>3, <2>4 DEF Mem!MemoryInv
  <1>7. CASE x13' = [x13 EXCEPT !.foreign = FALSE, !.dropped = TRUE] /\ x8' = x8
    <2>1. x13'.dropped
      BY <1>2, <1>7 DEF Mem!Shapes
    <2>2. Mem!StatusFollows'
      BY <2>1 DEF Mem!StatusFollows
    <2>3. Mem!Load' = Mem!Load
      BY <1>1 DEF Mem!Load, Mem!Available
    <2>4. Mem!PinnedFollows'
      BY <1>1, <2>3 DEF Mem!PinnedFollows
    <2>5. Mem!Screen'
      BY <1>1, <1>3, <1>7, ScreenSame
    <2> QED BY <1>4, <1>5, <2>2, <2>4, <2>5 DEF Mem!MemoryInv
  <1> QED BY <1>6, <1>7 DEF Mem!SwitchSession, Mem!Emits

(* An empty list is of entries that have files.                              *)
LEMMA NoRows == Mem!RowsFiled(<<>>)
  <1>1. <<>> \in Seq({}) /\ DOMAIN <<>> = {}
    OBVIOUS
  <1> QED BY <1>1 DEF Mem!RowsFiled

(* An inspector that is closed, with nothing under way.                      *)
LEMMA NothingUnderWay ==
    ASSUME x9' = Mem!Closed, x10' = Mem!NoFetch, x7' = <<>>, x8' = <<>>
    PROVE  Mem!Screen' /\ Mem!DeletesWhatWasAsked'
  <1>1. /\ x9' = [open |-> FALSE, rows |-> <<>>, selected |-> 1, confirm |-> FALSE]
        /\ x9'.rows = <<>> /\ x9'.confirm = FALSE /\ x9'.selected = 1
    BY DEF Mem!Closed
  <1>2. <<>> \in Seq({}) /\ DOMAIN <<>> = {}
    OBVIOUS
  <1>3. /\ \A i \in DOMAIN x7' : Mem!CommandSent(x7'[i])
        /\ \A i \in DOMAIN x8' : Mem!EventSent(x8'[i])
        /\ \E S : x7' \in Seq(S)
        /\ \E S : x8' \in Seq(S)
    BY <1>2
  <1>4. \E rows, open, confirm, selected :
          x9' = [open |-> open, rows |-> rows, selected |-> selected, confirm |-> confirm]
    BY <1>1
  <1>5. Mem!RowsFiled(x9'.rows)
    BY <1>1, NoRows
  <1>6. Mem!Screen'
    <2>1. x9'.confirm \in BOOLEAN /\ x9'.selected \in Nat \ {0}
      BY <1>1
    <2>2. x9'.rows # <<>> => x9'.selected \in DOMAIN x9'.rows
      BY <1>1
    <2> QED BY <1>3, <1>4, <1>5, <2>1, <2>2 DEF Mem!Screen
  <1> QED BY <1>1, <1>6 DEF Mem!DeletesWhatWasAsked

(* The process ends and starts again.                                        *)
LEMMA Crashed ==
    ASSUME Mem!MemoryInv, Mem!Crash
    PROVE  Mem!MemoryInv'
  <1>1. Mem!Shapes /\ Mem!EntriesAtHome /\ Mem!SharedIsSpoiled /\ Mem!IndexLists
    BY DEF Mem!MemoryInv
  <1>2. PICK torn \in SUBSET {Mem!FileOf(x4[w].key) : w \in {w \in Mem!Writers : x4[w].step = "file"}},
             empty \in SUBSET {x4[w].key.scope : w \in {w \in Mem!Writers : x4[w].step = "index"}} :
           /\ x2' = [f \in Mem!Files |-> IF f \in torn THEN Mem!Torn ELSE x2[f]]
           /\ x3' = [s \in Mem!Scopes |-> IF s \in empty THEN {} ELSE x3[s]]
    BY DEF Mem!Crash
  <1>3. /\ x1' = x1 /\ x4' = [w \in Mem!Writers |-> Mem!NoOp]
        /\ x9' = Mem!Closed /\ x10' = Mem!NoFetch /\ x7' = <<>> /\ x8' = <<>>
        /\ x5' = [s \in Mem!Scopes |-> IF Mem!Available(s) THEN x3'[s] ELSE {}]
        /\ x11' = [s \in Mem!Scopes |->
               IF Mem!Available(s) THEN Cardinality({f \in Mem!Files : f.scope = s /\ x2'[f].is # "absent"})
               ELSE 0]
        /\ x13' = [asked |-> <<>>, foreign |-> FALSE, dropped |-> FALSE,
                   dirty |-> x13.dirty
                         \union {x4[w].key.scope : w \in {w \in Mem!Writers : Mem!Busy(w)}}]
    BY MemSize DEF Mem!Crash
  <1>4. \A s : Mem!Available(s)' <=> Mem!Available(s)
    BY <1>3 DEF Mem!Available
  <1>5. Mem!Shapes'
    BY <1>2, <1>3 DEF Mem!Shapes, Mem!Doing
  <1>6. Mem!EntriesAtHome'
    <2>1. ASSUME NEW s \in Mem!Scopes PROVE IsFiniteSet(Mem!Existing(s)')
      <3>1. Mem!Existing(s)' \subseteq (Mem!Existing(s) \cup {Mem!FileOf(x4["root"].key)})
                                       \cup {Mem!FileOf(x4["subagent"].key)}
        BY <1>2 DEF Mem!Existing, Mem!Writers
      <3>a. IsFiniteSet(Mem!Existing(s) \cup {Mem!FileOf(x4["root"].key)})
        BY <1>1, FS_AddElement, MemFinite DEF Mem!EntriesAtHome
      <3>2. IsFiniteSet((Mem!Existing(s) \cup {Mem!FileOf(x4["root"].key)}) \cup {Mem!FileOf(x4["subagent"].key)})
        BY <3>a, FS_AddElement
      <3> QED BY <3>1, <3>2, FS_Subset
    <2>2. \A f \in Mem!Files : x2'[f] = Mem!Torn \/ x2'[f] = x2[f]
      BY <1>2
    <2> QED BY <1>1, <1>2, <2>1, <2>2, MemFinite DEF Mem!EntriesAtHome
  <1>7. \A w \in Mem!Writers : x4'[w].step = "none"
    BY <1>3 DEF Mem!NoOp
  <1>8. Mem!SharedIsSpoiled'
    BY <1>7 DEF Mem!SharedIsSpoiled, Mem!Busy, Mem!Writers
  <1>9. Mem!IndexLists'
    <2>1. ASSUME NEW s \in Mem!Scopes \ x13'.dirty, Mem!Available(s)' PROVE Mem!Listing(s)' \subseteq x3'[s]
      <3>1. s \notin x13.dirty /\ \A w \in Mem!Writers : Mem!Busy(w) => x4[w].key.scope # s
        BY <1>3, <2>1
      <3>2. Mem!Listing(s) \subseteq x3[s]
        BY <1>1, <1>4, <2>1, <3>1 DEF Mem!IndexLists, Mem!Busy
      <3>3. s \notin empty
        BY <1>2, <3>1 DEF Mem!Busy
      <3>4. ASSUME NEW l \in Mem!Listing(s)' PROVE l \in Mem!Listing(s)
        <4>1. PICK g \in Mem!Files : g.scope = s /\ x2'[g].is = "entry" /\ l = Mem!Line(g)'
          BY DEF Mem!Listing, Mem!Existing
        <4>2. x2'[g] = x2[g]
          BY <1>2, <4>1 DEF Mem!Torn
        <4> QED BY <4>1, <4>2 DEF Mem!Listing, Mem!Existing, Mem!Line
      <3> QED BY <1>2, <3>2, <3>3, <3>4
    <2> QED BY <1>7, <2>1 DEF Mem!IndexLists
  <1>10. Mem!Screen' /\ Mem!DeletesWhatWasAsked'
    BY <1>3, NothingUnderWay
  <1>11. Mem!PinnedFollows'
    <2>1. x5' = Mem!Load'
      BY <1>3, <1>4 DEF Mem!Load
    <2> QED BY <2>1 DEF Mem!PinnedFollows
  <1>12. Mem!StatusFollows'
    <2>1. x11' = Mem!Counts'
      BY <1>3, <1>4, MemSize DEF Mem!Counts, Mem!Count, Mem!Existing
    <2>2. \A i \in DOMAIN x8' : x8'[i].type # "Status"
      BY <1>3
    <2> QED BY <2>1, <2>2 DEF Mem!StatusFollows
  <1> QED BY <1>5, <1>6, <1>8, <1>9, <1>10, <1>11, <1>12 DEF Mem!MemoryInv

(* A step of a writer's request.                                             *)
LEMMA Wrote ==
    ASSUME Mem!MemoryInv, Mem!Writes
    PROVE  Mem!MemoryInv'
  <1>1. CASE Mem!Refresh
    BY <1>1, RefreshDone
  <1>2. ASSUME NEW w \in Mem!Writers, Mem!WriteFile(w) PROVE Mem!MemoryInv'
    <2>1. UNCHANGED <<x9, x10, x7, x8>> /\ x13'.asked = x13.asked
      BY <1>2 DEF Mem!WriteFile, Mem!Aside, Mem!screen, Mem!MemoryInv, Mem!Shapes
    <2> QED BY <1>2, <2>1, FileWritten, ScreenSame, FollowLater DEF Mem!MemoryInv
  <1>3. ASSUME NEW w \in Mem!Writers, Mem!Scan(w) PROVE Mem!MemoryInv'
    <2>1. /\ UNCHANGED <<x9, x10, x7, x8, x1, x2, x3, x5, x11>>
          /\ x13' = x13
      BY <1>3 DEF Mem!Scan, Mem!Aside, Mem!screen, Mem!disk
    <2>2. x4'["root"] = Mem!NoOp => x4["root"] = Mem!NoOp
      BY <1>3, Scanned
    <2> QED BY <1>3, <2>1, <2>2, Scanned, ScreenSame, FollowSame DEF Mem!MemoryInv
  <1>4. ASSUME NEW w \in Mem!Writers, Mem!WriteIndex(w) PROVE Mem!MemoryInv'
    <2>1. UNCHANGED <<x9, x10, x7, x8>> /\ x13'.asked = x13.asked
      BY <1>4 DEF Mem!WriteIndex, Mem!Aside, Mem!screen, Mem!MemoryInv, Mem!Shapes
    <2> QED BY <1>4, <2>1, IndexWritten, ScreenSame, FollowLater DEF Mem!MemoryInv
  <1> QED BY <1>1, <1>2, <1>3, <1>4 DEF Mem!Writes

(* A call of the tool.                                                       *)
LEMMA Called ==
    ASSUME Mem!MemoryInv, Mem!Calls
    PROVE  Mem!MemoryInv'
  <1>1. PICK w \in Mem!Writers : Mem!ToolCalls(w)
    BY DEF Mem!Calls
  <1>2. PICK kind, key, d : Mem!Begin(w, kind, key, d, Mem!FileOf(key))
    BY <1>1 DEF Mem!ToolCalls
  <1>3. UNCHANGED <<x1, x9, x10, x7, x8>>
    BY <1>1 DEF Mem!ToolCalls, Mem!screen
  <1>4. x13'.asked = x13.asked
    BY <1>2 DEF Mem!Begin, Mem!MemoryInv, Mem!Shapes
  <1>5. /\ Mem!Shapes' /\ Mem!EntriesAtHome' /\ Mem!SharedIsSpoiled' /\ Mem!IndexLists'
        /\ x4'["root"] # Mem!NoOp \/ x13'.foreign
    BY <1>2, <1>3, Begun
  <1> QED BY <1>3, <1>4, <1>5, ScreenSame, FollowLater DEF Mem!MemoryInv

(* Only the turn, or the screen, changes.                                    *)
LEMMA DirectoriesSame ==
    ASSUME Mem!MemoryInv, UNCHANGED <<x1, x2, x3, x4, x5, x8, x11>>,
           NEW asked, x13' = [x13 EXCEPT !.asked = asked] \/ x13' = x13
    PROVE  /\ Mem!Shapes' /\ Mem!EntriesAtHome' /\ Mem!SharedIsSpoiled' /\ Mem!IndexLists'
           /\ Mem!PinnedFollows' /\ Mem!StatusFollows'
  <1>1. /\ x13' = [asked |-> x13'.asked, dirty |-> x13.dirty,
                   foreign |-> x13.foreign, dropped |-> x13.dropped]
        /\ x13.foreign \in BOOLEAN /\ x13.dropped \in BOOLEAN
    <2>1. /\ x13 = [asked |-> x13.asked, dirty |-> x13.dirty,
                    foreign |-> x13.foreign, dropped |-> x13.dropped]
          /\ x13.foreign \in BOOLEAN /\ x13.dropped \in BOOLEAN
      BY DEF Mem!MemoryInv, Mem!Shapes
    <2>2. PICK a, d, f, p : x13 = [asked |-> a, dirty |-> d, foreign |-> f, dropped |-> p]
      BY <2>1
    <2> QED BY <2>1, <2>2
  <1>2. Mem!Shapes' /\ Mem!EntriesAtHome' /\ Mem!SharedIsSpoiled' /\ Mem!IndexLists'
    BY <1>1, CoreSame
  <1>3. Mem!PinnedFollows' /\ Mem!StatusFollows'
    BY <1>1, FollowSame
  <1> QED BY <1>2, <1>3

(* A command leaves the channel.                                             *)
LEMMA CommandTaken ==
    ASSUME Mem!Screen, x7 # <<>>, x7' = Tail(x7)
    PROVE  /\ Mem!CommandSent(Head(x7))
           /\ \A i \in DOMAIN x7' : Mem!CommandSent(x7'[i])
           /\ \E S : x7' \in Seq(S)
  <1>1. PICK S : x7 \in Seq(S)
    BY DEF Mem!Screen
  <1>2. Head(x7) = x7[1] /\ DOMAIN x7 = 1..Len(x7) /\ Len(x7) \in Nat \ {0}
    BY <1>1, LenProperties, EmptySeq
  <1>3. /\ Tail(x7) \in Seq(S) /\ Len(Tail(x7)) = Len(x7) - 1
        /\ \A i \in 1 .. Len(Tail(x7)) : Tail(x7)[i] = x7[i+1]
    BY <1>1, HeadTailProperties
  <1>4. DOMAIN x7' = 1..(Len(x7) - 1)
    BY <1>3, LenProperties
  <1>5. ASSUME NEW i \in DOMAIN x7' PROVE Mem!CommandSent(x7'[i])
    <2>1. i + 1 \in DOMAIN x7 /\ x7'[i] = x7[i + 1]
      BY <1>2, <1>3, <1>4
    <2> QED BY <2>1 DEF Mem!Screen
  <1>6. Mem!CommandSent(Head(x7))
    BY <1>2 DEF Mem!Screen
  <1> QED BY <1>3, <1>5, <1>6

(* A command is taken between two turns, or dropped during one.              *)
LEMMA Taken ==
    ASSUME Mem!MemoryInv, Mem!TakeCommand
    PROVE  Mem!MemoryInv'
  <1>1. /\ x7 # <<>> /\ x4["root"] = Mem!NoOp /\ x7' = Tail(x7)
        /\ UNCHANGED <<x1, x5, x9, x10, x11>>
    BY DEF Mem!TakeCommand, Mem!screen
  <1>2. PICK c : c = Head(x7)
    OBVIOUS
  <1>3. /\ Mem!CommandSent(c)
        /\ \A i \in DOMAIN x7' : Mem!CommandSent(x7'[i])
        /\ \E S : x7' \in Seq(S)
    BY <1>1, <1>2, CommandTaken DEF Mem!MemoryInv
  <1>4. ASSUME \A i \in DOMAIN x8' : Mem!EventSent(x8'[i]), \E S : x8' \in Seq(S)
        PROVE  Mem!Screen'
    BY <1>1, <1>3, <1>4 DEF Mem!MemoryInv, Mem!Screen
  <1>5. CASE UNCHANGED <<Mem!disk, x4, x8, x13>>
    <2>1. UNCHANGED <<x2, x3, x4, x8>> /\ x13' = x13
      BY <1>5 DEF Mem!disk
    <2>2. Mem!Screen'
      BY <1>4, <2>1 DEF Mem!MemoryInv, Mem!Screen
    <2>3. Mem!DeletesWhatWasAsked'
      BY <1>1, <2>1 DEF Mem!MemoryInv, Mem!DeletesWhatWasAsked, Mem!Keyed, Mem!Row
    <2> QED BY <1>1, <2>1, <2>2, <2>3, DirectoriesSame DEF Mem!MemoryInv
  <1>6. ASSUME NEW e, e.type # "Status", Mem!EventSent(e), Mem!Emits(e), UNCHANGED <<Mem!disk, x4, x13>>
        PROVE  Mem!MemoryInv'
    <2>1. UNCHANGED <<x2, x3, x4>> /\ x13' = x13 /\ x8' = Append(x8, e)
      BY <1>6 DEF Mem!disk, Mem!Emits
    <2>2. Mem!Shapes' /\ Mem!EntriesAtHome' /\ Mem!SharedIsSpoiled' /\ Mem!IndexLists'
      BY <1>1, <2>1, CoreSame DEF Mem!MemoryInv, Mem!Shapes
    <2>3. Mem!PinnedFollows' /\ Mem!StatusFollows'
      BY <1>1, <1>6, <2>1, OtherSent
    <2>4. Mem!Screen'
      <3>1. (\A i \in DOMAIN x8' : Mem!EventSent(x8'[i])) /\ \E S : x8' \in Seq(S)
        BY <1>6, <2>1, EventSends DEF Mem!MemoryInv
      <3> QED BY <1>4, <3>1
    <2>5. Mem!DeletesWhatWasAsked'
      BY <1>1, <2>1 DEF Mem!MemoryInv, Mem!DeletesWhatWasAsked, Mem!Keyed, Mem!Row
    <2> QED BY <2>2, <2>3, <2>4, <2>5 DEF Mem!MemoryInv
  <1>7. CASE /\ Mem!Emits([type |-> "Entries", rows |-> Mem!Rows("user") \o Mem!Rows("project")])
             /\ UNCHANGED <<Mem!disk, x4, x13>>
    <2>1. Mem!RowsFiled(Mem!Rows("user") \o Mem!Rows("project"))
      BY RowsAreFiled, RowsTogether DEF Mem!MemoryInv, Mem!Scopes
    <2>2. PICK e : e = [type |-> "Entries", rows |-> Mem!Rows("user") \o Mem!Rows("project")]
      OBVIOUS
    <2>3. e.type = "Entries" /\ Mem!EventSent(e)
      BY <2>1, <2>2 DEF Mem!EventSent
    <2> QED BY <1>6, <1>7, <2>2, <2>3
  <1>8. CASE c.type = "View" /\ Mem!Emits(Mem!BodyOf(c.key)) /\ UNCHANGED <<Mem!disk, x4, x13>>
    <2>1. Mem!FileOf(c.key) \in Mem!Files
      BY <1>3, <1>8 DEF Mem!CommandSent, Mem!Filed
    <2>2. x2[Mem!FileOf(c.key)].is = "entry" => x2[Mem!FileOf(c.key)].text = Mem!FileOf(c.key)
      BY <2>1 DEF Mem!MemoryInv, Mem!EntriesAtHome, Mem!Absent, Mem!Torn
    <2>3. Mem!BodyOf(c.key).type = "Body" /\ Mem!BodyOf(c.key).key = c.key /\ Mem!BodyOf(c.key).text = Mem!FileOf(c.key)
      BY <2>2 DEF Mem!BodyOf
    <2>4. Mem!EventSent(Mem!BodyOf(c.key))
      BY <2>3 DEF Mem!EventSent
    <2> QED BY <1>6, <1>8, <2>3, <2>4
  <1>9. CASE /\ c.type = "Mutate"
             /\ Mem!Begin("root", c.kind, c.key, c.description, c.text)
             /\ UNCHANGED x8
    <2>1. c.text = Mem!FileOf(c.key) /\ "root" \in Mem!Writers
      BY <1>3, <1>9 DEF Mem!CommandSent, Mem!Writers
    <2>2. /\ Mem!Shapes' /\ Mem!EntriesAtHome' /\ Mem!SharedIsSpoiled' /\ Mem!IndexLists'
          /\ x4'["root"] # Mem!NoOp \/ x13'.foreign
      BY <1>1, <1>9, <2>1, Begun
    <2>3. x13'.asked = x13.asked
      BY <1>9 DEF Mem!Begin, Mem!MemoryInv, Mem!Shapes
    <2>4. Mem!Screen'
      BY <1>4, <1>9 DEF Mem!MemoryInv, Mem!Screen
    <2>5. Mem!DeletesWhatWasAsked'
      BY <1>1, <2>3 DEF Mem!MemoryInv, Mem!DeletesWhatWasAsked, Mem!Keyed, Mem!Row
    <2> QED BY <2>2, <2>4, <2>5, FollowLater DEF Mem!MemoryInv
  <1> QED BY <1>2, <1>5, <1>7, <1>8, <1>9 DEF Mem!TakeCommand

------------------------------------------------------------------------------
(* Commands enter the channel.                                               *)
LEMMA CommandsSent ==
    ASSUME Mem!Screen, NEW cs, NEW T, cs \in Seq(T), \A i \in DOMAIN cs : Mem!CommandSent(cs[i]), Mem!Sends(cs)
    PROVE  /\ \A i \in DOMAIN x7' : Mem!CommandSent(x7'[i])
           /\ \E S : x7' \in Seq(S)
  <1>1. PICK S : x7 \in Seq(S)
    BY DEF Mem!Screen
  <1>2. x7 \in Seq(S \cup T) /\ cs \in Seq(S \cup T) /\ x7' = x7 \o cs
    BY <1>1, SeqMonotonic DEF Mem!Sends
  <1>3. /\ x7' \in Seq(S \cup T) /\ Len(x7') = Len(x7) + Len(cs)
        /\ \A i \in 1 .. Len(x7) + Len(cs) :
              x7'[i] = IF i <= Len(x7) THEN x7[i] ELSE cs[i - Len(x7)]
    BY <1>2, ConcatProperties
  <1>4. /\ DOMAIN x7 = 1..Len(x7) /\ DOMAIN cs = 1..Len(cs)
        /\ DOMAIN x7' = 1..Len(x7')
        /\ Len(x7) \in Nat /\ Len(cs) \in Nat
    BY <1>2, <1>3, LenProperties
  <1>5. ASSUME NEW i \in DOMAIN x7' PROVE Mem!CommandSent(x7'[i])
    <2>1. CASE i <= Len(x7)
      <3>1. i \in DOMAIN x7 /\ x7'[i] = x7[i]
        BY <1>3, <1>4, <2>1
      <3> QED BY <3>1 DEF Mem!Screen
    <2>2. CASE ~(i <= Len(x7))
      <3>1. i - Len(x7) \in DOMAIN cs /\ x7'[i] = cs[i - Len(x7)]
        BY <1>3, <1>4, <2>2
      <3> QED BY <3>1
    <2> QED BY <2>1, <2>2
  <1> QED BY <1>3, <1>5

(* One command, or two.                                                      *)
LEMMA OneSent ==
    ASSUME Mem!Screen, NEW c, Mem!CommandSent(c), Mem!Sends(<<c>>)
    PROVE  /\ \A i \in DOMAIN x7' : Mem!CommandSent(x7'[i])
           /\ \E S : x7' \in Seq(S)
  <1>1. <<c>> \in Seq({c}) /\ \A i \in DOMAIN <<c>> : Mem!CommandSent(<<c>>[i])
    OBVIOUS
  <1> QED BY <1>1, CommandsSent

(* Two commands sent in one step.                                            *)
LEMMA TwoSent ==
    ASSUME Mem!Screen, NEW c, Mem!CommandSent(c), NEW d, Mem!CommandSent(d), Mem!Sends(<<c, d>>)
    PROVE  /\ \A i \in DOMAIN x7' : Mem!CommandSent(x7'[i])
           /\ \E S : x7' \in Seq(S)
  <1>1. <<c, d>> \in Seq({c, d}) /\ \A i \in DOMAIN <<c, d>> : Mem!CommandSent(<<c, d>>[i])
    OBVIOUS
  <1> QED BY <1>1, CommandsSent

(* What the inspector sends.                                                 *)
LEMMA SentShapes ==
    /\ Mem!CommandSent(Mem!List)
    /\ \A kind, key, d : Mem!CommandSent(Mem!Mutate(kind, key, d, Mem!FileOf(key)))
    /\ \A key : Mem!Filed(key) => Mem!CommandSent([type |-> "View", key |-> key])
  <1>1. Mem!List.type = "List"
    BY DEF Mem!List
  <1>2. \A kind, key, d : /\ Mem!Mutate(kind, key, d, Mem!FileOf(key)).type = "Mutate"
                          /\ Mem!Mutate(kind, key, d, Mem!FileOf(key)).text = Mem!FileOf(key)
                          /\ Mem!Mutate(kind, key, d, Mem!FileOf(key)).key = key
    BY DEF Mem!Mutate
  <1> QED BY <1>1, <1>2 DEF Mem!CommandSent

(* What is known of the overlay.                                             *)
LEMMA Overlay ==
    ASSUME Mem!MemoryInv
    PROVE  /\ x9 = [open |-> x9.open, rows |-> x9.rows,
                    selected |-> x9.selected, confirm |-> x9.confirm]
           /\ x9.confirm \in BOOLEAN /\ Mem!RowsFiled(x9.rows)
           /\ x9.selected \in Nat \ {0}
           /\ x9.rows # <<>> => x9.selected \in DOMAIN x9.rows
           /\ x10 # Mem!NoFetch => x10 = [intent |-> x10.intent, row |-> x10.row]
           /\ \A i \in DOMAIN x7 : Mem!CommandSent(x7[i])
           /\ \A i \in DOMAIN x8 : Mem!EventSent(x8[i])
           /\ \E S : x7 \in Seq(S)
           /\ \E S : x8 \in Seq(S)
           /\ Mem!Screen
  <1>1. Mem!Screen
    BY DEF Mem!MemoryInv
  <1>2. PICK rows, open, confirm, selected :
          x9 = [open |-> open, rows |-> rows, selected |-> selected, confirm |-> confirm]
    BY <1>1 DEF Mem!Screen
  <1>3. x9 = [open |-> x9.open, rows |-> x9.rows,
              selected |-> x9.selected, confirm |-> x9.confirm]
    BY <1>2
  <1> QED BY <1>1, <1>3 DEF Mem!Screen

(* The overlay is taken apart.                                               *)
LEMMA ScreenBuilt ==
    ASSUME NEW open, NEW rows, NEW selected, NEW confirm \in BOOLEAN,
           x9' = [open |-> open, rows |-> rows, selected |-> selected, confirm |-> confirm],
           Mem!RowsFiled(rows), selected \in Nat \ {0}, rows # <<>> => selected \in DOMAIN rows,
           x10' # Mem!NoFetch => x10' = [intent |-> x10'.intent, row |-> x10'.row],
           \A i \in DOMAIN x7' : Mem!CommandSent(x7'[i]),
           \A i \in DOMAIN x8' : Mem!EventSent(x8'[i]),
           \E S : x7' \in Seq(S),
           \E S : x8' \in Seq(S)
    PROVE  Mem!Screen'
  <1>1. /\ x9'.open = open /\ x9'.rows = rows
        /\ x9'.selected = selected /\ x9'.confirm = confirm
    OBVIOUS
  <1>2. \E r, o, c, s : x9' = [open |-> o, rows |-> r, selected |-> s, confirm |-> c]
    OBVIOUS
  <1> QED BY <1>1, <1>2 DEF Mem!Screen

(* The frontend's own actions.                                               *)
LEMMA Inspected ==
    ASSUME Mem!MemoryInv,
           Mem!OpenInspector \/ Mem!Dismiss \/ Mem!Select \/ Mem!BeginDelete \/ Mem!FinishDelete \/ Mem!BeginFetch
    PROVE  Mem!MemoryInv'
  <1>1. PICK open, rows, selected, confirm :
           /\ x9 = [open |-> open, rows |-> rows, selected |-> selected, confirm |-> confirm]
           /\ x9.open = open /\ x9.rows = rows
           /\ x9.selected = selected /\ x9.confirm = confirm
    BY Overlay
  <1>2. /\ confirm \in BOOLEAN /\ Mem!RowsFiled(rows) /\ selected \in Nat \ {0}
        /\ rows # <<>> => selected \in DOMAIN rows
    BY <1>1, Overlay
  <1>3. /\ x10 # Mem!NoFetch => x10 = [intent |-> x10.intent, row |-> x10.row]
        /\ \A i \in DOMAIN x7 : Mem!CommandSent(x7[i])
        /\ \A i \in DOMAIN x8 : Mem!EventSent(x8[i])
        /\ \E S : x7 \in Seq(S)
        /\ \E S : x8 \in Seq(S)
        /\ Mem!Screen
    BY Overlay
  <1>4. /\ UNCHANGED <<x1, x2, x3, x4, x5, x8, x11>>
        /\ \E asked : x13' = [x13 EXCEPT !.asked = asked] \/ x13' = x13
    BY DEF Mem!OpenInspector, Mem!Dismiss, Mem!Select, Mem!BeginDelete, Mem!FinishDelete, Mem!BeginFetch, Mem!InScreen, Mem!disk
  <1>5. /\ Mem!Shapes' /\ Mem!EntriesAtHome' /\ Mem!SharedIsSpoiled' /\ Mem!IndexLists'
        /\ Mem!PinnedFollows' /\ Mem!StatusFollows'
    BY <1>4, DirectoriesSame
  <1>6. SUFFICES Mem!Screen' /\ Mem!DeletesWhatWasAsked'
    BY <1>5 DEF Mem!MemoryInv
  <1>7. /\ \A i \in DOMAIN x8' : Mem!EventSent(x8'[i])
        /\ \E S : x8' \in Seq(S)
    BY <1>3, <1>4
  <1>8. CASE Mem!OpenInspector
    <2>1. /\ UNCHANGED <<x9, x10>> /\ x13' = x13 /\ Mem!Sends(<<Mem!List>>)
      BY <1>8 DEF Mem!OpenInspector
    <2>2. (\A i \in DOMAIN x7' : Mem!CommandSent(x7'[i])) /\ \E S : x7' \in Seq(S)
      BY <1>3, <2>1, OneSent, SentShapes
    <2>3. Mem!Screen'
      BY <1>3, <1>7, <2>1, <2>2 DEF Mem!Screen
    <2>4. Mem!DeletesWhatWasAsked'
      BY <2>1 DEF Mem!MemoryInv, Mem!DeletesWhatWasAsked, Mem!Keyed, Mem!Row
    <2> QED BY <2>3, <2>4
  <1>9. CASE Mem!Dismiss
    <2>1. x9' = Mem!Closed /\ UNCHANGED <<x10, x7>>
      BY <1>9 DEF Mem!Dismiss
    <2>2. Mem!RowsFiled(<<>>)
      BY NoRows
    <2>a. /\ x10' # Mem!NoFetch => x10' = [intent |-> x10'.intent, row |-> x10'.row]
          /\ \A i \in DOMAIN x7' : Mem!CommandSent(x7'[i])
          /\ \E S : x7' \in Seq(S)
      BY <1>3, <2>1
    <2>b. /\ x9' = [open |-> FALSE, rows |-> <<>>, selected |-> 1, confirm |-> FALSE]
          /\ FALSE \in BOOLEAN /\ 1 \in Nat \ {0}
      BY <2>1 DEF Mem!Closed
    <2>3. Mem!Screen'
      BY <1>7, <2>2, <2>a, <2>b, ScreenBuilt
    <2>4. ~x9'.confirm
      BY <2>1 DEF Mem!Closed
    <2> QED BY <2>3, <2>4 DEF Mem!DeletesWhatWasAsked
  <1>10. CASE Mem!Select
    <2>1. /\ UNCHANGED <<x10, x7>> /\ ~confirm
          /\ \E i \in 1..Len(rows) : x9' = [x9 EXCEPT !.selected = i]
      BY <1>1, <1>10 DEF Mem!Select
    <2>2. PICK i \in 1..Len(rows) : x9' = [x9 EXCEPT !.selected = i]
      BY <2>1
    <2>3. x9' = [open |-> open, rows |-> rows, selected |-> i, confirm |-> confirm]
      BY <1>1, <2>2
    <2>4. Len(rows) \in Nat /\ DOMAIN rows = 1..Len(rows)
      BY <1>2, LenProperties DEF Mem!RowsFiled
    <2>a. /\ x10' # Mem!NoFetch => x10' = [intent |-> x10'.intent, row |-> x10'.row]
          /\ \A j \in DOMAIN x7' : Mem!CommandSent(x7'[j])
          /\ \E S : x7' \in Seq(S)
      BY <1>3, <2>1
    <2>b. i \in Nat \ {0} /\ i \in DOMAIN rows
      BY <2>2, <2>4
    <2>5. Mem!Screen'
      BY <1>2, <1>7, <2>3, <2>a, <2>b, ScreenBuilt
    <2>6. ~x9'.confirm
      BY <2>1, <2>3
    <2> QED BY <2>5, <2>6 DEF Mem!DeletesWhatWasAsked
  <1>11. CASE Mem!BeginDelete
    <2>1. /\ UNCHANGED <<x10, x7>> /\ open /\ rows # <<>>
          /\ x9' = [x9 EXCEPT !.confirm = TRUE]
          /\ x13' = [x13 EXCEPT !.asked = <<rows[selected]>>]
      BY <1>1, <1>11 DEF Mem!BeginDelete, Mem!Keyed, Mem!Row
    <2>2. x9' = [open |-> open, rows |-> rows, selected |-> selected, confirm |-> TRUE]
      BY <1>1, <2>1
    <2>3. Mem!Screen'
      BY <1>2, <1>3, <1>7, <2>1, <2>2, ScreenBuilt
    <2>4. x13'.asked = <<rows[selected]>>
      BY <2>1 DEF Mem!MemoryInv, Mem!Shapes
    <2>5. x9'.open /\ x9'.rows = rows /\ x9'.selected = selected
      BY <2>1, <2>2
    <2> QED BY <2>1, <2>3, <2>4, <2>5 DEF Mem!DeletesWhatWasAsked, Mem!Keyed, Mem!Row
  <1>12. CASE Mem!FinishDelete
    <2>1. /\ UNCHANGED x10
          /\ x9' = [x9 EXCEPT !.confirm = FALSE]
          /\ \/ Mem!Keyed /\ Mem!Sends(<<Mem!Mutate("remove", Mem!Row.key, Mem!Row.description, Mem!FileOf(Mem!Row.key)), Mem!List>>)
             \/ UNCHANGED x7
      BY <1>12 DEF Mem!FinishDelete
    <2>2. x9' = [open |-> open, rows |-> rows, selected |-> selected, confirm |-> FALSE]
      BY <1>1, <2>1
    <2>3. (\A i \in DOMAIN x7' : Mem!CommandSent(x7'[i])) /\ \E S : x7' \in Seq(S)
      <3>1. CASE Mem!Sends(<<Mem!Mutate("remove", Mem!Row.key, Mem!Row.description, Mem!FileOf(Mem!Row.key)), Mem!List>>)
        <4>1. Mem!CommandSent(Mem!List) /\ Mem!CommandSent(Mem!Mutate("remove", Mem!Row.key, Mem!Row.description, Mem!FileOf(Mem!Row.key)))
          BY SentShapes
        <4> QED BY <1>3, <3>1, <4>1, TwoSent
      <3> QED BY <1>3, <2>1, <3>1
    <2>4. Mem!Screen'
      BY <1>2, <1>3, <1>7, <2>1, <2>2, <2>3, ScreenBuilt
    <2>5. ~x9'.confirm
      BY <2>2
    <2> QED BY <2>4, <2>5 DEF Mem!DeletesWhatWasAsked
  <1>13. CASE Mem!BeginFetch
    <2>1. /\ UNCHANGED x9 /\ rows # <<>> /\ x13' = x13
          /\ Mem!Sends(<<[type |-> "View", key |-> Mem!Row.key]>>)
          /\ \E intent : x10' = [intent |-> intent, row |-> Mem!Row]
      BY <1>1, <1>13 DEF Mem!BeginFetch, Mem!Keyed
    <2>2. Mem!Filed(Mem!Row.key)
      BY <1>1, <1>2, <2>1 DEF Mem!Row, Mem!RowsFiled
    <2>3. (\A i \in DOMAIN x7' : Mem!CommandSent(x7'[i])) /\ \E S : x7' \in Seq(S)
      BY <1>3, <2>1, <2>2, OneSent, SentShapes
    <2>4. x10' = [intent |-> x10'.intent, row |-> x10'.row]
      BY <2>1
    <2>5. Mem!Screen'
      BY <1>1, <1>2, <1>3, <1>7, <2>1, <2>3, <2>4, ScreenBuilt
    <2>6. Mem!DeletesWhatWasAsked'
      BY <2>1 DEF Mem!MemoryInv, Mem!DeletesWhatWasAsked, Mem!Keyed, Mem!Row
    <2> QED BY <2>5, <2>6
  <1> QED BY <1>8, <1>9, <1>10, <1>11, <1>12, <1>13

(* A message leaves the channel.                                             *)
LEMMA EventTaken ==
    ASSUME Mem!Screen, x8 # <<>>, x8' = Tail(x8)
    PROVE  /\ Mem!EventSent(Head(x8)) /\ Head(x8) = x8[1] /\ 1 \in DOMAIN x8
           /\ \A i \in DOMAIN x8' : Mem!EventSent(x8'[i])
           /\ \E S : x8' \in Seq(S)
           /\ Len(x8) \in Nat \ {0} /\ DOMAIN x8 = 1..Len(x8)
           /\ Len(x8') = Len(x8) - 1 /\ DOMAIN x8' = 1..(Len(x8) - 1)
           /\ \A i \in 1..(Len(x8) - 1) : x8'[i] = x8[i + 1]
  <1>1. PICK S : x8 \in Seq(S)
    BY DEF Mem!Screen
  <1>2. Head(x8) = x8[1] /\ DOMAIN x8 = 1..Len(x8) /\ Len(x8) \in Nat \ {0}
    BY <1>1, LenProperties, EmptySeq
  <1>3. /\ Tail(x8) \in Seq(S) /\ Len(Tail(x8)) = Len(x8) - 1
        /\ \A i \in 1 .. Len(Tail(x8)) : Tail(x8)[i] = x8[i+1]
    BY <1>1, HeadTailProperties
  <1>4. DOMAIN x8' = 1..(Len(x8) - 1)
    BY <1>3, LenProperties
  <1>5. ASSUME NEW i \in DOMAIN x8' PROVE Mem!EventSent(x8'[i])
    <2>1. i + 1 \in DOMAIN x8 /\ x8'[i] = x8[i + 1]
      BY <1>2, <1>3, <1>4
    <2> QED BY <2>1 DEF Mem!Screen
  <1>6. Mem!EventSent(Head(x8)) /\ 1 \in DOMAIN x8
    BY <1>2 DEF Mem!Screen
  <1> QED BY <1>2, <1>3, <1>4, <1>5, <1>6

(* Showing a message, the last status stays the last or is on the screen.    *)
LEMMA StatusShown ==
    ASSUME Mem!MemoryInv, x8 # <<>>, x8' = Tail(x8),
           UNCHANGED <<x1, x2, x3, x4>>,
           x13'.foreign = x13.foreign, x13'.dropped = x13.dropped,
           IF Head(x8).type = "Status" THEN x11' = Head(x8).counts ELSE x11' = x11
    PROVE  Mem!StatusFollows'
  <1>1. Mem!Counts' = Mem!Counts
    BY DEF Mem!Counts, Mem!Count, Mem!Existing, Mem!Available
  <1>2. /\ Head(x8) = x8[1] /\ 1 \in DOMAIN x8
        /\ Len(x8) \in Nat \ {0} /\ DOMAIN x8 = 1..Len(x8)
        /\ Len(x8') = Len(x8) - 1 /\ DOMAIN x8' = 1..(Len(x8) - 1)
        /\ \A i \in 1..(Len(x8) - 1) : x8'[i] = x8[i + 1]
    BY EventTaken DEF Mem!MemoryInv
  <1>3. SUFFICES ASSUME x4["root"] = Mem!NoOp, ~x13.foreign, ~x13.dropped
                 PROVE  Mem!StatusFollows'
    BY DEF Mem!StatusFollows
  <1>4. CASE x11 = Mem!Counts /\ \A i \in DOMAIN x8 : x8[i].type # "Status"
    <2>1. x11' = Mem!Counts'
      BY <1>1, <1>2, <1>4
    <2>2. \A i \in DOMAIN x8' : x8'[i].type # "Status"
      <3>1. ASSUME NEW i \in DOMAIN x8' PROVE x8'[i].type # "Status"
        <4>1. i + 1 \in DOMAIN x8 /\ x8'[i] = x8[i + 1]
          BY <1>2
        <4> QED BY <1>4, <4>1
      <3> QED BY <3>1
    <2> QED BY <2>1, <2>2 DEF Mem!StatusFollows
  <1>5. ASSUME NEW k \in DOMAIN x8, Mem!IsLast(k), x8[k].counts = Mem!Counts PROVE Mem!StatusFollows'
    <2>1. PICK n \in Nat \ {0} : n = k
      BY <1>2
    <2>2. PICK len \in Nat \ {0} : len = Len(x8)
      BY <1>2
    <2>3. CASE n = 1
      <3>1. x11' = Mem!Counts'
        BY <1>1, <1>2, <1>5, <2>1, <2>3 DEF Mem!IsLast
      <3>2. ASSUME NEW i \in DOMAIN x8' PROVE x8'[i].type # "Status"
        <4>1. i + 1 \in 2..len /\ x8'[i] = x8[i + 1]
          BY <1>2, <2>2
        <4> QED BY <1>5, <2>1, <2>2, <2>3, <4>1 DEF Mem!IsLast
      <3> QED BY <3>1, <3>2 DEF Mem!StatusFollows
    <2>4. CASE n # 1
      <3>1. n - 1 \in DOMAIN x8' /\ x8'[n - 1] = x8[n]
        BY <1>2, <2>1, <2>2, <2>4
      <3>2. ASSUME NEW j \in n..(len - 1) PROVE x8'[j].type # "Status"
        <4>1. j + 1 \in (n + 1)..len /\ x8'[j] = x8[j + 1]
          BY <1>2, <2>2
        <4> QED BY <1>5, <2>1, <2>2, <4>1 DEF Mem!IsLast
      <3>3. Mem!IsLast(n - 1)'
        <4>1. ((n - 1) + 1)..Len(x8') = n..(len - 1)
          BY <1>2, <2>2
        <4>2. x8'[n - 1].type = "Status"
          BY <1>5, <2>1, <3>1 DEF Mem!IsLast
        <4> QED BY <3>2, <4>1, <4>2 DEF Mem!IsLast
      <3> QED BY <1>1, <1>5, <2>1, <3>1, <3>3 DEF Mem!StatusFollows
    <2> QED BY <2>3, <2>4
  <1> QED BY <1>3, <1>4, <1>5 DEF Mem!MemoryInv, Mem!StatusFollows

(* The frontend shows a message.                                             *)
LEMMA Applied ==
    ASSUME Mem!MemoryInv, Mem!ApplyEvent
    PROVE  Mem!MemoryInv'
  <1>1. /\ x8 # <<>> /\ x8' = Tail(x8)
        /\ UNCHANGED <<x1, x2, x3, x4, x5>>
    BY DEF Mem!ApplyEvent, Mem!disk
  <1>2. PICK e : e = Head(x8)
    OBVIOUS
  <1>3. /\ Mem!EventSent(e)
        /\ \A i \in DOMAIN x8' : Mem!EventSent(x8'[i])
        /\ \E S : x8' \in Seq(S)
    BY <1>1, <1>2, EventTaken DEF Mem!MemoryInv
  <1>4. /\ x10 # Mem!NoFetch => x10 = [intent |-> x10.intent, row |-> x10.row]
        /\ \A i \in DOMAIN x7 : Mem!CommandSent(x7[i])
        /\ \E S : x7 \in Seq(S)
        /\ Mem!Screen
    BY Overlay
  <1>5. ASSUME NEW asked, x13' = [x13 EXCEPT !.asked = asked] \/ x13' = x13,
               IF e.type = "Status" THEN x11' = e.counts ELSE x11' = x11,
               Mem!Screen', Mem!DeletesWhatWasAsked'
        PROVE  Mem!MemoryInv'
    <2>1. /\ x13' = [asked |-> x13'.asked, dirty |-> x13.dirty,
                     foreign |-> x13.foreign, dropped |-> x13.dropped]
          /\ x13.foreign \in BOOLEAN /\ x13.dropped \in BOOLEAN
      <3>1. /\ x13 = [asked |-> x13.asked, dirty |-> x13.dirty,
                      foreign |-> x13.foreign, dropped |-> x13.dropped]
            /\ x13.foreign \in BOOLEAN /\ x13.dropped \in BOOLEAN
        BY DEF Mem!MemoryInv, Mem!Shapes
      <3>2. PICK a, d, f, p : x13 = [asked |-> a, dirty |-> d, foreign |-> f, dropped |-> p]
        BY <3>1
      <3> QED BY <1>5, <3>1, <3>2
    <2>2. x13'.dirty = x13.dirty /\ x13'.foreign = x13.foreign
          /\ x13'.dropped = x13.dropped
      BY <2>1
    <2>3. Mem!Shapes' /\ Mem!EntriesAtHome' /\ Mem!SharedIsSpoiled' /\ Mem!IndexLists'
      BY <1>1, <2>1, <2>2, CoreSame
    <2>4. Mem!Load' = Mem!Load
      BY <1>1 DEF Mem!Load, Mem!Available
    <2>5. Mem!PinnedFollows'
      BY <1>1, <2>2, <2>4 DEF Mem!MemoryInv, Mem!PinnedFollows
    <2>6. Mem!StatusFollows'
      BY <1>1, <1>2, <1>5, <2>2, StatusShown
    <2> QED BY <1>5, <2>3, <2>5, <2>6 DEF Mem!MemoryInv
  <1>6. CASE e.type = "Status" /\ x11' = e.counts /\ UNCHANGED <<x7, x9, x10, x13>>
    <2>1. Mem!Screen'
      BY <1>3, <1>4, <1>6 DEF Mem!Screen
    <2>2. Mem!DeletesWhatWasAsked'
      BY <1>6 DEF Mem!MemoryInv, Mem!DeletesWhatWasAsked, Mem!Keyed, Mem!Row
    <2> QED BY <1>5, <1>6, <2>1, <2>2
  <1>7. CASE /\ e.type = "Entries" /\ x9' = Mem!Refreshed(e.rows)
             /\ x13' = [x13 EXCEPT !.asked = IF x9'.confirm THEN @ ELSE <<>>]
             /\ UNCHANGED <<x7, x10, x11>>
    <2>1. PICK rows : rows = e.rows
      OBVIOUS
    <2>2. Mem!RowsFiled(rows)
      BY <1>3, <1>7, <2>1 DEF Mem!EventSent
    <2>3. PICK len \in Nat : len = Len(rows) /\ DOMAIN rows = 1..len /\ (rows # <<>> => len # 0)
      BY <2>2, LenProperties, EmptySeq DEF Mem!RowsFiled
    <2>4. PICK sel \in Nat \ {0} :
              /\ sel = IF x9.selected <= Len(rows) THEN x9.selected
                       ELSE IF rows = <<>> THEN 1 ELSE Len(rows)
              /\ rows # <<>> => sel \in DOMAIN rows
      <3>1. PICK m \in Nat \ {0} : m = x9.selected
        BY Overlay
      <3>2. CASE m <= len
        BY <2>3, <3>1, <3>2
      <3>3. CASE ~(m <= len)
        BY <2>3, <3>1, <3>3
      <3> QED BY <3>2, <3>3
    <2>5. x9' = [open |-> TRUE, rows |-> rows, selected |-> sel, confirm |-> FALSE]
      BY <1>7, <2>1, <2>4 DEF Mem!Refreshed
    <2>6. /\ x10' # Mem!NoFetch => x10' = [intent |-> x10'.intent, row |-> x10'.row]
          /\ \A i \in DOMAIN x7' : Mem!CommandSent(x7'[i])
          /\ \E S : x7' \in Seq(S)
      BY <1>4, <1>7
    <2>7. Mem!Screen'
      BY <1>3, <2>2, <2>4, <2>5, <2>6, ScreenBuilt
    <2>8. ~x9'.confirm
      BY <2>5
    <2>9. Mem!DeletesWhatWasAsked'
      BY <2>8 DEF Mem!DeletesWhatWasAsked
    <2>10. \E asked : x13' = [x13 EXCEPT !.asked = asked]
      BY <1>7
    <2> QED BY <1>5, <1>7, <2>7, <2>9, <2>10
  <1>8. CASE /\ e.type = "Body" /\ Mem!Expected(e.key)
             /\ Mem!Sends(<<Mem!Mutate("update", x10.row.key, x10.row.description, e.text), Mem!List>>)
             /\ x10' = Mem!NoFetch /\ UNCHANGED <<x9, x11, x13>>
    <2>1. e.text = Mem!FileOf(x10.row.key)
      BY <1>3, <1>8 DEF Mem!EventSent, Mem!Expected
    <2>2. Mem!CommandSent(Mem!List) /\ Mem!CommandSent(Mem!Mutate("update", x10.row.key, x10.row.description, e.text))
      BY <2>1, SentShapes
    <2>3. (\A i \in DOMAIN x7' : Mem!CommandSent(x7'[i])) /\ \E S : x7' \in Seq(S)
      BY <1>4, <1>8, <2>2, TwoSent
    <2>4. Mem!Screen'
      BY <1>3, <1>4, <1>8, <2>3 DEF Mem!Screen
    <2>5. Mem!DeletesWhatWasAsked'
      BY <1>8 DEF Mem!MemoryInv, Mem!DeletesWhatWasAsked, Mem!Keyed, Mem!Row
    <2> QED BY <1>5, <1>8, <2>4, <2>5
  <1>9. CASE e.type = "Body" /\ x10' = Mem!NoFetch /\ UNCHANGED <<x7, x9, x11, x13>>
    <2>1. Mem!Screen'
      BY <1>3, <1>4, <1>9 DEF Mem!Screen
    <2>2. Mem!DeletesWhatWasAsked'
      BY <1>9 DEF Mem!MemoryInv, Mem!DeletesWhatWasAsked, Mem!Keyed, Mem!Row
    <2> QED BY <1>5, <1>9, <2>1, <2>2
  <1> QED BY <1>2, <1>6, <1>7, <1>8, <1>9 DEF Mem!ApplyEvent

------------------------------------------------------------------------------
(* A start.                                                                  *)
LEMMA MemoryStarts == ASSUME Mem!Init PROVE Mem!MemoryInv
  <1>1. /\ x4 = [w \in Mem!Writers |-> Mem!NoOp] /\ x8 = <<>> /\ x7 = <<>>
        /\ x9 = Mem!Closed /\ x10 = Mem!NoFetch /\ x11 = Mem!Counts /\ x5 = Mem!Load
        /\ x3 = [s \in Mem!Scopes |-> IF Mem!Available(s) THEN Mem!Listing(s) ELSE {}]
        /\ x13 = [asked |-> <<>>, dirty |-> {}, foreign |-> FALSE, dropped |-> FALSE]
    BY DEF Mem!Init
  <1>2. PICK old \in Earlier, d \in Descriptions :
           x2 = [f \in Mem!Files |->
                       IF \E k \in old : Mem!FileOf(k) = f
                       THEN Mem!Entry(CHOOSE k \in old : Mem!FileOf(k) = f, d, f) ELSE Mem!Absent]
    BY DEF Mem!Init
  <1>3. old \subseteq Keys /\ IsFiniteSet(old)
    BY DiskAssumption, MemFinite DEF Mem!MemoryAssumption
  <1>4. Mem!Shapes
    BY <1>1 DEF Mem!Shapes, Mem!Doing
  <1>5. Mem!EntriesAtHome
    <2>1. ASSUME NEW f \in Mem!Files
          PROVE  \/ x2[f] \in {Mem!Absent, Mem!Torn}
                 \/ MemorySlug(x2[f].name) = f.stem
                    /\ x2[f] = [is |-> "entry", name |-> x2[f].name,
                                description |-> x2[f].description, text |-> f]
      <3>1. CASE \E k \in old : Mem!FileOf(k) = f
        <4>1. PICK q \in old : q = (CHOOSE k \in old : Mem!FileOf(k) = f) /\ Mem!FileOf(q) = f
          BY <3>1
        <4>2. x2[f] = [is |-> "entry", name |-> q.name, description |-> d, text |-> f]
          BY <1>2, <3>1, <4>1 DEF Mem!Entry
        <4> QED BY <4>1, <4>2 DEF Mem!FileOf
      <3>2. CASE ~\E k \in old : Mem!FileOf(k) = f
        BY <1>2, <3>2
      <3> QED BY <3>1, <3>2
    <2>2. ASSUME NEW s \in Mem!Scopes PROVE IsFiniteSet(Mem!Existing(s))
      <3> DEFINE homes == {Mem!FileOf(k) : k \in old}
                 onto == [k \in old |-> Mem!FileOf(k)]
      <3>1. onto \in Surjection(old, homes)
        BY DEF Surjection
      <3>2. IsFiniteSet(homes)
        BY <1>3, <3>1, FS_Surjection DEF ExistsSurjection
      <3>3. Mem!Existing(s) \subseteq homes
        BY <1>2 DEF Mem!Existing, Mem!Absent
      <3> QED BY <3>2, <3>3, FS_Subset
    <2> QED BY <1>2, <2>1, <2>2, MemFinite DEF Mem!EntriesAtHome
  <1>6. \A w \in Mem!Writers : x4[w].step = "none"
    BY <1>1 DEF Mem!NoOp
  <1>7. Mem!SharedIsSpoiled
    BY <1>6 DEF Mem!SharedIsSpoiled, Mem!Busy, Mem!Writers
  <1>8. Mem!IndexLists
    BY <1>1, <1>6 DEF Mem!IndexLists
  <1>9. Mem!PinnedFollows /\ Mem!StatusFollows
    BY <1>1 DEF Mem!PinnedFollows, Mem!StatusFollows
  <1>10. /\ x9 = [open |-> FALSE, rows |-> <<>>, selected |-> 1, confirm |-> FALSE]
         /\ x9.rows = <<>> /\ x9.confirm = FALSE /\ x9.selected = 1
    BY <1>1 DEF Mem!Closed
  <1>11. Mem!Screen
    <2>1. <<>> \in Seq({}) /\ DOMAIN <<>> = {}
      OBVIOUS
    <2>2. /\ \A i \in DOMAIN x7 : Mem!CommandSent(x7[i])
          /\ \A i \in DOMAIN x8 : Mem!EventSent(x8[i])
          /\ \E S : x7 \in Seq(S)
          /\ \E S : x8 \in Seq(S)
      BY <1>1, <2>1
    <2>3. \E rows, open, confirm, selected :
            x9 = [open |-> open, rows |-> rows, selected |-> selected, confirm |-> confirm]
      BY <1>10
    <2>4. Mem!RowsFiled(x9.rows)
      BY <1>10, NoRows
    <2>5. x9.confirm \in BOOLEAN /\ x9.selected \in Nat \ {0}
      BY <1>10
    <2>6. x9.rows # <<>> => x9.selected \in DOMAIN x9.rows
      BY <1>10
    <2> QED BY <1>1, <2>2, <2>3, <2>4, <2>5, <2>6 DEF Mem!Screen
  <1>12. Mem!DeletesWhatWasAsked
    BY <1>10 DEF Mem!DeletesWhatWasAsked
  <1> QED BY <1>4, <1>5, <1>7, <1>8, <1>9, <1>11, <1>12 DEF Mem!MemoryInv

(* Every step keeps the invariant.                                           *)
LEMMA MemoryStep == ASSUME Mem!MemoryInv, Mem!Next PROVE Mem!MemoryInv'
  <1>1. CASE Mem!StartOrEndTurn
    <2>1. UNCHANGED <<x1, x2, x3, x4, x5, x8, x11, x9, x10, x7, x13>>
      BY <1>1 DEF Mem!StartOrEndTurn, Mem!disk, Mem!screen
    <2> QED BY <2>1, DirectoriesSame, ScreenSame DEF Mem!MemoryInv
  <1> QED BY <1>1, Wrote, Called, Taken, Switched, Crashed, Inspected, Applied DEF Mem!Next

(* What the invariant says of the prompt and of the screen.                  *)
LEMMA MemoryTells ==
    ASSUME Mem!MemoryInv
    PROVE  Mem!PromptListsEntries /\ Mem!EditsStayHome /\ Mem!DeletesWhatWasAsked /\ Mem!StatusSettles
  <1>1. Mem!PromptListsEntries
    <2>1. SUFFICES ASSUME x4["root"] = Mem!NoOp, ~Mem!Busy("subagent"), ~x13.foreign,
                          NEW s \in Mem!Scopes, Mem!Available(s), s \notin x13.dirty
                   PROVE  Mem!Listing(s) \subseteq x5[s]
      BY DEF Mem!PromptListsEntries
    <2>2. \A w \in Mem!Writers : x4[w].step \notin {"scan", "index"}
      BY <2>1 DEF Mem!Writers, Mem!Busy, Mem!NoOp
    <2>3. Mem!Listing(s) \subseteq x3[s]
      BY <2>1, <2>2 DEF Mem!MemoryInv, Mem!IndexLists
    <2> QED BY <2>1, <2>3 DEF Mem!MemoryInv, Mem!PinnedFollows, Mem!Load
  <1>2. Mem!EditsStayHome
    BY DEF Mem!MemoryInv, Mem!EntriesAtHome, Mem!EditsStayHome, Mem!Absent, Mem!Torn
  <1>3. Mem!StatusSettles
    BY DEF Mem!MemoryInv, Mem!StatusFollows, Mem!StatusSettles
  <1> QED BY <1>1, <1>2, <1>3 DEF Mem!MemoryInv

(* A step of another part, or none, leaves the invariant.                    *)
LEMMA MemoryStutter ==
    ASSUME Mem!MemoryInv, UNCHANGED others
    PROVE  Mem!MemoryInv'
  <1>1. UNCHANGED <<x1, x2, x3, x4, x5, x7, x8, x9, x10, x11, x13>>
    BY DEF others
  <1> QED BY <1>1, DirectoriesSame, ScreenSame DEF Mem!MemoryInv

\* Whatever the root's engine, a subagent's and the inspector do to the two
\* directories, however their writes interleave and wherever the process ends:
\* the prompt lists what is stored, an entry keeps its own text, a waiting
\* delete is of the row it was begun on, and the counts settle (memory.rs).
THEOREM MemoryCorrect == DiskSpec => []MemoryHolds
  <1> DEFINE Inv == part = "memory" => Mem!MemoryInv
  <1>1. DiskInit => Inv
    BY MemoryStarts DEF DiskInit
  <1>2. Inv /\ [DiskNext]_stored => Inv'
    <2>1. SUFFICES ASSUME Inv, [DiskNext]_stored, part' = "memory" PROVE Mem!MemoryInv'
      OBVIOUS
    <2>2. CASE OfMemory(Mem!Next)
      BY <2>1, <2>2, MemoryStep DEF OfMemory
    <2>3. CASE UNCHANGED stored
      BY <2>1, <2>3, MemoryStutter DEF stored
    <2> QED BY <2>1, <2>2, <2>3 DEF DiskNext, OfLaunch, OfConfig, OfSession, OfSkills
  <1>3. Inv => MemoryHolds
    BY MemoryTells DEF MemoryHolds
  <1> QED BY <1>1, <1>2, <1>3, PTL DEF DiskSpec
------------------------------------------------------------------------------
\* The sizes of sets are the same in the part.
LEMMA LogSize == \A S : Log!Cardinality(S) = Cardinality(S)
  BY DEF Log!Cardinality, Cardinality

(* The pieces, by their place.                                               *)
LEMMA Pieces ==
    ASSUME Log!FileInv
    PROVE  /\ Len(x1) \in Nat /\ DOMAIN x1 = 1..Len(x1)
           /\ \A i \in DOMAIN x1 : x1[i] # Log!NoRecord
           /\ \A i \in DOMAIN x1 :
                 \/ x1[i] \in {Log!Newline, Log!Torn} /\ ~Log!Whole(i)
                 \/ Log!Whole(i) /\ x1[i] \notin {Log!Newline, Log!Torn}
  <1>1. PICK S : x1 \in Seq(S)
    BY DEF Log!FileInv, Log!Numbered
  <1>2. Len(x1) \in Nat /\ DOMAIN x1 = 1..Len(x1)
    BY <1>1, LenProperties
  <1>3. ASSUME NEW i \in DOMAIN x1
        PROVE  /\ x1[i] # Log!NoRecord
               /\ \/ x1[i] \in {Log!Newline, Log!Torn} /\ ~Log!Whole(i)
                  \/ Log!Whole(i) /\ x1[i] \notin {Log!Newline, Log!Torn}
    <2>1. x1[i] \in {Log!Newline, Log!Torn} \/ Log!Whole(i)
      BY DEF Log!FileInv, Log!Numbered
    <2> QED BY <2>1 DEF Log!Whole, Log!Kinds, Log!Newline, Log!Torn, Log!NoRecord
  <1> QED BY <1>2, <1>3

(* A whole record is in one place.                                           *)
LEMMA OnePlace ==
    ASSUME Log!FileInv, NEW i \in DOMAIN x1, NEW j \in DOMAIN x1, x1[i] = x1[j], Log!Whole(i)
    PROVE  i = j
  <1>1. PICK n \in Nat : n = Len(x1) /\ DOMAIN x1 = 1..n
    BY Pieces
  <1>2. Log!Whole(j)
    BY DEF Log!Whole
  <1>3. \A k, l \in 1..n : Log!Whole(k) /\ Log!Whole(l) /\ k < l => x1[k].id < x1[l].id
    BY <1>1 DEF Log!FileInv, Log!Numbered
  <1>4. x1[i].id \in Nat /\ x1[i].id = x1[j].id
    BY Pieces DEF Log!FileInv, Log!Numbered
  <1>5. CASE i < j
    BY <1>1, <1>2, <1>3, <1>4, <1>5
  <1>6. CASE j < i
    BY <1>1, <1>2, <1>3, <1>4, <1>6
  <1> QED BY <1>1, <1>5, <1>6

(* The sets that count are finite.                                           *)
LEMMA Countable ==
    ASSUME Log!FileInv
    PROVE  /\ IsFiniteSet(Log!Dead) /\ IsFiniteSet(Log!Joined) /\ IsFiniteSet(Log!Joined \ Log!Dead)
           /\ Cardinality(Log!Dead) \in Nat /\ Cardinality(Log!Joined \ Log!Dead) \in Nat
           /\ Cardinality(Log!Dead) <= x7 /\ Cardinality(Log!Joined \ Log!Dead) <= x8
  <1>1. PICK n \in Nat : DOMAIN x1 = 1..n
    BY Pieces
  <1>2. IsFiniteSet(1..n)
    BY FS_Interval
  <1>3. Log!Dead \subseteq 1..n /\ Log!Joined \subseteq 1..n /\ (Log!Joined \ Log!Dead) \subseteq 1..n
    BY <1>1 DEF Log!Dead, Log!Joined
  <1>4. IsFiniteSet(Log!Dead) /\ IsFiniteSet(Log!Joined) /\ IsFiniteSet(Log!Joined \ Log!Dead)
    BY <1>2, <1>3, FS_Subset
  <1>5. Cardinality(Log!Dead) <= x7 /\ Cardinality(Log!Joined \ Log!Dead) <= x8
    BY LogSize DEF Log!FileInv, Log!Costs
  <1> QED BY <1>4, <1>5, FS_CardinalityType

(* Where nothing new is dead and no join is new, nothing new is paid for.    *)
LEMMA CostsKept ==
    ASSUME Log!FileInv, Log!Dead' \subseteq Log!Dead, (Log!Joined \ Log!Dead)' \subseteq Log!Joined \ Log!Dead,
           x7' = x7, x8' = x8
    PROVE  Log!Costs'
  <1>1. Cardinality(Log!Dead') <= Cardinality(Log!Dead) /\ Cardinality(Log!Dead') \in Nat
    BY Countable, FS_Subset, FS_CardinalityType
  <1>2. Cardinality((Log!Joined \ Log!Dead)') <= Cardinality(Log!Joined \ Log!Dead)
        /\ Cardinality((Log!Joined \ Log!Dead)') \in Nat
    BY Countable, FS_Subset, FS_CardinalityType
  <1>3. x7 \in Nat /\ x8 \in Nat
    BY DEF Log!FileInv, Log!Numbered
  <1>4. Cardinality(Log!Dead') <= x7' /\ Cardinality((Log!Joined \ Log!Dead)') <= x8'
    BY <1>1, <1>2, <1>3, Countable
  <1> QED BY <1>4, LogSize DEF Log!Costs

(* A piece is added.                                                         *)
LEMMA PieceAdded ==
    ASSUME Log!FileInv, NEW p, x1' = Append(x1, p)
    PROVE  /\ \E S : x1' \in Seq(S)
           /\ Len(x1') = Len(x1) + 1 /\ DOMAIN x1' = 1..(Len(x1) + 1)
           /\ \A i \in 1..Len(x1) : x1'[i] = x1[i]
           /\ x1'[Len(x1) + 1] = p
  <1>1. PICK S : x1 \in Seq(S)
    BY DEF Log!FileInv, Log!Numbered
  <1>2. x1 \in Seq(S \cup {p}) /\ p \in S \cup {p}
    BY <1>1, SeqMonotonic
  <1>3. /\ x1' \in Seq(S \cup {p}) /\ Len(x1') = Len(x1) + 1
        /\ \A i \in 1..Len(x1) : x1'[i] = x1[i]
        /\ x1'[Len(x1) + 1] = p
    BY <1>2, AppendProperties
  <1> QED BY <1>3, LenProperties

(* The first write of an append.                                             *)
LEMMA LineWritten ==
    ASSUME Log!FileInv, NEW w \in Log!Writers, NEW kind \in Log!Kinds, Log!Append1(w, kind)
    PROVE  Log!FileInv'
  <1>1. PICK record : record = [id |-> x5, kind |-> kind]
    OBVIOUS
  <1>2. record.id = x5 /\ record.kind \in Log!Kinds /\ record \notin {Log!Newline, Log!Torn, Log!NoRecord}
    BY <1>1 DEF Log!Newline, Log!Torn, Log!NoRecord, Log!Kinds
  <1>3. /\ x3[w] = Log!NoRecord /\ x1' = Append(x1, record)
        /\ x3' = [x3 EXCEPT ![w] = record]
        /\ x5' = x5 + 1 /\ x4' = x4 /\ x7' = x7
        /\ x8' = IF \E v \in Log!Writers \ {w} : x3[v] # Log!NoRecord THEN x8 + 1
                 ELSE x8
    BY <1>1 DEF Log!Append1
  <1>4. PICK n \in Nat : n = Len(x1) /\ DOMAIN x1 = 1..n
    BY Pieces
  <1>5. /\ \E S : x1' \in Seq(S)
        /\ Len(x1') = n + 1 /\ DOMAIN x1' = 1..(n + 1)
        /\ \A i \in 1..n : x1'[i] = x1[i]
        /\ x1'[n + 1] = record
    BY <1>3, <1>4, PieceAdded
  <1>6. x5 \in Nat \ {0} /\ x7 \in Nat /\ x8 \in Nat /\ x8' \in {x8, x8 + 1}
    BY <1>3 DEF Log!FileInv, Log!Numbered
  <1>7. \A i \in 1..n : (Log!Whole(i)' <=> Log!Whole(i)) /\ (Log!Whole(i) => x1[i].id \in Nat /\ x1[i].id < x5)
    <2>1. \A i \in 1..n : Log!Whole(i) => x1[i].id \in Nat /\ x1[i].id < x5
      BY <1>4, Pieces DEF Log!FileInv, Log!Numbered
    <2> QED BY <1>5, <2>1 DEF Log!Whole
  <1>8. Log!Whole(n + 1)' /\ record.id = x5
    BY <1>2, <1>5 DEF Log!Whole
  <1>9. \A i \in 1..n : x1[i] # record
    <2>1. ASSUME NEW i \in 1..n PROVE x1[i] # record
      <3>1. CASE Log!Whole(i)
        BY <1>2, <1>6, <1>7, <3>1
      <3>2. CASE ~Log!Whole(i)
        BY <1>2, <3>2 DEF Log!Whole
      <3> QED BY <3>1, <3>2
    <2> QED BY <2>1
  <1>10. Log!Numbered'
    <2>1. ASSUME NEW i \in 1..(n + 1)
          PROVE  \/ x1'[i] \in {Log!Newline, Log!Torn}
                 \/ Log!Whole(i)' /\ x1'[i].id \in Nat \ {0} /\ x1'[i].id < x5'
      <3>1. CASE i = n + 1
        BY <1>3, <1>5, <1>6, <1>8, <3>1
      <3>2. CASE i # n + 1
        <4>1. i \in 1..n /\ x1'[i] = x1[i]
          BY <1>5, <3>2
        <4>2. \/ x1[i] \in {Log!Newline, Log!Torn}
              \/ Log!Whole(i) /\ x1[i].id \in Nat \ {0} /\ x1[i].id < x5
          BY <1>4, <4>1 DEF Log!FileInv, Log!Numbered
        <4> QED BY <1>3, <1>6, <1>7, <4>1, <4>2
      <3> QED BY <3>1, <3>2
    <2>2. ASSUME NEW i \in 1..(n + 1), NEW j \in 1..(n + 1), Log!Whole(i)', Log!Whole(j)', i < j
          PROVE  x1'[i].id < x1'[j].id
      <3>1. i \in 1..n
        BY <2>2
      <3>2. CASE j = n + 1
        BY <1>5, <1>7, <1>8, <2>2, <3>1, <3>2
      <3>3. CASE j # n + 1
        <4>1. j \in 1..n
          BY <3>3
        <4>2. Log!Whole(i) /\ Log!Whole(j)
          BY <1>7, <2>2, <3>1, <4>1
        <4> QED BY <1>4, <1>5, <2>2, <3>1, <4>1, <4>2 DEF Log!FileInv, Log!Numbered
      <3> QED BY <3>2, <3>3
    <2> QED BY <1>3, <1>5, <1>6, <2>1, <2>2 DEF Log!Numbered
  <1>11. x3' = [v \in Log!Writers |-> IF v = w THEN record ELSE x3[v]]
    BY <1>3 DEF Log!FileInv, Log!Written
  <1>12. \A v \in Log!Writers : x3[v] # record
    BY <1>2, <1>4, <1>9 DEF Log!FileInv, Log!Written
  <1>13. record \notin x4
    BY <1>4, <1>9 DEF Log!FileInv, Log!Written
  <1>14. Log!Written'
    <2>1. ASSUME NEW v \in Log!Writers, x3'[v] # Log!NoRecord
          PROVE  x3'[v].kind \in Log!Kinds /\ \E i \in DOMAIN x1' : x1'[i] = x3'[v]
      <3>1. CASE v = w
        BY <1>2, <1>5, <1>11, <3>1
      <3>2. CASE v # w
        BY <1>4, <1>5, <1>11, <2>1, <3>2 DEF Log!FileInv, Log!Written
      <3> QED BY <3>1, <3>2
    <2>2. \A v \in Log!Writers : x3'[v] \notin x4'
      BY <1>3, <1>11, <1>13 DEF Log!FileInv, Log!Written
    <2>3. \A u, v \in Log!Writers : x3'[u] = x3'[v] /\ x3'[u] # Log!NoRecord => u = v
      BY <1>11, <1>12 DEF Log!FileInv, Log!Written
    <2>4. \A a \in x4' : a.kind \in Log!Kinds /\ \E i \in DOMAIN x1' : x1'[i] = a
      BY <1>3, <1>4, <1>5 DEF Log!FileInv, Log!Written
    <2>5. ASSUME NEW i \in DOMAIN x1', x1'[i] \in x4' PROVE i + 1 \in DOMAIN x1'
      <3>1. i # n + 1
        BY <1>3, <1>5, <1>13, <2>5
      <3> QED BY <1>4, <1>5, <3>1
    <2> QED BY <1>11, <2>1, <2>2, <2>3, <2>4, <2>5 DEF Log!Written
  <1>15. ASSUME NEW i \in 1..n PROVE Log!Pending(i)' <=> Log!Pending(i)
    <2>1. x1[i] # Log!NoRecord /\ x1[i] # record /\ x1'[i] = x1[i]
      BY <1>4, <1>5, <1>9, Pieces
    <2> QED BY <1>3, <1>11, <2>1 DEF Log!Pending
  <1>16. Log!Dead' = Log!Dead
    <2>1. n + 1 \notin Log!Dead'
      BY <1>5, <1>11 DEF Log!Dead, Log!Pending
    <2>2. \A i \in 1..n : i \in Log!Dead' <=> i \in Log!Dead
      BY <1>3, <1>4, <1>5, <1>15 DEF Log!Dead
    <2> QED BY <1>4, <1>5, <2>1, <2>2 DEF Log!Dead
  <1>17. Log!Joined' \subseteq Log!Joined \cup {n}
    <2>1. ASSUME NEW i \in Log!Joined', i # n PROVE i \in Log!Joined
      <3>1. i \in 1..(n + 1) /\ i + 1 \in 1..(n + 1) /\ x1'[i] # Log!Newline /\ x1'[i + 1] # Log!Newline
        BY <1>5, <2>1 DEF Log!Joined
      <3>2. i \in 1..n /\ i + 1 \in 1..n
        BY <2>1, <3>1
      <3> QED BY <1>4, <1>5, <3>1, <3>2 DEF Log!Joined
    <2> QED BY <2>1
  <1>18. Log!Costs'
    <2>1. CASE n \in Log!Joined' /\ n \notin Log!Dead'
      <3>1. n \in 1..n /\ x1[n] # Log!Newline /\ n \notin Log!Dead
        BY <1>4, <1>5, <1>16, <2>1 DEF Log!Joined
      <3>2. x1[n] \notin x4
        <4>1. n + 1 \notin DOMAIN x1
          BY <1>4
        <4> QED BY <1>4, <3>1, <4>1 DEF Log!FileInv, Log!Written
      <3>3. PICK v \in Log!Writers : x3[v] = x1[n]
        BY <1>4, <3>1, <3>2 DEF Log!Dead, Log!Pending
      <3>4. x3[v] # Log!NoRecord /\ v # w
        BY <1>3, <1>4, <3>1, <3>3, Pieces
      <3>5. x8' = x8 + 1
        BY <1>3, <3>4
      <3>6. (Log!Joined \ Log!Dead)' \subseteq (Log!Joined \ Log!Dead) \cup {n}
        BY <1>16, <1>17
      <3>7. /\ IsFiniteSet((Log!Joined \ Log!Dead) \cup {n})
            /\ Cardinality((Log!Joined \ Log!Dead) \cup {n}) <= Cardinality(Log!Joined \ Log!Dead) + 1
            /\ Cardinality((Log!Joined \ Log!Dead) \cup {n}) \in Nat
        <4>1. IsFiniteSet(Log!Joined \ Log!Dead) /\ Cardinality(Log!Joined \ Log!Dead) \in Nat
          BY Countable
        <4>2. /\ IsFiniteSet((Log!Joined \ Log!Dead) \cup {n})
              /\ Cardinality((Log!Joined \ Log!Dead) \cup {n}) =
                    IF n \in Log!Joined \ Log!Dead THEN Cardinality(Log!Joined \ Log!Dead)
                    ELSE Cardinality(Log!Joined \ Log!Dead) + 1
          BY <4>1, FS_AddElement
        <4> QED BY <4>1, <4>2
      <3>8. Cardinality((Log!Joined \ Log!Dead)') <= Cardinality((Log!Joined \ Log!Dead) \cup {n})
            /\ Cardinality((Log!Joined \ Log!Dead)') \in Nat
        BY <3>6, <3>7, FS_Subset, FS_CardinalityType
      <3>9. Cardinality((Log!Joined \ Log!Dead)') <= x8'
        BY <1>6, <3>5, <3>7, <3>8, Countable
      <3>10. Cardinality(Log!Dead') <= x7'
        BY <1>3, <1>16, Countable
      <3> QED BY <3>9, <3>10, LogSize DEF Log!Costs
    <2>2. CASE ~(n \in Log!Joined' /\ n \notin Log!Dead')
      <3>1. (Log!Joined \ Log!Dead)' \subseteq Log!Joined \ Log!Dead
        BY <1>16, <1>17, <2>2
      <3>2. Cardinality((Log!Joined \ Log!Dead)') <= Cardinality(Log!Joined \ Log!Dead)
            /\ Cardinality((Log!Joined \ Log!Dead)') \in Nat
        BY <3>1, Countable, FS_Subset, FS_CardinalityType
      <3>3. Cardinality((Log!Joined \ Log!Dead)') <= x8'
        BY <1>6, <3>2, Countable
      <3>4. Cardinality(Log!Dead') <= x7'
        BY <1>3, <1>16, Countable
      <3> QED BY <3>3, <3>4, LogSize DEF Log!Costs
    <2> QED BY <2>1, <2>2
  <1> QED BY <1>10, <1>14, <1>18 DEF Log!FileInv

(* The second write, and the sync.                                           *)
LEMMA NewlineWritten ==
    ASSUME Log!FileInv, NEW w \in Log!Writers, Log!Append2(w)
    PROVE  Log!FileInv'
  <1>1. PICK record : record = x3[w]
    OBVIOUS
  <1>2. /\ record # Log!NoRecord /\ x1' = Append(x1, Log!Newline)
        /\ x4' = x4 \cup {record} /\ x3' = [x3 EXCEPT ![w] = Log!NoRecord]
        /\ x5' = x5 /\ x7' = x7 /\ x8' = x8
    BY <1>1 DEF Log!Append2, Log!WithNewline
  <1>3. PICK n \in Nat : n = Len(x1) /\ DOMAIN x1 = 1..n
    BY Pieces
  <1>4. /\ \E S : x1' \in Seq(S)
        /\ Len(x1') = n + 1 /\ DOMAIN x1' = 1..(n + 1)
        /\ \A i \in 1..n : x1'[i] = x1[i]
        /\ x1'[n + 1] = Log!Newline
    BY <1>2, <1>3, PieceAdded
  <1>5. x3' = [v \in Log!Writers |-> IF v = w THEN Log!NoRecord ELSE x3[v]]
    BY <1>2 DEF Log!FileInv, Log!Written
  <1>6. record.kind \in Log!Kinds /\ (\E i \in 1..n : x1[i] = record) /\ record # Log!Newline
    <2>1. record.kind \in Log!Kinds /\ \E i \in 1..n : x1[i] = record
      BY <1>1, <1>2, <1>3 DEF Log!FileInv, Log!Written
    <2> QED BY <2>1 DEF Log!Kinds, Log!Newline
  <1>7. \A i \in 1..n : Log!Whole(i)' <=> Log!Whole(i)
    BY <1>4 DEF Log!Whole
  <1>8. ~Log!Whole(n + 1)'
    BY <1>4 DEF Log!Whole, Log!Newline, Log!Kinds
  <1>9. Log!Numbered'
    <2>1. ASSUME NEW i \in 1..(n + 1)
          PROVE  \/ x1'[i] \in {Log!Newline, Log!Torn}
                 \/ Log!Whole(i)' /\ x1'[i].id \in Nat \ {0} /\ x1'[i].id < x5'
      <3>1. CASE i = n + 1
        BY <1>4, <3>1
      <3>2. CASE i # n + 1
        <4>1. i \in 1..n /\ x1'[i] = x1[i]
          BY <1>4, <3>2
        <4> QED BY <1>2, <1>3, <1>7, <4>1 DEF Log!FileInv, Log!Numbered
      <3> QED BY <3>1, <3>2
    <2>2. ASSUME NEW i \in 1..(n + 1), NEW j \in 1..(n + 1), Log!Whole(i)', Log!Whole(j)', i < j
          PROVE  x1'[i].id < x1'[j].id
      <3>1. i \in 1..n /\ j \in 1..n
        BY <1>8, <2>2
      <3>2. Log!Whole(i) /\ Log!Whole(j)
        BY <1>7, <2>2, <3>1
      <3> QED BY <1>3, <1>4, <2>2, <3>1, <3>2 DEF Log!FileInv, Log!Numbered
    <2>3. x5' \in Nat \ {0} /\ x7' \in Nat /\ x8' \in Nat
      BY <1>2 DEF Log!FileInv, Log!Numbered
    <2> QED BY <1>4, <2>1, <2>2, <2>3 DEF Log!Numbered
  <1>10. Log!Written'
    <2>1. \A v \in Log!Writers : x3'[v] # Log!NoRecord =>
            x3'[v].kind \in Log!Kinds /\ \E i \in DOMAIN x1' : x1'[i] = x3'[v]
      BY <1>3, <1>4, <1>5 DEF Log!FileInv, Log!Written
    <2>2. \A v \in Log!Writers : x3'[v] \notin x4'
      <3>1. Log!NoRecord \notin x4
        BY DEF Log!FileInv, Log!Written, Log!NoRecord, Log!Kinds
      <3>2. ASSUME NEW v \in Log!Writers, v # w PROVE x3[v] # record
        BY <1>1, <1>2, <3>2 DEF Log!FileInv, Log!Written
      <3> QED BY <1>2, <1>5, <3>1, <3>2 DEF Log!FileInv, Log!Written
    <2>3. \A u, v \in Log!Writers : x3'[u] = x3'[v] /\ x3'[u] # Log!NoRecord => u = v
      BY <1>5 DEF Log!FileInv, Log!Written
    <2>4. \A a \in x4' : a.kind \in Log!Kinds /\ \E i \in DOMAIN x1' : x1'[i] = a
      <3>1. ASSUME NEW a \in x4 PROVE a.kind \in Log!Kinds /\ \E i \in 1..n : x1[i] = a
        BY <1>3 DEF Log!FileInv, Log!Written
      <3> QED BY <1>2, <1>4, <1>6, <3>1
    <2>5. ASSUME NEW i \in DOMAIN x1', x1'[i] \in x4' PROVE i + 1 \in DOMAIN x1'
      <3>1. Log!Newline \notin x4
        BY DEF Log!FileInv, Log!Written, Log!Newline, Log!Kinds
      <3>2. i # n + 1
        BY <1>2, <1>4, <1>6, <2>5, <3>1
      <3> QED BY <1>3, <1>4, <3>2
    <2> QED BY <1>5, <2>1, <2>2, <2>3, <2>4, <2>5 DEF Log!Written
  <1>11. ASSUME NEW i \in 1..n PROVE i \in Log!Dead' <=> i \in Log!Dead
    <2>1. x1[i] # Log!NoRecord /\ x1'[i] = x1[i]
      BY <1>3, <1>4, Pieces
    <2>2. x1[i] # record => (Log!Pending(i)' <=> Log!Pending(i))
      BY <1>1, <1>5, <2>1 DEF Log!Pending
    <2>3. x1[i] = record => Log!Pending(i)
      BY <1>1 DEF Log!Pending
    <2> QED BY <1>2, <1>3, <1>4, <2>1, <2>2, <2>3 DEF Log!Dead
  <1>12. Log!Dead' \subseteq Log!Dead
    <2>1. Log!Dead' \subseteq 1..n
      BY <1>4 DEF Log!Dead
    <2> QED BY <1>11, <2>1
  <1>13. (Log!Joined \ Log!Dead)' \subseteq Log!Joined \ Log!Dead
    <2>1. ASSUME NEW i \in Log!Joined' PROVE i \in 1..n /\ i \in Log!Joined
      <3>1. i \in 1..(n + 1) /\ i + 1 \in 1..(n + 1) /\ x1'[i] # Log!Newline /\ x1'[i + 1] # Log!Newline
        BY <1>4, <2>1 DEF Log!Joined
      <3>2. i \in 1..n /\ i + 1 \in 1..n
        BY <1>4, <3>1
      <3> QED BY <1>3, <1>4, <3>1, <3>2 DEF Log!Joined
    <2> QED BY <1>11, <2>1
  <1>14. Log!Costs'
    BY <1>2, <1>12, <1>13, CostsKept
  <1> QED BY <1>9, <1>10, <1>14 DEF Log!FileInv

(* A kill.                                                                   *)
LEMMA Killed ==
    ASSUME Log!FileInv, NEW r \in Runs, Log!Kill(r)
    PROVE  Log!FileInv'
  <1>1. PICK cut : /\ cut = {w \in {r} \X {"engine", "hook"} : x3[w] # Log!NoRecord}
                   /\ \/ x1' = x1
                      \/ /\ \E w \in cut : x1[Len(x1)] = x3[w]
                         /\ x1' = [x1 EXCEPT ![Len(x1)] = Log!Torn]
                   /\ x3' = [w \in Log!Writers |-> IF w \in cut THEN Log!NoRecord ELSE x3[w]]
                   /\ x7' = x7 + Cardinality(cut)
                   /\ x4' = x4 /\ x5' = x5 /\ x8' = x8
    BY LogSize DEF Log!Kill
  <1>2. PICK n \in Nat : n = Len(x1) /\ DOMAIN x1 = 1..n
    BY Pieces
  <1>3. cut \subseteq Log!Writers /\ \A w \in cut : x3[w] # Log!NoRecord
    BY <1>1 DEF Log!Writers
  <1>4. IsFiniteSet(cut) /\ Cardinality(cut) \in Nat
    <2>1. cut \subseteq {<<r, "engine">>} \cup {<<r, "hook">>}
      BY <1>1
    <2>2. IsFiniteSet({<<r, "engine">>} \cup {<<r, "hook">>})
      BY FS_Singleton, FS_AddElement
    <2>3. IsFiniteSet(cut)
      BY <2>1, <2>2, FS_Subset
    <2> QED BY <2>3, FS_CardinalityType
  <1>5. PICK P : P = {i \in 1..n : \E w \in cut : x1[i] = x3[w]}
    OBVIOUS
  <1>6. \A i \in P : Log!Whole(i)
    BY <1>3, <1>5 DEF Log!FileInv, Log!Written, Log!Whole
  <1>7. IsFiniteSet(P) /\ Cardinality(P) <= Cardinality(cut) /\ Cardinality(P) \in Nat
    <2> DEFINE place == [w \in cut |-> CHOOSE i \in 1..n : x1[i] = x3[w]]
    <2>1. ASSUME NEW w \in cut PROVE place[w] \in 1..n /\ x1[place[w]] = x3[w]
      <3>1. \E i \in 1..n : x1[i] = x3[w]
        BY <1>2, <1>3 DEF Log!FileInv, Log!Written
      <3> QED BY <3>1
    <2>2. place \in [cut -> P]
      BY <1>5, <2>1
    <2>3. ASSUME NEW i \in P PROVE \E w \in cut : place[w] = i
      <3>1. PICK w \in cut : x1[i] = x3[w]
        BY <1>5
      <3>2. place[w] \in 1..n /\ x1[place[w]] = x1[i]
        BY <2>1, <3>1
      <3>3. i \in 1..n /\ Log!Whole(i)
        BY <1>5, <1>6
      <3>4. place[w] = i
        BY <1>2, <3>2, <3>3, OnePlace
      <3> QED BY <3>4
    <2> HIDE DEF place
    <2>4. place \in Surjection(cut, P)
      BY <2>2, <2>3 DEF Surjection
    <2>5. IsFiniteSet(P) /\ Cardinality(P) <= Cardinality(cut)
      BY <1>4, <2>4, FS_Surjection
    <2> QED BY <2>5, FS_CardinalityType
  <1>8. \/ x1' = x1
        \/ n \in P /\ x1' = [i \in 1..n |-> IF i = n THEN Log!Torn ELSE x1[i]]
    <2>1. CASE x1' = x1
      BY <2>1
    <2>2. CASE (\E w \in cut : x1[n] = x3[w]) /\ x1' = [x1 EXCEPT ![n] = Log!Torn]
      <3>1. PICK w \in cut : x1[n] = x3[w]
        BY <2>2
      <3>2. PICK i \in 1..n : x1[i] = x3[w]
        BY <1>2, <1>3 DEF Log!FileInv, Log!Written
      <3>3. n \in 1..n
        BY <3>2
      <3>4. n \in P
        BY <1>5, <3>1, <3>3
      <3>5. x1 = [j \in 1..n |-> x1[j]]
        <4>1. PICK S : x1 \in Seq(S)
          BY DEF Log!FileInv, Log!Numbered
        <4> QED BY <1>2, <4>1, LenProperties
      <3>6. x1' = [j \in 1..n |-> IF j = n THEN Log!Torn ELSE x1[j]]
        BY <2>2, <3>5
      <3> QED BY <3>4, <3>6
    <2> QED BY <1>1, <1>2, <2>1, <2>2
  <1>9. /\ DOMAIN x1' = 1..n
        /\ \A i \in 1..n : x1'[i] = x1[i] \/ (i \in P /\ x1'[i] = Log!Torn)
    BY <1>2, <1>8
  <1>10. \E S : x1' \in Seq(S)
    <2>1. PICK S : x1 \in Seq(S)
      BY DEF Log!FileInv, Log!Numbered
    <2>2. CASE x1' = x1
      BY <2>1, <2>2
    <2>3. CASE n \in P /\ x1' = [i \in 1..n |-> IF i = n THEN Log!Torn ELSE x1[i]]
      <3>1. \A i \in 1..n : x1[i] \in S
        BY <1>2, <2>1, ElementOfSeq
      <3>2. \A i \in 1..n : (IF i = n THEN Log!Torn ELSE x1[i]) \in S \cup {Log!Torn}
        BY <3>1
      <3>3. [i \in 1..n |-> IF i = n THEN Log!Torn ELSE x1[i]] \in Seq(S \cup {Log!Torn})
        BY <3>2, IsASeq
      <3> QED BY <2>3, <3>3
    <2> QED BY <1>8, <2>2, <2>3
  <1>11. \A i \in 1..n : Log!Whole(i)' => Log!Whole(i) /\ x1'[i] = x1[i]
    BY <1>9 DEF Log!Whole, Log!Torn, Log!Kinds
  <1>12. Log!Numbered'
    <2>1. ASSUME NEW i \in 1..n
          PROVE  \/ x1'[i] \in {Log!Newline, Log!Torn}
                 \/ Log!Whole(i)' /\ x1'[i].id \in Nat \ {0} /\ x1'[i].id < x5'
      <3>1. CASE x1'[i] = x1[i]
        <4>1. Log!Whole(i) => Log!Whole(i)'
          BY <3>1 DEF Log!Whole
        <4> QED BY <1>1, <1>2, <3>1, <4>1 DEF Log!FileInv, Log!Numbered
      <3> QED BY <1>9, <3>1
    <2>2. \A i, j \in 1..n : Log!Whole(i)' /\ Log!Whole(j)' /\ i < j => x1'[i].id < x1'[j].id
      BY <1>2, <1>11 DEF Log!FileInv, Log!Numbered
    <2>3. x5' \in Nat \ {0} /\ x7' \in Nat /\ x8' \in Nat
      BY <1>1, <1>4 DEF Log!FileInv, Log!Numbered
    <2> QED BY <1>9, <1>10, <2>1, <2>2, <2>3 DEF Log!Numbered
  <1>13. \A i \in P : x1[i] \notin x4 /\ i \notin Log!Dead /\ x1[i] # Log!Newline
    BY <1>3, <1>5, <1>6 DEF Log!FileInv, Log!Written, Log!Dead, Log!Pending, Log!Whole, Log!Newline, Log!Kinds
  <1>14. Log!Written'
    <2>1. ASSUME NEW v \in Log!Writers, x3'[v] # Log!NoRecord
          PROVE  x3'[v].kind \in Log!Kinds /\ \E i \in DOMAIN x1' : x1'[i] = x3'[v]
      <3>1. v \notin cut /\ x3'[v] = x3[v]
        BY <1>1, <2>1
      <3>2. PICK i \in 1..n : x1[i] = x3[v]
        BY <1>2, <2>1, <3>1 DEF Log!FileInv, Log!Written
      <3>3. i \notin P
        BY <1>3, <1>5, <2>1, <3>1, <3>2 DEF Log!FileInv, Log!Written
      <3> QED BY <1>9, <2>1, <3>1, <3>2, <3>3 DEF Log!FileInv, Log!Written
    <2>2. \A v \in Log!Writers : x3'[v] \notin x4'
      <3>1. Log!NoRecord \notin x4
        BY DEF Log!FileInv, Log!Written, Log!NoRecord, Log!Kinds
      <3> QED BY <1>1, <3>1 DEF Log!FileInv, Log!Written
    <2>3. \A u, v \in Log!Writers : x3'[u] = x3'[v] /\ x3'[u] # Log!NoRecord => u = v
      BY <1>1 DEF Log!FileInv, Log!Written
    <2>4. ASSUME NEW a \in x4' PROVE a.kind \in Log!Kinds /\ \E i \in DOMAIN x1' : x1'[i] = a
      <3>1. PICK i \in 1..n : x1[i] = a
        BY <1>1, <1>2, <2>4 DEF Log!FileInv, Log!Written
      <3>2. i \notin P
        BY <1>1, <1>13, <2>4, <3>1
      <3> QED BY <1>1, <1>9, <2>4, <3>1, <3>2 DEF Log!FileInv, Log!Written
    <2>5. ASSUME NEW i \in DOMAIN x1', x1'[i] \in x4' PROVE i + 1 \in DOMAIN x1'
      <3>1. Log!Torn \notin x4
        BY DEF Log!FileInv, Log!Written, Log!Torn, Log!Kinds
      <3> QED BY <1>1, <1>2, <1>9, <2>5, <3>1 DEF Log!FileInv, Log!Written
    <2> QED BY <1>1, <2>1, <2>2, <2>3, <2>4, <2>5 DEF Log!Written
  <1>15. ASSUME NEW i \in 1..n, i \notin P PROVE i \in Log!Dead' <=> i \in Log!Dead
    <2>1. x1[i] # Log!NoRecord /\ x1'[i] = x1[i]
      BY <1>2, <1>9, <1>15, Pieces
    <2>2. Log!Pending(i)' <=> Log!Pending(i)
      BY <1>1, <1>3, <1>5, <1>15, <2>1 DEF Log!Pending
    <2> QED BY <1>1, <1>2, <1>9, <2>1, <2>2 DEF Log!Dead
  <1>16. Log!Dead' \subseteq Log!Dead \cup P
    <2>1. Log!Dead' \subseteq 1..n
      BY <1>9 DEF Log!Dead
    <2> QED BY <1>15, <2>1
  <1>17. Log!Dead \subseteq Log!Dead'
    <2>1. Log!Dead \subseteq 1..n
      BY <1>2 DEF Log!Dead
    <2> QED BY <1>13, <1>15, <2>1
  <1>18. Log!Joined' \subseteq Log!Joined
    <2>1. \A i \in 1..n : x1'[i] # Log!Newline => x1[i] # Log!Newline
      BY <1>9, <1>13
    <2> QED BY <1>2, <1>9, <2>1 DEF Log!Joined
  <1>19. Log!Costs'
    <2>1. /\ IsFiniteSet(Log!Dead \cup P)
          /\ Cardinality(Log!Dead \cup P) <= Cardinality(Log!Dead) + Cardinality(P)
          /\ Cardinality(Log!Dead \cup P) \in Nat
      <3>1. IsFiniteSet(Log!Dead) /\ Cardinality(Log!Dead) \in Nat /\ IsFiniteSet(P) /\ Cardinality(P) \in Nat
        BY <1>7, Countable
      <3>2. /\ IsFiniteSet(Log!Dead \cup P)
            /\ Cardinality(Log!Dead \cup P) = Cardinality(Log!Dead) + Cardinality(P) - Cardinality(Log!Dead \cap P)
        BY <3>1, FS_Union
      <3>3. Cardinality(Log!Dead \cap P) \in Nat
        BY <3>1, FS_Intersection, FS_CardinalityType
      <3> QED BY <3>1, <3>2, <3>3, FS_CardinalityType
    <2>2. Cardinality(Log!Dead') <= Cardinality(Log!Dead \cup P) /\ Cardinality(Log!Dead') \in Nat
      BY <1>16, <2>1, FS_Subset, FS_CardinalityType
    <2>3. x7 \in Nat /\ x8 \in Nat
      BY DEF Log!FileInv, Log!Numbered
    <2>4. Cardinality(Log!Dead') <= x7'
      BY <1>1, <1>4, <1>7, <2>1, <2>2, <2>3, Countable
    <2>5. (Log!Joined \ Log!Dead)' \subseteq Log!Joined \ Log!Dead
      BY <1>17, <1>18
    <2>6. Cardinality((Log!Joined \ Log!Dead)') <= Cardinality(Log!Joined \ Log!Dead)
          /\ Cardinality((Log!Joined \ Log!Dead)') \in Nat
      BY <2>5, Countable, FS_Subset, FS_CardinalityType
    <2>7. Cardinality((Log!Joined \ Log!Dead)') <= x8'
      BY <1>1, <2>3, <2>6, Countable
    <2> QED BY <2>4, <2>7, LogSize DEF Log!Costs
  <1> QED BY <1>12, <1>14, <1>19 DEF Log!FileInv

(* Who has the file open says nothing of what is in it.                      *)
LEMMA FileSame ==
    ASSUME Log!FileInv, UNCHANGED <<x1, x3, x4, x5, x7, x8>>
    PROVE  Log!FileInv'
  <1>1. \A i : (Log!Whole(i)' <=> Log!Whole(i)) /\ (Log!Pending(i)' <=> Log!Pending(i))
    BY DEF Log!Whole, Log!Pending
  <1>2. Log!Dead' = Log!Dead /\ Log!Joined' = Log!Joined
    BY <1>1 DEF Log!Dead, Log!Joined
  <1>3. Log!Numbered'
    BY <1>1 DEF Log!FileInv, Log!Numbered
  <1>4. Log!Written'
    BY DEF Log!FileInv, Log!Written
  <1>5. Log!Costs'
    BY <1>2, CostsKept
  <1> QED BY <1>3, <1>4, <1>5 DEF Log!FileInv

(* A new file.                                                               *)
LEMMA FileStarts == ASSUME Log!Init PROVE Log!FileInv
  <1>1. /\ x1 = <<>> /\ x3 = [w \in Log!Writers |-> Log!NoRecord] /\ x4 = {}
        /\ x5 = 1 /\ x7 = 0 /\ x8 = 0
    BY DEF Log!Init
  <1>2. <<>> \in Seq({}) /\ DOMAIN <<>> = {}
    OBVIOUS
  <1>3. DOMAIN x1 = {} /\ \E S : x1 \in Seq(S)
    BY <1>1, <1>2
  <1>4. Log!Numbered
    BY <1>1, <1>3 DEF Log!Numbered
  <1>5. Log!Written
    BY <1>1, <1>3 DEF Log!Written
  <1>6. Log!Dead = {} /\ Log!Joined \ Log!Dead = {}
    BY <1>3 DEF Log!Dead, Log!Joined
  <1>7. Log!Costs
    BY <1>1, <1>6, FS_EmptySet, LogSize DEF Log!Costs
  <1> QED BY <1>4, <1>5, <1>7 DEF Log!FileInv

(* Every step keeps the invariant.                                           *)
LEMMA FileStep == ASSUME Log!FileInv, [Log!Next]_(Log!vars) PROVE Log!FileInv'
  <1>1. ASSUME NEW r \in Runs, Log!Record(r) \/ Log!PanicHook(r) \/ Log!RecordEnd(r) PROVE Log!FileInv'
    <2>1. <<r, "engine">> \in Log!Writers /\ <<r, "hook">> \in Log!Writers
      BY DEF Log!Writers
    <2>2. {"event", "end", "abnormal"} = Log!Kinds
      BY DEF Log!Kinds
    <2> QED BY <1>1, <2>1, <2>2, LineWritten DEF Log!Record, Log!PanicHook, Log!RecordEnd
  <1>2. CASE UNCHANGED Log!vars
    BY <1>2, FileSame DEF Log!vars
  <1>3. ASSUME NEW r \in Runs, NEW offered \in BOOLEAN, Log!Open(r, offered) PROVE Log!FileInv'
    BY <1>3, FileSame DEF Log!Open
  <1> QED BY <1>1, <1>2, <1>3, NewlineWritten, Killed DEF Log!Next

(* A record none of whose neighbours shares its line is read back.           *)
LEMMA AloneIsRead ==
    ASSUME Log!FileInv, NEW i \in DOMAIN x1, Log!Whole(i), i \notin Log!Joined, i - 1 \notin Log!Joined
    PROVE  i \in Log!Records
  <1>1. PICK n \in Nat : n = Len(x1) /\ DOMAIN x1 = 1..n
    BY Pieces
  <1>2. x1[i] # Log!Newline
    BY DEF Log!Whole, Log!Newline, Log!Kinds
  <1>3. Log!StartsLine(i)
    <2>1. CASE i = 1
      BY <2>1 DEF Log!StartsLine
    <2>2. CASE i # 1
      <3>1. i - 1 \in 1..n /\ (i - 1) + 1 = i
        BY <1>1, <2>2
      <3>2. x1[i - 1] = Log!Newline
        BY <1>1, <1>2, <3>1 DEF Log!Joined
      <3> QED BY <3>2 DEF Log!StartsLine
    <2> QED BY <2>1, <2>2
  <1>4. Log!EndsLine(i)
    <2>1. CASE i = n
      BY <1>1, <2>1 DEF Log!EndsLine
    <2>2. CASE i # n
      <3>1. i + 1 \in 1..n
        BY <1>1, <2>2
      <3> QED BY <1>1, <1>2, <3>1 DEF Log!Joined, Log!EndsLine
    <2> QED BY <2>1, <2>2
  <1> QED BY <1>3, <1>4 DEF Log!Records, Log!Readable, Log!Whole

(* What is lost is paid for.                                                 *)
LEMMA LossPaid == ASSUME Log!FileInv PROVE Log!LossIsBounded
  <1> DEFINE Lost == {a \in x4 : ~\E i \in Log!Records : x1[i] = a}
             Live == Log!Joined \ Log!Dead
             After == [i \in Log!Dead |-> i + 1]
             AfterLive == [i \in Live |-> i + 1]
             Right == {i + 1 : i \in Log!Dead}
             RightLive == {i + 1 : i \in Live}
             All == (Live \cup RightLive) \cup Right
  <1>1. PICK n \in Nat : n = Len(x1) /\ DOMAIN x1 = 1..n
    BY Pieces
  <1>2. /\ IsFiniteSet(Log!Dead) /\ Cardinality(Log!Dead) \in Nat /\ Cardinality(Log!Dead) <= x7
        /\ IsFiniteSet(Live) /\ Cardinality(Live) \in Nat /\ Cardinality(Live) <= x8
        /\ x7 \in Nat /\ x8 \in Nat
    BY Countable DEF Log!FileInv, Log!Numbered
  <1>3. IsFiniteSet(Right) /\ Cardinality(Right) <= Cardinality(Log!Dead) /\ Cardinality(Right) \in Nat
    <2>1. After \in Surjection(Log!Dead, Right)
      BY DEF Surjection
    <2> HIDE DEF After, Right
    <2>2. IsFiniteSet(Right) /\ Cardinality(Right) <= Cardinality(Log!Dead)
      BY <1>2, <2>1, FS_Surjection
    <2> QED BY <2>2, FS_CardinalityType
  <1>4. /\ IsFiniteSet(RightLive) /\ Cardinality(RightLive) <= Cardinality(Live)
        /\ Cardinality(RightLive) \in Nat
    <2>1. AfterLive \in Surjection(Live, RightLive)
      BY DEF Surjection
    <2> HIDE DEF AfterLive, RightLive, Live
    <2>2. IsFiniteSet(RightLive) /\ Cardinality(RightLive) <= Cardinality(Live)
      BY <1>2, <2>1, FS_Surjection
    <2> QED BY <2>2, FS_CardinalityType
  <1>5. /\ IsFiniteSet(All) /\ Cardinality(All) \in Nat
        /\ Cardinality(All) <= x7 + 2 * x8
    <2> HIDE DEF Live, RightLive, Right
    <2>1. /\ IsFiniteSet(Live \cup RightLive) /\ Cardinality(Live \cup RightLive) \in Nat
          /\ Cardinality(Live \cup RightLive) <= Cardinality(Live) + Cardinality(RightLive)
      <3>1. Cardinality(Live \cap RightLive) \in Nat
        BY <1>2, FS_Intersection, FS_CardinalityType
      <3>2. /\ IsFiniteSet(Live \cup RightLive)
            /\ Cardinality(Live \cup RightLive) =
                  Cardinality(Live) + Cardinality(RightLive) - Cardinality(Live \cap RightLive)
        BY <1>2, <1>4, FS_Union
      <3>3. Cardinality(Live \cup RightLive) \in Nat
        BY <3>2, FS_CardinalityType
      <3> QED BY <1>2, <1>4, <3>1, <3>2, <3>3
    <2>2. /\ IsFiniteSet(All) /\ Cardinality(All) \in Nat
          /\ Cardinality(All) <= Cardinality(Live \cup RightLive) + Cardinality(Right)
      <3>1. Cardinality((Live \cup RightLive) \cap Right) \in Nat
        BY <2>1, FS_Intersection, FS_CardinalityType
      <3>2. /\ IsFiniteSet((Live \cup RightLive) \cup Right)
            /\ Cardinality((Live \cup RightLive) \cup Right) =
                  Cardinality(Live \cup RightLive) + Cardinality(Right) - Cardinality((Live \cup RightLive) \cap Right)
        BY <1>3, <2>1, FS_Union
      <3>3. Cardinality((Live \cup RightLive) \cup Right) \in Nat
        BY <3>2, FS_CardinalityType
      <3> QED BY <1>3, <2>1, <3>1, <3>2, <3>3
    <2> HIDE DEF All
    <2> QED BY <1>2, <1>3, <1>4, <2>1, <2>2
  <1>6. ASSUME NEW a \in Lost PROVE \E i \in All : x1[i] = a
    <2>1. PICK i \in 1..n : x1[i] = a
      BY <1>1 DEF Log!FileInv, Log!Written
    <2>2. Log!Whole(i) /\ i \notin Log!Records /\ i \notin Log!Dead
      BY <2>1 DEF Log!FileInv, Log!Written, Log!Whole, Log!Dead
    <2>3. i \in Log!Joined \/ i - 1 \in Log!Joined
      BY <1>1, <2>2, AloneIsRead
    <2>4. CASE i \in Log!Joined
      BY <2>1, <2>2, <2>4
    <2>5. CASE i - 1 \in Log!Joined
      <3>1. i = (i - 1) + 1
        OBVIOUS
      <3>2. i \in RightLive \/ i \in Right
        BY <2>5, <3>1
      <3> QED BY <2>1, <3>2
    <2> QED BY <2>3, <2>4, <2>5
  <1>7. IsFiniteSet(Lost) /\ Cardinality(Lost) <= Cardinality(All)
    <2> DEFINE Of == {i \in All : x1[i] \in Lost}
               at == [i \in Of |-> x1[i]]
    <2>1. at \in Surjection(Of, Lost)
      BY <1>6 DEF Surjection
    <2> HIDE DEF All, Lost
    <2>2. IsFiniteSet(Of) /\ Cardinality(Of) <= Cardinality(All) /\ Cardinality(Of) \in Nat
      BY <1>5, FS_Subset, FS_CardinalityType
    <2> HIDE DEF Of, at
    <2>3. IsFiniteSet(Lost) /\ Cardinality(Lost) <= Cardinality(Of)
      BY <2>1, <2>2, FS_Surjection
    <2>4. Cardinality(Lost) \in Nat
      BY <2>3, FS_CardinalityType
    <2> QED BY <1>5, <2>2, <2>3, <2>4
  <1>8. Cardinality(Lost) \in Nat
    BY <1>7, FS_CardinalityType
  <1>9. Cardinality(Lost) <= x7 + 2 * x8
    <2> HIDE DEF Lost, All
    <2> QED BY <1>2, <1>5, <1>7, <1>8
  <1> QED BY <1>9, LogSize DEF Log!LossIsBounded

(* While nothing was cut short or overlapped every record is read back, in   *)
(* the order of the numbers.                                                 *)
LEMMA EndIsTold == ASSUME Log!FileInv PROVE Log!InterruptedTellsTrue
  <1>1. SUFFICES ASSUME x7 = 0, x8 = 0, \A w \in Log!Writers : x3[w] = Log!NoRecord
                 PROVE  Log!Interrupted <=> \E a \in x4 : a.kind # "end" /\ \A b \in x4 : b.id <= a.id
    BY DEF Log!InterruptedTellsTrue
  <1>2. PICK n \in Nat : n = Len(x1) /\ DOMAIN x1 = 1..n
    BY Pieces
  <1>3. Log!Dead = {} /\ Log!Joined = {}
    <2>1. Cardinality(Log!Dead) = 0 /\ Cardinality(Log!Joined \ Log!Dead) = 0
      BY <1>1, Countable
    <2>2. Log!Dead = {} /\ Log!Joined \ Log!Dead = {}
      BY <2>1, Countable, FS_EmptySet
    <2> QED BY <2>2
  <1>4. ASSUME NEW i \in 1..n, Log!Whole(i) PROVE x1[i] \in x4
    <2>1. x1[i] # Log!NoRecord /\ x1[i] # Log!Newline
      BY <1>2, <1>4, Pieces
    <2>2. ~Log!Pending(i)
      BY <1>1, <2>1 DEF Log!Pending
    <2> QED BY <1>2, <1>3, <2>1, <2>2 DEF Log!Dead
  <1>5. Log!Records = {i \in 1..n : Log!Whole(i)}
    <2>1. Log!Records \subseteq {i \in 1..n : Log!Whole(i)}
      BY <1>2 DEF Log!Records, Log!Readable, Log!Whole
    <2>2. \A i \in 1..n : Log!Whole(i) => i \in Log!Records
      BY <1>2, <1>3, AloneIsRead
    <2> QED BY <2>1, <2>2
  <1>6. \A a \in x4 : \E i \in Log!Records : x1[i] = a
    BY <1>2, <1>5 DEF Log!FileInv, Log!Written, Log!Whole
  <1>7. \A i \in Log!Records : i \in Nat /\ x1[i].id \in Nat
    BY <1>2, <1>5, Pieces DEF Log!FileInv, Log!Numbered
  <1>8. \A i, j \in Log!Records : i < j => x1[i].id < x1[j].id
    BY <1>2, <1>5 DEF Log!FileInv, Log!Numbered
  <1>9. ASSUME Log!Interrupted
        PROVE  \E a \in x4 : a.kind # "end" /\ \A b \in x4 : b.id <= a.id
    <2>1. PICK i \in Log!Records : (\A j \in Log!Records : j <= i) /\ x1[i].kind # "end"
      BY <1>9 DEF Log!Interrupted
    <2>2. ASSUME NEW b \in x4 PROVE b.id <= x1[i].id
      <3>1. PICK j \in Log!Records : x1[j] = b
        BY <1>6
      <3>2. j <= i /\ i \in Nat /\ j \in Nat /\ x1[i].id \in Nat /\ x1[j].id \in Nat
        BY <1>7, <2>1
      <3>3. CASE j = i
        BY <3>1, <3>2, <3>3
      <3>4. CASE j # i
        <4>1. x1[j].id < x1[i].id
          BY <1>8, <3>2, <3>4
        <4> QED BY <3>1, <3>2, <4>1
      <3> QED BY <3>3, <3>4
    <2>3. x1[i] \in x4
      BY <1>4, <1>5
    <2> QED BY <2>1, <2>2, <2>3
  <1>10. ASSUME NEW a \in x4, a.kind # "end", \A b \in x4 : b.id <= a.id
         PROVE  Log!Interrupted
    <2>1. PICK i \in Log!Records : x1[i] = a
      BY <1>6
    <2>2. ASSUME NEW j \in Log!Records PROVE j <= i
      <3>1. x1[j] \in x4
        BY <1>4, <1>5
      <3>2. x1[j].id <= x1[i].id
        BY <1>10, <2>1, <3>1
      <3>3. i \in Nat /\ j \in Nat /\ x1[i].id \in Nat /\ x1[j].id \in Nat
        BY <1>7
      <3>4. i < j => x1[i].id < x1[j].id
        BY <1>8
      <3> QED BY <3>2, <3>3, <3>4
    <2> QED BY <1>10, <2>1, <2>2 DEF Log!Interrupted
  <1> QED BY <1>9, <1>10

\* Whatever runs, panic hooks and kills do to a session's file, in any number
\* and in the middle of each other's appends: at most one acknowledged record
\* is lost for each append cut short and two for each that overlapped another,
\* and an undisturbed file reads as interrupted exactly when its last run did
\* not end (transcript.rs, resume.rs).
THEOREM RecordsCorrect == DiskSpec => []RecordsSurvive
  <1> DEFINE Inv == part = "session" => Log!FileInv
  <1>1. DiskInit => Inv
    BY FileStarts DEF DiskInit
  <1>2. Inv /\ [DiskNext]_stored => Inv'
    <2>1. SUFFICES ASSUME Inv, [DiskNext]_stored, part' = "session" PROVE Log!FileInv'
      OBVIOUS
    <2>2. CASE OfSession(Log!Next)
      BY <2>1, <2>2, FileStep DEF OfSession
    <2>3. CASE UNCHANGED stored
      BY <2>1, <2>3, FileSame DEF stored, others
    <2> QED BY <2>1, <2>2, <2>3 DEF DiskNext, OfLaunch, OfConfig, OfMemory, OfSkills
  <1>3. Inv => RecordsSurvive
    BY LossPaid, EndIsTold DEF RecordsSurvive
  <1> QED BY <1>1, <1>2, <1>3, PTL DEF DiskSpec
------------------------------------------------------------------------------
(* What a derivation depends on.                                             *)
LEMMA SameFolders ==
    ASSUME x1' = x1, x2' = x2
    PROVE  Catalog!Discovered' = Catalog!Discovered
  <1>1. \A scope : Catalog!Scan(scope)' = Catalog!Scan(scope)
    BY DEF Catalog!Scan
  <1>2. \A scope : Catalog!Read(scope)' = Catalog!Read(scope)
    BY <1>1 DEF Catalog!Read
  <1> QED BY <1>2 DEF Catalog!Discovered

(* Every step leaves the catalog one that a derivation gives, or says that   *)
(* the folders changed.                                                      *)
LEMMA CatalogStep ==
    ASSUME Catalog!CatalogInv, [Catalog!Next]_(Catalog!vars)
    PROVE  Catalog!CatalogInv'
  <1>1. CASE UNCHANGED <<x1, x2, x3, x5, x8>>
    <2>1. Catalog!Discovered' = Catalog!Discovered
      BY <1>1, SameFolders
    <2> QED BY <1>1, <2>1 DEF Catalog!CatalogInv
  <1>2. CASE Catalog!SwitchSession \/ Catalog!Reload
    <2>1. Catalog!Discovered' = Catalog!Discovered
      BY <1>2, SameFolders DEF Catalog!SwitchSession, Catalog!Reload
    <2> QED BY <1>2, <2>1 DEF Catalog!SwitchSession, Catalog!Reload, Catalog!Catalogs, Catalog!CatalogInv
  <1>3. CASE \E scope \in Catalog!Scopes, f \in SkillNames, to \in {"none", "broken"} \cup SkillNames :
                Catalog!EditFolder(scope, f, to)
    BY <1>3 DEF Catalog!EditFolder, Catalog!CatalogInv
  <1> QED BY <1>1, <1>2, <1>3 DEF Catalog!Next, Catalog!InvokeTool, Catalog!Inspect, Catalog!EditConfig, Catalog!vars

(* A catalog that a derivation gives names the scope an invocation reads.    *)
LEMMA DerivedTells ==
    ASSUME Catalog!CatalogInv
    PROVE  Catalog!CatalogTellsOrigin
  <1>1. SUFFICES ASSUME x8, x3,
                        \A f \in SkillNames, scope \in Catalog!Scopes : x1[scope][f] \in {"none", f},
                        NEW s \in x5, SkillSlug[s.name] = s.name
                 PROVE  Catalog!Invocation(s.name) = s
    BY DEF Catalog!CatalogTellsOrigin
  <1>2. PICK project : project = {t \in x5 : t.origin = "project"}
    OBVIOUS
  <1>3. /\ x5 \subseteq Catalog!Read("user") \cup Catalog!Read("project")
        /\ {t.name : t \in project} = {t.name : t \in Catalog!Read("project")}
        /\ x5 \ project = {t \in Catalog!Read("user") : \A u \in project : u.name # t.name}
    BY <1>1, <1>2 DEF Catalog!CatalogInv, Catalog!Discovered
  <1>4. PICK scope \in Catalog!Scopes, f \in SkillNames :
            /\ s = [name |-> x1[scope][f], origin |-> scope, folder |-> f]
            /\ x1[scope][f] \notin {"none", "broken"} /\ s \in Catalog!Read(scope)
            /\ scope = "project" => x2
    BY <1>1, <1>3 DEF Catalog!Read, Catalog!Scan, Catalog!Scopes
  <1>5. s = [name |-> f, origin |-> scope, folder |-> f] /\ x1[scope][f] = f /\ s.name = f
        /\ f \notin {"none", "broken"}
    BY <1>1, <1>4
  <1>6. Catalog!Resolve(f) = scope
    <2>1. CASE scope = "project"
      BY <1>4, <1>5, <2>1 DEF Catalog!Resolve, Catalog!HasSkill
    <2>2. CASE scope = "user"
      <3>1. \A u \in project : u.name # f
        BY <1>1, <1>2, <1>3, <1>5, <2>2
      <3>2. ASSUME Catalog!HasSkill("project", f) PROVE FALSE
        <4>1. x1["project"][f] = f /\ x2
          BY <1>1, <3>2 DEF Catalog!HasSkill, Catalog!Scopes
        <4>2. PICK t \in Catalog!Read("project") : t.name = f
          <5>1. [name |-> f, origin |-> "project", folder |-> f] \in Catalog!Read("project")
            BY <1>5, <4>1 DEF Catalog!Read, Catalog!Scan
          <5> QED BY <5>1
        <4>3. f \in {u.name : u \in project}
          BY <1>3, <4>2
        <4> QED BY <3>1, <4>3
      <3> QED BY <1>4, <1>5, <2>2, <3>2 DEF Catalog!Resolve, Catalog!HasSkill
    <2> QED BY <1>4, <2>1, <2>2 DEF Catalog!Scopes
  <1>7. scope # "none"
    BY <1>4 DEF Catalog!Scopes
  <1> QED BY <1>1, <1>5, <1>6, <1>7 DEF Catalog!Invocation

\* However the user edits folders and settings, whichever catalog a scan of a
\* scope in any order derives: while the folders are what they were, a skill
\* is read from where the catalog says (core/src/skills.rs discover, resolve).
THEOREM CatalogCorrect == DiskSpec => []CatalogTellsOrigin
  <1> DEFINE Inv == part = "skills" => Catalog!CatalogInv
  <1>1. DiskInit => Inv
    BY DEF DiskInit, Catalog!Init, Catalog!CatalogInv
  <1>2. Inv /\ [DiskNext]_stored => Inv'
    <2>1. SUFFICES ASSUME Inv, [DiskNext]_stored, part' = "skills" PROVE Catalog!CatalogInv'
      OBVIOUS
    <2>2. CASE OfSkills(Catalog!Next)
      BY <2>1, <2>2, CatalogStep DEF OfSkills
    <2>3. CASE UNCHANGED stored
      <3>1. UNCHANGED Catalog!vars
        BY <2>3 DEF stored, others, Catalog!vars
      <3> QED BY <2>1, <2>3, <3>1, CatalogStep DEF stored
    <2> QED BY <2>1, <2>2, <2>3 DEF DiskNext, OfLaunch, OfConfig, OfMemory, OfSession
  <1>3. Inv => CatalogTellsOrigin
    BY DerivedTells DEF CatalogTellsOrigin
  <1> QED BY <1>1, <1>2, <1>3, PTL DEF DiskSpec
------------------------------------------------------------------------------
(* A table over another.                                                     *)
LEMMA OverTakes ==
    ASSUME NEW f, NEW g
    PROVE  /\ \A x : x \in DOMAIN Conf!Over(f, g) <=> x \in DOMAIN f \/ x \in DOMAIN g
           /\ \A x : x \in DOMAIN f => Conf!Over(f, g)[x] = f[x]
           /\ \A x : x \notin DOMAIN f /\ x \in DOMAIN g => Conf!Over(f, g)[x] = g[x]
  BY DEF Conf!Over

(* The options two files together hold.                                      *)
LEMMA OverlayOptions ==
    ASSUME NEW lower, NEW higher
    PROVE  Conf!Overlay(lower, higher).options =
              Conf!Over(Conf!Restrict(higher.options, DOMAIN higher.options \cap Conf!MergedOptions), lower.options)
  <1>1. PICK s : s = Conf!Over(Conf!Restrict(higher.options, DOMAIN higher.options \cap Conf!MergedOptions), lower.options)
    OBVIOUS
  <1>2. PICK t : t = [n \in DOMAIN lower.profiles \cup DOMAIN higher.profiles |->
                          Conf!Over(Conf!FieldsOf(higher.profiles, n), Conf!FieldsOf(lower.profiles, n))]
    OBVIOUS
  <1>3. Conf!Overlay(lower, higher) = [options |-> s, profiles |-> t]
    BY <1>1, <1>2 DEF Conf!Overlay
  <1> QED BY <1>1, <1>3

(* The profiles two files together hold.                                     *)
LEMMA OverlayProfiles ==
    ASSUME NEW lower, NEW higher
    PROVE  Conf!Overlay(lower, higher).profiles =
              [n \in DOMAIN lower.profiles \cup DOMAIN higher.profiles |->
                  Conf!Over(Conf!FieldsOf(higher.profiles, n), Conf!FieldsOf(lower.profiles, n))]
  BY DEF Conf!Overlay

(* What all the tiers together hold.                                         *)
LEMMA ResolvedParts ==
    ASSUME NEW files
    PROVE  /\ Conf!Resolved(files).options =
                 Conf!Over(x1, Conf!Over(x2, Conf!Overlay(Conf!Overlay(Conf!Builtin, files.global), files.project).options))
           /\ Conf!Resolved(files).profiles = Conf!Overlay(Conf!Overlay(Conf!Builtin, files.global), files.project).profiles
  <1>1. PICK o, p : Conf!Overlay(Conf!Overlay(Conf!Builtin, files.global), files.project) = [options |-> o, profiles |-> p]
    BY DEF Conf!Overlay
  <1>2. Conf!Resolved(files) = [options |-> Conf!Over(x1, Conf!Over(x2, o)), profiles |-> p]
    BY <1>1 DEF Conf!Resolved, Conf!Selected
  <1> QED BY <1>1, <1>2

(* The chain of tests names the tier the value came from.                    *)
LEMMA WinnerNamed == Conf!ProvenanceNamesWinner
  <1> DEFINE options == Conf!Resolved(x3).options
             tiers == [cli |-> x1, env |-> x2,
                       project |-> x3.project.options, global |-> x3.global.options]
  <1>1. PICK project, global, merged :
            /\ project = x3.project.options /\ global = x3.global.options
            /\ merged = Conf!Over(Conf!Restrict(project, DOMAIN project \cap Conf!MergedOptions),
                                  Conf!Over(Conf!Restrict(global, DOMAIN global \cap Conf!MergedOptions), <<>>))
    OBVIOUS
  <1>2. options = Conf!Over(x1, Conf!Over(x2, merged))
    <2>1. Conf!Builtin.options = <<>>
      BY DEF Conf!Builtin, Conf!Nothing
    <2>2. PICK inner : inner = Conf!Overlay(Conf!Builtin, x3.global)
      OBVIOUS
    <2>3. inner.options = Conf!Over(Conf!Restrict(global, DOMAIN global \cap Conf!MergedOptions), <<>>)
      BY <1>1, <2>1, <2>2, OverlayOptions
    <2>4. Conf!Overlay(inner, x3.project).options =
              Conf!Over(Conf!Restrict(project, DOMAIN project \cap Conf!MergedOptions), inner.options)
      BY <1>1, OverlayOptions
    <2>5. Conf!Resolved(x3).options = Conf!Over(x1, Conf!Over(x2, Conf!Overlay(inner, x3.project).options))
      BY <2>2, ResolvedParts
    <2> QED BY <1>1, <2>3, <2>4, <2>5
  <1>3. SUFFICES ASSUME NEW o \in Conf!RecordedOptions
                 PROVE  IF o \in DOMAIN Conf!Provenance
                        THEN Conf!Get(options, o) = Conf!Get(tiers[Conf!Provenance[o]], o)
                        ELSE Conf!Get(options, o) = "default"
    BY DEF Conf!ProvenanceNamesWinner
  <1>4. o \in Conf!MergedOptions
    BY DEF Conf!RecordedOptions, Conf!MergedOptions, Conf!Options
  <1>5. /\ o \in DOMAIN merged <=> o \in DOMAIN project \/ o \in DOMAIN global
        /\ o \in DOMAIN project => merged[o] = project[o]
        /\ o \notin DOMAIN project /\ o \in DOMAIN global => merged[o] = global[o]
    <2>1. PICK p : p = Conf!Restrict(project, DOMAIN project \cap Conf!MergedOptions)
      OBVIOUS
    <2>2. PICK g : g = Conf!Restrict(global, DOMAIN global \cap Conf!MergedOptions)
      OBVIOUS
    <2>3. /\ DOMAIN p = DOMAIN project \cap Conf!MergedOptions
          /\ \A x \in DOMAIN p : p[x] = project[x]
          /\ DOMAIN g = DOMAIN global \cap Conf!MergedOptions
          /\ \A x \in DOMAIN g : g[x] = global[x]
      BY <2>1, <2>2 DEF Conf!Restrict
    <2>4. DOMAIN <<>> = {}
      OBVIOUS
    <2>5. merged = Conf!Over(p, Conf!Over(g, <<>>))
      BY <1>1, <2>1, <2>2
    <2>6. PICK rest : rest = Conf!Over(g, <<>>)
      OBVIOUS
    <2>7. /\ \A x : x \in DOMAIN rest <=> x \in DOMAIN g
          /\ \A x : x \in DOMAIN g => rest[x] = g[x]
      BY <2>4, <2>6, OverTakes
    <2>8. /\ \A x : x \in DOMAIN merged <=> x \in DOMAIN p \/ x \in DOMAIN rest
          /\ \A x : x \in DOMAIN p => merged[x] = p[x]
          /\ \A x : x \notin DOMAIN p /\ x \in DOMAIN rest => merged[x] = rest[x]
      BY <2>5, <2>6, OverTakes
    <2> QED BY <1>4, <2>3, <2>7, <2>8
  <1>6. /\ o \in DOMAIN options <=> o \in DOMAIN x1 \/ o \in DOMAIN x2 \/ o \in DOMAIN merged
        /\ o \in DOMAIN x1 => options[o] = x1[o]
        /\ o \notin DOMAIN x1 /\ o \in DOMAIN x2 => options[o] = x2[o]
        /\ o \notin DOMAIN x1 /\ o \notin DOMAIN x2 /\ o \in DOMAIN merged => options[o] = merged[o]
    <2>1. PICK below : below = Conf!Over(x2, merged)
      OBVIOUS
    <2>2. /\ \A x : x \in DOMAIN below <=> x \in DOMAIN x2 \/ x \in DOMAIN merged
          /\ \A x : x \in DOMAIN x2 => below[x] = x2[x]
          /\ \A x : x \notin DOMAIN x2 /\ x \in DOMAIN merged => below[x] = merged[x]
      BY <2>1, OverTakes
    <2>3. options = Conf!Over(x1, below)
      BY <1>2, <2>1
    <2> QED BY <2>2, <2>3, OverTakes
  <1>7. /\ o \in DOMAIN Conf!Provenance <=> Conf!SourceOf(o) # "default"
        /\ o \in DOMAIN Conf!Provenance => Conf!Provenance[o] = Conf!SourceOf(o)
    BY DEF Conf!Provenance
  <1>8. /\ tiers["cli"] = x1 /\ tiers["env"] = x2
        /\ tiers["project"] = project /\ tiers["global"] = global
    BY <1>1
  <1>9. Conf!SourceOf(o) = IF o \in DOMAIN x1 THEN "cli"
                           ELSE IF o \in DOMAIN x2 THEN "env"
                           ELSE IF o \in DOMAIN project THEN "project"
                           ELSE IF o \in DOMAIN global THEN "global"
                           ELSE "default"
    BY <1>1 DEF Conf!SourceOf
  <1> HIDE DEF options, tiers
  <1>10. CASE o \in DOMAIN x1
    BY <1>6, <1>7, <1>8, <1>9, <1>10 DEF Conf!Get
  <1>11. CASE o \notin DOMAIN x1 /\ o \in DOMAIN x2
    BY <1>6, <1>7, <1>8, <1>9, <1>11 DEF Conf!Get
  <1>12. CASE o \notin DOMAIN x1 /\ o \notin DOMAIN x2 /\ o \in DOMAIN project
    BY <1>5, <1>6, <1>7, <1>8, <1>9, <1>12 DEF Conf!Get
  <1>13. CASE o \notin DOMAIN x1 /\ o \notin DOMAIN x2 /\ o \notin DOMAIN project /\ o \in DOMAIN global
    BY <1>5, <1>6, <1>7, <1>8, <1>9, <1>13 DEF Conf!Get
  <1>14. CASE o \notin DOMAIN x1 /\ o \notin DOMAIN x2 /\ o \notin DOMAIN project /\ o \notin DOMAIN global
    BY <1>5, <1>6, <1>7, <1>9, <1>14 DEF Conf!Get
  <1> QED BY <1>10, <1>11, <1>12, <1>13, <1>14

(* The profiles of the tiers.                                                *)
LEMMA ResolvedProfiles ==
    ASSUME NEW files
    PROVE  Conf!Resolved(files).profiles =
              [n \in DOMAIN Conf!Overlay(Conf!Builtin, files.global).profiles \cup DOMAIN files.project.profiles |->
                  Conf!Over(Conf!FieldsOf(files.project.profiles, n),
                            Conf!FieldsOf(Conf!Overlay(Conf!Builtin, files.global).profiles, n))]
  <1>1. PICK inner : inner = Conf!Overlay(Conf!Builtin, files.global)
    OBVIOUS
  <1>2. Conf!Resolved(files).profiles = Conf!Overlay(inner, files.project).profiles
    BY <1>1, ResolvedParts
  <1>3. Conf!Resolved(files).profiles =
          [n \in DOMAIN inner.profiles \cup DOMAIN files.project.profiles |->
              Conf!Over(Conf!FieldsOf(files.project.profiles, n), Conf!FieldsOf(inner.profiles, n))]
    BY <1>2, OverlayProfiles
  <1> QED BY <1>1, <1>3

(* The write of the wizard: a new profile, and its key, beside the others.   *)
LEMMA ProfileWritten ==
    ASSUME Conf!Tables, NEW url, Conf!WizardWrite(url)
    PROVE  /\ Conf!Tables' /\ Conf!WizardProfileUsable'
           /\ DOMAIN Conf!Resolved(x3).profiles \subseteq DOMAIN Conf!Resolved(x3').profiles
           /\ \A n \in DOMAIN Conf!Resolved(x3).profiles :
                 Conf!Resolved(x3').profiles[n] = Conf!Resolved(x3).profiles[n]
           /\ Conf!Usable \subseteq Conf!Usable'
  <1>1. CASE ~(Conf!Loads(x3) /\ Conf!Free(x7))
    <2>1. x3' = x3 /\ x4' = x4 /\ x8'.what = "error" /\ x1' = x1 /\ x2' = x2
      <3>1. x3' = x3 /\ x4' = x4 /\ x1' = x1 /\ x2' = x2
        BY <1>1 DEF Conf!WizardWrite, Conf!Launched
      <3>2. x8' = [what |-> "error", about |-> {}]
        BY <1>1 DEF Conf!WizardWrite, Conf!Say
      <3> QED BY <3>1, <3>2
    <2>2. Conf!Tables' /\ Conf!WizardProfileUsable'
      BY <2>1 DEF Conf!Tables, Conf!Table, Conf!WizardProfileUsable
    <2>3. \A files : Conf!Resolved(files)' = Conf!Resolved(files)
      BY <2>1 DEF Conf!Resolved, Conf!Selected
    <2>4. Conf!Usable' = Conf!Usable
      BY <2>1, <2>3 DEF Conf!Usable, Conf!Builds, Conf!KeyResolves
    <2> QED BY <2>1, <2>2, <2>3, <2>4
  <1>2. CASE Conf!Loads(x3) /\ Conf!Free(x7)
    <2>1. PICK new : new = Conf!Written(x7, url)
      OBVIOUS
    <2>2. {"adapter", "key"} \subseteq DOMAIN new /\ new["key"] = x7
      <3>1. PICK t : t = [adapter |-> "openai", key |-> x7]
        OBVIOUS
      <3>2. DOMAIN t = {"adapter", "key"} /\ t["key"] = x7
        BY <3>1
      <3>3. PICK rest : rest = Conf!Endpoint(url)
        OBVIOUS
      <3>4. new = Conf!Over(t, rest)
        BY <2>1, <3>1, <3>3 DEF Conf!Written
      <3> QED BY <3>2, <3>4, OverTakes
    <2>3. PICK o, b, project : x3["project"] = [broken |-> b, options |-> o, profiles |-> project]
      BY DEF Conf!Tables, Conf!Table
    <2>4. PICK table : table = Conf!Over(Conf!Single(x7, new), project)
      OBVIOUS
    <2>5. /\ DOMAIN table = DOMAIN project \cup {x7}
          /\ table[x7] = new
          /\ \A n \in DOMAIN project : n # x7 => table[n] = project[n]
      <3>1. PICK one : one = Conf!Single(x7, new)
        OBVIOUS
      <3>2. DOMAIN one = {x7} /\ one[x7] = new
        BY <3>1 DEF Conf!Single
      <3>3. table = Conf!Over(one, project)
        BY <2>4, <3>1
      <3>4. \A x : x \in DOMAIN table <=> x = x7 \/ x \in DOMAIN project
        BY <3>2, <3>3, OverTakes
      <3>5. table[x7] = new /\ \A n \in DOMAIN project : n # x7 => table[n] = project[n]
        BY <3>2, <3>3, OverTakes
      <3> QED BY <3>4, <3>5
    <2>6. /\ x3' = [x3 EXCEPT !.project.profiles = table]
          /\ x1' = x1 /\ x2' = x2
      <3>1. x3' = [x3 EXCEPT !.project.profiles = Conf!Over(Conf!Single(x7, Conf!Written(x7, url)), @)]
        BY <1>2 DEF Conf!WizardWrite
      <3>2. x3.project.profiles = project
        BY <2>3
      <3>3. x3' = [x3 EXCEPT !.project.profiles = Conf!Over(Conf!Single(x7, new), project)]
        BY <2>1, <3>1, <3>2
      <3>4. x1' = x1 /\ x2' = x2
        BY DEF Conf!WizardWrite, Conf!Launched
      <3> QED BY <2>4, <3>3, <3>4
    <2>7. x3'["project"] = [broken |-> b, options |-> o, profiles |-> table]
          /\ x3'["global"] = x3["global"]
          /\ x3' = [tier \in {"global", "project"} |-> x3'[tier]]
      BY <2>3, <2>6 DEF Conf!Tables
    <2>8. /\ x4' = [readable |-> x4'.readable, refs |-> x4'.refs]
          /\ x4'.readable = x4.readable /\ x4.refs \subseteq x4'.refs
          /\ x8'.what = "wrote" => x8'.about = {x7} /\ x4'.readable /\ x7 \in x4'.refs
      <3>1. PICK readable, refs : x4 = [readable |-> readable, refs |-> refs]
        BY DEF Conf!Tables
      <3>2. CASE x4.readable
        <4>1. x4' = [x4 EXCEPT !.refs = @ \cup {x7}] /\ x8' = [what |-> "wrote", about |-> {x7}]
          BY <1>2, <3>2 DEF Conf!WizardWrite, Conf!Say
        <4>2. x4' = [readable |-> readable, refs |-> refs \cup {x7}]
          BY <3>1, <4>1
        <4> QED BY <3>1, <3>2, <4>1, <4>2
      <3>3. CASE ~x4.readable
        <4>1. x4' = x4 /\ x8' = [what |-> "error", about |-> {}]
          BY <1>2, <3>3 DEF Conf!WizardWrite, Conf!Say
        <4>2. x8'.what # "wrote"
          BY <4>1
        <4> QED BY <3>1, <4>1, <4>2
      <3> QED BY <3>2, <3>3
    <2>9. Conf!Tables'
      BY <2>7, <2>8 DEF Conf!Tables, Conf!Table
    <2>10. PICK lower : lower = Conf!Overlay(Conf!Builtin, x3["global"]).profiles
      OBVIOUS
    <2>11. PICK before : /\ before = Conf!Resolved(x3).profiles
                         /\ before = [n \in DOMAIN lower \cup DOMAIN project |->
                                         Conf!Over(Conf!FieldsOf(project, n), Conf!FieldsOf(lower, n))]
      <3>1. x3.project.profiles = project /\ x3.global = x3["global"]
        BY <2>3
      <3>2. Conf!Resolved(x3).profiles =
              [n \in DOMAIN Conf!Overlay(Conf!Builtin, x3.global).profiles \cup DOMAIN x3.project.profiles |->
                  Conf!Over(Conf!FieldsOf(x3.project.profiles, n),
                            Conf!FieldsOf(Conf!Overlay(Conf!Builtin, x3.global).profiles, n))]
        BY ResolvedProfiles
      <3>3. Conf!Resolved(x3).profiles = [n \in DOMAIN lower \cup DOMAIN project |->
                                            Conf!Over(Conf!FieldsOf(project, n), Conf!FieldsOf(lower, n))]
        BY <2>10, <3>1, <3>2
      <3> QED BY <3>3
    <2>12. PICK after : /\ after = Conf!Resolved(x3').profiles /\ after = Conf!Resolved(x3)'.profiles
                        /\ after = [n \in DOMAIN lower \cup DOMAIN table |->
                                       Conf!Over(Conf!FieldsOf(table, n), Conf!FieldsOf(lower, n))]
      <3>2. PICK changed : changed = x3'
        OBVIOUS
      <3>3. changed.project.profiles = table /\ changed.global = x3.global
        BY <2>7, <3>2
      <3>4. Conf!Resolved(changed).profiles =
              [n \in DOMAIN Conf!Overlay(Conf!Builtin, changed.global).profiles \cup DOMAIN changed.project.profiles |->
                  Conf!Over(Conf!FieldsOf(changed.project.profiles, n),
                            Conf!FieldsOf(Conf!Overlay(Conf!Builtin, changed.global).profiles, n))]
        BY ResolvedProfiles
      <3>5. Conf!Resolved(changed).profiles = [n \in DOMAIN lower \cup DOMAIN table |->
                                            Conf!Over(Conf!FieldsOf(table, n), Conf!FieldsOf(lower, n))]
        BY <2>10, <3>3, <3>4
      <3>6. Conf!Resolved(x3)' = Conf!Resolved(changed) /\ Conf!Resolved(x3') = Conf!Resolved(changed)
        BY <2>6, <3>2 DEF Conf!Resolved, Conf!Selected
      <3> QED BY <3>5, <3>6
    <2>13. x7 \notin DOMAIN before
      BY <1>2, <2>11 DEF Conf!Free
    <2>14. DOMAIN before \subseteq DOMAIN after
      BY <2>5, <2>11, <2>12
    <2>15. \A n \in DOMAIN before : after[n] = before[n]
      <3>1. ASSUME NEW n \in DOMAIN before PROVE after[n] = before[n]
        <4>1. n # x7
          BY <2>13
        <4>2. Conf!FieldsOf(table, n) = Conf!FieldsOf(project, n)
          BY <2>5, <4>1 DEF Conf!FieldsOf
        <4> QED BY <2>11, <2>12, <2>14, <4>2
      <3> QED BY <3>1
    <2>16. \A ref : Conf!KeyResolves(ref) => Conf!KeyResolves(ref)'
      BY <2>8 DEF Conf!KeyResolves
    <2>17. Conf!Usable = {n \in DOMAIN before : Conf!Builds(before, n)}
           /\ Conf!Usable' = {n \in DOMAIN after : Conf!Builds(after, n)'}
      BY <2>11, <2>12 DEF Conf!Usable
    <2>18. Conf!Usable \subseteq Conf!Usable'
      BY <2>14, <2>15, <2>16, <2>17 DEF Conf!Builds
    <2>19. Conf!WizardProfileUsable'
      <3>1. PICK name : name = x7
        OBVIOUS
      <3>2. SUFFICES ASSUME x8'.what = "wrote" PROVE name \in Conf!Usable'
        BY <2>8, <3>1 DEF Conf!WizardProfileUsable
      <3>3. name \in DOMAIN after /\ Conf!FieldsOf(table, name) = new
        BY <2>5, <2>12, <3>1 DEF Conf!FieldsOf
      <3>4. PICK below : below = Conf!FieldsOf(lower, name)
        OBVIOUS
      <3>5. after[name] = Conf!Over(new, below)
        BY <2>12, <3>3, <3>4
      <3>6. "adapter" \in DOMAIN after[name] /\ after[name]["key"] = name
        BY <2>2, <3>1, <3>5, OverTakes
      <3>7. Conf!KeyResolves(name)'
        BY <2>8, <3>1, <3>2 DEF Conf!KeyResolves
      <3>8. Conf!Builds(after, name)'
        BY <3>3, <3>6, <3>7 DEF Conf!Builds
      <3> QED BY <2>17, <3>3, <3>8
    <2> QED BY <2>9, <2>11, <2>12, <2>14, <2>15, <2>18, <2>19
  <1> QED BY <1>1, <1>2

(* A step that leaves the tiers and the keys leaves what can be used.        *)
LEMMA UsableSame ==
    ASSUME x3' = x3, x4' = x4, x1' = x1, x2' = x2
    PROVE  /\ Conf!Usable' = Conf!Usable
           /\ Conf!Tables => Conf!Tables'
           /\ \A files : Conf!Resolved(files)' = Conf!Resolved(files)
  <1>1. \A files : Conf!Resolved(files)' = Conf!Resolved(files)
    BY DEF Conf!Resolved, Conf!Selected
  <1>2. Conf!Usable' = Conf!Usable
    BY <1>1 DEF Conf!Usable, Conf!Builds, Conf!KeyResolves
  <1> QED BY <1>1, <1>2 DEF Conf!Tables, Conf!Table

(* An edited file is still a table.                                          *)
LEMMA EditedTable ==
    ASSUME NEW file, Conf!Table(file), NEW new \in Conf!Edited(file)
    PROVE  Conf!Table(new)
  <1>1. PICK b, s, t : file = [broken |-> b, options |-> s, profiles |-> t]
    BY DEF Conf!Table
  <1>2. \/ \E v : new = [file EXCEPT !.broken = v]
        \/ \E v : new = [file EXCEPT !.options = v]
        \/ \E v : new = [file EXCEPT !.profiles = v]
    <2>1. CASE new \in {[file EXCEPT !.broken = ~@]}
      <3>1. new = [file EXCEPT !.broken = ~file.broken]
        BY <2>1
      <3> QED BY <3>1
    <2>2. CASE new \in {[file EXCEPT !.options = o] : o \in Conf!OptionsEdited(file.options)}
      BY <2>2
    <2>3. CASE new \in {[file EXCEPT !.profiles = p] : p \in Conf!ProfilesEdited(file.profiles)}
      BY <2>3
    <2> QED BY <2>1, <2>2, <2>3 DEF Conf!Edited
  <1>3. \E v, w, x : new = [broken |-> v, options |-> w, profiles |-> x]
    BY <1>1, <1>2
  <1> QED BY <1>3 DEF Conf!Table

(* The invariant at the start of a session.                                  *)
LEMMA ConfigStarts == Conf!Init => Conf!ConfigInv
  <1>1. SUFFICES ASSUME Conf!Init PROVE Conf!ConfigInv
    OBVIOUS
  <1>2. PICK empty : empty = Conf!EmptyFile
    OBVIOUS
  <1>3. x3 = [tier \in {"global", "project"} |-> empty] /\ Conf!Table(empty)
    BY <1>1, <1>2 DEF Conf!Init, Conf!Table, Conf!EmptyFile
  <1>4. x3["global"] = empty /\ x3["project"] = empty
    BY <1>3
  <1>5. Conf!Tables
    BY <1>1, <1>3, <1>4 DEF Conf!Init, Conf!Tables
  <1>6. x8.what # "wrote"
    BY <1>1 DEF Conf!Init, Conf!Silence
  <1> QED BY <1>5, <1>6 DEF Conf!ConfigInv, Conf!WizardProfileUsable

(* A file of the user's editor.                                              *)
LEMMA FileEdited ==
    ASSUME Conf!ConfigInv, NEW tier \in DOMAIN x3, Conf!EditFile(tier)
    PROVE  Conf!ConfigInv'
  <1>1. PICK file \in Conf!Edited(x3[tier]) : x3' = [x3 EXCEPT ![tier] = file]
    BY DEF Conf!EditFile
  <1>2. tier \in {"global", "project"} /\ Conf!Table(x3[tier])
    BY DEF Conf!ConfigInv, Conf!Tables
  <1>3. Conf!Table(file)
    BY <1>1, <1>2, EditedTable
  <1>4. /\ x3' = [t \in {"global", "project"} |-> x3'[t]]
        /\ Conf!Table(x3'["global"]) /\ Conf!Table(x3'["project"])
    BY <1>1, <1>2, <1>3 DEF Conf!ConfigInv, Conf!Tables
  <1>5. x4' = x4 /\ x8' = Conf!Silence
    BY DEF Conf!EditFile
  <1>6. Conf!Tables'
    BY <1>4, <1>5 DEF Conf!ConfigInv, Conf!Tables, Conf!Table
  <1> QED BY <1>5, <1>6 DEF Conf!ConfigInv, Conf!WizardProfileUsable, Conf!Silence

(* A key of the user's editor.                                               *)
LEMMA KeysEdited ==
    ASSUME Conf!ConfigInv, Conf!EditKeys
    PROVE  Conf!ConfigInv'
  <1>1. PICK readable, refs : x4 = [readable |-> readable, refs |-> refs]
    BY DEF Conf!ConfigInv, Conf!Tables
  <1>2. \/ \E v : x4' = [x4 EXCEPT !.readable = v]
        \/ \E v : x4' = [x4 EXCEPT !.refs = v]
    BY DEF Conf!EditKeys
  <1>3. x4' = [readable |-> x4'.readable, refs |-> x4'.refs]
    BY <1>1, <1>2
  <1>4. x3' = x3 /\ x8' = Conf!Silence
    BY DEF Conf!EditKeys
  <1>5. Conf!Tables'
    BY <1>3, <1>4 DEF Conf!ConfigInv, Conf!Tables, Conf!Table
  <1> QED BY <1>4, <1>5 DEF Conf!ConfigInv, Conf!WizardProfileUsable, Conf!Silence

(* A step of the engine or of the wizard before it writes.                   *)
LEMMA FilesLeft ==
    ASSUME Conf!ConfigInv, x3' = x3, x4' = x4, x1' = x1, x2' = x2,
           x8'.what # "wrote"
    PROVE  Conf!ConfigInv'
  BY UsableSame DEF Conf!ConfigInv, Conf!WizardProfileUsable

(* A stutter.                                                                *)
LEMMA ConfigSame ==
    ASSUME Conf!ConfigInv, UNCHANGED Conf!vars
    PROVE  Conf!ConfigInv'
  <1>1. x3' = x3 /\ x4' = x4 /\ x1' = x1 /\ x2' = x2 /\ x8' = x8
    BY DEF Conf!vars
  <1> QED BY <1>1, UsableSame DEF Conf!ConfigInv, Conf!WizardProfileUsable

(* The invariant over every step.                                            *)
LEMMA ConfigStep ==
    ASSUME Conf!ConfigInv, Conf!Next
    PROVE  Conf!ConfigInv'
  <1>1. ASSUME NEW tier \in DOMAIN x3, Conf!EditFile(tier) PROVE Conf!ConfigInv'
    BY <1>1, FileEdited
  <1>2. CASE Conf!EditKeys
    BY <1>2, KeysEdited
  <1>3. CASE Conf!Reload
    <2>1. x3' = x3 /\ x4' = x4 /\ x1' = x1 /\ x2' = x2
      BY <1>3 DEF Conf!Reload, Conf!Launched
    <2>2. x8'.what \in {"error", "reloaded"}
      <3>1. \/ x8' = [what |-> "error", about |-> {}]
            \/ \E c : x8' = [what |-> "reloaded", about |-> c]
        BY <1>3 DEF Conf!Reload, Conf!Say
      <3> QED BY <3>1
    <2> QED BY <2>1, <2>2, FilesLeft
  <1>4. ASSUME NEW n, Conf!SwitchModel(n) PROVE Conf!ConfigInv'
    <2>1. x3' = x3 /\ x4' = x4 /\ x1' = x1 /\ x2' = x2
      BY <1>4 DEF Conf!SwitchModel, Conf!Launched
    <2>2. x8'.what \in {"nothing", "switched"}
      BY <1>4 DEF Conf!SwitchModel, Conf!Say, Conf!Silence
    <2> QED BY <2>1, <2>2, FilesLeft
  <1>5. ASSUME NEW n, Conf!WizardName(n) PROVE Conf!ConfigInv'
    BY <1>5, FilesLeft DEF Conf!WizardName, Conf!Launched, Conf!Silence
  <1>6. CASE Conf!WizardDismiss
    BY <1>6, FilesLeft DEF Conf!WizardDismiss, Conf!Launched, Conf!Silence
  <1>7. ASSUME NEW url, Conf!WizardWrite(url) PROVE Conf!ConfigInv'
    BY <1>7, ProfileWritten DEF Conf!ConfigInv
  <1> QED BY <1>1, <1>2, <1>3, <1>4, <1>5, <1>6, <1>7 DEF Conf!Next

(* The wizard's write only adds.                                             *)
LEMMA WriteAdds ==
    ASSUME Conf!Tables
    PROVE  Conf!OnlyAdds
  <1>1. SUFFICES ASSUME NEW url \in Fields.url \cup {""}, Conf!WizardWrite(url)
                 PROVE  LET before == Conf!Resolved(x3).profiles
                            after  == Conf!Resolved(x3').profiles IN
                        /\ DOMAIN before \subseteq DOMAIN after
                        /\ \A n \in DOMAIN before : after[n] = before[n]
                        /\ Conf!Usable \subseteq Conf!Usable'
    BY DEF Conf!OnlyAdds
  <1> QED BY <1>1, ProfileWritten

(* The invariant in the composition.                                         *)
LEMMA SettingsInvariant == DiskSpec => [](part = "config" => Conf!ConfigInv)
  <1> DEFINE Inv == part = "config" => Conf!ConfigInv
  <1>1. DiskInit => Inv
    BY ConfigStarts DEF DiskInit
  <1>2. Inv /\ [DiskNext]_stored => Inv'
    <2>1. SUFFICES ASSUME Inv, [DiskNext]_stored, part' = "config" PROVE Conf!ConfigInv'
      OBVIOUS
    <2>2. CASE OfConfig(Conf!Next)
      BY <2>1, <2>2, ConfigStep DEF OfConfig
    <2>3. CASE UNCHANGED stored
      <3>1. UNCHANGED Conf!vars
        BY <2>3 DEF stored, others, Conf!vars
      <3> QED BY <2>1, <2>3, <3>1, ConfigSame DEF stored
    <2> QED BY <2>1, <2>2, <2>3 DEF DiskNext, OfLaunch, OfMemory, OfSession, OfSkills
  <1> QED BY <1>1, <1>2, PTL DEF DiskSpec

\* Whatever the user sets in the files and the keys, and whenever the engine
\* reads them: the tier a setting is attributed to is the one its value came
\* from, and a profile reported written can be built (config.rs,
\* provider_write.rs).
THEOREM SettingsCorrect == DiskSpec => []SettingsTellTrue
  <1> DEFINE Inv == part = "config" => Conf!ConfigInv
  <1>1. Inv => SettingsTellTrue
    BY WinnerNamed DEF SettingsTellTrue, Conf!ConfigInv
  <1> QED BY <1>1, SettingsInvariant, PTL

\* The wizard's write leaves every profile that resolved as it was, and able
\* to be built, for every content of the files and the keys
\* (provider_write.rs).
THEOREM WritesOnlyAdd == DiskSpec => WizardOnlyAdds
  <1> DEFINE Inv == part = "config" => Conf!ConfigInv
             Adds == part = "config" => Conf!OnlyAdds
  <1>1. Inv => Adds
    BY WriteAdds DEF Conf!ConfigInv
  <1>2. Inv /\ [DiskNext]_stored => [Adds]_stored
    BY <1>1
  <1> QED BY <1>2, SettingsInvariant, PTL DEF DiskSpec, WizardOnlyAdds
==============================================================================
