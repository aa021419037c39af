------------------------------- MODULE Disk ----------------------------------
(****************************************************************************)
(* What outlives a process: the trust store, which this module extends,     *)
(* memory entries and their index, configuration files and the setup        *)
(* wizard, a session's file, skill folders.  The parts share nothing, so    *)
(* one run checks them side by side: part says which of them a behaviour is *)
(* of.  The variables of Launch move in its part only; those of another     *)
(* part are the first of x1 to x13.                                         *)
(****************************************************************************)
EXTENDS Launch, Integers, Sequences, TLC

CONSTANTS
    Keys, MemorySlug(_), Earlier, Descriptions, CommandRoom, EventRoom,
    MaxCalls, MaxAsks, MaxCrashes,                       \* of Memory
    Profiles, Fields, Settings, EnvKeys, ConfigEdits,    \* of Config
    Runs, MaxRecords, MaxRuns,                           \* of SessionFile
    SkillNames, SkillSlug, SkillEdits                    \* of Skills

VARIABLES part, x1, x2, x3, x4, x5, x6, x7, x8, x9, x10, x11, x12, x13

others == <<x1, x2, x3, x4, x5, x6, x7, x8, x9, x10, x11, x12, x13>>
stored == <<vars, part, others>>

Mem == INSTANCE Memory WITH
    trusted <- x1, files <- x2, index <- x3, op <- x4, pinned <- x5,
    turn <- x6, commands <- x7, events <- x8, inspector <- x9, fetch <- x10,
    status <- x11, made <- x12, history <- x13,
    Slug <- MemorySlug
Conf == INSTANCE Config WITH
    cli <- x1, env <- x2, disk <- x3, keys <- x4, eng <- x5, seen <- x6,
    wizard <- x7, said <- x8, edits <- x9, Names <- Profiles, MaxEdits <- ConfigEdits
Log == INSTANCE SessionFile WITH
    file <- x1, run <- x2, writing <- x3, acked <- x4, nextId <- x5,
    runs <- x6, tears <- x7, overlaps <- x8
Catalog == INSTANCE Skills WITH
    disk <- x1, trusted <- x2, enabled <- x3, config <- x4, metas <- x5,
    shown <- x6, answer <- x7, fresh <- x8, edits <- x9, Names <- SkillNames,
    Slug <- SkillSlug, MaxEdits <- SkillEdits

ASSUME DiskAssumption == Mem!MemoryAssumption /\ Nesting

\* The variables that a part does not use.
Unused == "unused"

DiskInit ==
    /\ Init
    /\ \/ /\ part = "launch"
          /\ x1 = Unused /\ x2 = Unused /\ x3 = Unused /\ x4 = Unused
          /\ x5 = Unused /\ x6 = Unused /\ x7 = Unused /\ x8 = Unused
          /\ x9 = Unused /\ x10 = Unused /\ x11 = Unused /\ x12 = Unused
          /\ x13 = Unused
       \/ /\ part = "memory" /\ Mem!Init
       \/ /\ part = "config" /\ Conf!Init
          /\ x10 = Unused /\ x11 = Unused /\ x12 = Unused /\ x13 = Unused
       \/ /\ part = "session" /\ Log!Init
          /\ x9 = Unused /\ x10 = Unused /\ x11 = Unused /\ x12 = Unused
          /\ x13 = Unused
       \/ /\ part = "skills" /\ Catalog!Init
          /\ x10 = Unused /\ x11 = Unused /\ x12 = Unused /\ x13 = Unused

\* A step of one part.
OfLaunch(A) == part = "launch" /\ A /\ UNCHANGED <<part, others>>
OfMemory(A) == part = "memory" /\ A /\ UNCHANGED <<part, vars>>
OfConfig(A) == part = "config" /\ A /\ UNCHANGED <<part, vars, x10, x11, x12, x13>>
OfSession(A) ==
    /\ part = "session" /\ A
    /\ UNCHANGED <<part, vars, x9, x10, x11, x12, x13>>
OfSkills(A) == part = "skills" /\ A /\ UNCHANGED <<part, vars, x10, x11, x12, x13>>

DiskNext ==
    \/ OfLaunch(Next)
    \/ OfMemory(Mem!Next)
    \/ OfConfig(Conf!Next)
    \/ OfSession(Log!Next)
    \/ OfSkills(Catalog!Next)

DiskSpec == DiskInit /\ [][DiskNext]_stored

------------------------------------------------------------------------------
\* The prompt lists what is stored; no edit through the inspector puts one
\* entry's text under another's name; a waiting delete is of the entry it was
\* begun on, whatever replies were under way; and the counts on the screen end
\* up those of the directories (core/src/memory.rs, engine/memory.rs,
\* app/memory.rs).
MemoryHolds ==
    part = "memory" =>
        /\ Mem!PromptListsEntries
        /\ Mem!EditsStayHome /\ Mem!DeletesWhatWasAsked
        /\ Mem!StatusSettles

\* The tier a setting is attributed to is the one its value came from, and a
\* profile the wizard reports written can be switched to (config.rs,
\* provider_write.rs).
SettingsTellTrue ==
    part = "config" =>
        Conf!ProvenanceNamesWinner /\ Conf!WizardProfileUsable

\* The wizard's write leaves every profile that resolved as it was, whatever
\* the files became since the name was checked (provider_write.rs).
WizardOnlyAdds == [][part = "config" => Conf!OnlyAdds]_stored

\* Kills and overlapping appends lose a bounded number of acknowledged records,
\* and a file reads as interrupted exactly when its last run did not end
\* (transcript.rs, resume.rs).
RecordsSurvive ==
    part = "session" => Log!LossIsBounded /\ Log!InterruptedTellsTrue

\* A skill is loaded from where the catalog says: the scan and the search agree
\* on which scope wins (core/src/skills.rs discover, resolve).
CatalogTellsOrigin == part = "skills" => Catalog!CatalogTellsOrigin
==============================================================================
