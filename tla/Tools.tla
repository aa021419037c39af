-------------------------------- MODULE Tools --------------------------------
(****************************************************************************)
(* A tool call's own part: the rules it is judged by, which this module     *)
(* extends, a bash command's processes and its fence, the files an edit     *)
(* reads and writes, and the reduction of its output.  The parts share      *)
(* nothing, so one run checks them side by side: part says which of them a  *)
(* behaviour is of.  The variables of RuleEngine move in its part only;     *)
(* those of another part are x1 to x6.                                      *)
(****************************************************************************)
EXTENDS RuleEngine

CONSTANTS
    Pids, MaxForks, Callers, Strings, MaxLines, MaxCalls, MaxOutside, Stdouts,
    Stderrs, PathLists, StdoutHead, StdoutTail, RunMin, GlobMax, ShownLines,
    MaxBytes, HeadLines, TailLines, ConfinedCallers, Names, Texts, Dirs

VARIABLES part, x1, x2, x3, x4, x5, x6

others == <<x1, x2, x3, x4, x5, x6>>
tools == <<vars, part, others>>

Bash == INSTANCE BashTool WITH
    os <- x1, call <- x2, leader <- x3, reaped <- x4, struck <- x5,
    forks <- x6
Files == INSTANCE FileTools WITH
    files <- x1, link <- x2, call <- x3, approved <- x4, calls <- x5,
    outside <- x6
Out == INSTANCE Output WITH
    tool <- x1, raw <- x2, stderr <- x3, view <- x4, withheld <- x5,
    sidecar <- x6, MaxLines <- ShownLines
Fence == INSTANCE Confine WITH
    host <- x1, recorded <- x2, path <- x3, entries <- x4, run <- x5,
    gitBy <- x6, Callers <- ConfinedCallers

ASSUME ToolsAssumption == Fence!ConfineAssumption

\* The variables that a part does not use.
Unused == "unused"
NoRules ==
    /\ rules = <<>> /\ baseLen = 0 /\ ruleSpecs = <<>> /\ file = <<>>
    /\ granted = {} /\ persisted = {}

ToolsInit ==
    \/ /\ part = "rules" /\ Init
       /\ x1 = Unused /\ x2 = Unused /\ x3 = Unused
       /\ x4 = Unused /\ x5 = Unused /\ x6 = Unused
    \/ /\ NoRules
       /\ \/ part = "bash" /\ Bash!Init
          \/ part = "files" /\ Files!Init
          \/ part = "output" /\ Out!Init
          \/ part = "fence" /\ Fence!Init

\* A step of one part.
OfRules(A) == part = "rules" /\ A /\ UNCHANGED <<part, others>>
OfBash(A) == part = "bash" /\ A /\ UNCHANGED <<part, vars>>
OfFiles(A) == part = "files" /\ A /\ UNCHANGED <<part, vars>>
OfOutput(A) == part = "output" /\ A /\ UNCHANGED <<part, vars>>
OfFence(A) == part = "fence" /\ A /\ UNCHANGED <<part, vars>>

ToolsNext ==
    \/ OfRules(Next)
    \/ OfBash(Bash!Next)
    \/ OfFiles(Files!Next)
    \/ OfOutput(Out!Next)
    \/ OfFence(Fence!Next)

ToolsSpec == ToolsInit /\ [][ToolsNext]_tools

------------------------------------------------------------------------------
\* A call that timed out or was canceled leaves nothing of its command's group
\* running, and kills nobody else's before the leader is reaped (bash.rs).
NothingOutlivesTheKill == [][part = "bash" => Bash!KillIsExact]_tools

\* Tools change a file only at the place, and to the content, the user was
\* shown, also when a link moved while the prompt was up (edit.rs, write.rs).
WritesAsApproved == [][part = "files" => Files!WritesApproved]_tools

\* Reduction keeps all of standard error, nothing is withheld unrecorded, and
\* the model never sees more than the limit (reduce.rs, truncate.rs).
OutputTellsAll ==
    part = "output" =>
        Out!ErrorsSurvive /\ Out!NothingLostSilently /\ Out!ViewIsBounded

\* Under a fence .git is written by git alone, the scan reads quotes as the
\* shell does, and the two backends decide alike (confine.rs, git.rs).
ConfinementHolds == part = "fence" => Fence!ConfinementHolds

==============================================================================
