------------------------------ MODULE Frontends ------------------------------
(****************************************************************************)
(* The two frontends at work and the input editor: the terminal frontend's  *)
(* keys, prompts and events against an engine, which this module extends,   *)
(* the line frontend against an engine, and the text the user types.  The   *)
(* parts share nothing, so one run checks them side by side: part says      *)
(* which of them a behaviour is of.  The variables of Frontend move in its  *)
(* part only; those of another part are the first of x1 to x15.             *)
(****************************************************************************)
EXTENDS Frontend

CONSTANTS
    MaxLines, MaxBatches,                          \* of LineFrontend
    Typed, Pastes, MaxLength, MaxSent, MaxHistory  \* of Editor

VARIABLES part, x1, x2, x3, x4, x5, x6, x7, x8, x9, x10, x11, x12, x13, x14,
                x15

others == <<x1, x2, x3, x4, x5, x6, x7, x8, x9, x10, x11, x12, x13, x14, x15>>
frontends == <<vars, part, others>>

TheLine == INSTANCE LineFrontend WITH
    typed <- x1, stdin <- x2, pending <- x3, open <- x4, done <- x5,
    mode <- x6, listed <- x7, commands <- x8, events <- x9, engine <- x10,
    safetyMode <- x11, confined <- x12, stored <- x13, made <- x14,
    lost <- x15
Input == INSTANCE Editor WITH
    buf <- x1, cursor <- x2, history <- x3, browsing <- x4, stash <- x5,
    draft <- x6

ASSUME FrontendsAssumption == FrontendAssumption /\ TheLine!LineAssumption /\ Input!EditorAssumption

\* The variables that a part does not use.
Unused == "unused"

FrontendsInit ==
    /\ Init
    /\ \/ /\ part = "terminal"
          /\ x1 = Unused /\ x2 = Unused /\ x3 = Unused /\ x4 = Unused
          /\ x5 = Unused /\ x6 = Unused /\ x7 = Unused /\ x8 = Unused
          /\ x9 = Unused /\ x10 = Unused /\ x11 = Unused /\ x12 = Unused
          /\ x13 = Unused /\ x14 = Unused /\ x15 = Unused
       \/ /\ part = "line" /\ TheLine!Init
       \/ /\ part = "editor" /\ Input!Init
          /\ x7 = Unused /\ x8 = Unused /\ x9 = Unused /\ x10 = Unused
          /\ x11 = Unused /\ x12 = Unused /\ x13 = Unused /\ x14 = Unused
          /\ x15 = Unused

\* A step of one part.
OfTerminal(A) == part = "terminal" /\ A /\ UNCHANGED <<part, others>>
OfLine(A) == part = "line" /\ A /\ UNCHANGED <<part, vars>>
OfEditor(A) ==
    /\ part = "editor" /\ A
    /\ UNCHANGED <<part, vars, x7, x8, x9, x10, x11, x12, x13, x14, x15>>

FrontendsNext ==
    \/ OfTerminal(Next)
    \/ OfLine(TheLine!Next)
    \/ OfEditor(Input!Next)

FrontendsFairness ==
    /\ WF_frontends(OfLine(TheLine!TakeLine))
    /\ WF_frontends(OfLine(TheLine!TakeEnd))
    /\ WF_frontends(OfLine(TheLine!ShowEvent))
    /\ WF_frontends(OfLine(TheLine!Return))
    /\ WF_frontends(OfLine(TheLine!EngineStep))

FrontendsSpec == FrontendsInit /\ [][FrontendsNext]_frontends /\ FrontendsFairness

------------------------------------------------------------------------------
\* When all is shown and taken, the prompt that the next typed line answers is
\* the one the engine waits on; the mode shown is the engine's; and run returns
\* only after everything the engine said was shown (line.rs run, pending).
LineFollowsEngine ==
    part = "line" =>
        TheLine!ParkedPromptIsPending /\ TheLine!ModeMirrorSettles
            /\ TheLine!DrainsToTheEnd

\* /quit and the end of input end the session, unless a tool call asks when
\* there is no one left to answer (line.rs run; engine/turn.rs).
LeavingEnds == (part = "line" /\ TheLine!Leaving) ~> (part = "line" => TheLine!Left)

\* A key that only moves leaves the cursor between grapheme clusters, and going
\* back from the history restores the text being typed (editor.rs).
MotionsKeepText == [][part = "editor" => Input!KeepsText]_frontends
==============================================================================
