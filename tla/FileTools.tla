------------------------------ MODULE FileTools ------------------------------
(***************************************************************************)
(* read_file, write_file and edit_file, called by the session's engine and *)
(* by its subagents' at the same time, beside the user, who edits the same *)
(* files and moves a symbolic link in the project root.                    *)
(*                                                                         *)
(* A file is a sequence of few strings.  The places are one inside the     *)
(* root, one under .git/ and one outside; "link" leads to one of them.     *)
(***************************************************************************)
EXTENDS Naturals, Sequences, FiniteSets

CONSTANTS
    Callers,
    Strings,     \* what files are made of
    MaxLines,    \* bound on a file
    MaxCalls, MaxOutside   \* bounds on the calls and on the user's own doings

VARIABLES
    files,       \* what each place holds, or Absent
    link,        \* the place "link" leads to
    call,        \* each caller's call under way
    approved,    \* what the user allowed it to do, as shown in the prompt
    calls, outside

vars == <<files, link, call, approved, calls, outside>>

Places == {"in", "git", "out"}
Absent == <<"absent">>
Contents == UNION {[1 .. n -> Strings] : n \in 0 .. MaxLines}
Idle == [phase |-> "idle", tool |-> "none", asked |-> "in", at |-> "in",
         old |-> "none", new |-> <<>>]
Nothing == [at |-> "none", new |-> <<>>]

\* resolve_in_root: what a requested path names now, links followed.
Resolve(path) == IF path = "link" THEN link ELSE path

Occurrences(content, old) == {i \in DOMAIN content : content[i] = old}
Replaced(content, old, new, at) == [i \in DOMAIN content |-> IF i \in at THEN new ELSE content[i]]

First(S) == {i \in S : \A j \in S : i <= j}

Init ==
    /\ files \in [Places -> {Absent} \cup {<<s>> : s \in Strings}]
    /\ link \in Places
    /\ call = [c \in Callers |-> Idle]
    /\ approved = [c \in Callers |-> Nothing]
    /\ calls = 0 /\ outside = 0

(***************************************************************************)
(* A call works out what it would do and asks.  A failure answers at once. *)
(***************************************************************************)
Begin(c) ==
    /\ call[c].phase = "idle" /\ calls < MaxCalls
    /\ calls' = calls + 1
    /\ UNCHANGED <<files, link, approved, outside>>

Asks(c, tool, path, old, new) ==
    call' = [call EXCEPT ![c] = [phase |-> "asking", tool |-> tool, asked |-> path,
                                 at |-> Resolve(path), old |-> old, new |-> new]]

Edit(c, path, old, new, all) ==
    /\ Begin(c)
    /\ LET content == files[Resolve(path)]
           hits    == Occurrences(content, old) IN
       IF \/ Resolve(path) = "git"
          \/ content = Absent
          \/ hits = {}
          \/ Cardinality(hits) > 1 /\ ~all
       THEN UNCHANGED call
       ELSE Asks(c, "edit_file", path, old,
                 Replaced(content, old, new, IF all THEN hits ELSE First(hits)))

WriteFile(c, path, new) ==
    /\ Begin(c)
    /\ IF Resolve(path) = "git" THEN UNCHANGED call ELSE Asks(c, "write_file", path, "none", new)

\* Reading asks only outside the root; the answer's data is left out.
ReadFile(c, path) ==
    /\ Begin(c)
    /\ IF Resolve(path) = "out" THEN Asks(c, "read_file", path, "none", <<>>) ELSE UNCHANGED call

Ends(c) ==
    /\ call' = [call EXCEPT ![c] = Idle]
    /\ approved' = [approved EXCEPT ![c] = Nothing]

Answer(c, allow) ==
    /\ call[c].phase = "asking"
    /\ IF ~allow \/ call[c].tool = "read_file"
       THEN Ends(c)
       ELSE /\ call' = [call EXCEPT ![c].phase = "allowed"]
            /\ approved' = [approved EXCEPT ![c] = [at |-> call[c].at, new |-> call[c].new]]
    /\ UNCHANGED <<files, link, calls, outside>>

(***************************************************************************)
(* The write, on a thread of its own: the file is emptied, then filled.    *)
(* A cancel ends a call that has not begun to write; one that has goes on. *)
(***************************************************************************)
AtNow(c) == Resolve(call[c].asked)
At(c) == call[c].at

Empty(c) ==
    /\ call[c].phase = "allowed"
    /\ files' = [files EXCEPT ![At(c)] = <<>>]
    /\ call' = [call EXCEPT ![c].phase = "writing"]
    /\ UNCHANGED <<link, approved, calls, outside>>

Fill(c) ==
    /\ call[c].phase = "writing"
    /\ files' = [files EXCEPT ![At(c)] = call[c].new]
    /\ Ends(c)
    /\ UNCHANGED <<link, calls, outside>>

\* Canceled, or the file cannot be written.
GiveUp(c) ==
    /\ call[c].phase \in {"asking", "allowed"}
    /\ Ends(c)
    /\ UNCHANGED <<files, link, calls, outside>>

UserEdits(p, content) ==
    /\ outside < MaxOutside
    /\ files' = [files EXCEPT ![p] = content]
    /\ outside' = outside + 1
    /\ UNCHANGED <<link, call, approved, calls>>

UserMovesLink(p) ==
    /\ outside < MaxOutside
    /\ link' = p
    /\ outside' = outside + 1
    /\ UNCHANGED <<files, call, approved, calls>>

Next ==
    \/ \E c \in Callers, path \in {"in", "link"} :
          \/ \E old, new \in Strings, all \in BOOLEAN : Edit(c, path, old, new, all)
          \/ \E s \in Strings : WriteFile(c, path, <<s>>)
          \/ ReadFile(c, path)
    \/ \E c \in Callers : \/ \E allow \in BOOLEAN : Answer(c, allow)
                          \/ Empty(c) \/ Fill(c) \/ GiveUp(c)
    \/ \E p \in Places : UserMovesLink(p) \/ \E content \in Contents : UserEdits(p, content)

Spec == Init /\ [][Next]_vars

(***************************************************************************)
(* Properties.                                                             *)
(***************************************************************************)
\* Tools change a file only at the place, and to the content, that the user
\* was shown when allowing it, and never under .git/: also when the link the
\* request went through was moved while the prompt was up.
WritesApproved ==
    \A c \in Callers : (call[c].phase \in {"allowed", "writing"} /\ (Empty(c) \/ Fill(c))) =>
        \A p \in Places : files'[p] # files[p] =>
            /\ p = approved[c].at /\ p # "git"
            /\ files'[p] \in {<<>>, approved[c].new}

WritesAsApproved == [][WritesApproved]_vars

(***************************************************************************)
(* The invariant: a call that may write is to the place and content the    *)
(* user saw, and neither it nor one that asks to write is to a file under  *)
(* .git/.                                                                  *)
(***************************************************************************)
Shaped(c) ==
    call[c] = [phase |-> call[c].phase, tool |-> call[c].tool, asked |-> call[c].asked,
               at |-> call[c].at, old |-> call[c].old, new |-> call[c].new]

InOrder(c) ==
    /\ call[c].phase = "asking" /\ call[c].tool # "read_file" => call[c].at # "git"
    /\ call[c].phase \in {"allowed", "writing"} =>
          /\ call[c].at # "git"
          /\ approved[c] = [at |-> call[c].at, new |-> call[c].new]

FilesInv ==
    /\ files = [p \in Places |-> files[p]]
    /\ call = [c \in Callers |-> call[c]]
    /\ approved = [c \in Callers |-> approved[c]]
    /\ \A c \in Callers : Shaped(c) /\ InOrder(c)
=============================================================================
