------------------------------ MODULE Confine ------------------------------
(****************************************************************************)
(* What a bash command may write under the project root: the startup probe  *)
(* (emberly-sandbox/src/probe.rs), the spawn bridge (core/src/spawn.rs),    *)
(* the two backends (confine.rs) and the recognition of a genuine git       *)
(* command (git.rs).  A path is a top-level entry of the root; an entry's   *)
(* inode number tells a re-created entry from the one that was there when a *)
(* command was spawned, 0 that there is none.                               *)
(****************************************************************************)
EXTENDS Naturals, Sequences, FiniteSets

CONSTANTS
    Callers,     \* the engines that may have a bash command running
    Names,       \* the names of the root's top-level entries, besides .git
    Texts,       \* command texts: a first token and the characters after it
    Dirs         \* how many directories PATH has

ConfineAssumption ==
    /\ IsFiniteSet(Callers) /\ IsFiniteSet(Names) /\ ".git" \notin Names
    /\ \A t \in Texts : t.chars \in Seq(STRING)

VARIABLES
    host,        \* what the operating system offers: backend, ABI, front end
    recorded,    \* the git binary recorded at session start
    path,        \* the git binary each directory of PATH holds now
    entries,     \* the root's top-level entries: name -> inode number
    run,         \* each caller's command and the fence it was spawned under
    gitBy        \* who wrote .git last

vars == <<host, recorded, path, entries, run, gitBy>>

Entries == Names \cup {".git"}
Binaries == {"none", "system", "inRoot"}
TargetAbi == 5

----------------------------------------------------------------------------
(* The probe. *)

\* sandbox-exec is there and applies a trivial profile.
SeatbeltAvailable(h) == h.os = "macos" /\ h.front

\* What the probe reports; a kernel below the target ABI is Partial.
Status(h) ==
    CASE h.os = "linux" /\ h.abi >= TargetAbi -> "Confined"
      [] h.os = "linux" /\ h.abi \in 1..(TargetAbi - 1) -> "Partial"
      [] SeatbeltAvailable(h) -> "Confined"
      [] OTHER -> "Unavailable"

IsConfined(h) == Status(h) \in {"Confined", "Partial"}

----------------------------------------------------------------------------
(* Genuine git. *)

\* The first directory of PATH that holds an executable git.
ResolveOnPath ==
    LET held == {d \in DOMAIN path : path[d] # "none"}
    IN IF held = {} THEN "none"
       ELSE path[CHOOSE d \in held : \A o \in held : d <= o]

Special == {"semi", "tick", "back"}

Substitutes(cs, i) == cs[i] = "dollar" /\ i < Len(cs) /\ cs[i + 1] = "brace"

\* A fault: the backslash of a double-quoted text no longer takes the next character.
ScanStepByOne(cs, s) ==
    LET c == cs[s.at]
        On(q) == [at |-> s.at + 1, quote |-> q, bad |-> FALSE]
    IN CASE s.quote = "single" -> On(IF c = "sq" THEN "none" ELSE "single")
         [] s.quote = "double" -> On(IF c = "dq" THEN "none" ELSE "double")
         [] c \in Special \/ Substitutes(cs, s.at) -> [s EXCEPT !.bad = TRUE]
         [] c = "sq" -> On("single")
         [] c = "dq" -> On("double")
         [] OTHER -> On("none")

\* The scan: the quote it is in, the next position, and whether it gave up.
ScanStep(cs, s) ==
    LET c == cs[s.at]
        On(n, q) == [at |-> s.at + n, quote |-> q, bad |-> FALSE]
        Bad == [s EXCEPT !.bad = TRUE]
    IN CASE s.quote = "single" -> On(1, IF c = "sq" THEN "none" ELSE "single")
         [] s.quote = "double" ->
              CASE c = "dq" -> On(1, "none")
                [] c = "back" -> On(2, "double")
                [] c = "tick" \/ Substitutes(cs, s.at) -> Bad
                [] OTHER -> On(1, "double")
         [] OTHER ->
              CASE c = "sq" -> On(1, "single")
                [] c = "dq" -> On(1, "double")
                [] c \in Special \/ Substitutes(cs, s.at) -> Bad
                [] OTHER -> On(1, "none")

HasDangerousShellSyntax(cs) ==
    LET scan[n \in 0..Len(cs)] ==
            IF n = 0 THEN [at |-> 1, quote |-> "none", bad |-> FALSE]
            ELSE LET s == scan[n - 1]
                 IN IF s.bad \/ s.at > Len(cs) THEN s ELSE ScanStep(cs, s)
        end == scan[Len(cs)]
    IN end.bad \/ end.quote # "none"

IsGenuineGit(text) ==
    /\ recorded # "none"
    /\ ~HasDangerousShellSyntax(text.chars)
    /\ text.first = "git"
    /\ ResolveOnPath = recorded
    /\ recorded # "inRoot"

----------------------------------------------------------------------------
(* The backends. *)

\* Landlock only ever adds: the whole root for genuine git, else each entry
\* there is at spawn except .git.
WritableChildren == {entries[n] : n \in Names} \ {0}

LandlockGrants(git) ==
    [root |-> git, inodes |-> IF git THEN {} ELSE WritableChildren]

LandlockAllows(r, n) ==
    r.grants.root \/ entries[n] \in r.grants.inodes

\* Seatbelt's profile: the last rule that covers the path decides.
SeatbeltProfile(git) ==
    <<[allow |-> TRUE,  covers |-> Entries],
      [allow |-> FALSE, covers |-> Entries],
      [allow |-> TRUE,  covers |-> Entries]>>
    \o (IF git THEN << >> ELSE <<[allow |-> FALSE, covers |-> {".git"}]>>)

SeatbeltAllows(r, n) ==
    LET p == SeatbeltProfile(r.git)
        matching == {i \in DOMAIN p : n \in p[i].covers}
    IN p[CHOOSE i \in matching : \A j \in matching : j <= i].allow

\* The bridge falls back to a plain shell where the front end is missing.
Fence ==
    IF IsConfined(host) /\ host.frontNow THEN
        IF host.os = "linux" THEN "landlock" ELSE "seatbelt"
    ELSE "plain"

MayWrite(r, n) ==
    CASE r.fence = "landlock" -> LandlockAllows(r, n)
      [] r.fence = "seatbelt" -> SeatbeltAllows(r, n)
      [] OTHER -> TRUE

----------------------------------------------------------------------------
(* What the shell makes of a text, said without a scan: the text is a row of *)
(* pieces, each a plain character, a single-quoted or a double-quoted one.   *)

\* Inside double quotes opened at b, an odd run of backslashes escapes.
EscapedIn(cs, b, k) ==
    \E len \in 1..(k - b - 1) :
        /\ len % 2 = 1
        /\ \A i \in (k - len)..(k - 1) : cs[i] = "back"
        /\ (k - len - 1 = b \/ cs[k - len - 1] # "back")

Piece(cs, b, e) ==
    \/ /\ b = e
       /\ cs[b] \notin Special \cup {"sq", "dq"}
       /\ ~Substitutes(cs, b)
    \/ /\ b < e /\ cs[b] = "sq" /\ cs[e] = "sq"
       /\ \A k \in (b + 1)..(e - 1) : cs[k] # "sq"
    \/ /\ b < e /\ cs[b] = "dq" /\ cs[e] = "dq" /\ ~EscapedIn(cs, b, e)
       /\ \A k \in (b + 1)..(e - 1) :
              (cs[k] \in {"dq", "tick"} \/ Substitutes(cs, k))
                  => EscapedIn(cs, b, k)

OnlyWords(cs) ==
    LET whole[n \in 0..Len(cs)] ==
            n = 0 \/ \E b \in 1..n : whole[b - 1] /\ Piece(cs, b, n)
    IN whole[Len(cs)]

----------------------------------------------------------------------------
Idle == [text |-> [first |-> "", chars |-> << >>], fence |-> "none",
         git |-> FALSE, grants |-> [root |-> FALSE, inodes |-> {}],
         there |-> {}]

\* An inode no entry has and no running command's ruleset holds.
FreshInode ==
    LET used == {entries[n] : n \in Entries}
                    \cup UNION {run[c].there : c \in Callers}
    IN CHOOSE i \in 1..(Cardinality(used) + 1) : i \notin used

Hosts ==
    [os : {"linux"}, abi : {0, TargetAbi - 1, TargetAbi}, front : {TRUE}, frontNow : {TRUE}]
        \cup [os : {"macos"}, abi : {0}, front : {TRUE}, frontNow : {TRUE}]
        \cup [os : {"macos", "other"}, abi : {0}, front : {FALSE}, frontNow : {FALSE}]

\* Session start: probe, then record git if children will be confined.
Init ==
    /\ host \in Hosts
    /\ path \in [1..Dirs -> Binaries]
    /\ recorded = IF IsConfined(host) THEN ResolveOnPath ELSE "none"
    /\ entries \in {[n \in Entries |-> IF n = ".git" THEN g ELSE 2] : g \in {0, 1}}
    /\ run = [c \in Callers |-> Idle]
    /\ gitBy = "user"

\* The bash tool spawns a command; the ruleset is built from the root as it is.
Spawn(c, text) ==
    /\ run[c] = Idle
    /\ LET git == Fence # "plain" /\ IsGenuineGit(text)
       IN run' = [run EXCEPT ![c] =
             [text |-> text, fence |-> Fence, git |-> git,
              grants |-> IF Fence = "landlock" THEN LandlockGrants(git)
                         ELSE Idle.grants,
              there |-> {entries[n] : n \in Entries} \ {0}]]
    /\ UNCHANGED <<host, recorded, path, entries, gitBy>>

Wrote(r) ==
    CASE r.fence = "plain" -> "unconfined"
      [] r.text.first = "git" /\ OnlyWords(r.text.chars) -> "git"
      [] OTHER -> "command"

\* A running command writes an entry, or makes one that is not there.
CommandWrites(c, n) ==
    /\ run[c] # Idle
    /\ MayWrite(run[c], n)
    /\ entries' = IF entries[n] # 0 THEN entries
                  ELSE [entries EXCEPT ![n] = FreshInode]
    /\ gitBy' = IF n = ".git" THEN Wrote(run[c]) ELSE gitBy
    /\ UNCHANGED <<host, recorded, path, run>>

CommandEnds(c) ==
    /\ run[c] # Idle
    /\ run' = [run EXCEPT ![c] = Idle]
    /\ UNCHANGED <<host, recorded, path, entries, gitBy>>

\* The user, or write_file, which the rules keep off .git.
OthersTouch(n) ==
    /\ n \in Names
    /\ entries' = [entries EXCEPT ![n] = IF @ = 0 THEN FreshInode ELSE 0]
    /\ UNCHANGED <<host, recorded, path, run, gitBy>>

\* A git appears in, or leaves, a directory of PATH.
PathChanges(d, b) ==
    /\ path[d] # b
    /\ path' = [path EXCEPT ![d] = b]
    /\ UNCHANGED <<host, recorded, entries, run, gitBy>>

\* sandbox-exec, or the harness's own executable, can no longer be found.
FrontEndGone ==
    /\ host.frontNow
    /\ host' = [host EXCEPT !.frontNow = FALSE]
    /\ UNCHANGED <<recorded, path, entries, run, gitBy>>

Next ==
    \/ \E c \in Callers, t \in Texts : Spawn(c, t)
    \/ \E c \in Callers, n \in Entries : CommandWrites(c, n)
    \/ \E c \in Callers : CommandEnds(c)
    \/ \E n \in Names : OthersTouch(n)
    \/ \E d \in 1..Dirs, b \in Binaries : PathChanges(d, b)
    \/ FrontEndGone

Spec == Init /\ [][Next]_vars

----------------------------------------------------------------------------
\* Under a fence, .git is written by a command that is nothing but git: its
\* first word is git and the shell reads the rest as words (git.rs:11-19),
\* whatever came and went in the root and on PATH since the session began.
GitWrittenByGit == gitBy # "command"

\* A text the shell reads as words keeps the .git grant, and no other has it
\* (git.rs:63-71).
ScanReadsAsShell ==
    \A c \in Callers :
        run[c] # Idle =>
            (HasDangerousShellSyntax(run[c].text.chars)
                <=> ~OnlyWords(run[c].text.chars))

\* "Two backends, one policy shape" (confine.rs:5-6): on an entry that was
\* there when the command was spawned, both decide alike.
BackendsAgree ==
    \A c \in Callers, n \in Entries :
        LET r == run[c]
            landlock == [r EXCEPT !.grants = LandlockGrants(r.git)]
        IN /\ (r.fence = "landlock" /\ entries[n] \in r.there) =>
                  (LandlockAllows(r, n) <=> SeatbeltAllows(r, n))
           /\ (r.fence = "seatbelt" /\ entries[n] # 0) =>
                  (SeatbeltAllows(r, n) <=> LandlockAllows(landlock, n))

ConfinementHolds == GitWrittenByGit /\ ScanReadsAsShell /\ BackendsAgree

----------------------------------------------------------------------------
(* The invariant. *)

\* Of what was there at the spawn, a fence knows .git from the rest by inode:
\* a command that is not git's has every other entry's and not .git's.
GrantsFit(r) ==
    /\ r.grants.root = r.git
    /\ ~r.git => /\ r.there \ {entries[".git"]} \subseteq r.grants.inodes
                 /\ r.grants.inodes \subseteq r.there \ {entries[".git"]}

Fenced(r) ==
    /\ r = [text |-> r.text, fence |-> r.fence, git |-> r.git,
            grants |-> r.grants, there |-> r.there]
    /\ r.text \in Texts /\ r.fence \in {"landlock", "seatbelt", "plain"}
    /\ r.git \in BOOLEAN
    /\ r.git => r.text.first = "git" /\ ~HasDangerousShellSyntax(r.text.chars)
    /\ r.fence = "landlock" => GrantsFit(r)

ConfineInv ==
    /\ run = [c \in Callers |-> run[c]]
    /\ \A c \in Callers :
           /\ run[c].there \subseteq Nat \ {0} /\ IsFiniteSet(run[c].there)
           /\ run[c] # Idle => Fenced(run[c])
    /\ entries \in [Entries -> Nat]
    /\ \A n \in Names : entries[n] # 0 => entries[n] # entries[".git"]
    /\ gitBy # "command"

=============================================================================
