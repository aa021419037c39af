------------------------------- MODULE Skills -------------------------------
(***************************************************************************)
(* The skill catalog: the folders of two scopes, from which the engine     *)
(* derives a catalog now and then, and which it reads again whenever a     *)
(* skill is invoked.  The user edits the folders under the session.        *)
(*                                                                         *)
(* A folder holds a SKILL.md whose frontmatter gives the skill a name, its *)
(* own or another; or one whose frontmatter does not parse; or none.       *)
(***************************************************************************)
EXTENDS Naturals, FiniteSets

CONSTANTS
    Names,      \* of folders and of skills
    Slug,       \* [Names -> Names], what a name becomes in a tool call
    MaxEdits    \* bound on the user's edits

VARIABLES
    disk,       \* by scope and folder: the skill's name, "broken" or "none"
    trusted,    \* the project scope is read
    enabled,    \* skills.enabled of the running session
    config,     \* skills.enabled of the configuration on disk
    metas,      \* the catalog the model is shown
    shown,      \* the catalog the frontend shows
    answer,     \* the last invocation: what was asked and where it was read
    fresh,      \* the folders are as they were when the catalog was derived
    edits

vars == <<disk, trusted, enabled, config, metas, shown, answer, fresh, edits>>

Scopes == {"user", "project"}
None == [name |-> "none", origin |-> "none", folder |-> "none"]

(***************************************************************************)
(* Deriving the catalog.  A scope is scanned in no particular order; a     *)
(* project skill takes the place of every earlier one of its name.         *)
(***************************************************************************)
Scan(scope) ==
    {[name |-> disk[scope][f], origin |-> scope, folder |-> f] :
        f \in {g \in Names : disk[scope][g] \notin {"none", "broken"}}}

Read(scope) == IF scope = "project" /\ ~trusted THEN {} ELSE Scan(scope)

Discovered ==
    {catalog \in SUBSET (Read("user") \cup Read("project")) :
        LET project == {s \in catalog : s.origin = "project"} IN
        /\ {s.name : s \in project} = {s.name : s \in Read("project")}
        /\ \A s, t \in project : s.name = t.name => s = t
        /\ catalog \ project = {s \in Read("user") : \A t \in project : t.name # s.name}}

Catalogs == IF enabled THEN Discovered ELSE {{}}

(***************************************************************************)
(* Resolving a name: by folder, the project scope first.                   *)
(***************************************************************************)
HasSkill(scope, n) == disk[scope][n] # "none" /\ (scope = "project" => trusted)

ResolveUserFirst(n) ==
    IF HasSkill("user", n) THEN "user" ELSE IF HasSkill("project", n) THEN "project" ELSE "none"
Resolve(n) ==
    IF HasSkill("project", n) THEN "project" ELSE IF HasSkill("user", n) THEN "user" ELSE "none"

Invocation(n) ==
    IF enabled /\ Resolve(n) # "none" THEN [name |-> n, origin |-> Resolve(n), folder |-> n]
    ELSE [None EXCEPT !.name = n]

Init ==
    /\ disk \in [Scopes -> [Names -> {"none"} \cup Names]]
    /\ trusted \in BOOLEAN
    /\ enabled = TRUE /\ config = TRUE
    /\ metas \in Discovered
    /\ shown = metas
    /\ answer = None
    /\ fresh = TRUE
    /\ edits = 0

\* The skill tool, given a name by the model, and the inspector, given one
\* of those shown.
InvokeTool(n) ==
    /\ answer' = Invocation(Slug[n])
    /\ UNCHANGED <<disk, trusted, enabled, config, metas, shown, fresh, edits>>

Inspect(s) ==
    /\ s \in shown
    /\ answer' = Invocation(s.name)
    /\ UNCHANGED <<disk, trusted, enabled, config, metas, shown, fresh, edits>>

\* /new, or a switch to another session: the catalog is derived again.
SwitchSession ==
    /\ metas' \in Catalogs
    /\ shown' = metas'
    /\ fresh' = TRUE
    /\ answer' = None
    /\ UNCHANGED <<disk, trusted, enabled, config, edits>>

\* A reload derives it only when the settings of the skills changed, and
\* does not tell the frontend.
Reload ==
    /\ config # enabled
    /\ enabled' = config
    /\ metas' \in (IF config THEN Discovered ELSE {{}})
    /\ fresh' = TRUE
    /\ answer' = None
    /\ UNCHANGED <<disk, trusted, config, shown, edits>>

EditFolder(scope, f, to) ==
    /\ edits < MaxEdits
    /\ disk' = [disk EXCEPT ![scope][f] = to]
    /\ fresh' = FALSE
    /\ answer' = None
    /\ edits' = edits + 1
    /\ UNCHANGED <<trusted, enabled, config, metas, shown>>

EditConfig ==
    /\ edits < MaxEdits
    /\ config' = ~config
    /\ edits' = edits + 1
    /\ UNCHANGED <<disk, trusted, enabled, metas, shown, answer, fresh>>

Next ==
    \/ \E n \in Names : InvokeTool(n)
    \/ \E s \in shown : Inspect(s)
    \/ SwitchSession \/ Reload \/ EditConfig
    \/ \E scope \in Scopes, f \in Names, to \in {"none", "broken"} \cup Names :
          EditFolder(scope, f, to)

Spec == Init /\ [][Next]_vars

(***************************************************************************)
(* Properties.                                                             *)
(***************************************************************************)
\* A skill is loaded from where the catalog says: the scan that derives the
\* catalog and the search that an invocation makes, which are written
\* separately, agree on which scope wins, as long as folders and skills bear
\* the same names and nobody edited them since.
CatalogTellsOrigin ==
    (fresh /\ enabled /\ (\A f \in Names, scope \in Scopes : disk[scope][f] \in {"none", f})) =>
        \A s \in metas : Slug[s.name] = s.name => Invocation(s.name) = s

(***************************************************************************)
(* The invariant: while no folder changed, the catalog is one that a       *)
(* derivation gives.                                                       *)
(***************************************************************************)
CatalogInv == fresh /\ enabled => metas \in Discovered
=============================================================================
