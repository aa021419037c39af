------------------------------- MODULE Config -------------------------------
(***************************************************************************)
(* Configuration of a running session: the tiers `config::load` merges and *)
(* the provenance it reports, the reload of an edited configuration, the   *)
(* switch to another provider profile, and the guided wizard that writes a *)
(* profile and its key.  The user edits the files under the session at any *)
(* moment.                                                                 *)
(*                                                                         *)
(* A file is a partial function from options to values and, by profile     *)
(* name, one from profile fields to values: TOML and the some sixty option *)
(* names are abstracted to a few that differ in what the code does with    *)
(* them.  A key is set or not; its value is left out.                      *)
(***************************************************************************)
EXTENDS Naturals, Functions

CONSTANTS
    Names,      \* provider profiles a user may write
    Fields,     \* of a profile: what a user may set each to
    Settings,   \* of a file: what a user may set each option to
    EnvKeys,    \* references whose <REF>_API_KEY is exported
    MaxEdits    \* bound on the user's edits of the files under a session

VARIABLES
    cli, env,   \* what the command line and EMBERLY_* select, fixed at launch
    disk,       \* the two config files, by tier
    keys,       \* keys.toml: the references it holds, and whether it can be read
    eng,        \* what the engine runs with
    seen,       \* the profiles the reloader compares the next load with
    wizard,     \* the profile name the wizard is collecting for, or ""
    said,       \* what the last step told the user
    edits

vars == <<cli, env, disk, keys, eng, seen, wizard, said, edits>>

Nothing == <<>>

(***************************************************************************)
(* The tiers.  Of the options, "search" names the key web search needs,    *)
(* "threshold" is the one `load` refuses when out of range, "attachments"  *)
(* is `image.max_attachments`, which no line of the merge copies.          *)
(***************************************************************************)
Options == {"provider", "search", "threshold", "attachments", "require"}
MergedOptions == Options \ {"attachments"}
RecordedOptions == {"provider", "search", "threshold"}

Builtin ==
    [options  |-> Nothing,
     profiles |-> [n \in {"anthropic", "local"} |->
                      IF n = "anthropic" THEN [adapter |-> "anthropic", key |-> "anthropic"]
                      ELSE [adapter |-> "openai", url |-> "localhost"]]]

EmptyFile == [broken |-> FALSE, options |-> Nothing, profiles |-> Nothing]

\* One table over another, and a table of one entry.
Over(higher, lower) ==
    [x \in DOMAIN higher \cup DOMAIN lower |->
        IF x \in DOMAIN higher THEN higher[x] ELSE lower[x]]
Single(x, v) == [y \in {x} |-> v]

FieldsOf(profiles, n) == IF n \in DOMAIN profiles THEN profiles[n] ELSE Nothing

\* ConfigFile::merge: the higher tier wins option by option, and inside a
\* profile field by field.
Overlay(lower, higher) ==
    [options  |-> Over(Restrict(higher.options, DOMAIN higher.options \cap MergedOptions),
                       lower.options),
     profiles |-> [n \in DOMAIN lower.profiles \cup DOMAIN higher.profiles |->
                      Over(FieldsOf(higher.profiles, n), FieldsOf(lower.profiles, n))]]

SelectedEnvFirst(file) == [file EXCEPT !.options = Over(env, Over(cli, @))]
Selected(file) == [file EXCEPT !.options = Over(cli, Over(env, @))]

Resolved(files) == Selected(Overlay(Overlay(Builtin, files.global), files.project))

Get(options, o) == IF o \in DOMAIN options THEN options[o] ELSE "default"

\* A file that does not parse and an option out of range both fail the load.
Loads(files) ==
    /\ \A tier \in DOMAIN files : ~files[tier].broken
    /\ Get(Resolved(files).options, "threshold") # "bad"

SourceOf(o) ==
    IF o \in DOMAIN cli THEN "cli"
    ELSE IF o \in DOMAIN env THEN "env"
    ELSE IF o \in DOMAIN disk.project.options THEN "project"
    ELSE IF o \in DOMAIN disk.global.options THEN "global"
    ELSE "default"

\* What `config show` and the session's first record say of where values
\* came from: an entry for every piece not left at its default.
Provenance ==
    [o \in {p \in RecordedOptions : SourceOf(p) # "default"} |-> SourceOf(o)]

(***************************************************************************)
(* Keys and clients.                                                       *)
(***************************************************************************)
KeyResolves(ref) == ref \in EnvKeys \/ (keys.readable /\ ref \in keys.refs)

\* build_profile: the client of a profile, when there is one to build.
Builds(profiles, n) ==
    /\ n \in DOMAIN profiles
    /\ "adapter" \in DOMAIN profiles[n]
    /\ "key" \in DOMAIN profiles[n] => KeyResolves(profiles[n].key)

\* build_tool_registry: web search configured without its key is an error.
RegistryBuilds(options) == "search" \in DOMAIN options => KeyResolves(options.search)

Silence == [what |-> "nothing", about |-> {}]
Say(what, about) == said' = [what |-> what, about |-> about]
Launched == UNCHANGED <<cli, env>>

(***************************************************************************)
(* The session starts over whatever the files hold (here: nothing), on the *)
(* selected profile, or on the offline placeholder when none is selected.  *)
(***************************************************************************)
Init ==
    /\ cli \in {Nothing, [provider |-> "local"]}
    /\ env \in {Nothing, [provider |-> "anthropic"]}
    /\ disk = [tier \in {"global", "project"} |-> EmptyFile]
    /\ keys = [readable |-> TRUE, refs |-> {}]
    /\ LET config == Resolved(disk)
           chosen == Get(config.options, "provider") IN
       /\ chosen = "default" \/ Builds(config.profiles, chosen)
       /\ eng = [label   |-> chosen,
                 client  |-> FieldsOf(config.profiles, chosen),
                 factory |-> config.profiles,
                 options |-> config.options,
                 require |-> Get(config.options, "require")]
       /\ seen = config.profiles
    /\ wizard = ""
    /\ said = Silence
    /\ edits = 0

(***************************************************************************)
(* The user's editor: a file is broken or mended, an option or a profile   *)
(* field set, an option or a profile removed; a key added or dropped, the  *)
(* key file made readable to others (which makes every read of it fail).   *)
(***************************************************************************)
OptionsEdited(options) ==
    (UNION {{Over(Single(o, v), options) : v \in Settings[o]} : o \in DOMAIN Settings})
    \cup {Restrict(options, DOMAIN options \ {o}) : o \in DOMAIN options}

ProfilesEdited(profiles) ==
    (UNION {{Over(Single(n, Over(Single(f, v), FieldsOf(profiles, n))), profiles) :
                n \in Names, v \in Fields[f]} : f \in DOMAIN Fields})
    \cup {Restrict(profiles, DOMAIN profiles \ {n}) : n \in DOMAIN profiles}

Edited(file) ==
    {[file EXCEPT !.broken = ~@]}
    \cup {[file EXCEPT !.options = o] : o \in OptionsEdited(file.options)}
    \cup {[file EXCEPT !.profiles = p] : p \in ProfilesEdited(file.profiles)}

EditFile(tier) ==
    /\ edits < MaxEdits
    /\ \E file \in Edited(disk[tier]) : disk' = [disk EXCEPT ![tier] = file]
    /\ edits' = edits + 1
    /\ said' = Silence
    /\ Launched /\ UNCHANGED <<keys, eng, seen, wizard>>

EditKeys ==
    /\ edits < MaxEdits
    /\ \/ keys' = [keys EXCEPT !.readable = ~@]
       \/ \E ref \in Names \cup Settings.search :
             keys' = [keys EXCEPT !.refs = IF ref \in @ THEN @ \ {ref} ELSE @ \cup {ref}]
    /\ edits' = edits + 1
    /\ said' = Silence
    /\ Launched /\ UNCHANGED <<disk, eng, seen, wizard>>

(***************************************************************************)
(* The engine, between turns (mid-turn these commands are dropped).        *)
(***************************************************************************)
\* What the notice of a reload to `config` names.
Noted(note, condition) == IF condition THEN {note} ELSE {}

Changes(config) ==
    LET differs(o) == Get(config.options, o) # Get(eng.options, o) IN
    {o \in Options \ {"require", "provider"} : differs(o)}
    \cup Noted("provider selection", differs("provider"))
    \cup Noted("provider profiles",
               \/ DOMAIN config.profiles # DOMAIN eng.factory
               \/ config.profiles # seen)
    \cup Noted("restart", Get(config.options, "require") # eng.require)

\* The reloader remembers the profiles it saw before the step that may fail.
Reload ==
    LET config == Resolved(disk) IN
    /\ IF ~Loads(disk)
       THEN Say("error", {}) /\ UNCHANGED <<eng, seen>>
       ELSE /\ seen' = config.profiles
            /\ IF RegistryBuilds(config.options)
               THEN /\ eng' = [eng EXCEPT !.factory = config.profiles, !.options = config.options]
                    /\ Say("reloaded", Changes(config))
               ELSE Say("error", {}) /\ UNCHANGED eng
    /\ Launched /\ UNCHANGED <<disk, keys, wizard, edits>>

\* A profile that cannot be built leaves the current one active; the active
\* one is not built again.
SwitchModel(n) ==
    /\ IF Builds(eng.factory, n) /\ n # eng.label
       THEN /\ eng' = [eng EXCEPT !.label = n, !.client = eng.factory[n]]
            /\ Say("switched", {n})
       ELSE said' = Silence /\ UNCHANGED eng
    /\ Launched /\ UNCHANGED <<disk, keys, seen, wizard, edits>>

(***************************************************************************)
(* The wizard refuses a name among the profiles the engine last announced, *)
(* collects the rest, and writes: it refuses a name that resolves on disk, *)
(* writes the profile into the project file, then the key.  A refused or   *)
(* failed write keeps the wizard open.                                     *)
(***************************************************************************)
WizardName(n) ==
    /\ wizard = ""
    /\ n \notin DOMAIN eng.factory
    /\ wizard' = n
    /\ said' = Silence
    /\ Launched /\ UNCHANGED <<disk, keys, eng, seen, edits>>

WizardDismiss ==
    /\ wizard # ""
    /\ wizard' = ""
    /\ said' = Silence
    /\ Launched /\ UNCHANGED <<disk, keys, eng, seen, edits>>

FreeInEngine(n) == n \notin DOMAIN eng.factory
Free(n) == n \notin DOMAIN Resolved(disk).profiles

Endpoint(url) == IF url = "" THEN Nothing ELSE [url |-> url]
\* The written table: an endpoint when one was typed, and the profile's name
\* as its key reference.
Written(n, url) == Over([adapter |-> "openai", key |-> n], Endpoint(url))

WizardWrite(url) ==
    /\ wizard # ""
    /\ IF Loads(disk) /\ Free(wizard)
       THEN /\ disk' = [disk EXCEPT !.project.profiles = Over(Single(wizard, Written(wizard, url)), @)]
            /\ IF keys.readable
               THEN /\ keys' = [keys EXCEPT !.refs = @ \cup {wizard}]
                    /\ Say("wrote", {wizard})
                    /\ wizard' = ""
               ELSE Say("error", {}) /\ UNCHANGED <<keys, wizard>>
       ELSE Say("error", {}) /\ UNCHANGED <<disk, keys, wizard>>
    /\ Launched /\ UNCHANGED <<eng, seen, edits>>

Next ==
    \/ \E tier \in DOMAIN disk : EditFile(tier)
    \/ EditKeys
    \/ Reload
    \/ \E n \in Names \cup DOMAIN Builtin.profiles : SwitchModel(n)
    \/ \E n \in Names : WizardName(n)
    \/ WizardDismiss
    \/ \E url \in Fields.url \cup {""} : WizardWrite(url)

Spec == Init /\ [][Next]_vars

(***************************************************************************)
(* Properties.                                                             *)
(***************************************************************************)
\* The tier a recorded piece is attributed to is the one its value came
\* from, and a piece without an entry has its default: the provenance is
\* computed by a chain of tests beside the merge, not from it.
ProvenanceNamesWinner ==
    Loads(disk) =>
        LET options == Resolved(disk).options
            tiers   == [cli |-> cli, env |-> env,
                        project |-> disk.project.options, global |-> disk.global.options] IN
        \A o \in RecordedOptions :
            IF o \in DOMAIN Provenance
            THEN Get(options, o) = Get(tiers[Provenance[o]], o)
            ELSE Get(options, o) = "default"

Usable == {n \in DOMAIN Resolved(disk).profiles : Builds(Resolved(disk).profiles, n)}

\* The wizard only creates: its write leaves every profile that resolved as
\* it was, and able to be built if it was, whatever the files became since
\* the name was checked.
OnlyAdds ==
    \A url \in Fields.url \cup {""} : WizardWrite(url) =>
        LET before == Resolved(disk).profiles
            after  == Resolved(disk').profiles IN
        /\ DOMAIN before \subseteq DOMAIN after
        /\ \A n \in DOMAIN before : after[n] = before[n]
        /\ Usable \subseteq Usable'

WizardOnlyAdds == [][OnlyAdds]_vars

\* A profile the wizard reports written can be switched to once the engine
\* has reloaded: it resolves as written, and its key is found.
WizardProfileUsable ==
    said.what = "wrote" => said.about \subseteq Usable

(***************************************************************************)
(* The invariant: the files and the keys are tables, and what was reported *)
(* written can be used.                                                    *)
(***************************************************************************)
Table(file) ==
    file = [broken |-> file.broken, options |-> file.options, profiles |-> file.profiles]

Tables ==
    /\ disk = [tier \in {"global", "project"} |-> disk[tier]]
    /\ Table(disk["global"]) /\ Table(disk["project"])
    /\ keys = [readable |-> keys.readable, refs |-> keys.refs]

ConfigInv == Tables /\ WizardProfileUsable
=============================================================================
