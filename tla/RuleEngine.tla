----------------------------- MODULE RuleEngine ------------------------------
(* The life of one project's permission rules: the rules the engine holds,   *)
(* the permissions.toml they come from, the grants the user adds while the   *)
(* session runs, /reload, and a restart that keeps only the file.            *)
(* (rules.rs RuleEngine, engine/permissions.rs, engine/runtime_config.rs)    *)
EXTENDS Rules

CONSTANTS
    Query,        \* the requests tools can raise: [tool, command, outside_root]
    ConfigFiles,  \* contents a user's hand may give permissions.toml
    Allowlist,    \* DEFAULT_BASH_ALLOWLIST, a sequence of prefixes
    Confined,     \* is OS confinement active (else the allowlist is off)
    MaxGrants,    \* bound: grants added between two restarts
    MaxFile       \* bound: rules in the file

VARIABLES
    rules,      \* RuleEngine.rules
    baseLen,    \* RuleEngine.base_len: rules past it are session grants
    ruleSpecs,  \* SafetyState.rule_specs: the config rules last loaded
    file,       \* the rules in .agents/permissions.toml
    granted,    \* history: requests granted for this session
    persisted   \* history: requests granted for the project since the last edit

vars == <<rules, baseLen, ruleSpecs, file, granted, persisted>>

InRoot == {q \in Query : ~q.outside_root}
Loaded(config) == BuiltinDefaults(Allowlist, Confined) \o config

Init ==
    /\ file \in ConfigFiles
    /\ ruleSpecs = file
    /\ rules = Loaded(file)
    /\ baseLen = Len(rules)
    /\ granted = {} /\ persisted = {}

AddSessionGrant(q) ==
    /\ rules' = Append(rules, GrantRule(q))
    /\ granted' = granted \cup {q}

(* Only a request the rules ask about is ever put to the user.               *)
Prompted(q) ==
    /\ Evaluate(rules, q, "normal") = "ask"
    /\ Len(rules) - baseLen < MaxGrants

(* AllowForSession on an in-root prompt.                                     *)
AllowForSession(q) ==
    /\ Prompted(q)
    /\ AddSessionGrant(q)
    /\ UNCHANGED <<baseLen, ruleSpecs, file, persisted>>

(* AlwaysAllowInProject: a session grant, and a rule block appended to the   *)
(* file; a failed write leaves the session grant alone.                      *)
AlwaysAllowInProject(q) ==
    /\ Prompted(q)
    /\ AddSessionGrant(q)
    /\ \/ /\ Len(file) < MaxFile
          /\ file' = Append(file, IntoRule([tool    |-> GrantRule(q).tool,
                                            pattern |-> GrantRule(q).prefix,
                                            action  |-> "allow"], "project"))
          /\ persisted' = persisted \cup {q}
       \/ UNCHANGED <<file, persisted>>
    /\ UNCHANGED <<baseLen, ruleSpecs>>

EditFile ==
    /\ file' \in ConfigFiles \ {file}
    /\ persisted' = {}
    /\ UNCHANGED <<rules, baseLen, ruleSpecs, granted>>

\* Mutant: the split is off by one.
GrantsAfterFirst == SubSeq(rules, baseLen + 2, Len(rules))
SessionGrants == SubSeq(rules, baseLen + 1, Len(rules))

(* /reload: only when the file differs from what was loaded; the grants past *)
(* base_len are split off and put back behind the new config rules.          *)
ReloadConfigRules ==
    /\ file # ruleSpecs
    /\ rules' = Loaded(file) \o SessionGrants
    /\ baseLen' = Len(Loaded(file))
    /\ ruleSpecs' = file
    /\ UNCHANGED <<file, granted, persisted>>

(* The process ends and starts again: session grants are in memory only.     *)
Restart ==
    /\ rules' = Loaded(file)
    /\ baseLen' = Len(Loaded(file))
    /\ ruleSpecs' = file
    /\ granted' = {}
    /\ UNCHANGED <<file, persisted>>

Next ==
    \/ \E q \in InRoot : AllowForSession(q) \/ AlwaysAllowInProject(q)
    \/ EditFile \/ ReloadConfigRules \/ Restart

Spec == Init /\ [][Next]_vars

------------------------------------------------------------------------------

(* Where the base ends and the grants begin: nothing past base_len is a      *)
(* config rule, nothing before it is a grant (the split reload relies on).   *)
BaseSplit ==
    /\ baseLen \in 0..Len(rules)
    /\ \A i \in 1..Len(rules) : rules[i].source = "session" <=> i > baseLen

(* "Allow for this session" means it: whatever the user then writes in the   *)
(* file and reloads, a request granted this session is not asked again in    *)
(* any mode until the session ends.                                          *)
GrantsSurviveReload ==
    \A q \in granted : \A m \in Mode : Evaluate(rules, q, m) = "allow"

(* "Always allow in project" means it too: the rule read back from the file  *)
(* by the next session still allows the request, whatever rules stood in the *)
(* file before it, unless the user edited the file since.                    *)
PersistedGrantRemembered ==
    \A q \in persisted : Evaluate(Loaded(file), q, "normal") = "allow"

(* Precedence of rules.rs decide, said of outcomes: a decision can differ    *)
(* from what a matching rule says only when some matching rule that decides  *)
(* so comes from a higher source, or from the same source with a command     *)
(* prefix at least as long, or the same prefix and a tool named no less      *)
(* precisely.  A blanket rule never overrides a named-tool deny.             *)
PrecedenceRespected ==
    \A q \in Query : \A i \in Matching(rules, q) :
        LET r == rules[i] IN
        r.action # Decide(rules, q) =>
            \E j \in Matching(rules, q) :
                LET w == rules[j] IN
                /\ w.action = Decide(rules, q)
                /\ \/ SourceRank[w.source] > SourceRank[r.source]
                   \/ /\ w.source = r.source
                      /\ \/ r.prefix = NoPrefix /\ w.prefix # NoPrefix
                         \/ /\ r.prefix # NoPrefix /\ w.prefix # NoPrefix
                            /\ Len(w.prefix) > Len(r.prefix)
                         \/ /\ r.prefix = w.prefix
                            /\ r.tool # AnyTool => w.tool # AnyTool

(* HC-4 and the mode tiers: no rule, grant or mode makes an outside-root     *)
(* request run unasked, and no mode lifts a deny.                            *)
HardLines ==
    \A q \in Query : \A m \in Mode :
        /\ q.outside_root => Evaluate(rules, q, m) # "allow"
        /\ Decide(rules, q) = "deny" => Evaluate(rules, q, m) = "deny"

(* An approval never widens what it was given for: a request of another tool *)
(* or a command that does not continue a granted one is decided exactly as   *)
(* it would be without the session's grants.                                 *)
GrantsStayNarrow ==
    \A q \in Query :
        (\A g \in granted :
            g.tool = q.tool => IsBash(q) /\ ~CommandHasPrefix(q.command, g.command))
        => Decide(rules, q) = Decide(SubSeq(rules, 1, baseLen), q)

(* What the user granted stays granted over hand edits, reloads and, where   *)
(* persisted, restarts, and the split the reload relies on holds.            *)
GrantsLast == BaseSplit /\ GrantsSurviveReload /\ PersistedGrantRemembered

(* No rule, grant or mode overrides what stands above it, runs an            *)
(* outside-root request unasked, or widens an approval.                      *)
RulesKeepRank == PrecedenceRespected /\ HardLines /\ GrantsStayNarrow
==============================================================================
