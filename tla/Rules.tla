-------------------------------- MODULE Rules --------------------------------
(* The permission rule engine as pure operators                             *)
(* (crates/emberly-sandbox/src/rules.rs and mode.rs).                        *)
(*                                                                          *)
(* A command is the sequence of its tokens: rules.rs matches a prefix of the *)
(* text that ends at a token boundary, which is a prefix of that sequence,   *)
(* and of two prefixes of one command the longer text has more tokens.       *)
EXTENDS Integers, Sequences, FiniteSets, SequencesExt

AnyTool == "*"                       \* ToolSelector::Any
NoPrefix == <<"(any)">>              \* Matcher::Any: a token no command has
Decision == {"allow", "ask", "deny"}
Mode == {"normal", "auto_accept_edits", "auto"}
RuleSource == {"builtin", "global", "project", "session"}

SourceRank == [builtin |-> 0, global |-> 1, project |-> 2, session |-> 3]

(* A query is [tool, command, outside_root]; every query carries a command,  *)
(* read for bash only, as make_query does.                                   *)
IsBash(q) == q.tool = "bash"

\* An empty prefix matches the empty command only.
CommandHasPrefix(command, prefix) ==
    IF prefix = <<>> THEN command = <<>> ELSE IsPrefix(prefix, command)

MatcherMatches(prefix, q) ==
    \/ prefix = NoPrefix
    \/ prefix # NoPrefix /\ IsBash(q) /\ CommandHasPrefix(q.command, prefix)

RuleMatches(rule, q) ==
    /\ rule.tool \in {AnyTool, q.tool}
    /\ MatcherMatches(rule.prefix, q)

MatcherSpecificity(prefix) == IF prefix = NoPrefix THEN 0 ELSE 1 + Len(prefix)
ToolSpecificity(tool) == IF tool = AnyTool THEN 0 ELSE 1

(* Rule a does not beat rule b: source first, then the matcher, then the     *)
(* tool.                                                                    *)
AtMost(a, b) ==
    LET sa == SourceRank[a.source]          sb == SourceRank[b.source]
        ma == MatcherSpecificity(a.prefix)  mb == MatcherSpecificity(b.prefix)
    IN  \/ sa < sb
        \/ sa = sb /\ ma < mb
        \/ sa = sb /\ ma = mb /\ ToolSpecificity(a.tool) <= ToolSpecificity(b.tool)

Matching(rules, q) == {i \in 1..Len(rules) : RuleMatches(rules[i], q)}

(* max_by keeps the last of the maximal elements.                            *)
Winner(rules, q) ==
    CHOOSE i \in Matching(rules, q) :
        \A j \in Matching(rules, q) :
            /\ AtMost(rules[j], rules[i])
            /\ j > i => ~AtMost(rules[i], rules[j])

Decide(rules, q) ==
    IF Matching(rules, q) = {} THEN "ask" ELSE rules[Winner(rules, q)].action

ModeAutoAllows(mode, q) ==
    \/ mode = "auto"
    \/ mode = "auto_accept_edits" /\ q.tool \in {"write_file", "edit_file"}

(* RuleEngine::evaluate: outside the root only a Deny survives, everything   *)
(* else asks; inside, the mode may turn an Ask into an Allow.                *)
Evaluate(rules, q, mode) ==
    LET base == Decide(rules, q)
    IN  IF q.outside_root THEN (IF base = "deny" THEN "deny" ELSE "ask")
        ELSE IF base = "ask" /\ ModeAutoAllows(mode, q) THEN "allow" ELSE base

\* Mutant: the grant keeps the command's first token only.
GrantFirstToken(q) ==
    [tool |-> q.tool, prefix |-> IF IsBash(q) THEN SubSeq(q.command, 1, 1) ELSE NoPrefix,
     action |-> "allow", source |-> "session"]

(* grant_rule: the exact command for bash, the whole tool otherwise.         *)
GrantRule(q) ==
    [tool |-> q.tool, prefix |-> IF IsBash(q) THEN q.command ELSE NoPrefix,
     action |-> "allow", source |-> "session"]

(* Mode::resolve: the auto tiers need active confinement.                    *)
ModeResolves(mode, confined) == mode = "normal" \/ confined

(* RuleSpec::into_rule: an empty pattern (also "*", whose sugar is stripped) *)
(* is Matcher::Any, never the prefix that matches the empty command only.    *)
IntoRule(spec, source) ==
    [tool |-> spec.tool,
     prefix |-> IF spec.pattern \in {NoPrefix, <<>>} THEN NoPrefix ELSE spec.pattern,
     action |-> spec.action, source |-> source]

ReadRule(tool) ==
    [tool |-> tool, prefix |-> NoPrefix, action |-> "allow", source |-> "builtin"]
AllowlistRule(prefix) ==
    [tool |-> "bash", prefix |-> prefix, action |-> "allow", source |-> "builtin"]

(* builtin_defaults over an allowlist given as a sequence of prefixes; the   *)
(* list is left out when confinement is unavailable.                         *)
BuiltinDefaults(allowlist, allowlistActive) ==
    <<ReadRule("read_file"), ReadRule("read_document"),
      [tool |-> "web_search", prefix |-> NoPrefix, action |-> "ask", source |-> "builtin"]>>
    \o IF allowlistActive
       THEN [i \in 1..Len(allowlist) |-> AllowlistRule(allowlist[i])]
       ELSE <<>>
==============================================================================
