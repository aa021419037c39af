--------------------------- MODULE RuleEngineProofs ---------------------------
(* The permission rules, for every set of requests, every permissions.toml   *)
(* and every allowlist: who wins a decision, and that grants last, rank and  *)
(* reach as they should over any sequence of grants, hand edits, reloads and *)
(* restarts.                                                                 *)
(* Then the tools: what a killed command leaves behind, what an edit writes, *)
(* and what a command may write under the root.  There x1 to x6 stand, in    *)
(* the part "bash", for os, call, leader, reaped, struck and forks, in the   *)
(* part "files" for files, link, call, approved, calls and outside, and in   *)
(* the part "fence" for host, recorded, path, entries, run and gitBy.        *)
EXTENDS Tools, TLAPS, FiniteSetTheorems, WellFoundedInduction, NaturalsInduction

(* The tools of the built-in rules are names too; the provers have to be     *)
(* told so of a literal.                                                     *)
ToolName == STRING \cup {AnyTool, "bash", "read_file", "read_document", "web_search"}
Word == STRING \ {"(any)"}
Command == Seq(Word)
Rule == [tool : ToolName, prefix : Command \cup {NoPrefix}, action : Decision,
         source : RuleSource]
\* What into_rule gives: never the empty prefix, never a session's rule.
ConfigRule == [tool : ToolName, prefix : (Command \ {<<>>}) \cup {NoPrefix},
               action : Decision, source : {"global", "project"}]
QuerySet == [tool : ToolName \ {AnyTool}, command : Command, outside_root : BOOLEAN]

\* What the program can be given; no token of a command is NoPrefix's.
Inputs ==
    /\ Query \subseteq QuerySet
    /\ Allowlist \in Seq(Command)
    /\ ConfigFiles \subseteq Seq(ConfigRule)

------------------------------------------------------------------------------
(* Of finitely many one is the greatest.                                     *)

LEMMA GreatestBounded ==
    ASSUME NEW T, T \subseteq Nat, T # {}, NEW b \in Nat, \A x \in T : x <= b
    PROVE  \E m \in T : \A x \in T : x <= m
  <1> DEFINE D == {b - x : x \in T}
             R == {ss \in Nat \X Nat : ss[1] < ss[2]}
  <1>1. D \subseteq Nat /\ D # {}
    <2>1. \A x \in T : b - x \in Nat
      OBVIOUS
    <2>2. PICK x \in T : TRUE
      OBVIOUS
    <2>3. b - x \in D
      OBVIOUS
    <2> QED BY <2>1, <2>3
  <1>2. IsWellFoundedOn(R, Nat)
    BY NatLessThanWellFounded DEF OpToRel
  <1> HIDE DEF R
  <1>3. PICK d \in D : \A y \in D : <<y, d>> \notin R
    BY <1>1, <1>2, WFMin
  <1>4. \A y \in D : ~(y < d)
    BY <1>1, <1>3 DEF R
  <1>5. PICK m \in T : d = b - m
    BY <1>3
  <1>6. \A x \in T : x <= m
    <2> TAKE x \in T
    <2>1. b - x \in D /\ ~(b - x < b - m)
      BY <1>4, <1>5
    <2> QED BY <2>1
  <1> QED BY <1>6

(* And one index of a bounded function's greatest value.                     *)
LEMMA Greatest ==
    ASSUME NEW M, M # {}, NEW f \in [M -> Nat], NEW b \in Nat, \A i \in M : f[i] <= b
    PROVE  \E i \in M : \A j \in M : f[j] <= f[i]
  <1> DEFINE T == {f[i] : i \in M}
  <1>1. T \subseteq Nat /\ T # {} /\ \A x \in T : x <= b
    OBVIOUS
  <1>2. PICK m \in T : \A x \in T : x <= m
    BY <1>1, GreatestBounded
  <1>3. PICK i \in M : m = f[i]
    BY <1>2
  <1>4. \A j \in M : f[j] <= f[i]
    BY <1>2, <1>3
  <1> QED BY <1>4

------------------------------------------------------------------------------
(* Who wins                                                                  *)

Rank(r) == SourceRank[r.source]
Exact(r) == MatcherSpecificity(r.prefix)
Named(r) == ToolSpecificity(r.tool)

(* What rules are compared by is numbers.                                    *)
LEMMA Keys ==
    ASSUME NEW r \in Rule
    PROVE  /\ Rank(r) \in 0..3 /\ Exact(r) \in Nat /\ Named(r) \in 0..1
           /\ r.source = "session" <=> Rank(r) = 3
  <1>1. Rank(r) \in 0..3 /\ (r.source = "session" <=> Rank(r) = 3)
    BY DEF Rank, Rule, RuleSource, SourceRank
  <1>2. Exact(r) \in Nat
    BY DEF Exact, MatcherSpecificity, Rule, Command
  <1>3. Named(r) \in 0..1
    BY DEF Named, ToolSpecificity
  <1> QED BY <1>1, <1>2, <1>3

(* The order of decide, said of the keys.                                    *)
LEMMA AtMostKeys ==
    ASSUME NEW a \in Rule, NEW b \in Rule
    PROVE  AtMost(a, b) <=> \/ Rank(a) < Rank(b)
                            \/ Rank(a) = Rank(b) /\ Exact(a) < Exact(b)
                            \/ /\ Rank(a) = Rank(b) /\ Exact(a) = Exact(b)
                               /\ Named(a) <= Named(b)
  BY DEF AtMost, Rank, Exact, Named

(* A prefix that matches is no longer than the command, and two that match   *)
(* and are of one length are the same.                                       *)
LEMMA PrefixFits ==
    ASSUME NEW c \in Command, NEW p \in Command, CommandHasPrefix(c, p)
    PROVE  Len(p) \in Nat /\ Len(p) <= Len(c) /\ p = SubSeq(c, 1, Len(p))
  <1>1. CASE p = <<>>
    BY <1>1 DEF CommandHasPrefix, Command
  <1>2. CASE p # <<>>
    <2>1. Len(p) <= Len(c) /\ SubSeq(p, 1, Len(p)) = SubSeq(c, 1, Len(p))
      BY <1>2 DEF CommandHasPrefix, IsPrefix
    <2>2. SubSeq(p, 1, Len(p)) = p
      BY DEF Command
    <2> QED BY <2>1, <2>2 DEF Command
  <1> QED BY <1>1, <1>2

(* A rule that matches is no more exact than the command it matches.         *)
LEMMA MatchesFits ==
    ASSUME NEW r \in Rule, NEW q \in QuerySet, RuleMatches(r, q)
    PROVE  /\ Exact(r) <= 1 + Len(q.command)
           /\ r.prefix # NoPrefix => /\ r.prefix \in Command /\ IsBash(q)
                                     /\ CommandHasPrefix(q.command, r.prefix)
                                     /\ Exact(r) = 1 + Len(r.prefix)
           /\ r.prefix = NoPrefix => Exact(r) = 0
  <1>1. q.command \in Command /\ Len(q.command) \in Nat
    BY DEF QuerySet, Command
  <1>2. CASE r.prefix = NoPrefix
    BY <1>1, <1>2 DEF Exact, MatcherSpecificity
  <1>3. CASE r.prefix # NoPrefix
    <2>1. r.prefix \in Command /\ IsBash(q) /\ CommandHasPrefix(q.command, r.prefix)
      BY <1>3 DEF Rule, RuleMatches, MatcherMatches
    <2>2. Exact(r) = 1 + Len(r.prefix)
      BY <1>3 DEF Exact, MatcherSpecificity
    <2> QED BY <1>1, <1>3, <2>1, <2>2, PrefixFits
  <1> QED BY <1>2, <1>3

Wins(rs, q, i) ==
    \A j \in Matching(rs, q) : AtMost(rs[j], rs[i]) /\ (j > i => ~AtMost(rs[i], rs[j]))

(* Among the rules that match there is a last of the greatest.               *)
LEMMA WinnerExists ==
    ASSUME NEW rs \in Seq(Rule), NEW q \in QuerySet, Matching(rs, q) # {}
    PROVE  \E i \in Matching(rs, q) : Wins(rs, q, i)
  <1> DEFINE M0 == Matching(rs, q)
  <1>1. /\ Len(rs) \in Nat /\ Len(q.command) \in Nat
        /\ \A i \in M0 : /\ i \in 1..Len(rs) /\ rs[i] \in Rule /\ RuleMatches(rs[i], q)
    BY DEF Matching, QuerySet, Command
  <1>2. \A i \in M0 : /\ Rank(rs[i]) \in Nat /\ Rank(rs[i]) <= 3
                      /\ Exact(rs[i]) \in Nat /\ Exact(rs[i]) <= 1 + Len(q.command)
                      /\ Named(rs[i]) \in Nat /\ Named(rs[i]) <= 1
    BY <1>1, Keys, MatchesFits
  <1> HIDE DEF M0
  <1>3. PICK a \in M0 : \A j \in M0 : Rank(rs[j]) <= Rank(rs[a])
    <2> DEFINE f == [i \in M0 |-> Rank(rs[i])]
    <2>1. f \in [M0 -> Nat] /\ (\A i \in M0 : f[i] = Rank(rs[i])) /\ \A i \in M0 : f[i] <= 3
      BY <1>2
    <2> HIDE DEF f
    <2>2. \E i \in M0 : \A j \in M0 : f[j] <= f[i]
      BY <2>1, Greatest DEF M0
    <2> QED BY <2>1, <2>2
  <1> DEFINE M1 == {i \in M0 : Rank(rs[i]) = Rank(rs[a])}
  <1>4. PICK b \in M1 : \A j \in M1 : Exact(rs[j]) <= Exact(rs[b])
    <2> DEFINE f == [i \in M1 |-> Exact(rs[i])]
    <2>1. /\ f \in [M1 -> Nat] /\ (\A i \in M1 : f[i] = Exact(rs[i]))
          /\ \A i \in M1 : f[i] <= 1 + Len(q.command)
          /\ 1 + Len(q.command) \in Nat /\ a \in M1
      BY <1>1, <1>2
    <2> HIDE DEF f, M1
    <2>2. \E i \in M1 : \A j \in M1 : f[j] <= f[i]
      BY <2>1, Greatest
    <2> QED BY <2>1, <2>2
  <1> DEFINE M2 == {i \in M1 : Exact(rs[i]) = Exact(rs[b])}
  <1>5. PICK c \in M2 : \A j \in M2 : Named(rs[j]) <= Named(rs[c])
    <2> DEFINE f == [i \in M2 |-> Named(rs[i])]
    <2>1. /\ f \in [M2 -> Nat] /\ (\A i \in M2 : f[i] = Named(rs[i]))
          /\ \A i \in M2 : f[i] <= 1
          /\ b \in M2
      BY <1>2
    <2> HIDE DEF f, M2
    <2>2. \E i \in M2 : \A j \in M2 : f[j] <= f[i]
      BY <2>1, Greatest
    <2> QED BY <2>1, <2>2
  <1> DEFINE M3 == {i \in M2 : Named(rs[i]) = Named(rs[c])}
  <1>6. PICK w \in M3 : \A j \in M3 : j <= w
    <2>1. M3 \subseteq Nat /\ c \in M3 /\ \A i \in M3 : i <= Len(rs)
      BY <1>1
    <2> HIDE DEF M3
    <2> QED BY <1>1, <2>1, GreatestBounded
  <1>7. w \in M0 /\ Rank(rs[w]) = Rank(rs[a]) /\ Exact(rs[w]) = Exact(rs[b])
        /\ Named(rs[w]) = Named(rs[c])
    OBVIOUS
  <1>8. ASSUME NEW j \in M0
        PROVE  AtMost(rs[j], rs[w]) /\ (j > w => ~AtMost(rs[w], rs[j]))
    <2>1. rs[j] \in Rule /\ rs[w] \in Rule /\ w \in Nat /\ j \in Nat
      BY <1>1, <1>7
    <2>2. \/ Rank(rs[j]) < Rank(rs[w])
          \/ Rank(rs[j]) = Rank(rs[w]) /\ j \in M1
      BY <1>2, <1>3, <1>7
    <2>3. j \in M1 => \/ Exact(rs[j]) < Exact(rs[w])
                      \/ Exact(rs[j]) = Exact(rs[w]) /\ j \in M2
      BY <1>2, <1>4, <1>7
    <2>4. j \in M2 => \/ Named(rs[j]) < Named(rs[w])
                      \/ Named(rs[j]) = Named(rs[w]) /\ j \in M3
      BY <1>2, <1>5, <1>7
    <2>5. j \in M3 => ~(j > w)
      BY <1>6, <2>1
    <2> HIDE DEF M1, M2, M3
    <2> QED BY <1>2, <1>7, <2>1, <2>2, <2>3, <2>4, <2>5, AtMostKeys
  <1> QED BY <1>7, <1>8 DEF Wins, M0

(* Winner is it, and the only one.                                           *)
LEMMA WinnerWins ==
    ASSUME NEW rs \in Seq(Rule), NEW q \in QuerySet, Matching(rs, q) # {}
    PROVE  /\ Winner(rs, q) \in Matching(rs, q) /\ Wins(rs, q, Winner(rs, q))
           /\ Decide(rs, q) = rs[Winner(rs, q)].action
  BY WinnerExists DEF Winner, Wins, Decide

(* Two winners are one.                                                      *)
LEMMA WinnerUnique ==
    ASSUME NEW rs \in Seq(Rule), NEW q \in QuerySet,
           NEW i \in Matching(rs, q), Wins(rs, q, i),
           NEW k \in Matching(rs, q), Wins(rs, q, k)
    PROVE  i = k
  <1>1. i \in Nat /\ k \in Nat
    BY DEF Matching
  <1> QED BY <1>1 DEF Wins

------------------------------------------------------------------------------
(* The rules the program makes                                               *)

LEMMA CommandsAreWords ==
    ASSUME NEW c \in Command
    PROVE  c # NoPrefix /\ Len(c) \in Nat /\ IsPrefix(c, c)
  <1>1. c = NoPrefix => c[1] \in Word
    BY DEF NoPrefix, Command
  <1> QED BY <1>1 DEF NoPrefix, Word, Command, IsPrefix

(* A grant is about its own request.                                         *)
LEMMA GrantType ==
    ASSUME NEW q \in QuerySet
    PROVE  /\ GrantRule(q) \in Rule /\ RuleMatches(GrantRule(q), q)
           /\ GrantRule(q).action = "allow" /\ GrantRule(q).source = "session"
           /\ GrantRule(q).tool = q.tool
           /\ GrantRule(q).prefix = IF IsBash(q) THEN q.command ELSE NoPrefix
  <1> DEFINE g == GrantRule(q)
  <1>1. /\ g.tool = q.tool /\ g.action = "allow" /\ g.source = "session"
        /\ g.prefix = IF IsBash(q) THEN q.command ELSE NoPrefix
    BY DEF GrantRule
  <1>2. q.tool \in ToolName /\ q.command \in Command
    BY DEF QuerySet
  <1>3. g \in Rule
    BY <1>2 DEF GrantRule, Rule, Decision, RuleSource
  <1> HIDE DEF g
  <1>4. RuleMatches(g, q)
    BY <1>1, <1>2, CommandsAreWords DEF RuleMatches, MatcherMatches, CommandHasPrefix
  <1> QED BY <1>1, <1>3, <1>4 DEF g

(* The rule a persisted grant leaves in the file.                            *)
ProjectRule(q) ==
    IntoRule([tool |-> GrantRule(q).tool, pattern |-> GrantRule(q).prefix,
              action |-> "allow"], "project")

(* It is a rule of the file that matches its own request.                    *)
LEMMA ProjectRuleType ==
    ASSUME NEW q \in QuerySet
    PROVE  /\ ProjectRule(q) \in ConfigRule /\ RuleMatches(ProjectRule(q), q)
           /\ ProjectRule(q).action = "allow" /\ ProjectRule(q).source = "project"
           /\ ProjectRule(q).tool = q.tool
           /\ ProjectRule(q).prefix = IF IsBash(q) /\ q.command # <<>> THEN q.command
                                      ELSE NoPrefix
  <1> DEFINE g == ProjectRule(q)
  <1>1. q.tool \in ToolName /\ q.command \in Command /\ q.command # NoPrefix
    BY CommandsAreWords DEF QuerySet
  <1>2. /\ g.tool = q.tool /\ g.action = "allow" /\ g.source = "project"
        /\ g.prefix = IF IsBash(q) /\ q.command # <<>> THEN q.command ELSE NoPrefix
    BY <1>1, GrantType DEF ProjectRule, IntoRule
  <1>3. g \in ConfigRule
    BY <1>1, <1>2 DEF ProjectRule, IntoRule, ConfigRule, Decision
  <1> HIDE DEF g
  <1>4. RuleMatches(g, q)
    BY <1>1, <1>2, CommandsAreWords DEF RuleMatches, MatcherMatches, CommandHasPrefix
  <1> QED BY <1>2, <1>3, <1>4 DEF g

(* It is as great as any rule of a file or built in that matches.            *)
LEMMA ProjectRuleGreatest ==
    ASSUME NEW q \in QuerySet, NEW r \in Rule, RuleMatches(r, q),
           r.source = "builtin" \/ r \in ConfigRule
    PROVE  AtMost(r, ProjectRule(q))
  <1> DEFINE g == ProjectRule(q)
  <1>1. /\ g \in ConfigRule /\ g.source = "project" /\ g.tool = q.tool /\ q.tool # AnyTool
        /\ g.prefix = IF IsBash(q) /\ q.command # <<>> THEN q.command ELSE NoPrefix
    BY ProjectRuleType DEF QuerySet
  <1> HIDE DEF g
  <1>2. g \in Rule
    BY <1>1 DEF ConfigRule, Rule, RuleSource
  <1>3. Rank(g) = 2 /\ Named(g) = 1 /\ Named(r) \in 0..1 /\ Exact(r) \in Nat
    BY <1>1, Keys DEF Rank, SourceRank, Named, ToolSpecificity
  <1>4. CASE r.source = "builtin"
    <2>1. Rank(r) = 0
      BY <1>4 DEF Rank, SourceRank
    <2> QED BY <1>2, <1>3, <2>1, AtMostKeys DEF g
  <1>5. CASE r \in ConfigRule
    <2>1. Rank(r) <= 2 /\ Rank(r) \in Nat /\ r.prefix # <<>>
      BY <1>5 DEF Rank, SourceRank, ConfigRule, NoPrefix
    <2>2. q.command \in Command /\ Len(q.command) \in Nat
      BY CommandsAreWords DEF QuerySet
    <2>3. Exact(r) <= Exact(g)
      <3>1. CASE r.prefix = NoPrefix
        <4>1. Exact(r) = 0 /\ Exact(g) \in Nat
          BY <1>2, <3>1, Keys DEF Exact, MatcherSpecificity
        <4> QED BY <1>3, <4>1
      <3>2. CASE r.prefix # NoPrefix
        <4>1. /\ IsBash(q) /\ Exact(r) <= 1 + Len(q.command) /\ r.prefix \in Command
              /\ CommandHasPrefix(q.command, r.prefix)
          BY <3>2, MatchesFits
        <4>2. q.command # <<>>
          BY <2>1, <2>2, <4>1, PrefixFits DEF Command
        <4>3. g.prefix = q.command /\ q.command # NoPrefix
          BY <1>1, <2>2, <4>1, <4>2, CommandsAreWords
        <4>4. Exact(g) = 1 + Len(q.command)
          BY <4>3 DEF Exact, MatcherSpecificity
        <4> QED BY <4>1, <4>4
      <3> QED BY <3>1, <3>2
    <2>4. Exact(g) \in Nat
      BY <1>2, Keys
    <2> QED BY <1>2, <1>3, <2>1, <2>3, <2>4, AtMostKeys DEF g
  <1> QED BY <1>4, <1>5

(* What is loaded: the built-in rules, then those of the file.               *)
Builtin == BuiltinDefaults(Allowlist, Confined)

BuiltinRule == [tool : ToolName, prefix : Command \cup {NoPrefix}, action : Decision,
                source : {"builtin"}]

(* A built-in rule is a rule of the lowest source.                           *)
LEMMA BuiltinRules ==
    BuiltinRule \subseteq Rule /\ \A r \in BuiltinRule : r.source = "builtin"
  BY DEF BuiltinRule, Rule, RuleSource

(* builtin_defaults gives built-in rules.                                    *)
LEMMA BuiltinType ==
    ASSUME Inputs
    PROVE  /\ Builtin \in Seq(Rule) /\ Len(Builtin) \in Nat
           /\ \A i \in 1..Len(Builtin) : Builtin[i].source = "builtin"
  <1> DEFINE ask == [tool |-> "web_search", prefix |-> NoPrefix, action |-> "ask",
                     source |-> "builtin"]
             head == <<ReadRule("read_file"), ReadRule("read_document"), ask>>
             tail == IF Confined THEN [i \in 1..Len(Allowlist) |-> AllowlistRule(Allowlist[i])]
                     ELSE <<>>
  <1>0. "allow" \in Decision /\ "ask" \in Decision /\ NoPrefix \in Command \cup {NoPrefix}
    BY DEF Decision
  <1>1. /\ ReadRule("read_file") \in BuiltinRule /\ ReadRule("read_document") \in BuiltinRule
        /\ ask \in BuiltinRule
    <2>0. "read_file" \in ToolName /\ "read_document" \in ToolName /\ "web_search" \in ToolName
      BY DEF ToolName
    <2>1. \A t \in ToolName : ReadRule(t) \in BuiltinRule
      BY <1>0 DEF ReadRule, BuiltinRule
    <2>2. ask \in BuiltinRule
      BY <1>0, <2>0 DEF BuiltinRule
    <2> QED BY <2>0, <2>1, <2>2
  <1>2. head \in Seq(BuiltinRule)
    BY <1>1
  <1>3. tail \in Seq(BuiltinRule)
    <2>1. \A i \in 1..Len(Allowlist) : AllowlistRule(Allowlist[i]) \in BuiltinRule
      <3>1. \A i \in 1..Len(Allowlist) : Allowlist[i] \in Command
        BY DEF Inputs
      <3>2. \A p \in Command : AllowlistRule(p) \in BuiltinRule
        BY <1>0 DEF AllowlistRule, BuiltinRule, ToolName
      <3> QED BY <3>1, <3>2
    <2>2. Len(Allowlist) \in Nat
      BY DEF Inputs
    <2>3. [i \in 1..Len(Allowlist) |-> AllowlistRule(Allowlist[i])] \in Seq(BuiltinRule)
      BY <2>1, <2>2
    <2>4. <<>> \in Seq(BuiltinRule)
      OBVIOUS
    <2> QED BY <2>3, <2>4
  <1>4. Builtin = head \o tail
    BY DEF Builtin, BuiltinDefaults
  <1> HIDE DEF head, tail
  <1>5. Builtin \in Seq(BuiltinRule)
    BY <1>2, <1>3, <1>4
  <1>6. Builtin \in Seq(Rule) /\ Len(Builtin) \in Nat
        /\ \A i \in 1..Len(Builtin) : Builtin[i] \in BuiltinRule
    BY <1>5, BuiltinRules
  <1> QED BY <1>6, BuiltinRules

(* Where the loaded rules come from, place by place.                         *)
LEMMA LoadedType ==
    ASSUME Inputs, NEW config \in Seq(ConfigRule)
    PROVE  /\ Loaded(config) \in Seq(Rule)
           /\ Len(Loaded(config)) = Len(Builtin) + Len(config) /\ Len(config) \in Nat
           /\ \A i \in 1..Len(Builtin) : Loaded(config)[i].source = "builtin"
           /\ \A i \in 1..Len(config) : /\ Len(Builtin) + i \in 1..Len(Loaded(config))
                                        /\ Loaded(config)[Len(Builtin) + i] = config[i]
           /\ \A i \in 1..Len(Loaded(config)) :
                  \/ i \in 1..Len(Builtin)
                  \/ \E j \in 1..Len(config) : i = Len(Builtin) + j
           /\ \A i \in 1..Len(Loaded(config)) :
                  \/ Loaded(config)[i].source = "builtin"
                  \/ Loaded(config)[i] \in ConfigRule
           /\ \A i \in 1..Len(Loaded(config)) : Loaded(config)[i].source # "session"
  <1>1. Loaded(config) = Builtin \o config
    BY DEF Loaded, Builtin
  <1>2. ConfigRule \subseteq Rule
    BY DEF ConfigRule, Rule, RuleSource
  <1>3. config \in Seq(Rule) /\ \A i \in 1..Len(config) : config[i] \in ConfigRule
    BY <1>2
  <1>4. /\ Loaded(config) \in Seq(Rule)
        /\ Len(Loaded(config)) = Len(Builtin) + Len(config) /\ Len(config) \in Nat
        /\ \A i \in 1..Len(Builtin) : Loaded(config)[i] = Builtin[i]
        /\ \A i \in 1..Len(config) : Loaded(config)[Len(Builtin) + i] = config[i]
    BY <1>1, <1>3, BuiltinType
  <1>5. \A i \in 1..Len(Loaded(config)) :
            \/ i \in 1..Len(Builtin)
            \/ \E j \in 1..Len(config) : i = Len(Builtin) + j
    <2> TAKE i \in 1..Len(Loaded(config))
    <2>1. i - Len(Builtin) \in 1..Len(config) \/ i \in 1..Len(Builtin)
      BY <1>4, BuiltinType
    <2>2. i = Len(Builtin) + (i - Len(Builtin))
      BY BuiltinType
    <2> QED BY <2>1, <2>2
  <1>6. \A i \in 1..Len(config) : Len(Builtin) + i \in 1..Len(Loaded(config))
    BY <1>4, BuiltinType
  <1>7. \A i \in 1..Len(Loaded(config)) : \/ Loaded(config)[i].source = "builtin"
                                          \/ Loaded(config)[i] \in ConfigRule
    BY <1>3, <1>4, <1>5, BuiltinType
  <1>8. \A i \in 1..Len(Loaded(config)) : Loaded(config)[i].source # "session"
    BY <1>7 DEF ConfigRule
  <1> QED BY <1>3, <1>4, <1>5, <1>6, <1>7, <1>8, BuiltinType

------------------------------------------------------------------------------
(* The invariant: what is past baseLen is the session's grants, each of      *)
(* them, and nothing else; and behind a rule the file remembers stand only   *)
(* others that allow.                                                        *)

Held(q) == \E i \in 1..Len(rules) : i > baseLen /\ rules[i] = GrantRule(q)
Remembered(q) == \E i \in 1..Len(file) :
    file[i] = ProjectRule(q) /\ \A j \in 1..Len(file) : j >= i => file[j].action = "allow"

EngineInv ==
    /\ rules \in Seq(Rule) /\ baseLen \in 0..Len(rules)
    /\ file \in Seq(ConfigRule) /\ granted \subseteq InRoot /\ persisted \subseteq InRoot
    /\ \A i \in 1..Len(rules) : i <= baseLen => rules[i].source # "session"
    /\ \A i \in 1..Len(rules) : i > baseLen => \E q \in granted : rules[i] = GrantRule(q)
    /\ \A q \in granted : Held(q)
    /\ \A q \in persisted : Remembered(q)

(* Only requests inside the root are granted.                                *)
LEMMA InRootType ==
    ASSUME Inputs
    PROVE  \A q \in InRoot : q \in QuerySet /\ q.outside_root = FALSE
  BY DEF Inputs, InRoot, QuerySet

(* What is freshly loaded holds no grant.                                    *)
LEMMA LoadedInv ==
    ASSUME Inputs, file \in Seq(ConfigRule), rules = Loaded(file), baseLen = Len(rules),
           granted = {}, persisted \subseteq InRoot, \A q \in persisted : Remembered(q)
    PROVE  EngineInv
  <1>1. /\ rules \in Seq(Rule) /\ Len(rules) \in Nat
        /\ \A i \in 1..Len(rules) : rules[i].source # "session"
    BY LoadedType
  <1> QED BY <1>1 DEF EngineInv

(* A session grant joins the rules at their end.                             *)
LEMMA GrantAdds ==
    ASSUME Inputs, EngineInv, NEW q \in InRoot, AddSessionGrant(q), UNCHANGED baseLen
    PROVE  /\ rules' \in Seq(Rule) /\ baseLen' \in 0..Len(rules')
           /\ granted' \subseteq InRoot
           /\ \A i \in 1..Len(rules') : i <= baseLen' => rules'[i].source # "session"
           /\ \A i \in 1..Len(rules') : i > baseLen' =>
                  \E g \in granted' : rules'[i] = GrantRule(g)
           /\ \A g \in granted' : Held(g)'
  <1> DEFINE new == GrantRule(q)
  <1>1. rules' = Append(rules, new) /\ granted' = granted \cup {q} /\ new \in Rule
    BY InRootType, GrantType DEF AddSessionGrant
  <1>2. /\ rules \in Seq(Rule) /\ baseLen \in 0..Len(rules) /\ Len(rules) \in Nat
        /\ \A i \in 1..Len(rules) : i <= baseLen => rules[i].source # "session"
        /\ \A i \in 1..Len(rules) : i > baseLen => \E g \in granted : rules[i] = GrantRule(g)
        /\ \A g \in granted : Held(g)
    BY DEF EngineInv
  <1> HIDE DEF new
  <1>3. /\ rules' \in Seq(Rule) /\ Len(rules') = Len(rules) + 1
        /\ rules'[Len(rules) + 1] = new
        /\ \A i \in 1..Len(rules) : rules'[i] = rules[i]
    BY <1>1, <1>2
  <1>4. \A i \in 1..Len(rules') : i \in 1..Len(rules) \/ (i = Len(rules) + 1 /\ i > baseLen)
    BY <1>2, <1>3
  <1>5. \A g \in granted' : Held(g)'
    <2>1. ASSUME NEW g \in granted PROVE Held(g)'
      <3>1. PICK i \in 1..Len(rules) : i > baseLen /\ rules[i] = GrantRule(g)
        BY <1>2 DEF Held
      <3>2. i \in 1..Len(rules') /\ rules'[i] = GrantRule(g)
        BY <1>2, <1>3, <3>1
      <3> QED BY <3>1, <3>2 DEF Held
    <2>2. Held(q)'
      <3>1. Len(rules) + 1 \in 1..Len(rules') /\ Len(rules) + 1 > baseLen
        BY <1>2, <1>3
      <3> QED BY <1>3, <3>1 DEF Held, new
    <2> QED BY <1>1, <2>1, <2>2
  <1>6. granted' \subseteq InRoot
    BY <1>1 DEF EngineInv
  <1>7. \A i \in 1..Len(rules') : i <= baseLen' => rules'[i].source # "session"
    BY <1>2, <1>3, <1>4
  <1>8. \A i \in 1..Len(rules') : i > baseLen' => \E g \in granted' : rules'[i] = GrantRule(g)
    BY <1>1, <1>2, <1>3, <1>4 DEF new
  <1>9. baseLen' \in 0..Len(rules')
    BY <1>2, <1>3
  <1> QED BY <1>3, <1>5, <1>6, <1>7, <1>8, <1>9

(* A rule appended to the file leaves those already there remembered.        *)
LEMMA FileAdds ==
    ASSUME Inputs, EngineInv, NEW q \in InRoot, file' = Append(file, ProjectRule(q)),
           persisted' = persisted \cup {q}
    PROVE  /\ file' \in Seq(ConfigRule) /\ persisted' \subseteq InRoot
           /\ \A g \in persisted' : Remembered(g)'
  <1> DEFINE new == ProjectRule(q)
  <1>1. new \in ConfigRule /\ new.action = "allow"
    BY InRootType, ProjectRuleType
  <1>2. file \in Seq(ConfigRule) /\ Len(file) \in Nat /\ \A g \in persisted : Remembered(g)
    BY DEF EngineInv
  <1>0. file' = Append(file, new)
    OBVIOUS
  <1> HIDE DEF new
  <1>3. /\ file' \in Seq(ConfigRule) /\ Len(file') = Len(file) + 1
        /\ file'[Len(file) + 1] = new
        /\ \A i \in 1..Len(file) : file'[i] = file[i]
    BY <1>0, <1>1, <1>2
  <1>4. \A i \in 1..Len(file') : i \in 1..Len(file) \/ i = Len(file) + 1
    BY <1>2, <1>3
  <1>5. ASSUME NEW g \in persisted PROVE Remembered(g)'
    <2>1. PICK i \in 1..Len(file) :
              file[i] = ProjectRule(g) /\ \A j \in 1..Len(file) : j >= i => file[j].action = "allow"
      BY <1>2 DEF Remembered
    <2>2. i \in 1..Len(file') /\ file'[i] = ProjectRule(g)
      BY <1>2, <1>3, <2>1
    <2>3. \A j \in 1..Len(file') : j >= i => file'[j].action = "allow"
      BY <1>1, <1>3, <1>4, <2>1
    <2> QED BY <2>2, <2>3 DEF Remembered
  <1>6. Remembered(q)'
    <2>1. Len(file) + 1 \in 1..Len(file')
      BY <1>2, <1>3
    <2>2. \A j \in 1..Len(file') : j >= Len(file) + 1 => file'[j].action = "allow"
      BY <1>1, <1>2, <1>3, <1>4
    <2> QED BY <1>3, <2>1, <2>2 DEF Remembered, new
  <1>7. persisted' \subseteq InRoot
    BY DEF EngineInv
  <1> QED BY <1>3, <1>5, <1>6, <1>7

(* /reload puts the grants back behind what it loads.                        *)
LEMMA ReloadKeeps ==
    ASSUME Inputs, EngineInv, ReloadConfigRules
    PROVE  EngineInv'
  <1> DEFINE base == Loaded(file)
             grants == SubSeq(rules, baseLen + 1, Len(rules))
  <1>1. /\ rules' = base \o grants /\ baseLen' = Len(base)
        /\ UNCHANGED <<file, granted, persisted>>
    BY DEF ReloadConfigRules, SessionGrants
  <1>2. /\ rules \in Seq(Rule) /\ baseLen \in 0..Len(rules) /\ Len(rules) \in Nat
        /\ \A i \in 1..Len(rules) : i > baseLen => \E g \in granted : rules[i] = GrantRule(g)
        /\ \A g \in granted : Held(g)
    BY DEF EngineInv
  <1>3. /\ base \in Seq(Rule) /\ Len(base) \in Nat
        /\ \A i \in 1..Len(base) : base[i].source # "session"
    BY LoadedType DEF EngineInv
  <1>4. /\ grants \in Seq(Rule) /\ Len(grants) = Len(rules) - baseLen
        /\ \A i \in 1..Len(grants) : grants[i] = rules[baseLen + i]
    BY <1>2
  <1> HIDE DEF base, grants
  <1>5. /\ rules' \in Seq(Rule) /\ Len(rules') = Len(base) + Len(grants)
        /\ Len(grants) \in Nat
        /\ \A i \in 1..Len(base) : rules'[i] = base[i]
        /\ \A i \in 1..Len(grants) : rules'[Len(base) + i] = grants[i]
    <2>1. rules' = base \o grants /\ base \in Seq(Rule) /\ grants \in Seq(Rule)
      BY <1>1, <1>3, <1>4
    <2> QED BY <2>1
  <1>6. \A i \in 1..Len(rules') : i <= baseLen' => rules'[i].source # "session"
    BY <1>1, <1>3, <1>5
  <1>7. \A i \in 1..Len(rules') : i > baseLen' => \E g \in granted' : rules'[i] = GrantRule(g)
    <2> SUFFICES ASSUME NEW i \in 1..Len(rules'), i > Len(base)
                 PROVE  \E g \in granted : rules'[i] = GrantRule(g)
      BY <1>1
    <2> DEFINE k == i - Len(base)
    <2>1. k \in 1..Len(grants) /\ i = Len(base) + k
      BY <1>3, <1>5
    <2> HIDE DEF k
    <2>2. rules'[i] = rules[baseLen + k] /\ baseLen + k \in 1..Len(rules)
          /\ baseLen + k > baseLen
      <3>1. rules'[i] = grants[k] /\ grants[k] = rules[baseLen + k]
        BY <1>4, <1>5, <2>1
      <3>2. baseLen + k \in 1..Len(rules) /\ baseLen + k > baseLen
        BY <1>2, <1>4, <2>1
      <3> QED BY <3>1, <3>2
    <2> QED BY <1>2, <2>2
  <1>8. ASSUME NEW g \in granted PROVE Held(g)'
    <2>1. PICK i \in 1..Len(rules) : i > baseLen /\ rules[i] = GrantRule(g)
      BY <1>2 DEF Held
    <2> DEFINE k == i - baseLen
    <2>2. k \in 1..Len(grants) /\ grants[k] = GrantRule(g)
      <3>1. k \in 1..Len(grants) /\ baseLen + k = i
        BY <1>2, <1>4, <2>1
      <3> QED BY <1>4, <2>1, <3>1
    <2>3. Len(base) + k \in 1..Len(rules') /\ Len(base) + k > baseLen'
          /\ rules'[Len(base) + k] = GrantRule(g)
      BY <1>1, <1>3, <1>5, <2>2
    <2> QED BY <2>3 DEF Held
  <1>9. baseLen' \in 0..Len(rules')
    BY <1>1, <1>3, <1>5
  <1>10. /\ file' \in Seq(ConfigRule) /\ granted' \subseteq InRoot /\ persisted' \subseteq InRoot
         /\ \A q \in persisted' : Remembered(q)'
    BY <1>1 DEF EngineInv, Remembered
  <1> QED BY <1>1, <1>5, <1>6, <1>7, <1>8, <1>9, <1>10 DEF EngineInv

(* Every step keeps the invariant.                                           *)
LEMMA EngineNext ==
    ASSUME Inputs, EngineInv, [Next]_vars
    PROVE  EngineInv'
  <1>1. ASSUME NEW q \in InRoot, AllowForSession(q) PROVE EngineInv'
    <2>1. AddSessionGrant(q) /\ UNCHANGED <<baseLen, file, persisted>>
      BY <1>1 DEF AllowForSession
    <2>2. /\ file' \in Seq(ConfigRule) /\ persisted' \subseteq InRoot
          /\ \A g \in persisted' : Remembered(g)'
      BY <2>1 DEF EngineInv, Remembered
    <2> QED BY <2>1, <2>2, GrantAdds DEF EngineInv
  <1>2. ASSUME NEW q \in InRoot, AlwaysAllowInProject(q) PROVE EngineInv'
    <2>1. AddSessionGrant(q) /\ UNCHANGED baseLen
      BY <1>2 DEF AlwaysAllowInProject
    <2>2. \/ file' = Append(file, ProjectRule(q)) /\ persisted' = persisted \cup {q}
          \/ UNCHANGED <<file, persisted>>
      BY <1>2 DEF AlwaysAllowInProject, ProjectRule
    <2>3. /\ file' \in Seq(ConfigRule) /\ persisted' \subseteq InRoot
          /\ \A g \in persisted' : Remembered(g)'
      <3>1. CASE UNCHANGED <<file, persisted>>
        BY <3>1 DEF EngineInv, Remembered
      <3> QED BY <2>2, <3>1, FileAdds
    <2> QED BY <2>1, <2>3, GrantAdds DEF EngineInv
  <1>3. EditFile => EngineInv'
    <2> SUFFICES ASSUME EditFile PROVE EngineInv'
      OBVIOUS
    <2>1. /\ file' \in Seq(ConfigRule) /\ persisted' = {}
          /\ UNCHANGED <<rules, baseLen, granted>>
      BY DEF EditFile, Inputs
    <2>2. \A q \in granted' : Held(q)'
      BY <2>1 DEF EngineInv, Held
    <2> QED BY <2>1, <2>2 DEF EngineInv
  <1>4. Restart => EngineInv'
    <2> SUFFICES ASSUME Restart PROVE EngineInv'
      OBVIOUS
    <2>1. /\ rules' = Loaded(file) /\ baseLen' = Len(rules') /\ granted' = {}
          /\ UNCHANGED <<file, persisted>>
      BY DEF Restart
    <2>2. /\ Loaded(file) \in Seq(Rule) /\ Len(Loaded(file)) \in Nat
          /\ \A i \in 1..Len(Loaded(file)) : Loaded(file)[i].source # "session"
      BY LoadedType DEF EngineInv
    <2>3. \A q \in persisted' : Remembered(q)'
      BY <2>1 DEF EngineInv, Remembered
    <2> QED BY <2>1, <2>2, <2>3 DEF EngineInv
  <1>5. UNCHANGED vars => EngineInv'
    BY DEF vars, EngineInv, Held, Remembered
  <1> QED BY <1>1, <1>2, <1>3, <1>4, <1>5, ReloadKeeps DEF Next

------------------------------------------------------------------------------
(* What the invariant gives                                                  *)

LEMMA Split == ASSUME EngineInv PROVE BaseSplit
  <1>1. \A i \in 1..Len(rules) : i > baseLen => rules[i].source = "session"
    <2> SUFFICES ASSUME NEW i \in 1..Len(rules), i > baseLen PROVE rules[i].source = "session"
      OBVIOUS
    <2>1. PICK q \in granted : rules[i] = GrantRule(q)
      BY DEF EngineInv
    <2> QED BY <2>1 DEF GrantRule
  <1>2. baseLen \in Nat /\ \A i \in 1..Len(rules) : i \in Nat /\ (i > baseLen \/ i <= baseLen)
    BY DEF EngineInv
  <1> QED BY <1>1, <1>2 DEF EngineInv, BaseSplit

(* A matching session rule makes the winner one.                             *)
LEMMA GrantsWin ==
    ASSUME Inputs, EngineInv
    PROVE  GrantsSurviveReload
  <1> SUFFICES ASSUME NEW q \in granted, NEW m \in Mode
               PROVE  Evaluate(rules, q, m) = "allow"
    BY DEF GrantsSurviveReload
  <1>1. q \in QuerySet /\ q.outside_root = FALSE /\ rules \in Seq(Rule) /\ Len(rules) \in Nat
    <2>1. q \in InRoot /\ rules \in Seq(Rule)
      BY DEF EngineInv
    <2>2. Len(rules) \in Nat
      BY <2>1
    <2> QED BY <2>1, <2>2, InRootType
  <1>2. PICK i \in 1..Len(rules) : i > baseLen /\ rules[i] = GrantRule(q)
    BY DEF EngineInv, Held
  <1>3. i \in Matching(rules, q) /\ rules[i].source = "session"
    BY <1>1, <1>2, GrantType DEF Matching
  <1> DEFINE w == Winner(rules, q)
  <1>4. /\ w \in Matching(rules, q) /\ AtMost(rules[i], rules[w])
        /\ Decide(rules, q) = rules[w].action
    BY <1>1, <1>3, WinnerWins DEF Wins
  <1> HIDE DEF w
  <1>5. w \in 1..Len(rules) /\ rules[w] \in Rule /\ rules[i] \in Rule
    BY <1>1, <1>4 DEF Matching
  <1>6. rules[w].source = "session"
    <2>1. Rank(rules[i]) = 3 /\ Rank(rules[w]) \in 0..3
      BY <1>3, <1>5, Keys
    <2>2. Rank(rules[w]) = 3
      BY <1>4, <1>5, <2>1, AtMostKeys
    <2> QED BY <1>5, <2>2, Keys
  <1>7. w > baseLen
    BY <1>5, <1>6, Split DEF BaseSplit
  <1>8. PICK g \in granted : rules[w] = GrantRule(g)
    BY <1>5, <1>7 DEF EngineInv
  <1>9. Decide(rules, q) = "allow"
    BY <1>4, <1>8 DEF GrantRule
  <1> QED BY <1>1, <1>9 DEF Evaluate

(* In the file's rules the remembered one, or an allowing one behind it.     *)
LEMMA FileRemembers ==
    ASSUME Inputs, EngineInv
    PROVE  PersistedGrantRemembered
  <1> SUFFICES ASSUME NEW q \in persisted
               PROVE  Evaluate(Loaded(file), q, "normal") = "allow"
    BY DEF PersistedGrantRemembered
  <1> DEFINE rs == Loaded(file)
             n == Len(Builtin)
  <1>1. q \in QuerySet /\ q.outside_root = FALSE /\ file \in Seq(ConfigRule)
    BY InRootType DEF EngineInv
  <1>2. /\ rs \in Seq(Rule) /\ Len(file) \in Nat /\ n \in Nat
        /\ \A i \in 1..Len(file) : n + i \in 1..Len(rs) /\ rs[n + i] = file[i]
        /\ \A i \in 1..Len(rs) : i \in 1..n \/ \E j \in 1..Len(file) : i = n + j
        /\ \A i \in 1..Len(rs) : rs[i].source = "builtin" \/ rs[i] \in ConfigRule
    BY <1>1, LoadedType, BuiltinType
  <1> HIDE DEF rs, n
  <1>3. PICK i \in 1..Len(file) :
            file[i] = ProjectRule(q) /\ \A j \in 1..Len(file) : j >= i => file[j].action = "allow"
    BY DEF EngineInv, Remembered
  <1>4. n + i \in Matching(rs, q) /\ rs[n + i] = ProjectRule(q)
    BY <1>1, <1>2, <1>3, ProjectRuleType DEF Matching
  <1> DEFINE w == Winner(rs, q)
  <1>5. /\ w \in Matching(rs, q) /\ Wins(rs, q, w) /\ Decide(rs, q) = rs[w].action
    BY <1>1, <1>2, <1>4, WinnerWins
  <1> HIDE DEF w
  <1>6. w \in 1..Len(rs) /\ rs[w] \in Rule /\ RuleMatches(rs[w], q)
    BY <1>2, <1>5 DEF Matching
  <1>7. AtMost(rs[w], rs[n + i])
    BY <1>1, <1>2, <1>4, <1>6, ProjectRuleGreatest
  <1>8. ~(n + i > w)
    BY <1>4, <1>5, <1>7 DEF Wins
  <1>9. \E j \in 1..Len(file) : w = n + j /\ j >= i
    <2>1. w \notin 1..n
      BY <1>2, <1>6, <1>8
    <2>2. PICK j \in 1..Len(file) : w = n + j
      BY <1>2, <1>6, <2>1
    <2>3. j >= i
      BY <1>2, <1>8, <2>2
    <2> QED BY <2>2, <2>3
  <1>10. rs[w].action = "allow"
    BY <1>2, <1>3, <1>9
  <1> QED BY <1>1, <1>5, <1>10 DEF Evaluate, rs

(* The winner outranks whoever it contradicts.                               *)
LEMMA Precedence ==
    ASSUME Inputs, EngineInv
    PROVE  PrecedenceRespected
  <1> SUFFICES ASSUME NEW q \in Query, NEW i \in Matching(rules, q)
               PROVE  \E j \in Matching(rules, q) :
                          LET r == rules[i]
                              w == rules[j] IN
                          /\ w.action = Decide(rules, q)
                          /\ \/ SourceRank[w.source] > SourceRank[r.source]
                             \/ /\ w.source = r.source
                                /\ \/ r.prefix = NoPrefix /\ w.prefix # NoPrefix
                                   \/ /\ r.prefix # NoPrefix /\ w.prefix # NoPrefix
                                      /\ Len(w.prefix) > Len(r.prefix)
                                   \/ /\ r.prefix = w.prefix
                                      /\ r.tool # AnyTool => w.tool # AnyTool
    BY DEF PrecedenceRespected
  <1> DEFINE j == Winner(rules, q)
             r == rules[i]
             w == rules[j]
  <1>1. q \in QuerySet /\ rules \in Seq(Rule)
    BY DEF Inputs, EngineInv
  <1>2. /\ j \in Matching(rules, q) /\ AtMost(r, w) /\ w.action = Decide(rules, q)
    BY <1>1, WinnerWins DEF Wins
  <1>3. r \in Rule /\ w \in Rule /\ RuleMatches(r, q) /\ RuleMatches(w, q)
    BY <1>1, <1>2 DEF Matching
  <1> HIDE DEF j, r, w
  <1>4. /\ Rank(r) \in Nat /\ Rank(w) \in Nat /\ Exact(r) \in Nat /\ Exact(w) \in Nat
        /\ Named(r) \in 0..1 /\ Named(w) \in 0..1
    BY <1>3, Keys
  <1>5. Rank(r) = Rank(w) => r.source = w.source
    BY <1>3 DEF Rank, SourceRank, Rule, RuleSource
  <1>6. CASE Rank(r) < Rank(w)
    BY <1>2, <1>4, <1>6 DEF Rank, r, w
  <1>7. CASE Rank(r) = Rank(w) /\ Exact(r) < Exact(w)
    <2>1. w.prefix # NoPrefix /\ w.prefix \in Command /\ Exact(w) = 1 + Len(w.prefix)
      BY <1>1, <1>3, <1>4, <1>7, MatchesFits
    <2>2. r.prefix # NoPrefix => Len(w.prefix) > Len(r.prefix)
      <3>1. r.prefix # NoPrefix => r.prefix \in Command /\ Exact(r) = 1 + Len(r.prefix)
        BY <1>1, <1>3, MatchesFits
      <3> QED BY <1>7, <2>1, <3>1, CommandsAreWords
    <2> QED BY <1>2, <1>5, <1>7, <2>1, <2>2 DEF r, w
  <1>8. CASE Rank(r) = Rank(w) /\ Exact(r) = Exact(w) /\ Named(r) <= Named(w)
    <2>1. r.tool # AnyTool => w.tool # AnyTool
      BY <1>8 DEF Named, ToolSpecificity
    <2>2. r.prefix = w.prefix
      <3>1. /\ r.prefix = NoPrefix => Exact(r) = 0
            /\ w.prefix = NoPrefix => Exact(w) = 0
            /\ r.prefix # NoPrefix => /\ r.prefix \in Command /\ Exact(r) = 1 + Len(r.prefix)
                                      /\ CommandHasPrefix(q.command, r.prefix)
            /\ w.prefix # NoPrefix => /\ w.prefix \in Command /\ Exact(w) = 1 + Len(w.prefix)
                                      /\ CommandHasPrefix(q.command, w.prefix)
        BY <1>1, <1>3, MatchesFits
      <3>2. CASE r.prefix = NoPrefix \/ w.prefix = NoPrefix
        BY <1>8, <3>1, <3>2, CommandsAreWords
      <3>3. CASE r.prefix # NoPrefix /\ w.prefix # NoPrefix
        <4>1. q.command \in Command
          BY <1>1 DEF QuerySet
        <4>2. /\ Len(r.prefix) \in Nat /\ Len(w.prefix) \in Nat
              /\ r.prefix = SubSeq(q.command, 1, Len(r.prefix))
              /\ w.prefix = SubSeq(q.command, 1, Len(w.prefix))
          BY <3>1, <3>3, <4>1, PrefixFits
        <4>3. Len(r.prefix) = Len(w.prefix)
          BY <1>8, <3>1, <3>3, <4>2
        <4> QED BY <4>2, <4>3
      <3> QED BY <3>2, <3>3
    <2> QED BY <1>2, <1>5, <1>8, <2>1, <2>2 DEF r, w
  <1> QED BY <1>2, <1>3, <1>6, <1>7, <1>8, AtMostKeys

(* No mode lifts what evaluate bars.                                         *)
LEMMA NoRuleLifts == HardLines
  BY DEF HardLines, Evaluate

(* Where no grant matches, the base decides alone.                           *)
LEMMA BaseAlone ==
    ASSUME Inputs, EngineInv
    PROVE  GrantsStayNarrow
  <1> SUFFICES ASSUME NEW q \in Query,
                      \A g \in granted :
                          g.tool = q.tool => IsBash(q) /\ ~CommandHasPrefix(q.command, g.command)
               PROVE  Decide(rules, q) = Decide(SubSeq(rules, 1, baseLen), q)
    BY DEF GrantsStayNarrow
  <1> DEFINE base == SubSeq(rules, 1, baseLen)
  <1>1. q \in QuerySet /\ rules \in Seq(Rule) /\ Len(rules) \in Nat /\ baseLen \in 0..Len(rules)
    BY DEF Inputs, EngineInv
  <1>2. /\ base \in Seq(Rule) /\ Len(base) = baseLen
        /\ \A i \in 1..baseLen : base[i] = rules[i]
    BY <1>1
  <1> HIDE DEF base
  <1>3. \A i \in 1..Len(rules) : i > baseLen => ~RuleMatches(rules[i], q)
    <2> SUFFICES ASSUME NEW i \in 1..Len(rules), i > baseLen, RuleMatches(rules[i], q)
                 PROVE  FALSE
      OBVIOUS
    <2>1. PICK g \in granted : rules[i] = GrantRule(g)
      BY DEF EngineInv
    <2>2. g \in QuerySet /\ q.tool # AnyTool /\ g.tool # AnyTool /\ g.command \in Command
      BY <1>1, InRootType DEF EngineInv, QuerySet
    <2>3. /\ rules[i].tool = g.tool
          /\ rules[i].prefix = IF IsBash(g) THEN g.command ELSE NoPrefix
      BY <2>1, <2>2, GrantType
    <2>4. g.tool = q.tool /\ MatcherMatches(rules[i].prefix, q)
      BY <2>2, <2>3 DEF RuleMatches
    <2>5. IsBash(g) /\ ~CommandHasPrefix(q.command, g.command)
      BY <2>4 DEF IsBash
    <2> QED BY <2>2, <2>3, <2>4, <2>5, CommandsAreWords DEF MatcherMatches
  <1>4. Matching(rules, q) = Matching(base, q)
        /\ \A i \in Matching(base, q) : base[i] = rules[i]
    <2>1. \A i \in Matching(rules, q) : i \in Matching(base, q)
      BY <1>1, <1>2, <1>3 DEF Matching
    <2>2. \A i \in Matching(base, q) : i \in Matching(rules, q) /\ base[i] = rules[i]
      BY <1>1, <1>2 DEF Matching
    <2> QED BY <2>1, <2>2
  <1>5. CASE Matching(base, q) = {}
    BY <1>4, <1>5 DEF Decide, base
  <1>6. CASE Matching(base, q) # {}
    <2> DEFINE i == Winner(rules, q)
               k == Winner(base, q)
    <2>1. /\ i \in Matching(rules, q) /\ Wins(rules, q, i) /\ Decide(rules, q) = rules[i].action
          /\ k \in Matching(base, q) /\ Wins(base, q, k) /\ Decide(base, q) = base[k].action
      BY <1>1, <1>2, <1>4, <1>6, WinnerWins
    <2> HIDE DEF i, k
    <2>2. Wins(rules, q, k)
      BY <1>4, <2>1 DEF Wins
    <2>3. i = k
      BY <1>1, <1>4, <2>1, <2>2, WinnerUnique
    <2> QED BY <1>4, <2>1, <2>3 DEF base
  <1> QED BY <1>5, <1>6

------------------------------------------------------------------------------
(* The invariant holds throughout.                                           *)
LEMMA EngineInvariant == ASSUME Inputs PROVE Spec => []EngineInv
  <1>1. Init => EngineInv
    <2> SUFFICES ASSUME Init PROVE EngineInv
      OBVIOUS
    <2>1. file \in Seq(ConfigRule) /\ rules = Loaded(file) /\ baseLen = Len(rules)
          /\ granted = {} /\ persisted = {}
      BY DEF Init, Inputs
    <2> QED BY <2>1, LoadedInv
  <1>2. EngineInv /\ [Next]_vars => EngineInv'
    BY EngineNext
  <1> QED BY <1>1, <1>2, PTL DEF Spec

(* Over every sequence of grants, hand edits, reloads and restarts: what the *)
(* user granted lasts, for the session in every mode, for the project over   *)
(* restarts, and the split /reload relies on holds (rules.rs,                *)
(* reload_config_rules, answer_permission).                                  *)
THEOREM GrantsLastCorrect == ASSUME Inputs PROVE Spec => []GrantsLast
  <1>1. EngineInv => GrantsLast
    BY Split, GrantsWin, FileRemembers DEF GrantsLast
  <1> QED BY <1>1, EngineInvariant, PTL

(* And no rule, grant or mode overrides what stands above it, runs an        *)
(* outside-root request unasked, or widens an approval (rules.rs decide and  *)
(* evaluate).                                                                *)
THEOREM RankCorrect == ASSUME Inputs PROVE Spec => []RulesKeepRank
  <1>1. EngineInv => RulesKeepRank
    BY Precedence, NoRuleLifts, BaseAlone DEF RulesKeepRank
  <1> QED BY <1>1, EngineInvariant, PTL
------------------------------------------------------------------------------
(* A command and the processes it leads to                                   *)

(* One process set, the others as they were, the call running or not.        *)
LEMMA ProcessSet ==
    ASSUME Bash!BashInv, NEW p \in Pids, NEW r \in Bash!Process, x1' = [x1 EXCEPT ![p] = r],
           r.owner = "other" => r.group = p,
           x2 = "running" /\ ~x4 /\ p = x3 => r.owner = "command" /\ r.group = p,
           x2' = x2, x3' = x3, x4' = x4, x5' = x5
    PROVE  Bash!BashInv'
  <1>1. x1' \in [Pids -> Bash!Process] /\ \A q \in Pids : x1'[q] = IF q = p THEN r ELSE x1[q]
    BY DEF Bash!BashInv
  <1>2. \A q \in Pids : x1'[q].owner = "other" => x1'[q].group = q
    BY <1>1 DEF Bash!BashInv
  <1>3. x2' = "running" => Bash!LeaderHolds'
    <2>1. SUFFICES ASSUME x2 = "running" PROVE Bash!LeaderHolds'
      OBVIOUS
    <2>2. Bash!LeaderHolds
      BY <2>1 DEF Bash!BashInv
    <2> QED BY <1>1, <2>1, <2>2 DEF Bash!LeaderHolds
  <1> QED BY <1>1, <1>2, <1>3 DEF Bash!BashInv

(* A process of the invariant.                                               *)
LEMMA ProcessType ==
    ASSUME Bash!BashInv, NEW p \in Pids
    PROVE  /\ x1[p] \in Bash!Process
           /\ x1[p] = [owner |-> x1[p].owner, group |-> x1[p].group, state |-> x1[p].state,
                       pipe |-> x1[p].pipe]
  BY DEF Bash!BashInv, Bash!Process

(* No one is in place of the leader until it is reaped.                      *)
LEMMA LeaderTaken ==
    ASSUME Bash!BashInv, x2 = "running", ~x4
    PROVE  x3 \in Pids /\ Bash!Taken(x3)
  BY DEF Bash!BashInv, Bash!LeaderHolds, Bash!Taken

(* The invariant over every step.                                            *)
LEMMA BashStep ==
    ASSUME Bash!BashInv, Bash!Next
    PROVE  Bash!BashInv'
  <1>1. x1 \in [Pids -> Bash!Process] /\ Bash!Free \in Bash!Process /\ Bash!Free.owner = "none"
    BY DEF Bash!BashInv, Bash!Free, Bash!Process
  <1>2. CASE Bash!Spawn
    <2>1. PICK p \in Pids : /\ x3' = p
                            /\ x1' = [x1 EXCEPT ![p] = [owner |-> "command", group |-> p,
                                                        state |-> "alive", pipe |-> TRUE]]
      BY <1>2 DEF Bash!Spawn
    <2>2. PICK r : r = [owner |-> "command", group |-> p, state |-> "alive", pipe |-> TRUE]
      OBVIOUS
    <2>3. r \in Bash!Process /\ r.owner = "command" /\ r.group = p
      BY <2>2 DEF Bash!Process
    <2>4. x1' = [x1 EXCEPT ![p] = r]
      BY <2>1, <2>2
    <2>5. x1' \in [Pids -> Bash!Process] /\ \A q \in Pids : x1'[q] = IF q = p THEN r ELSE x1[q]
      BY <1>1, <2>3, <2>4
    <2>6. \A q \in Pids : x1'[q].owner = "other" => x1'[q].group = q
      BY <2>3, <2>5 DEF Bash!BashInv
    <2>7. x5' = {} /\ Bash!LeaderHolds'
      BY <1>2, <2>1, <2>3, <2>5 DEF Bash!Spawn, Bash!BashInv, Bash!LeaderHolds
    <2> QED BY <2>5, <2>6, <2>7 DEF Bash!BashInv
  <1>3. CASE Bash!SpawnFails
    BY <1>3 DEF Bash!SpawnFails, Bash!BashInv
  <1>4. CASE Bash!Reap
    <2>1. x3 \in Pids /\ x1' = [x1 EXCEPT ![x3] = Bash!Free] /\ x4' = TRUE
          /\ x3' = x3 /\ x5' = x5 /\ x2 = "running" /\ x2' \in {"running", "completed"}
      BY <1>4 DEF Bash!Reap, Bash!BashInv, Bash!LeaderHolds
    <2>2. /\ x1' \in [Pids -> Bash!Process]
          /\ \A q \in Pids : x1'[q] = IF q = x3 THEN Bash!Free ELSE x1[q]
      BY <1>1, <2>1
    <2>3. \A q \in Pids : x1'[q].owner = "other" => x1'[q].group = q
      BY <1>1, <2>2 DEF Bash!BashInv
    <2> QED BY <2>1, <2>2, <2>3 DEF Bash!BashInv, Bash!LeaderHolds
  <1>5. CASE Bash!Complete
    BY <1>5 DEF Bash!Complete, Bash!BashInv
  <1>6. ASSUME NEW how \in {"timed out", "canceled"}, Bash!Drop(how) PROVE Bash!BashInv'
    <2>1. x1' = [p \in Pids |-> IF p \in Bash!Killed THEN Bash!Free ELSE x1[p]] /\ x2' = how
      BY <1>6 DEF Bash!Drop
    <2>2. /\ x1' \in [Pids -> Bash!Process]
          /\ \A p \in Pids : x1'[p] = IF p \in Bash!Killed THEN Bash!Free ELSE x1[p]
      BY <1>1, <2>1
    <2>3. \A q \in Pids : x1'[q].owner = "other" => x1'[q].group = q
      BY <1>1, <2>2 DEF Bash!BashInv
    <2> QED BY <1>6, <2>1, <2>2, <2>3 DEF Bash!BashInv
  <1>7. ASSUME NEW p \in Pids, Bash!Fork(p) PROVE Bash!BashInv'
    <2>1. PICK q \in Pids, redirected \in BOOLEAN :
             ~Bash!Taken(q) /\ x1' = [x1 EXCEPT ![q] = [x1[p] EXCEPT !.pipe = @ /\ ~redirected]]
      BY <1>7 DEF Bash!Fork
    <2>2. PICK held \in BOOLEAN : held = (x1[p].pipe /\ ~redirected)
      OBVIOUS
    <2>3. PICK r : r = [x1[p] EXCEPT !.pipe = held]
      OBVIOUS
    <2>4. x1[p].owner = "command"
      BY <1>7 DEF Bash!Fork, Bash!Alive
    <2>5. x1[p] \in Bash!Process
      BY ProcessType
    <2>6. r \in Bash!Process /\ r.owner = "command"
      BY <2>3, <2>4, <2>5 DEF Bash!Process
    <2>7. x1' = [x1 EXCEPT ![q] = r]
      BY <2>1, <2>2, <2>3
    <2>8. ~(x2 = "running" /\ ~x4 /\ q = x3)
      BY <2>1, LeaderTaken
    <2> QED BY <1>7, <2>6, <2>7, <2>8, ProcessSet DEF Bash!Fork
  <1>8. ASSUME NEW p \in Pids, Bash!Setsid(p) PROVE Bash!BashInv'
    <2>1. PICK r : r = [x1[p] EXCEPT !.group = p]
      OBVIOUS
    <2>2. x1[p].owner = "command" /\ x1[p].group # p /\ x1[p] \in Bash!Process
      BY <1>8, ProcessType DEF Bash!Setsid, Bash!Alive
    <2>3. r \in Bash!Process /\ r.owner = "command" /\ r.group = p
      BY <2>1, <2>2 DEF Bash!Process
    <2>4. x1' = [x1 EXCEPT ![p] = r]
      BY <1>8, <2>1 DEF Bash!Setsid
    <2> QED BY <1>8, <2>3, <2>4, ProcessSet DEF Bash!Setsid
  <1>9. ASSUME NEW p \in Pids, Bash!Exit(p) PROVE Bash!BashInv'
    <2>1. PICK z : z = [x1[p] EXCEPT !.state = "zombie", !.pipe = FALSE]
      OBVIOUS
    <2>2. z \in Bash!Process /\ z.owner = x1[p].owner /\ z.group = x1[p].group
      <3>1. x1[p] \in Bash!Process
        BY ProcessType
      <3> QED BY <2>1, <3>1 DEF Bash!Process
    <2>3. PICK r : r = IF p = x3 /\ x1[p].owner = "command" /\ ~x4 THEN z ELSE Bash!Free
      OBVIOUS
    <2>4. x1' = [x1 EXCEPT ![p] = r]
      BY <1>9, <2>1, <2>3 DEF Bash!Exit
    <2>5. r \in Bash!Process /\ r.owner # "other"
      BY <1>1, <2>2, <2>3 DEF Bash!Free
    <2>6. x2 = "running" /\ ~x4 /\ p = x3 => r.owner = "command" /\ r.group = p
      <3>1. SUFFICES ASSUME x2 = "running", ~x4, p = x3
                     PROVE  r.owner = "command" /\ r.group = p
        OBVIOUS
      <3>2. x1[p].owner = "command" /\ x1[p].group = p
        BY <3>1 DEF Bash!BashInv, Bash!LeaderHolds
      <3> QED BY <2>2, <2>3, <3>1, <3>2
    <2> QED BY <1>9, <2>4, <2>5, <2>6, ProcessSet DEF Bash!Exit
  <1>10. CASE Bash!Stranger
    <2>1. PICK p \in Pids :
             ~Bash!Taken(p) /\ x1' = [x1 EXCEPT ![p] = [owner |-> "other", group |-> p,
                                                        state |-> "alive", pipe |-> FALSE]]
      BY <1>10 DEF Bash!Stranger
    <2>2. PICK r : r = [owner |-> "other", group |-> p, state |-> "alive", pipe |-> FALSE]
      OBVIOUS
    <2>3. r \in Bash!Process /\ r.group = p
      BY <2>2 DEF Bash!Process
    <2>4. ~(x2 = "running" /\ ~x4 /\ p = x3)
      BY <2>1, LeaderTaken
    <2>5. x1' = [x1 EXCEPT ![p] = r]
      BY <2>1, <2>2
    <2> QED BY <1>10, <2>3, <2>4, <2>5, ProcessSet DEF Bash!Stranger
  <1> QED BY <1>2, <1>3, <1>4, <1>5, <1>6, <1>7, <1>8, <1>9, <1>10 DEF Bash!Next

(* What a kill leaves and whom it reaches.                                   *)
LEMMA KillIs ==
    ASSUME Bash!BashInv, Bash!Next
    PROVE  Bash!KillIsExact
  <1>1. SUFFICES ASSUME x2 = "running", x2' \in {"timed out", "canceled"}
                 PROVE  /\ \A p \in Pids : Bash!Alive(p, "command")' => x1'[p].group # x3
                        /\ ~x4 => "other" \notin x5'
    BY DEF Bash!KillIsExact
  <1>2. PICK how : Bash!Drop(how)
    BY <1>1 DEF Bash!Next, Bash!Spawn, Bash!SpawnFails, Bash!Reap, Bash!Complete,
                Bash!Fork, Bash!Setsid, Bash!Exit, Bash!Stranger
  <1>3. /\ \A p \in Pids : x1'[p] = IF p \in Bash!Killed THEN Bash!Free ELSE x1[p]
        /\ x5' = x5 \cup {x1[p].owner : p \in Bash!Killed}
    BY <1>2 DEF Bash!Drop
  <1>4. ASSUME NEW p \in Pids, Bash!Alive(p, "command")' PROVE x1'[p].group # x3
    <2>1. p \notin Bash!Killed
      BY <1>3, <1>4 DEF Bash!Alive, Bash!Free
    <2>2. x1'[p] = x1[p] /\ x1[p].state = "alive"
      BY <1>3, <1>4, <2>1 DEF Bash!Alive
    <2> QED BY <2>1, <2>2 DEF Bash!Killed, Bash!Group
  <1>5. ASSUME ~x4 PROVE "other" \notin x5'
    <2>1. x5 = {} /\ x3 \in Pids /\ x1[x3].owner = "command"
      BY <1>1, <1>5 DEF Bash!BashInv, Bash!LeaderHolds
    <2>2. ASSUME NEW p \in Bash!Killed PROVE x1[p].owner # "other"
      <3>1. CASE p = x3
        BY <2>1, <3>1
      <3>2. CASE p # x3
        <4>1. p \in Pids /\ x1[p].group = x3
          BY <2>2, <3>2 DEF Bash!Killed, Bash!Group, Bash!LeaderOnly
        <4> QED BY <3>2, <4>1 DEF Bash!BashInv
      <3> QED BY <3>1, <3>2
    <2> QED BY <1>3, <2>1, <2>2
  <1> QED BY <1>4, <1>5

(* The invariant at the start.                                               *)
LEMMA BashStarts == Bash!Init => Bash!BashInv
  BY DEF Bash!Init, Bash!BashInv, Bash!Free, Bash!Process

(* A step that changes nothing.                                              *)
LEMMA BashSame == Bash!BashInv /\ UNCHANGED Bash!vars => Bash!BashInv'
  BY DEF Bash!vars, Bash!BashInv, Bash!LeaderHolds

(* The invariant in the composition.                                         *)
LEMMA BashInvariant == ToolsSpec => [](part = "bash" => Bash!BashInv)
  <1> DEFINE Inv == part = "bash" => Bash!BashInv
  <1>1. ToolsInit => Inv
    BY BashStarts DEF ToolsInit
  <1>2. Inv /\ [ToolsNext]_tools => Inv'
    <2>1. SUFFICES ASSUME Inv, [ToolsNext]_tools, part' = "bash" PROVE Bash!BashInv'
      OBVIOUS
    <2>2. CASE OfBash(Bash!Next)
      BY <2>1, <2>2, BashStep DEF OfBash
    <2>3. CASE UNCHANGED tools
      BY <2>1, <2>3, BashSame DEF tools, others, Bash!vars
    <2> QED BY <2>1, <2>2, <2>3 DEF ToolsNext, OfRules, OfFiles, OfOutput, OfFence
  <1> QED BY <1>1, <1>2, PTL DEF ToolsSpec

\* For any number of processes, forks and identifiers that come back: a call
\* that timed out or was canceled leaves nothing of its command's group
\* running, and until the leader is reaped kills nobody else's (bash.rs).
THEOREM KillCorrect == ToolsSpec => NothingOutlivesTheKill
  <1> DEFINE Inv == part = "bash" => Bash!BashInv
             Holds == part = "bash" => Bash!KillIsExact
  <1>1. Inv /\ [ToolsNext]_tools => [Holds]_tools
    <2>1. SUFFICES ASSUME Inv, ToolsNext, part = "bash" PROVE Bash!KillIsExact
      OBVIOUS
    <2>2. OfBash(Bash!Next)
      BY <2>1 DEF ToolsNext, OfRules, OfFiles, OfOutput, OfFence
    <2> QED BY <2>1, <2>2, KillIs DEF OfBash
  <1> QED BY <1>1, BashInvariant, PTL DEF ToolsSpec, NothingOutlivesTheKill

------------------------------------------------------------------------------
(* What the file tools write                                                 *)

(* A call that asks.                                                         *)
LEMMA AskKept ==
    ASSUME Files!FilesInv, NEW c \in Callers, NEW tool, NEW path, NEW old, NEW new,
           Files!Asks(c, tool, path, old, new), x3[c].phase = "idle",
           tool = "read_file" \/ Files!Resolve(path) # "git",
           x1' = x1, x4' = x4, x2' = x2
    PROVE  Files!FilesInv'
  <1>1. PICK r : r = [phase |-> "asking", tool |-> tool, asked |-> path, at |-> Files!Resolve(path),
                      old |-> old, new |-> new]
    OBVIOUS
  <1>2. x3' = [x3 EXCEPT ![c] = r]
    BY <1>1 DEF Files!Asks
  <1>3. \A d \in Callers : x3'[d] = IF d = c THEN r ELSE x3[d]
    BY <1>2 DEF Files!FilesInv
  <1>4. ASSUME NEW d \in Callers PROVE Files!Shaped(d)' /\ Files!InOrder(d)'
    <2>1. CASE d = c
      <3>1. x3'[d] = r
        BY <1>3, <2>1
      <3> QED BY <1>1, <3>1 DEF Files!Shaped, Files!InOrder
    <2>2. CASE d # c
      <3>1. x3'[d] = x3[d]
        BY <1>3, <2>2
      <3> QED BY <3>1 DEF Files!FilesInv, Files!Shaped, Files!InOrder
    <2> QED BY <2>1, <2>2
  <1>5. x3' = [d \in Callers |-> x3'[d]]
    BY <1>2 DEF Files!FilesInv
  <1> QED BY <1>4, <1>5 DEF Files!FilesInv

(* A call that ends, or begins to write, or is allowed.                      *)
LEMMA CallKept ==
    ASSUME Files!FilesInv, NEW c \in Callers, NEW r, NEW a,
           x3' = [x3 EXCEPT ![c] = r], x4' = [x4 EXCEPT ![c] = a],
           r = [phase |-> r.phase, tool |-> r.tool, asked |-> r.asked, at |-> r.at,
                old |-> r.old, new |-> r.new],
           \/ r.phase = "idle"
           \/ r.phase \in {"allowed", "writing"} /\ r.at # "git" /\ a = [at |-> r.at, new |-> r.new],
           x1' = [p \in Files!Places |-> x1'[p]]
    PROVE  Files!FilesInv'
  <1>1. \A d \in Callers : x3'[d] = (IF d = c THEN r ELSE x3[d])
                           /\ x4'[d] = (IF d = c THEN a ELSE x4[d])
    BY DEF Files!FilesInv
  <1>2. ASSUME NEW d \in Callers PROVE Files!Shaped(d)' /\ Files!InOrder(d)'
    <2>1. CASE d = c
      <3>1. x3'[d] = r /\ x4'[d] = a
        BY <1>1, <2>1
      <3> QED BY <3>1 DEF Files!Shaped, Files!InOrder
    <2>2. CASE d # c
      <3>1. x3'[d] = x3[d] /\ x4'[d] = x4[d]
        BY <1>1, <2>2
      <3> QED BY <3>1 DEF Files!FilesInv, Files!Shaped, Files!InOrder
    <2> QED BY <2>1, <2>2
  <1>3. x3' = [d \in Callers |-> x3'[d]] /\ x4' = [d \in Callers |-> x4'[d]]
    BY DEF Files!FilesInv
  <1> QED BY <1>2, <1>3 DEF Files!FilesInv

(* A call that ends.                                                         *)
LEMMA EndKept ==
    ASSUME Files!FilesInv, NEW c \in Callers, Files!Ends(c), x1' = [p \in Files!Places |-> x1'[p]]
    PROVE  Files!FilesInv'
  <1>1. Files!Idle = [phase |-> Files!Idle.phase, tool |-> Files!Idle.tool, asked |-> Files!Idle.asked, at |-> Files!Idle.at,
                      old |-> Files!Idle.old, new |-> Files!Idle.new] /\ Files!Idle.phase = "idle"
    BY DEF Files!Idle
  <1>2. PICK r, a : r = Files!Idle /\ a = Files!Nothing
    OBVIOUS
  <1>3. /\ r = [phase |-> r.phase, tool |-> r.tool, asked |-> r.asked, at |-> r.at,
                old |-> r.old, new |-> r.new]
        /\ r.phase = "idle"
    BY <1>1, <1>2
  <1>4. x3' = [x3 EXCEPT ![c] = r] /\ x4' = [x4 EXCEPT ![c] = a]
    BY <1>2 DEF Files!Ends
  <1> QED BY <1>3, <1>4, CallKept

(* A step that leaves the calls.                                             *)
LEMMA OthersKept ==
    ASSUME Files!FilesInv, x3' = x3, x4' = x4, x1' = [p \in Files!Places |-> x1'[p]]
    PROVE  Files!FilesInv'
  BY DEF Files!FilesInv, Files!Shaped, Files!InOrder

(* A place is written.                                                       *)
LEMMA PlaceWritten ==
    ASSUME Files!FilesInv, NEW at, NEW content, x1' = [x1 EXCEPT ![at] = content]
    PROVE  /\ x1' = [p \in Files!Places |-> x1'[p]]
           /\ \A p \in Files!Places : x1'[p] = IF p = at THEN content ELSE x1[p]
  BY DEF Files!FilesInv

(* The invariant over every step.                                            *)
LEMMA FilesStep ==
    ASSUME Files!FilesInv, Files!Next
    PROVE  Files!FilesInv'
  <1>1. x1 = [p \in Files!Places |-> x1[p]]
    BY DEF Files!FilesInv
  <1>2. ASSUME NEW c \in Callers, NEW path, NEW old, NEW new, NEW all, Files!Edit(c, path, old, new, all)
        PROVE  Files!FilesInv'
    <2>1. x1' = x1 /\ x4' = x4 /\ x2' = x2 /\ x3[c].phase = "idle"
      BY <1>2 DEF Files!Edit, Files!Begin
    <2>2. CASE x3' = x3
      BY <1>1, <2>1, <2>2, OthersKept
    <2>3. CASE x3' # x3
      <3>1. PICK text : Files!Asks(c, "edit_file", path, old, text) /\ Files!Resolve(path) # "git"
        BY <1>2, <2>3 DEF Files!Edit
      <3> QED BY <2>1, <3>1, AskKept
    <2> QED BY <2>2, <2>3
  <1>3. ASSUME NEW c \in Callers, NEW path, NEW text, Files!WriteFile(c, path, text)
        PROVE  Files!FilesInv'
    <2>1. x1' = x1 /\ x4' = x4 /\ x2' = x2 /\ x3[c].phase = "idle"
      BY <1>3 DEF Files!WriteFile, Files!Begin
    <2>2. CASE x3' = x3
      BY <1>1, <2>1, <2>2, OthersKept
    <2>3. CASE x3' # x3
      <3>1. Files!Asks(c, "write_file", path, "none", text) /\ Files!Resolve(path) # "git"
        BY <1>3, <2>3 DEF Files!WriteFile
      <3> QED BY <2>1, <3>1, AskKept
    <2> QED BY <2>2, <2>3
  <1>4. ASSUME NEW c \in Callers, NEW path, Files!ReadFile(c, path) PROVE Files!FilesInv'
    <2>1. x1' = x1 /\ x4' = x4 /\ x2' = x2 /\ x3[c].phase = "idle"
      BY <1>4 DEF Files!ReadFile, Files!Begin
    <2>2. CASE x3' = x3
      BY <1>1, <2>1, <2>2, OthersKept
    <2>3. CASE x3' # x3
      <3>1. Files!Asks(c, "read_file", path, "none", <<>>)
        BY <1>4, <2>3 DEF Files!ReadFile
      <3> QED BY <2>1, <3>1, AskKept
    <2> QED BY <2>2, <2>3
  <1>5. ASSUME NEW c \in Callers, NEW allow, Files!Answer(c, allow) PROVE Files!FilesInv'
    <2>1. x1' = x1 /\ x3[c].phase = "asking"
      BY <1>5 DEF Files!Answer
    <2>2. CASE Files!Ends(c)
      BY <1>1, <2>1, <2>2, EndKept
    <2>3. CASE ~Files!Ends(c)
      <3>1. /\ x3[c].tool # "read_file"
            /\ x3' = [x3 EXCEPT ![c].phase = "allowed"]
            /\ x4' = [x4 EXCEPT ![c] = [at |-> x3[c].at, new |-> x3[c].new]]
        BY <1>5, <2>3 DEF Files!Answer
      <3>2. PICK r : r = [x3[c] EXCEPT !.phase = "allowed"]
        OBVIOUS
      <3>3. Files!Shaped(c) /\ x3[c].at # "git"
        BY <2>1, <3>1 DEF Files!FilesInv, Files!InOrder
      <3>4. r = [phase |-> "allowed", tool |-> x3[c].tool, asked |-> x3[c].asked,
                 at |-> x3[c].at, old |-> x3[c].old, new |-> x3[c].new]
        BY <3>2, <3>3 DEF Files!Shaped
      <3>5. PICK a : a = [at |-> x3[c].at, new |-> x3[c].new]
        OBVIOUS
      <3>6. x3' = [x3 EXCEPT ![c] = r] /\ x4' = [x4 EXCEPT ![c] = a]
        BY <3>1, <3>2, <3>5
      <3>7. /\ r = [phase |-> r.phase, tool |-> r.tool, asked |-> r.asked, at |-> r.at,
                    old |-> r.old, new |-> r.new]
            /\ r.phase = "allowed" /\ r.at # "git" /\ a = [at |-> r.at, new |-> r.new]
        BY <3>3, <3>4, <3>5
      <3> QED BY <1>1, <2>1, <3>6, <3>7, CallKept
    <2> QED BY <2>2, <2>3
  <1>6. ASSUME NEW c \in Callers, Files!Empty(c) PROVE Files!FilesInv'
    <2>1. /\ x3[c].phase = "allowed" /\ x1' = [x1 EXCEPT ![Files!At(c)] = <<>>]
          /\ x3' = [x3 EXCEPT ![c].phase = "writing"] /\ x4' = x4
      BY <1>6 DEF Files!Empty
    <2>2. PICK r : r = [x3[c] EXCEPT !.phase = "writing"]
      OBVIOUS
    <2>3. /\ Files!Shaped(c) /\ x3[c].at # "git"
          /\ x4[c] = [at |-> x3[c].at, new |-> x3[c].new]
      BY <2>1 DEF Files!FilesInv, Files!InOrder
    <2>4. r = [phase |-> "writing", tool |-> x3[c].tool, asked |-> x3[c].asked,
               at |-> x3[c].at, old |-> x3[c].old, new |-> x3[c].new]
      BY <2>2, <2>3 DEF Files!Shaped
    <2>5. PICK a : a = x4[c]
      OBVIOUS
    <2>6. x3' = [x3 EXCEPT ![c] = r] /\ x4' = [x4 EXCEPT ![c] = a]
      BY <2>1, <2>2, <2>5 DEF Files!FilesInv
    <2>7. /\ r = [phase |-> r.phase, tool |-> r.tool, asked |-> r.asked, at |-> r.at,
                  old |-> r.old, new |-> r.new]
          /\ r.phase = "writing" /\ r.at # "git" /\ a = [at |-> r.at, new |-> r.new]
      BY <2>3, <2>4, <2>5
    <2>8. x1' = [p \in Files!Places |-> x1'[p]]
      BY <2>1, PlaceWritten
    <2> QED BY <2>6, <2>7, <2>8, CallKept
  <1>7. ASSUME NEW c \in Callers, Files!Fill(c) PROVE Files!FilesInv'
    <2>1. x1' = [p \in Files!Places |-> x1'[p]]
      BY <1>7, PlaceWritten DEF Files!Fill
    <2> QED BY <1>7, <2>1, EndKept DEF Files!Fill
  <1>8. ASSUME NEW c \in Callers, Files!GiveUp(c) PROVE Files!FilesInv'
    BY <1>1, <1>8, EndKept DEF Files!GiveUp
  <1>9. ASSUME NEW p \in Files!Places, Files!UserMovesLink(p) PROVE Files!FilesInv'
    BY <1>1, <1>9, OthersKept DEF Files!UserMovesLink
  <1>10. ASSUME NEW p \in Files!Places, NEW content, Files!UserEdits(p, content)
         PROVE  Files!FilesInv'
    <2>1. x1' = [q \in Files!Places |-> x1'[q]]
      BY <1>10, PlaceWritten DEF Files!UserEdits
    <2> QED BY <1>10, <2>1, OthersKept DEF Files!UserEdits
  <1> QED BY <1>2, <1>3, <1>4, <1>5, <1>6, <1>7, <1>8, <1>9, <1>10 DEF Files!Next

(* What a write does.                                                        *)
LEMMA WriteIsApproved ==
    ASSUME Files!FilesInv
    PROVE  Files!WritesApproved
  <1>1. SUFFICES ASSUME NEW c \in Callers, x3[c].phase \in {"allowed", "writing"},
                        Files!Empty(c) \/ Files!Fill(c), NEW p \in Files!Places, x1'[p] # x1[p]
                 PROVE  p = x4[c].at /\ p # "git" /\ x1'[p] \in {<<>>, x4[c].new}
    BY DEF Files!WritesApproved
  <1>2. x3[c].at # "git" /\ x4[c].at = x3[c].at /\ x4[c].new = x3[c].new
    BY <1>1 DEF Files!FilesInv, Files!InOrder
  <1>3. PICK content \in {<<>>, x3[c].new} : x1' = [x1 EXCEPT ![Files!At(c)] = content]
    BY <1>1 DEF Files!Empty, Files!Fill
  <1>4. x1'[p] = IF p = Files!At(c) THEN content ELSE x1[p]
    BY <1>3, PlaceWritten
  <1> QED BY <1>1, <1>2, <1>3, <1>4 DEF Files!At

(* The invariant at the start.                                               *)
LEMMA FilesStarts == Files!Init => Files!FilesInv
  BY DEF Files!Init, Files!FilesInv, Files!Shaped, Files!InOrder, Files!Idle

(* The invariant in the composition.                                         *)
LEMMA FilesInvariant == ToolsSpec => [](part = "files" => Files!FilesInv)
  <1> DEFINE Inv == part = "files" => Files!FilesInv
  <1>1. ToolsInit => Inv
    BY FilesStarts DEF ToolsInit
  <1>2. Inv /\ [ToolsNext]_tools => Inv'
    <2>1. SUFFICES ASSUME Inv, [ToolsNext]_tools, part' = "files" PROVE Files!FilesInv'
      OBVIOUS
    <2>2. CASE OfFiles(Files!Next)
      BY <2>1, <2>2, FilesStep DEF OfFiles
    <2>3. CASE UNCHANGED tools
      BY <2>1, <2>3, OthersKept DEF tools, others, Files!FilesInv
    <2> QED BY <2>1, <2>2, <2>3 DEF ToolsNext, OfRules, OfBash, OfOutput, OfFence
  <1> QED BY <1>1, <1>2, PTL DEF ToolsSpec

\* For any number of callers, calls and edits of the user's, and any
\* contents: tools change a file only at the place, and to the content, that
\* the user was shown, and never under .git/ (edit.rs, write.rs).
THEOREM WritesCorrect == ToolsSpec => WritesAsApproved
  <1> DEFINE Inv == part = "files" => Files!FilesInv
             Holds == part = "files" => Files!WritesApproved
  <1>1. Inv /\ [ToolsNext]_tools => [Holds]_tools
    <2>1. SUFFICES ASSUME Inv, ToolsNext, part = "files" PROVE Files!WritesApproved
      OBVIOUS
    <2>2. OfFiles(Files!Next)
      BY <2>1 DEF ToolsNext, OfRules, OfBash, OfOutput, OfFence
    <2> QED BY <2>1, <2>2, WriteIsApproved DEF OfFiles
  <1> QED BY <1>1, FilesInvariant, PTL DEF ToolsSpec, WritesAsApproved

------------------------------------------------------------------------------
(* What a command may write under the root                                   *)

\* Finite is finite in the instance too.
LEMMA FenceFinite == \A S : Fence!IsFiniteSet(S) <=> IsFiniteSet(S)
  BY DEF Fence!IsFiniteSet, IsFiniteSet

\* And so are sizes.
LEMMA FenceSize == \A S : Fence!Cardinality(S) = Cardinality(S)
  BY DEF Fence!Cardinality, Cardinality

(* Induction, over a set of numbers.                                         *)
LEMMA Climb ==
    ASSUME NEW T, 0 \in T, \A n \in Nat : n \in T => n + 1 \in T
    PROVE  Nat \subseteq T
  <1> DEFINE D == Nat \ T
             R == {ss \in Nat \X Nat : ss[1] < ss[2]}
  <1> SUFFICES ASSUME D # {} PROVE FALSE
    OBVIOUS
  <1>1. IsWellFoundedOn(R, Nat)
    BY NatLessThanWellFounded DEF OpToRel
  <1> HIDE DEF R
  <1>2. PICK d \in D : \A y \in D : <<y, d>> \notin R
    BY <1>1, WFMin
  <1>3. d \in Nat /\ d # 0
    OBVIOUS
  <1>4. d - 1 \in Nat /\ d - 1 < d /\ (d - 1) + 1 = d
    BY <1>3
  <1>5. d - 1 \in T
    BY <1>2, <1>3, <1>4 DEF R
  <1>6. d \in T
    BY <1>4, <1>5
  <1> QED BY <1>2, <1>6

(* Of numbers one is the least.                                              *)
LEMMA Least ==
    ASSUME NEW T, T \subseteq Nat, T # {}
    PROVE  \E d \in T : \A y \in T : d <= y
  <1> DEFINE R == {ss \in Nat \X Nat : ss[1] < ss[2]}
  <1>1. IsWellFoundedOn(R, Nat)
    BY NatLessThanWellFounded DEF OpToRel
  <1> HIDE DEF R
  <1>2. PICK d \in T : \A y \in T : <<y, d>> \notin R
    BY <1>1, WFMin
  <1>3. \A y \in T : ~(y < d)
    BY <1>2 DEF R
  <1> QED BY <1>3

(* A run of backslashes that ends before k, and escapes k if it is odd.      *)
BackRun(cs, b, k, len) ==
    /\ len \in 1..(k - b - 1)
    /\ \A i \in (k - len)..(k - 1) : cs[i] = "back"
    /\ k - len - 1 = b \/ cs[k - len - 1] # "back"

LEMMA EscapedIs ==
    ASSUME NEW cs, NEW b, NEW k
    PROVE  Fence!EscapedIn(cs, b, k)
               <=> \E len \in 1..(k - b - 1) : len % 2 = 1 /\ BackRun(cs, b, k, len)
  BY DEF Fence!EscapedIn, BackRun

(* A character is escaped by a backslash before it that is not.              *)
LEMMA EscapedNext ==
    ASSUME NEW cs, NEW b \in Nat, NEW k \in Nat, k > b + 1
    PROVE  Fence!EscapedIn(cs, b, k) <=> cs[k - 1] = "back" /\ ~Fence!EscapedIn(cs, b, k - 1)
  <1>1. ASSUME Fence!EscapedIn(cs, b, k), Fence!EscapedIn(cs, b, k - 1) PROVE FALSE
    <2>1. PICK m \in 1..(k - b - 1) : m % 2 = 1 /\ BackRun(cs, b, k, m)
      BY <1>1, EscapedIs
    <2>2. PICK n \in 1..((k - 1) - b - 1) : n % 2 = 1 /\ BackRun(cs, b, k - 1, n)
      BY <1>1, EscapedIs
    <2>3. m # n + 1
      BY <2>1, <2>2
    <2>4. CASE m < n + 1
      <3>1. k - m - 1 \in ((k - 1) - n)..((k - 1) - 1) /\ k - m - 1 # b
        BY <2>1, <2>2, <2>4
      <3> QED BY <2>1, <2>2, <3>1 DEF BackRun
    <2>5. CASE m > n + 1
      <3>1. (k - 1) - n - 1 \in (k - m)..(k - 1) /\ (k - 1) - n - 1 # b
        BY <2>1, <2>2, <2>5
      <3> QED BY <2>1, <2>2, <3>1 DEF BackRun
    <2> QED BY <2>1, <2>2, <2>3, <2>4, <2>5
  <1>2. ASSUME Fence!EscapedIn(cs, b, k) PROVE cs[k - 1] = "back"
    <2>1. PICK m \in 1..(k - b - 1) : BackRun(cs, b, k, m)
      BY <1>2, EscapedIs
    <2>2. k - 1 \in (k - m)..(k - 1)
      BY <2>1
    <2> QED BY <2>1, <2>2 DEF BackRun
  <1>3. ASSUME cs[k - 1] = "back", ~Fence!EscapedIn(cs, b, k - 1) PROVE Fence!EscapedIn(cs, b, k)
    <2> DEFINE T == {j \in (b + 1)..(k - 1) : \A i \in j..(k - 1) : cs[i] = "back"}
    <2>1. T \subseteq Nat
      OBVIOUS
    <2>2. k - 1 \in T
      BY <1>3
    <2>3. PICK j \in T : \A y \in T : j <= y
      BY <2>1, <2>2, Least
    <2>4. PICK m : m = k - j
      OBVIOUS
    <2>5. m \in 1..(k - b - 1) /\ k - m = j
      BY <2>3, <2>4
    <2>6. j - 1 = b \/ cs[j - 1] # "back"
      <3>1. SUFFICES ASSUME j - 1 # b, cs[j - 1] = "back" PROVE FALSE
        OBVIOUS
      <3>2. j - 1 \in T
        BY <2>3, <3>1
      <3> QED BY <2>1, <2>3, <3>2
    <2>7. BackRun(cs, b, k, m)
      BY <2>3, <2>5, <2>6 DEF BackRun
    <2>8. CASE m % 2 = 1
      BY <2>5, <2>7, <2>8, EscapedIs
    <2>9. CASE m % 2 # 1
      <3>1. PICK n : n = m - 1
        OBVIOUS
      <3>2. n \in 1..((k - 1) - b - 1) /\ n % 2 = 1
        BY <2>5, <2>9, <3>1
      <3>3. BackRun(cs, b, k - 1, n)
        BY <2>5, <2>7, <3>1, <3>2 DEF BackRun
      <3> QED BY <1>3, <3>2, <3>3, EscapedIs
    <2> QED BY <2>8, <2>9
  <1> QED BY <1>1, <1>2, <1>3

LEMMA EscapedFirst == ASSUME NEW cs, NEW b \in Nat PROVE ~Fence!EscapedIn(cs, b, b + 1)
  BY DEF Fence!EscapedIn

(* The sets of ends of rows of pieces, up to m.                              *)
Ends(cs, m, w) ==
    /\ w \subseteq 0..m
    /\ \A n \in 0..m : n \in w <=> n = 0 \/ \E b \in 1..n : b - 1 \in w /\ Fence!Piece(cs, b, n)

(* Such a set can be made.                                                   *)
LEMMA EndsExist ==
    ASSUME NEW cs, NEW m \in Nat
    PROVE  \E w : Ends(cs, m, w)
  <1> DEFINE T == {k \in Nat : \E w : Ends(cs, k, w)}
  <1>1. 0 \in T
    <2>1. Ends(cs, 0, {0})
      BY DEF Ends
    <2> QED BY <2>1
  <1>2. \A k \in Nat : k \in T => k + 1 \in T
    <2> SUFFICES ASSUME NEW k \in Nat, k \in T PROVE \E w : Ends(cs, k + 1, w)
      OBVIOUS
    <2>1. PICK w : Ends(cs, k, w)
      OBVIOUS
    <2> DEFINE goes == \E b \in 1..(k + 1) : b - 1 \in w /\ Fence!Piece(cs, b, k + 1)
               v == w \cup (IF goes THEN {k + 1} ELSE {})
    <2>2. w \subseteq 0..k /\ k + 1 \notin w
      BY <2>1 DEF Ends
    <2>3. v \subseteq 0..(k + 1) /\ (k + 1 \in v <=> goes) /\ \A n \in 0..k : n \in v <=> n \in w
      BY <2>2
    <2> HIDE DEF v
    <2>4. ASSUME NEW n \in 0..(k + 1)
          PROVE  n \in v <=> n = 0 \/ \E b \in 1..n : b - 1 \in v /\ Fence!Piece(cs, b, n)
      <3>1. CASE n = k + 1
        <4>1. \A b \in 1..n : b - 1 \in v <=> b - 1 \in w
          BY <2>3, <3>1
        <4> QED BY <2>3, <3>1, <4>1
      <3>2. CASE n # k + 1
        <4>1. n \in 0..k
          BY <3>2
        <4>2. \A b \in 1..n : b - 1 \in v <=> b - 1 \in w
          BY <2>3, <4>1
        <4>3. n \in w <=> n = 0 \/ \E b \in 1..n : b - 1 \in w /\ Fence!Piece(cs, b, n)
          BY <2>1, <4>1 DEF Ends
        <4> QED BY <2>3, <4>1, <4>2, <4>3
      <3> QED BY <3>1, <3>2
    <2>5. Ends(cs, k + 1, v)
      BY <2>3, <2>4 DEF Ends
    <2> QED BY <2>5
  <1> HIDE DEF T
  <1>3. m \in T
    BY <1>1, <1>2, Climb
  <1> QED BY <1>3 DEF T

(* whole is OnlyWords' function on the first m positions.                    *)
Whole(cs, m, whole) ==
    whole = [n \in 0..m |-> n = 0 \/ \E b \in 1..n : whole[b - 1] /\ Fence!Piece(cs, b, n)]

LEMMA WordsAre ==
    ASSUME NEW cs, Len(cs) \in Nat
    PROVE  \E w : Ends(cs, Len(cs), w) /\ (Fence!OnlyWords(cs) <=> Len(cs) \in w)
  <1> DEFINE m == Len(cs)
             g == CHOOSE whole : Whole(cs, m, whole)
  <1>1. Fence!OnlyWords(cs) = g[m]
    BY DEF Fence!OnlyWords, Whole
  <1>2. \E whole : Whole(cs, m, whole)
    <2>1. PICK w : Ends(cs, m, w)
      BY EndsExist
    <2> DEFINE whole == [n \in 0..m |-> n \in w]
    <2>2. ASSUME NEW n \in 0..m
          PROVE  n \in w <=> (n = 0 \/ \E b \in 1..n : whole[b - 1] /\ Fence!Piece(cs, b, n))
      <3>1. \A b \in 1..n : b - 1 \in 0..m
        OBVIOUS
      <3>2. \A b \in 1..n : whole[b - 1] <=> b - 1 \in w
        BY <3>1, Zenon
      <3>3. n \in w <=> n = 0 \/ \E b \in 1..n : b - 1 \in w /\ Fence!Piece(cs, b, n)
        BY <2>1 DEF Ends
      <3> HIDE DEF whole
      <3> QED BY <3>2, <3>3, Zenon
    <2>3. Whole(cs, m, whole)
      BY <2>2 DEF Whole
    <2> QED BY <2>3
  <1>3. Whole(cs, m, g)
    BY <1>2
  <1> HIDE DEF g
  <1> DEFINE w == {n \in 0..m : g[n]}
  <1>4. \A n \in 0..m : g[n] <=> n = 0 \/ \E b \in 1..n : g[b - 1] /\ Fence!Piece(cs, b, n)
    BY <1>3, Zenon DEF Whole
  <1>5. ASSUME NEW n \in 0..m
        PROVE  n \in w <=> n = 0 \/ \E b \in 1..n : b - 1 \in w /\ Fence!Piece(cs, b, n)
    <2>1. \A b \in 1..n : b - 1 \in 0..m
      OBVIOUS
    <2>2. \A b \in 1..n : b - 1 \in w <=> g[b - 1]
      BY <2>1, Zenon
    <2>3. n \in w <=> g[n]
      BY Zenon
    <2> HIDE DEF w
    <2> QED BY <1>4, <2>2, <2>3, Zenon
  <1>6. m \in w <=> g[m]
    <2>1. m \in 0..m
      OBVIOUS
    <2> QED BY <2>1, Zenon
  <1>7. w \subseteq 0..m
    OBVIOUS
  <1> QED BY <1>1, <1>5, <1>6, <1>7 DEF Ends

(* The states of a scan.                                                     *)
ScanAt(a, q) == [at |-> a, quote |-> q, bad |-> FALSE]

ScanRun(cs, m, s) ==
    s = [n \in 0..m |-> IF n = 0 THEN ScanAt(1, "none")
                        ELSE LET t == s[n - 1]
                             IN IF t.bad \/ t.at > Len(cs) THEN t ELSE Fence!ScanStep(cs, t)]

(* A scan can be made.                                                       *)
LEMMA ScanExists ==
    ASSUME NEW cs, NEW m \in Nat
    PROVE  \E s : ScanRun(cs, m, s)
  <1> DEFINE T == {k \in Nat : \E s : ScanRun(cs, k, s)}
             Next1(t) == IF t.bad \/ t.at > Len(cs) THEN t ELSE Fence!ScanStep(cs, t)
  <1>1. 0 \in T
    <2>1. ScanRun(cs, 0, [i \in 0..0 |-> ScanAt(1, "none")])
      BY DEF ScanRun
    <2> QED BY <2>1
  <1>2. \A k \in Nat : k \in T => k + 1 \in T
    <2> SUFFICES ASSUME NEW k \in Nat, k \in T PROVE \E s : ScanRun(cs, k + 1, s)
      OBVIOUS
    <2>1. PICK s : ScanRun(cs, k, s)
      OBVIOUS
    <2>2. \A i \in 0..k : s[i] = IF i = 0 THEN ScanAt(1, "none") ELSE Next1(s[i - 1])
      BY <2>1 DEF ScanRun
    <2> HIDE DEF Next1
    <2> DEFINE t == [i \in 0..(k + 1) |-> IF i = k + 1 THEN Next1(s[k]) ELSE s[i]]
    <2>3. \A i \in 0..(k + 1) : t[i] = IF i = 0 THEN ScanAt(1, "none") ELSE Next1(t[i - 1])
      BY <2>2
    <2>4. t = [i \in 0..(k + 1) |-> IF i = 0 THEN ScanAt(1, "none") ELSE Next1(t[i - 1])]
      <3>1. t = [i \in 0..(k + 1) |-> t[i]]
        OBVIOUS
      <3> HIDE DEF t
      <3> QED BY <2>3, <3>1
    <2> HIDE DEF t
    <2>5. ScanRun(cs, k + 1, t)
      BY <2>4 DEF ScanRun, Next1
    <2> QED BY <2>5
  <1> HIDE DEF T
  <1>3. m \in T
    BY <1>1, <1>2, Climb
  <1> QED BY <1>3 DEF T

(* A scan, step by step.                                                     *)
Scan(cs, s) ==
    /\ s[0] = ScanAt(1, "none")
    /\ \A k \in 1..Len(cs) :
           s[k] = IF s[k - 1].bad \/ s[k - 1].at > Len(cs) THEN s[k - 1]
                  ELSE Fence!ScanStep(cs, s[k - 1])

LEMMA ScanIs ==
    ASSUME NEW cs, Len(cs) \in Nat
    PROVE  \E s : /\ Scan(cs, s)
                  /\ Fence!HasDangerousShellSyntax(cs)
                         <=> s[Len(cs)].bad \/ s[Len(cs)].quote # "none"
  <1> DEFINE m == Len(cs)
             s == CHOOSE t : ScanRun(cs, m, t)
  <1>1. Fence!HasDangerousShellSyntax(cs) <=> s[m].bad \/ s[m].quote # "none"
    BY DEF Fence!HasDangerousShellSyntax, ScanRun, ScanAt
  <1>2. ScanRun(cs, m, s)
    BY ScanExists
  <1> HIDE DEF s
  <1>3. Scan(cs, s)
    BY <1>2 DEF ScanRun, Scan
  <1> QED BY <1>1, <1>3

(* What a step is, in each quote.                                            *)
LEMMA StepUnquoted ==
    ASSUME NEW cs, NEW a
    PROVE  LET c == cs[a]
               t == Fence!ScanStep(cs, ScanAt(a, "none"))
           IN  /\ c = "sq" => t = ScanAt(a + 1, "single")
               /\ c = "dq" => t = ScanAt(a + 1, "double")
               /\ c \in Fence!Special \/ Fence!Substitutes(cs, a) => t.bad
               /\ c \notin Fence!Special \cup {"sq", "dq"} /\ ~Fence!Substitutes(cs, a)
                      => t = ScanAt(a + 1, "none")
  BY DEF Fence!ScanStep, ScanAt, Fence!Special, Fence!Substitutes

LEMMA StepSingle ==
    ASSUME NEW cs, NEW a
    PROVE  Fence!ScanStep(cs, ScanAt(a, "single"))
               = ScanAt(a + 1, IF cs[a] = "sq" THEN "none" ELSE "single")
  BY DEF Fence!ScanStep, ScanAt

LEMMA StepDouble ==
    ASSUME NEW cs, NEW a
    PROVE  LET c == cs[a]
               t == Fence!ScanStep(cs, ScanAt(a, "double"))
           IN  /\ c = "dq" => t = ScanAt(a + 1, "none")
               /\ c = "back" => t = ScanAt(a + 2, "double")
               /\ c = "tick" \/ Fence!Substitutes(cs, a) => t.bad
               /\ c \notin {"dq", "back", "tick"} /\ ~Fence!Substitutes(cs, a)
                      => t = ScanAt(a + 1, "double")
  BY DEF Fence!ScanStep, ScanAt, Fence!Special, Fence!Substitutes

(* Where a scan that has not given up is: after a row of pieces, or in the   *)
(* next one, which is quoted and was opened at b.                            *)
InSingle(cs, w, a, b) ==
    /\ b < a /\ b - 1 \in w /\ cs[b] = "sq" /\ a <= Len(cs) + 1
    /\ \A k \in (b + 1)..(a - 1) : cs[k] # "sq"

Quiet(cs, b, k) ==
    cs[k] \in {"dq", "tick"} \/ Fence!Substitutes(cs, k) => Fence!EscapedIn(cs, b, k)

InDouble(cs, w, a, b) ==
    /\ b < a /\ b - 1 \in w /\ cs[b] = "dq" /\ ~Fence!EscapedIn(cs, b, a)
    /\ \A k \in (b + 1)..(a - 1) : k <= Len(cs) => Quiet(cs, b, k)

Sound(cs, w, a, q) ==
    \/ q = "none" /\ a <= Len(cs) + 1 /\ a - 1 \in w
    \/ q = "single" /\ \E b \in 1..Len(cs) : InSingle(cs, w, a, b)
    \/ q = "double" /\ \E b \in 1..Len(cs) : InDouble(cs, w, a, b)

SoundAt(cs, w, t, k) ==
    \/ t.bad
    \/ \E a \in Nat, q \in {"none", "single", "double"} :
           /\ t = ScanAt(a, q) /\ (k < a \/ a > Len(cs)) /\ a > 0
           /\ Sound(cs, w, a, q)

(* A piece that follows a row makes a longer row.                            *)
LEMMA RowGrows ==
    ASSUME NEW cs, Len(cs) \in Nat, NEW w, Ends(cs, Len(cs), w), NEW b \in 1..Len(cs),
           NEW e \in 1..Len(cs), b <= e, b - 1 \in w, Fence!Piece(cs, b, e)
    PROVE  e \in w
  <1>1. e \in 0..Len(cs) /\ b \in 1..e
    OBVIOUS
  <1> QED BY <1>1 DEF Ends

(* Steps keep a scan sound.                                                  *)
LEMMA SoundUnquoted ==
    ASSUME NEW cs, Len(cs) \in Nat, NEW w, Ends(cs, Len(cs), w), NEW a \in 1..Len(cs),
           Sound(cs, w, a, "none"), NEW k \in Nat, k < a
    PROVE  SoundAt(cs, w, Fence!ScanStep(cs, ScanAt(a, "none")), k + 1)
  <1> DEFINE t == Fence!ScanStep(cs, ScanAt(a, "none"))
  <1>1. a - 1 \in w
    BY DEF Sound
  <1>2. CASE cs[a] = "sq"
    <2>1. t = ScanAt(a + 1, "single")
      BY <1>2, StepUnquoted
    <2> HIDE DEF t
    <2>2. InSingle(cs, w, a + 1, a)
      BY <1>1, <1>2 DEF InSingle
    <2>3. Sound(cs, w, a + 1, "single")
      BY <2>2 DEF Sound
    <2>4. a + 1 \in Nat /\ k + 1 < a + 1 /\ a + 1 > 0
      OBVIOUS
    <2> QED BY <2>1, <2>3, <2>4 DEF SoundAt, t
  <1>3. CASE cs[a] = "dq"
    <2>1. t = ScanAt(a + 1, "double")
      BY <1>3, StepUnquoted
    <2> HIDE DEF t
    <2>2. InDouble(cs, w, a + 1, a)
      BY <1>1, <1>3, EscapedFirst DEF InDouble
    <2>3. Sound(cs, w, a + 1, "double")
      BY <2>2 DEF Sound
    <2>4. a + 1 \in Nat /\ k + 1 < a + 1 /\ a + 1 > 0
      OBVIOUS
    <2> QED BY <2>1, <2>3, <2>4 DEF SoundAt, t
  <1>4. CASE cs[a] \in Fence!Special \/ Fence!Substitutes(cs, a)
    BY <1>4, StepUnquoted DEF SoundAt
  <1>5. CASE cs[a] \notin Fence!Special \cup {"sq", "dq"} /\ ~Fence!Substitutes(cs, a)
    <2>1. t = ScanAt(a + 1, "none")
      BY <1>5, StepUnquoted
    <2> HIDE DEF t
    <2>2. Fence!Piece(cs, a, a)
      BY <1>5 DEF Fence!Piece
    <2>3. a \in w
      BY <1>1, <2>2, RowGrows
    <2>4. a + 1 \in Nat /\ k + 1 < a + 1 /\ a + 1 > 0 /\ a + 1 <= Len(cs) + 1 /\ (a + 1) - 1 = a
      OBVIOUS
    <2>5. Sound(cs, w, a + 1, "none")
      BY <2>3, <2>4 DEF Sound
    <2> QED BY <2>1, <2>4, <2>5 DEF SoundAt, t
  <1> QED BY <1>2, <1>3, <1>4, <1>5

LEMMA SoundSingle ==
    ASSUME NEW cs, Len(cs) \in Nat, NEW w, Ends(cs, Len(cs), w), NEW a \in 1..Len(cs),
           Sound(cs, w, a, "single"), NEW k \in Nat, k < a
    PROVE  SoundAt(cs, w, Fence!ScanStep(cs, ScanAt(a, "single")), k + 1)
  <1> DEFINE t == Fence!ScanStep(cs, ScanAt(a, "single"))
  <1>1. PICK b \in 1..Len(cs) : InSingle(cs, w, a, b)
    BY DEF Sound
  <1>2. a + 1 \in Nat /\ k + 1 < a + 1 /\ a + 1 > 0 /\ a + 1 <= Len(cs) + 1 /\ (a + 1) - 1 = a
    OBVIOUS
  <1>3. CASE cs[a] = "sq"
    <2>1. t = ScanAt(a + 1, "none")
      BY <1>3, StepSingle
    <2> HIDE DEF t
    <2>2. Fence!Piece(cs, b, a)
      BY <1>1, <1>3 DEF Fence!Piece, InSingle
    <2>3. a \in w
      BY <1>1, <2>2, RowGrows DEF InSingle
    <2>4. Sound(cs, w, a + 1, "none")
      BY <1>2, <2>3 DEF Sound
    <2> QED BY <1>2, <2>1, <2>4 DEF SoundAt, t
  <1>4. CASE cs[a] # "sq"
    <2>1. t = ScanAt(a + 1, "single")
      BY <1>4, StepSingle
    <2> HIDE DEF t
    <2>2. InSingle(cs, w, a + 1, b)
      BY <1>1, <1>2, <1>4 DEF InSingle
    <2>3. Sound(cs, w, a + 1, "single")
      BY <2>2 DEF Sound
    <2> QED BY <1>2, <2>1, <2>3 DEF SoundAt, t
  <1> QED BY <1>3, <1>4

LEMMA SoundDouble ==
    ASSUME NEW cs, Len(cs) \in Nat, NEW w, Ends(cs, Len(cs), w), NEW a \in 1..Len(cs),
           Sound(cs, w, a, "double"), NEW k \in Nat, k < a
    PROVE  SoundAt(cs, w, Fence!ScanStep(cs, ScanAt(a, "double")), k + 1)
  <1> DEFINE t == Fence!ScanStep(cs, ScanAt(a, "double"))
  <1>1. PICK b \in 1..Len(cs) : InDouble(cs, w, a, b)
    BY DEF Sound
  <1>2. b < a /\ ~Fence!EscapedIn(cs, b, a) /\ \A j \in (b + 1)..(a - 1) : Quiet(cs, b, j)
    BY <1>1 DEF InDouble
  <1>3. a + 1 \in Nat /\ k + 1 < a + 1 /\ a + 1 > 0 /\ a + 1 <= Len(cs) + 1 /\ (a + 1) - 1 = a
    OBVIOUS
  <1>4. Fence!EscapedIn(cs, b, a + 1) <=> cs[a] = "back"
    BY <1>2, <1>3, EscapedNext
  <1>5. CASE cs[a] = "dq"
    <2>1. t = ScanAt(a + 1, "none")
      BY <1>5, StepDouble
    <2> HIDE DEF t
    <2>2. Fence!Piece(cs, b, a)
      BY <1>1, <1>2, <1>5 DEF Fence!Piece, InDouble, Quiet
    <2>3. a \in w
      BY <1>1, <1>2, <2>2, RowGrows DEF InDouble
    <2>4. Sound(cs, w, a + 1, "none")
      BY <1>3, <2>3 DEF Sound
    <2> QED BY <1>3, <2>1, <2>4 DEF SoundAt, t
  <1>6. CASE cs[a] = "back"
    <2>1. t = ScanAt(a + 2, "double")
      BY <1>6, StepDouble
    <2> HIDE DEF t
    <2>2. a + 2 \in Nat /\ k + 1 < a + 2 /\ a + 2 > 0 /\ (a + 2) - 1 = a + 1 /\ b < a + 2
          /\ a + 2 > b + 1
      BY <1>2
    <2>3. ~Fence!EscapedIn(cs, b, a + 2)
      BY <1>4, <1>6, <2>2, EscapedNext
    <2>4. Quiet(cs, b, a) /\ Quiet(cs, b, a + 1)
      BY <1>4, <1>6 DEF Quiet, Fence!Substitutes
    <2>5. \A j \in (b + 1)..(a + 2 - 1) : j <= Len(cs) => Quiet(cs, b, j)
      BY <1>2, <2>4
    <2>6. InDouble(cs, w, a + 2, b)
      BY <1>1, <2>2, <2>3, <2>5 DEF InDouble
    <2>7. Sound(cs, w, a + 2, "double")
      BY <2>6 DEF Sound
    <2> QED BY <2>1, <2>2, <2>7 DEF SoundAt, t
  <1>7. CASE cs[a] = "tick" \/ Fence!Substitutes(cs, a)
    BY <1>7, StepDouble DEF SoundAt
  <1>8. CASE cs[a] \notin {"dq", "back", "tick"} /\ ~Fence!Substitutes(cs, a)
    <2>1. t = ScanAt(a + 1, "double")
      BY <1>8, StepDouble
    <2> HIDE DEF t
    <2>2. Quiet(cs, b, a)
      BY <1>8 DEF Quiet
    <2>3. \A j \in (b + 1)..(a + 1 - 1) : j <= Len(cs) => Quiet(cs, b, j)
      BY <1>2, <2>2
    <2>4. InDouble(cs, w, a + 1, b)
      BY <1>1, <1>2, <1>3, <1>4, <1>8, <2>3 DEF InDouble
    <2>5. Sound(cs, w, a + 1, "double")
      BY <2>4 DEF Sound
    <2> QED BY <1>3, <2>1, <2>5 DEF SoundAt, t
  <1> QED BY <1>5, <1>6, <1>7, <1>8

(* A scan is sound from its start to its end.                                *)
LEMMA ScanIsSound ==
    ASSUME NEW cs, Len(cs) \in Nat, NEW w, Ends(cs, Len(cs), w), NEW s, Scan(cs, s)
    PROVE  \A k \in 0..Len(cs) : SoundAt(cs, w, s[k], k)
  <1> DEFINE T == {k \in Nat : k <= Len(cs) => SoundAt(cs, w, s[k], k)}
  <1>1. 0 \in T
    <2>1. 0 \in w
      BY DEF Ends
    <2>2. Sound(cs, w, 1, "none")
      BY <2>1 DEF Sound
    <2>3. SoundAt(cs, w, s[0], 0)
      BY <2>2 DEF SoundAt, Scan
    <2> QED BY <2>3
  <1>2. ASSUME NEW k \in Nat, k \in T, k + 1 <= Len(cs) PROVE SoundAt(cs, w, s[k + 1], k + 1)
    <2>1. SoundAt(cs, w, s[k], k) /\ k + 1 \in 1..Len(cs) /\ (k + 1) - 1 = k
      BY <1>2
    <2>2. s[k + 1] = IF s[k].bad \/ s[k].at > Len(cs) THEN s[k] ELSE Fence!ScanStep(cs, s[k])
      BY <2>1 DEF Scan
    <2>3. CASE s[k].bad
      BY <2>2, <2>3 DEF SoundAt
    <2>4. CASE ~s[k].bad
      <3>1. PICK a \in Nat, q \in {"none", "single", "double"} :
                   s[k] = ScanAt(a, q) /\ (k < a \/ a > Len(cs)) /\ a > 0 /\ Sound(cs, w, a, q)
        BY <2>1, <2>4 DEF SoundAt
      <3>2. s[k].at = a
        BY <3>1 DEF ScanAt
      <3>3. CASE a > Len(cs)
        BY <2>2, <3>1, <3>2, <3>3 DEF SoundAt
      <3>4. CASE ~(a > Len(cs))
        <4>1. a \in 1..Len(cs) /\ k < a
          BY <3>1, <3>4
        <4>2. s[k + 1] = Fence!ScanStep(cs, ScanAt(a, q))
          BY <2>2, <2>4, <3>1, <3>2, <3>4
        <4> QED BY <3>1, <4>1, <4>2, SoundUnquoted, SoundSingle, SoundDouble
      <3> QED BY <3>3, <3>4
    <2> QED BY <2>3, <2>4
  <1>3. \A k \in Nat : k \in T => k + 1 \in T
    BY <1>2
  <1> HIDE DEF T
  <1>4. Nat \subseteq T
    BY <1>1, <1>3, Climb
  <1> QED BY <1>4 DEF T

(* A scan comes to position a in quote q, in time to go on.                  *)
Reached(cs, s, a, q) == \E k \in 0..Len(cs) : k < a /\ s[k] = ScanAt(a, q)

LEMMA ReachedNext ==
    ASSUME NEW cs, Len(cs) \in Nat, NEW s, Scan(cs, s), NEW a \in 1..Len(cs), NEW q,
           Reached(cs, s, a, q), NEW e \in Nat, a < e, NEW r,
           Fence!ScanStep(cs, ScanAt(a, q)) = ScanAt(e, r)
    PROVE  Reached(cs, s, e, r)
  <1>1. PICK k \in 0..Len(cs) : k < a /\ s[k] = ScanAt(a, q)
    BY DEF Reached
  <1>2. k + 1 \in 1..Len(cs) /\ (k + 1) - 1 = k /\ k + 1 < e /\ k + 1 \in 0..Len(cs)
    BY <1>1
  <1>3. ~s[k].bad /\ s[k].at = a
    BY <1>1 DEF ScanAt
  <1>4. s[k + 1] = IF s[k].bad \/ s[k].at > Len(cs) THEN s[k] ELSE Fence!ScanStep(cs, s[k])
    BY <1>2 DEF Scan
  <1>5. s[k + 1] = ScanAt(e, r)
    BY <1>1, <1>3, <1>4
  <1> QED BY <1>2, <1>5 DEF Reached

(* Over a piece.                                                             *)
LEMMA PieceScanned ==
    ASSUME NEW cs, Len(cs) \in Nat, NEW s, Scan(cs, s), NEW b \in 1..Len(cs), NEW e \in 1..Len(cs),
           b <= e, Fence!Piece(cs, b, e), Reached(cs, s, b, "none")
    PROVE  Reached(cs, s, e + 1, "none")
  <1>1. b + 1 \in Nat /\ b < b + 1 /\ e + 1 \in Nat /\ e < e + 1
    OBVIOUS
  <1>2. CASE b = e /\ cs[b] \notin Fence!Special \cup {"sq", "dq"} /\ ~Fence!Substitutes(cs, b)
    <2>1. Fence!ScanStep(cs, ScanAt(b, "none")) = ScanAt(b + 1, "none")
      BY <1>2, StepUnquoted
    <2> QED BY <1>1, <1>2, <2>1, ReachedNext
  <1>3. CASE b < e /\ cs[b] = "sq" /\ cs[e] = "sq" /\ \A k \in (b + 1)..(e - 1) : cs[k] # "sq"
    <2>1. Fence!ScanStep(cs, ScanAt(b, "none")) = ScanAt(b + 1, "single")
      BY <1>3, StepUnquoted
    <2>2. Reached(cs, s, b + 1, "single")
      BY <1>1, <2>1, ReachedNext
    <2> DEFINE T == {i \in Nat : b + 1 + i <= e => Reached(cs, s, b + 1 + i, "single")}
    <2>3. 0 \in T
      BY <2>2
    <2>4. ASSUME NEW i \in Nat, i \in T, b + 1 + (i + 1) <= e
          PROVE  Reached(cs, s, b + 1 + (i + 1), "single")
      <3>1. PICK a : a = b + 1 + i
        OBVIOUS
      <3>2. a \in 1..Len(cs) /\ a \in (b + 1)..(e - 1) /\ Reached(cs, s, a, "single")
        BY <2>4, <3>1
      <3>3. Fence!ScanStep(cs, ScanAt(a, "single")) = ScanAt(a + 1, "single")
        BY <1>3, <3>2, StepSingle
      <3>4. Reached(cs, s, a + 1, "single")
        BY <3>2, <3>3, ReachedNext
      <3> QED BY <3>1, <3>4
    <2>5. \A i \in Nat : i \in T => i + 1 \in T
      BY <2>4
    <2> HIDE DEF T
    <2>6. Nat \subseteq T
      BY <2>3, <2>5, Climb
    <2>7. e - b - 1 \in Nat /\ b + 1 + (e - b - 1) = e
      BY <1>3
    <2>8. Reached(cs, s, e, "single")
      <3>1. PICK i \in Nat : i = e - b - 1
        BY <2>7
      <3>2. i \in T
        BY <2>6
      <3>3. b + 1 + i = e /\ b + 1 + i <= e
        BY <3>1
      <3>4. Reached(cs, s, b + 1 + i, "single")
        BY <3>2, <3>3 DEF T
      <3> QED BY <3>3, <3>4
    <2>9. Fence!ScanStep(cs, ScanAt(e, "single")) = ScanAt(e + 1, "none")
      BY <1>3, StepSingle
    <2> QED BY <1>1, <2>8, <2>9, ReachedNext
  <1>4. CASE /\ b < e /\ cs[b] = "dq" /\ cs[e] = "dq" /\ ~Fence!EscapedIn(cs, b, e)
             /\ \A k \in (b + 1)..(e - 1) : Quiet(cs, b, k)
    <2>1. Fence!ScanStep(cs, ScanAt(b, "none")) = ScanAt(b + 1, "double")
      BY <1>4, StepUnquoted
    <2>2. Reached(cs, s, b + 1, "double")
      BY <1>1, <2>1, ReachedNext
    <2> DEFINE Missed == {j \in (b + 1)..e : ~Fence!EscapedIn(cs, b, j) /\ ~Reached(cs, s, j, "double")}
    <2>3. Missed = {}
      <3> SUFFICES ASSUME Missed # {} PROVE FALSE
        OBVIOUS
      <3>1. Missed \subseteq Nat
        OBVIOUS
      <3>2. PICK j \in Missed : \A y \in Missed : j <= y
        BY <3>1, Least
      <3>3. j \in (b + 1)..e /\ ~Fence!EscapedIn(cs, b, j) /\ ~Reached(cs, s, j, "double")
        BY <3>2
      <3>4. \A y \in (b + 1)..e : y < j /\ ~Fence!EscapedIn(cs, b, y) => Reached(cs, s, y, "double")
        BY <3>2, <3>3
      <3> HIDE DEF Missed
      <3>5. j > b + 1
        BY <2>2, <3>3
      <3>6. j \in Nat /\ j - 1 \in Nat /\ j - 1 \in (b + 1)..(e - 1) /\ j - 1 \in 1..Len(cs)
            /\ (j - 1) + 1 = j /\ j - 1 < j
        BY <3>3, <3>5
      <3>7. ~(cs[j - 1] = "back" /\ ~Fence!EscapedIn(cs, b, j - 1))
        BY <3>3, <3>5, <3>6, EscapedNext
      <3>8. CASE Fence!EscapedIn(cs, b, j - 1)
        <4>1. j - 1 > b + 1
          <5>1. j - 1 # b + 1
            BY <3>8, EscapedFirst
          <5> QED BY <3>6, <5>1
        <4>2. j - 2 \in Nat /\ j - 2 \in (b + 1)..e /\ j - 2 \in 1..Len(cs) /\ (j - 1) - 1 = j - 2
              /\ j - 2 < j /\ (j - 2) + 2 = j
          BY <3>6, <4>1
        <4>3. cs[j - 2] = "back" /\ ~Fence!EscapedIn(cs, b, j - 2)
          BY <3>6, <3>8, <4>1, <4>2, EscapedNext
        <4>4. Reached(cs, s, j - 2, "double")
          BY <3>4, <4>2, <4>3
        <4>5. Fence!ScanStep(cs, ScanAt(j - 2, "double")) = ScanAt(j, "double")
          BY <4>2, <4>3, StepDouble
        <4> QED BY <3>3, <3>6, <4>2, <4>4, <4>5, ReachedNext
      <3>9. CASE ~Fence!EscapedIn(cs, b, j - 1)
        <4>1. cs[j - 1] \notin {"dq", "back", "tick"} /\ ~Fence!Substitutes(cs, j - 1)
          BY <1>4, <3>6, <3>7, <3>9 DEF Quiet
        <4>2. Fence!ScanStep(cs, ScanAt(j - 1, "double")) = ScanAt(j, "double")
          BY <3>6, <4>1, StepDouble
        <4>3. j - 1 \in (b + 1)..e
          BY <3>6
        <4>4. Reached(cs, s, j - 1, "double")
          BY <3>4, <3>6, <3>9, <4>3
        <4> QED BY <3>3, <3>6, <4>2, <4>4, ReachedNext
      <3> QED BY <3>8, <3>9
    <2>4. e \in (b + 1)..e
      BY <1>4
    <2>5. Reached(cs, s, e, "double")
      BY <1>4, <2>3, <2>4
    <2>6. Fence!ScanStep(cs, ScanAt(e, "double")) = ScanAt(e + 1, "none")
      BY <1>4, StepDouble
    <2> QED BY <1>1, <2>5, <2>6, ReachedNext
  <1> QED BY <1>2, <1>3, <1>4 DEF Fence!Piece, Quiet

(* A scan is not in a quote after a row of pieces.                           *)
LEMMA RowScanned ==
    ASSUME NEW cs, Len(cs) \in Nat, NEW s, Scan(cs, s), NEW w, Ends(cs, Len(cs), w)
    PROVE  \A e \in w : Reached(cs, s, e + 1, "none")
  <1> DEFINE Missed == {e \in w : ~Reached(cs, s, e + 1, "none")}
  <1> SUFFICES ASSUME Missed # {} PROVE FALSE
    OBVIOUS
  <1>1. w \subseteq 0..Len(cs)
    BY DEF Ends
  <1>2. Missed \subseteq Nat
    <2>1. w \subseteq Nat
      BY <1>1
    <2>2. Missed \subseteq w
      BY Zenon
    <2> QED BY <2>1, <2>2, Zenon
  <1>3. PICK e \in Missed : \A y \in Missed : e <= y
    BY <1>2, Least
  <1>4. e \in w /\ e \in 0..Len(cs) /\ ~Reached(cs, s, e + 1, "none")
    BY <1>1, <1>3
  <1>5. \A y \in w : y < e => Reached(cs, s, y + 1, "none")
    BY <1>1, <1>3, <1>4
  <1> HIDE DEF Missed
  <1>6. Reached(cs, s, 0 + 1, "none")
    BY DEF Reached, Scan
  <1>7. e # 0 /\ e \in 1..Len(cs)
    BY <1>4, <1>6
  <1>8. PICK b \in 1..e : b - 1 \in w /\ Fence!Piece(cs, b, e)
    BY <1>4, <1>7 DEF Ends
  <1>9. b - 1 < e /\ (b - 1) + 1 = b /\ b \in 1..Len(cs) /\ b <= e
    BY <1>7, <1>8
  <1>10. Reached(cs, s, b, "none")
    BY <1>5, <1>8, <1>9
  <1> QED BY <1>4, <1>7, <1>8, <1>9, <1>10, PieceScanned

(* A scan that has come to the end stays there.                              *)
LEMMA EndStays ==
    ASSUME NEW cs, Len(cs) \in Nat, NEW s, Scan(cs, s), Reached(cs, s, Len(cs) + 1, "none")
    PROVE  s[Len(cs)] = ScanAt(Len(cs) + 1, "none")
  <1> DEFINE end == ScanAt(Len(cs) + 1, "none")
  <1>1. PICK k \in 0..Len(cs) : s[k] = end
    BY DEF Reached
  <1>2. end.at > Len(cs)
    BY DEF ScanAt
  <1> HIDE DEF end
  <1> DEFINE T == {i \in Nat : k + i <= Len(cs) => s[k + i] = end}
  <1>3. 0 \in T
    BY <1>1
  <1>4. ASSUME NEW i \in Nat, i \in T, k + (i + 1) <= Len(cs) PROVE s[k + (i + 1)] = end
    <2>1. PICK j : j = k + (i + 1)
      OBVIOUS
    <2>2. j \in 1..Len(cs) /\ j - 1 = k + i /\ s[j - 1] = end
      BY <1>4, <2>1
    <2>3. s[j] = s[j - 1]
      BY <1>2, <2>2 DEF Scan
    <2> QED BY <2>1, <2>2, <2>3
  <1>5. \A i \in Nat : i \in T => i + 1 \in T
    BY <1>4
  <1> HIDE DEF T
  <1>6. Nat \subseteq T
    BY <1>3, <1>5, Climb
  <1>7. Len(cs) - k \in Nat /\ k + (Len(cs) - k) = Len(cs)
    OBVIOUS
  <1> QED BY <1>6, <1>7 DEF T, end

(* The scan finds a text dangerous just when the shell does not read it as   *)
(* words.                                                                    *)
LEMMA ScanIsShell ==
    ASSUME NEW cs, Len(cs) \in Nat
    PROVE  Fence!HasDangerousShellSyntax(cs) <=> ~Fence!OnlyWords(cs)
  <1>1. PICK w : Ends(cs, Len(cs), w) /\ (Fence!OnlyWords(cs) <=> Len(cs) \in w)
    BY WordsAre
  <1>2. PICK s : /\ Scan(cs, s)
                 /\ Fence!HasDangerousShellSyntax(cs) <=> s[Len(cs)].bad \/ s[Len(cs)].quote # "none"
    BY ScanIs
  <1>3. ASSUME ~Fence!HasDangerousShellSyntax(cs) PROVE Fence!OnlyWords(cs)
    <2>1. ~s[Len(cs)].bad /\ s[Len(cs)].quote = "none"
      BY <1>2, <1>3
    <2>2. Len(cs) \in 0..Len(cs)
      OBVIOUS
    <2>3. SoundAt(cs, w, s[Len(cs)], Len(cs))
      BY <1>1, <1>2, <2>2, ScanIsSound
    <2>4. PICK a \in Nat, q \in {"none", "single", "double"} :
                 s[Len(cs)] = ScanAt(a, q) /\ (Len(cs) < a \/ a > Len(cs)) /\ Sound(cs, w, a, q)
      BY <2>1, <2>3 DEF SoundAt
    <2>5. q = "none"
      BY <2>1, <2>4 DEF ScanAt
    <2>6. a = Len(cs) + 1 /\ a - 1 \in w
      BY <2>4, <2>5 DEF Sound
    <2>7. Len(cs) \in w
      BY <2>6
    <2> QED BY <1>1, <2>7
  <1>4. ASSUME Fence!OnlyWords(cs) PROVE ~Fence!HasDangerousShellSyntax(cs)
    <2>1. Reached(cs, s, Len(cs) + 1, "none")
      BY <1>1, <1>2, <1>4, RowScanned
    <2>2. s[Len(cs)] = ScanAt(Len(cs) + 1, "none")
      BY <1>2, <2>1, EndStays
    <2> QED BY <1>2, <2>2 DEF ScanAt
  <1> QED BY <1>3, <1>4

(* Three things and a fourth are four.                                       *)
LEMMA ThreeAndOne ==
    ASSUME NEW a, NEW b, NEW c, NEW d
    PROVE  <<a, b, c>> \o <<d>> = <<a, b, c, d>>
  <1> DEFINE T == {a, b, c, d}
  <1>1. PICK s, u : s = <<a, b, c>> /\ u = <<d>>
    OBVIOUS
  <1>2. s \in Seq(T) /\ u \in Seq(T)
    BY <1>1
  <1>3. /\ Len(s) = 3 /\ s[1] = a /\ s[2] = b /\ s[3] = c
        /\ Len(u) = 1 /\ u[1] = d
    BY <1>1
  <1> HIDE DEF T
  <1>4. PICK t : t = s \o u
    OBVIOUS
  <1>5. t \in Seq(T) /\ Len(t) = Len(s) + Len(u)
    BY <1>2, <1>4
  <1>6. \A i \in 1..Len(s) : t[i] = s[i]
    BY <1>2, <1>4
  <1>7. \A i \in 1..Len(u) : t[Len(s) + i] = u[i]
    BY <1>2, <1>4
  <1>8. Len(t) = 4 /\ t[1] = a /\ t[2] = b /\ t[3] = c /\ t[4] = d
    BY <1>3, <1>5, <1>6, <1>7
  <1>9. t = [i \in 1..4 |-> t[i]]
    <2>1. t = [i \in 1..Len(t) |-> t[i]]
      BY <1>5
    <2> QED BY <1>8, <2>1
  <1>10. <<a, b, c, d>> = [i \in 1..4 |-> <<a, b, c, d>>[i]]
    OBVIOUS
  <1>11. \A i \in 1..4 : t[i] = <<a, b, c, d>>[i]
    BY <1>8
  <1>12. t = <<a, b, c, d>>
    BY <1>9, <1>10, <1>11
  <1> QED BY <1>1, <1>4, <1>12

(* The last rule of seatbelt's profile that covers an entry.                 *)
LEMMA SeatbeltIs ==
    ASSUME ".git" \notin Names, NEW r, r.git \in BOOLEAN, NEW n \in Fence!Entries
    PROVE  Fence!SeatbeltAllows(r, n) <=> r.git \/ n # ".git"
  <1> DEFINE yes == [allow |-> TRUE, covers |-> Fence!Entries]
             no == [allow |-> FALSE, covers |-> Fence!Entries]
             git == [allow |-> FALSE, covers |-> {".git"}]
             p == Fence!SeatbeltProfile(r.git)
             matching == {i \in DOMAIN p : n \in p[i].covers}
             last == CHOOSE i \in matching : \A j \in matching : j <= i
  <1>1. Fence!SeatbeltAllows(r, n) = p[last].allow
    BY DEF Fence!SeatbeltAllows
  <1>2. CASE r.git
    <2>1. p = <<yes, no, yes>>
      <3>1. p = <<yes, no, yes>> \o << >>
        BY <1>2, Zenon DEF Fence!SeatbeltProfile
      <3> HIDE DEF p, yes, no
      <3> QED BY <3>1
    <2> HIDE DEF p
    <2>2. DOMAIN p = 1..3 /\ p[1] = yes /\ p[2] = no /\ p[3] = yes
      BY <2>1
    <2>3. matching = 1..3
      BY <2>2
    <2> HIDE DEF matching
    <2>4. last = 3
      BY <2>3
    <2> HIDE DEF last
    <2>5. p[last].allow = TRUE
      BY <2>2, <2>4
    <2> QED BY <1>1, <1>2, <2>5
  <1>3. CASE ~r.git
    <2>1. p = <<yes, no, yes, git>>
      <3>1. p = <<yes, no, yes>> \o <<git>>
        BY <1>3, Zenon DEF Fence!SeatbeltProfile
      <3> HIDE DEF p, yes, no, git
      <3> QED BY <3>1, ThreeAndOne
    <2> HIDE DEF p
    <2>2. DOMAIN p = 1..4 /\ p[1] = yes /\ p[2] = no /\ p[3] = yes /\ p[4] = git
      BY <2>1
    <2>3. CASE n = ".git"
      <3>1. matching = 1..4
        BY <2>2, <2>3
      <3> HIDE DEF matching
      <3>2. last = 4
        BY <3>1
      <3> HIDE DEF last
      <3>3. p[last].allow = FALSE
        BY <2>2, <3>2
      <3> QED BY <1>1, <1>3, <2>3, <3>3
    <2>4. CASE n # ".git"
      <3>1. matching = 1..3
        BY <2>2, <2>4
      <3> HIDE DEF matching
      <3>2. last = 3
        BY <3>1
      <3> HIDE DEF last
      <3>3. p[last].allow = TRUE
        BY <2>2, <3>2
      <3> QED BY <1>1, <2>4, <3>3
    <2> QED BY <2>3, <2>4
  <1> QED BY <1>2, <1>3

(* What the runs were given at their start is finite.                        *)
LEMMA ThereFinite ==
    ASSUME Fence!ConfineAssumption, Fence!ConfineInv
    PROVE  IsFiniteSet(UNION {x5[c].there : c \in ConfinedCallers})
  <1>1. PICK k \in Nat : k = Cardinality(ConfinedCallers) /\ ExistsBijection(1..k, ConfinedCallers)
    BY FS_CardinalityType, FenceFinite DEF Fence!ConfineAssumption
  <1>2. PICK f \in Bijection(1..k, ConfinedCallers) : TRUE
    BY <1>1 DEF ExistsBijection
  <1>3. f \in [1..k -> ConfinedCallers] /\ \A c \in ConfinedCallers : \E i \in 1..k : f[i] = c
    BY <1>2 DEF Bijection, Surjection
  <1> DEFINE Upto(m) == UNION {x5[f[i]].there : i \in 1..m}
             T == {m \in Nat : m <= k => IsFiniteSet(Upto(m))}
  <1>4. 0 \in T
    <2>1. Upto(0) = {}
      OBVIOUS
    <2> HIDE DEF Upto
    <2>2. IsFiniteSet(Upto(0))
      BY <2>1, FS_EmptySet
    <2> QED BY <2>2
  <1>5. ASSUME NEW m \in Nat, m \in T, m + 1 <= k PROVE IsFiniteSet(Upto(m + 1))
    <2>1. Upto(m + 1) = Upto(m) \cup x5[f[m + 1]].there
      <3>1. 1..(m + 1) = 1..m \cup {m + 1}
        OBVIOUS
      <3> QED BY <3>1
    <2>2. IsFiniteSet(Upto(m))
      BY <1>5
    <2> HIDE DEF Upto
    <2>3. f[m + 1] \in ConfinedCallers
      BY <1>3, <1>5
    <2>4. IsFiniteSet(x5[f[m + 1]].there)
      BY <2>3, FenceFinite DEF Fence!ConfineInv
    <2>5. PICK old, more : old = Upto(m) /\ more = x5[f[m + 1]].there
      OBVIOUS
    <2>6. IsFiniteSet(old \cup more)
      BY <2>2, <2>4, <2>5, FS_Union
    <2> QED BY <2>1, <2>5, <2>6
  <1>6. \A m \in Nat : m \in T => m + 1 \in T
    BY <1>5
  <1>7. UNION {x5[c].there : c \in ConfinedCallers} = Upto(k)
    BY <1>3
  <1> HIDE DEF T, Upto
  <1>8. k \in T
    BY <1>4, <1>6, Climb
  <1>9. IsFiniteSet(Upto(k))
    BY <1>8 DEF T
  <1> QED BY <1>7, <1>9

(* An inode is always free.                                                  *)
LEMMA FreshIs ==
    ASSUME Fence!ConfineAssumption, Fence!ConfineInv
    PROVE  /\ Fence!FreshInode \in Nat \ {0}
           /\ \A n \in Fence!Entries : Fence!FreshInode # x4[n]
           /\ \A c \in ConfinedCallers : Fence!FreshInode \notin x5[c].there
  <1> DEFINE held == {x4[n] : n \in Fence!Entries}
             given == UNION {x5[c].there : c \in ConfinedCallers}
             used == held \cup given
             m == Cardinality(used)
  <1>1. IsFiniteSet(held)
    <2>1. IsFiniteSet(Fence!Entries)
      BY FS_AddElement, FenceFinite DEF Fence!ConfineAssumption, Fence!Entries
    <2> DEFINE onto == [n \in Fence!Entries |-> x4[n]]
    <2>2. onto \in Surjection(Fence!Entries, held)
      BY DEF Surjection
    <2> HIDE DEF onto, held
    <2> QED BY <2>1, <2>2, FS_Surjection
  <1>2. IsFiniteSet(given)
    BY ThereFinite
  <1> HIDE DEF held, given
  <1>3. IsFiniteSet(used)
    BY <1>1, <1>2, FS_Union
  <1>4. Fence!FreshInode = CHOOSE i \in 1..(m + 1) : i \notin used
    BY FenceSize DEF Fence!FreshInode, held, given
  <1> HIDE DEF used
  <1>5. m \in Nat
    BY <1>3, FS_CardinalityType
  <1>6. \E i \in 1..(m + 1) : i \notin used
    <2>1. SUFFICES ASSUME 1..(m + 1) \subseteq used PROVE FALSE
      OBVIOUS
    <2>2. Cardinality(1..(m + 1)) <= m
      BY <1>3, <2>1, FS_Subset
    <2>3. Cardinality(1..(m + 1)) = m + 1
      BY <1>5, FS_Interval
    <2> HIDE DEF m
    <2> QED BY <1>5, <2>2, <2>3
  <1>7. Fence!FreshInode \in 1..(m + 1) /\ Fence!FreshInode \notin used
    BY <1>4, <1>6
  <1> HIDE DEF m
  <1>8. Fence!FreshInode \in Nat \ {0}
    BY <1>5, <1>7
  <1> QED BY <1>7, <1>8 DEF used, held, given

(* An entry disappears, or is made with an inode nobody knows.               *)
LEMMA EntryChanged ==
    ASSUME Fence!ConfineAssumption, Fence!ConfineInv, NEW n \in Fence!Entries, NEW i \in Nat,
           x4' = [x4 EXCEPT ![n] = i], x5' = x5, x6' # "command",
           \/ i = 0 /\ n \in Names
           \/ /\ x4[n] = 0
              /\ \A o \in Fence!Entries : i # x4[o]
              /\ \A c \in ConfinedCallers : i \notin x5[c].there
    PROVE  Fence!ConfineInv'
  <1>1. /\ x4' \in [Fence!Entries -> Nat]
        /\ \A o \in Fence!Entries : x4'[o] = IF o = n THEN i ELSE x4[o]
    BY DEF Fence!ConfineInv
  <1>2. ".git" \in Fence!Entries /\ ".git" \notin Names /\ Names \subseteq Fence!Entries
    BY DEF Fence!Entries, Fence!ConfineAssumption
  <1>3. \A o \in Names : x4'[o] # 0 => x4'[o] # x4'[".git"]
    BY <1>1, <1>2 DEF Fence!ConfineInv
  <1>4. ASSUME NEW c \in ConfinedCallers, Fence!GrantsFit(x5[c]) PROVE Fence!GrantsFit(x5[c])'
    <2>1. x5[c].there \subseteq Nat \ {0}
      BY DEF Fence!ConfineInv
    <2>2. x5[c].there \ {x4'[".git"]} = x5[c].there \ {x4[".git"]}
      BY <1>1, <1>2, <2>1
    <2> QED BY <1>4, <2>2 DEF Fence!GrantsFit
  <1>5. ASSUME NEW c \in ConfinedCallers, x5[c] # Fence!Idle PROVE Fence!Fenced(x5[c])'
    <2>1. Fence!Fenced(x5[c])
      BY <1>5 DEF Fence!ConfineInv
    <2> QED BY <1>4, <2>1 DEF Fence!Fenced
  <1> QED BY <1>1, <1>3, <1>5 DEF Fence!ConfineInv

(* Who may write .git is git.                                                *)
LEMMA GitWrites ==
    ASSUME Fence!ConfineAssumption, Fence!ConfineInv, NEW c \in ConfinedCallers, x5[c] # Fence!Idle,
           Fence!MayWrite(x5[c], ".git")
    PROVE  Fence!Wrote(x5[c]) # "command"
  <1>1. PICK r : r = x5[c]
    OBVIOUS
  <1>2. Fence!Fenced(r) /\ 0 \notin r.there
    BY <1>1 DEF Fence!ConfineInv
  <1>3. SUFFICES ASSUME r.fence # "plain" PROVE r.git
    <2>1. Len(r.text.chars) \in Nat
      BY <1>2 DEF Fence!Fenced, Fence!ConfineAssumption
    <2>2. r.git => Fence!OnlyWords(r.text.chars)
      BY <1>2, <2>1, ScanIsShell DEF Fence!Fenced
    <2> QED BY <1>1, <1>2, <1>3, <2>2 DEF Fence!Wrote, Fence!Fenced
  <1>4. CASE r.fence = "landlock"
    <2>1. r.grants.root \/ x4[".git"] \in r.grants.inodes
      BY <1>1, <1>4 DEF Fence!MayWrite, Fence!LandlockAllows
    <2>2. Fence!GrantsFit(r) /\ r.git \in BOOLEAN
      BY <1>2, <1>4 DEF Fence!Fenced
    <2> QED BY <2>1, <2>2 DEF Fence!GrantsFit
  <1>5. CASE r.fence = "seatbelt"
    <2>1. Fence!SeatbeltAllows(r, ".git")
      BY <1>1, <1>5 DEF Fence!MayWrite
    <2>2. r.git \in BOOLEAN /\ ".git" \in Fence!Entries /\ ".git" \notin Names
      BY <1>2 DEF Fence!Fenced, Fence!Entries, Fence!ConfineAssumption
    <2> QED BY <2>1, <2>2, SeatbeltIs
  <1> QED BY <1>2, <1>3, <1>4, <1>5 DEF Fence!Fenced

(* A run begins or ends.                                                     *)
LEMMA RunChanged ==
    ASSUME Fence!ConfineInv, NEW c \in ConfinedCallers, NEW r, x5' = [x5 EXCEPT ![c] = r],
           r.there \subseteq Nat \ {0}, IsFiniteSet(r.there), r # Fence!Idle => Fence!Fenced(r),
           x4' = x4, x6' = x6
    PROVE  Fence!ConfineInv'
  <1>1. x5' = [d \in ConfinedCallers |-> IF d = c THEN r ELSE x5[d]]
    BY DEF Fence!ConfineInv
  <1>2. ASSUME NEW d \in ConfinedCallers
        PROVE  /\ x5'[d].there \subseteq Nat \ {0} /\ IsFiniteSet(x5'[d].there)
               /\ x5'[d] # Fence!Idle => Fence!Fenced(x5[d])'
    <2>1. CASE d = c
      <3>1. x5'[d] = r
        BY <1>1, <2>1
      <3>2. Fence!Fenced(r) => Fence!Fenced(r)'
        BY DEF Fence!Fenced, Fence!GrantsFit
      <3>3. Fence!Fenced(r)' => Fence!Fenced(x5[d])'
        BY <3>1 DEF Fence!Fenced, Fence!GrantsFit
      <3> QED BY <3>1, <3>2, <3>3
    <2>2. CASE d # c
      <3>1. x5'[d] = x5[d]
        BY <1>1, <2>2
      <3>2. x5[d] # Fence!Idle => Fence!Fenced(x5[d])
        BY DEF Fence!ConfineInv
      <3>3. Fence!Fenced(x5[d]) => Fence!Fenced(x5[d])'
        BY <3>1 DEF Fence!Fenced, Fence!GrantsFit
      <3>4. x5[d].there \subseteq Nat \ {0} /\ IsFiniteSet(x5[d].there)
        BY FenceFinite DEF Fence!ConfineInv
      <3> QED BY <3>1, <3>2, <3>3, <3>4
    <2> QED BY <2>1, <2>2
  <1>3. x5' = [d \in ConfinedCallers |-> x5'[d]]
    BY <1>1
  <1> QED BY <1>2, <1>3, FenceFinite DEF Fence!ConfineInv

(* The invariant over every step.                                            *)
LEMMA ConfineStep ==
    ASSUME Fence!ConfineAssumption, Fence!ConfineInv, Fence!Next
    PROVE  Fence!ConfineInv'
  <1>1. Fence!FreshInode \in Nat /\ Fence!FreshInode # 0
    BY FreshIs
  <1>2. ASSUME NEW c \in ConfinedCallers, NEW text \in Texts, Fence!Spawn(c, text)
        PROVE  Fence!ConfineInv'
    <2> DEFINE git == Fence!Fence # "plain" /\ Fence!IsGenuineGit(text)
               there == {x4[n] : n \in Fence!Entries} \ {0}
               grants == IF Fence!Fence = "landlock" THEN Fence!LandlockGrants(git)
                         ELSE Fence!Idle.grants
    <2>1. PICK r : r = [text |-> text, fence |-> Fence!Fence, git |-> git, grants |-> grants,
                        there |-> there]
      OBVIOUS
    <2>2. x5' = [x5 EXCEPT ![c] = r] /\ x4' = x4 /\ x6' = x6
      BY <1>2, <2>1 DEF Fence!Spawn
    <2>3. there \subseteq Nat \ {0}
      BY DEF Fence!ConfineInv
    <2>4. IsFiniteSet(there)
      <3> DEFINE held == {x4[n] : n \in Fence!Entries}
                 onto == [n \in Fence!Entries |-> x4[n]]
      <3>1. IsFiniteSet(Fence!Entries)
        BY FS_AddElement, FenceFinite DEF Fence!ConfineAssumption, Fence!Entries
      <3>2. onto \in Surjection(Fence!Entries, held)
        BY DEF Surjection
      <3> HIDE DEF onto, held
      <3>3. IsFiniteSet(held)
        BY <3>1, <3>2, FS_Surjection
      <3>4. IsFiniteSet(held \ {0})
        BY <3>3, FS_RemoveElement
      <3> QED BY <3>4 DEF held
    <2>5. Fence!Fence \in {"landlock", "seatbelt", "plain"}
      BY DEF Fence!Fence
    <2>6. git \in BOOLEAN
      BY DEF Fence!IsGenuineGit
    <2>7. git => text.first = "git" /\ ~Fence!HasDangerousShellSyntax(text.chars)
      BY DEF Fence!IsGenuineGit
    <2>8. Fence!Fence = "landlock" => /\ grants.root = git
                                      /\ ~git => grants.inodes = {x4[n] : n \in Names} \ {0}
      BY DEF Fence!LandlockGrants, Fence!WritableChildren
    <2> HIDE DEF git, grants
    <2>9. \A n \in Names : x4[n] # 0 => x4[n] # x4[".git"]
      BY DEF Fence!ConfineInv
    <2>10. Fence!Fence = "landlock" => Fence!GrantsFit(r)
      <3>1. SUFFICES ASSUME Fence!Fence = "landlock", ~git
                     PROVE  /\ there \ {x4[".git"]} \subseteq grants.inodes
                            /\ grants.inodes \subseteq there \ {x4[".git"]}
        BY <2>1, <2>8 DEF Fence!GrantsFit
      <3>2. grants.inodes = {x4[n] : n \in Names} \ {0}
        BY <2>8, <3>1
      <3>3. \A x : x \in there <=> x # 0 /\ (x = x4[".git"] \/ \E n \in Names : x = x4[n])
        BY DEF Fence!Entries
      <3> HIDE DEF there
      <3> QED BY <2>9, <3>2, <3>3
    <2> HIDE DEF there
    <2>11. Fence!Fenced(r)
      BY <2>1, <2>5, <2>6, <2>7, <2>10 DEF Fence!Fenced
    <2>12. r.there \subseteq Nat \ {0} /\ IsFiniteSet(r.there)
      BY <2>1, <2>3, <2>4
    <2> QED BY <2>2, <2>11, <2>12, RunChanged
  <1>3. ASSUME NEW c \in ConfinedCallers, NEW n \in Fence!Entries, Fence!CommandWrites(c, n)
        PROVE  Fence!ConfineInv'
    <2>1. x6' # "command"
      <3>1. n = ".git" => Fence!Wrote(x5[c]) # "command"
        BY <1>3, GitWrites DEF Fence!CommandWrites
      <3> QED BY <1>3, <3>1 DEF Fence!CommandWrites, Fence!ConfineInv
    <2>2. CASE x4[n] # 0
      <3>1. x4' = x4 /\ x5' = x5
        BY <1>3, <2>2 DEF Fence!CommandWrites
      <3> QED BY <2>1, <3>1 DEF Fence!ConfineInv, Fence!Fenced, Fence!GrantsFit
    <2>3. CASE x4[n] = 0
      <3>1. x4' = [x4 EXCEPT ![n] = Fence!FreshInode] /\ x5' = x5
        BY <1>3, <2>3 DEF Fence!CommandWrites
      <3> QED BY <1>1, <2>1, <2>3, <3>1, FreshIs, EntryChanged
    <2> QED BY <2>2, <2>3
  <1>4. ASSUME NEW c \in ConfinedCallers, Fence!CommandEnds(c) PROVE Fence!ConfineInv'
    <2>1. Fence!Idle.there = {}
      BY DEF Fence!Idle
    <2>2. x5' = [x5 EXCEPT ![c] = Fence!Idle] /\ x4' = x4 /\ x6' = x6
      BY <1>4 DEF Fence!CommandEnds
    <2> QED BY <2>1, <2>2, RunChanged, FS_EmptySet
  <1>5. ASSUME NEW n \in Names, Fence!OthersTouch(n) PROVE Fence!ConfineInv'
    <2>1. PICK i : i = IF x4[n] = 0 THEN Fence!FreshInode ELSE 0
      OBVIOUS
    <2>2. n \in Fence!Entries
      BY DEF Fence!Entries
    <2>3. x4' = [x4 EXCEPT ![n] = i] /\ x5' = x5 /\ x6' = x6
      BY <1>5, <2>1 DEF Fence!OthersTouch
    <2>4. x6' # "command" /\ i \in Nat
      BY <1>1, <2>1, <2>3 DEF Fence!ConfineInv
    <2> QED BY <2>1, <2>2, <2>3, <2>4, FreshIs, EntryChanged
  <1>6. ASSUME NEW d, NEW b, Fence!PathChanges(d, b) PROVE Fence!ConfineInv'
    BY <1>6 DEF Fence!PathChanges, Fence!ConfineInv, Fence!Fenced, Fence!GrantsFit
  <1>7. CASE Fence!FrontEndGone
    BY <1>7 DEF Fence!FrontEndGone, Fence!ConfineInv, Fence!Fenced, Fence!GrantsFit
  <1> QED BY <1>2, <1>3, <1>4, <1>5, <1>6, <1>7 DEF Fence!Next

(* And over a step of another part.                                          *)
LEMMA ConfineSame == Fence!ConfineInv /\ UNCHANGED Fence!vars => Fence!ConfineInv'
  BY DEF Fence!vars, Fence!ConfineInv, Fence!Fenced, Fence!GrantsFit

(* The invariant at the start.                                               *)
LEMMA ConfineStarts == Fence!ConfineAssumption /\ Fence!Init => Fence!ConfineInv
  <1>1. SUFFICES ASSUME Fence!ConfineAssumption, Fence!Init PROVE Fence!ConfineInv
    OBVIOUS
  <1>2. PICK g \in {0, 1} : x4 = [n \in Fence!Entries |-> IF n = ".git" THEN g ELSE 2]
    BY <1>1 DEF Fence!Init
  <1>3. x4 \in [Fence!Entries -> Nat] /\ \A n \in Names : x4[n] # 0 => x4[n] # x4[".git"]
    BY <1>1, <1>2 DEF Fence!Entries, Fence!ConfineAssumption
  <1>4. x5 = [c \in ConfinedCallers |-> Fence!Idle] /\ x6 = "user" /\ Fence!Idle.there = {}
    BY <1>1 DEF Fence!Init, Fence!Idle
  <1>5. IsFiniteSet({})
    BY FS_EmptySet
  <1> QED BY <1>3, <1>4, <1>5, FenceFinite DEF Fence!ConfineInv

(* The invariant says what the property asks.                                *)
LEMMA ConfineTells ==
    ASSUME Fence!ConfineAssumption, Fence!ConfineInv
    PROVE  Fence!ConfinementHolds
  <1>1. Fence!GitWrittenByGit
    BY DEF Fence!GitWrittenByGit, Fence!ConfineInv
  <1>2. Fence!ScanReadsAsShell
    <2>1. SUFFICES ASSUME NEW c \in ConfinedCallers, x5[c] # Fence!Idle
                   PROVE  Fence!HasDangerousShellSyntax(x5[c].text.chars)
                              <=> ~Fence!OnlyWords(x5[c].text.chars)
      BY DEF Fence!ScanReadsAsShell
    <2>2. x5[c].text \in Texts
      BY <2>1 DEF Fence!ConfineInv, Fence!Fenced
    <2>3. Len(x5[c].text.chars) \in Nat
      BY <2>2 DEF Fence!ConfineAssumption
    <2> QED BY <2>3, ScanIsShell
  <1>3. Fence!BackendsAgree
    <2>1. SUFFICES ASSUME NEW c \in ConfinedCallers, NEW n \in Fence!Entries, NEW r, r = x5[c],
                          r.fence \in {"landlock", "seatbelt"}
                   PROVE  /\ (r.fence = "landlock" /\ x4[n] \in r.there) =>
                                 (Fence!LandlockAllows(r, n) <=> Fence!SeatbeltAllows(r, n))
                          /\ (r.fence = "seatbelt" /\ x4[n] # 0) =>
                                 (Fence!SeatbeltAllows(r, n)
                                      <=> Fence!LandlockAllows([r EXCEPT !.grants = Fence!LandlockGrants(r.git)], n))
      BY DEF Fence!BackendsAgree
    <2>2. r # Fence!Idle
      <3>1. Fence!Idle.fence = "none"
        BY DEF Fence!Idle
      <3> QED BY <2>1, <3>1
    <2>3. Fence!Fenced(r) /\ r.there \subseteq Nat \ {0}
      BY <2>1, <2>2 DEF Fence!ConfineInv
    <2>4. r.git \in BOOLEAN /\ ".git" \notin Names
      BY <2>3 DEF Fence!Fenced, Fence!ConfineAssumption
    <2>5. Fence!SeatbeltAllows(r, n) <=> r.git \/ n # ".git"
      BY <2>4, SeatbeltIs
    <2>6. \A o \in Names : x4[o] # 0 => x4[o] # x4[".git"]
      BY DEF Fence!ConfineInv
    <2>7. n \in Names \/ n = ".git"
      BY DEF Fence!Entries
    <2>8. ASSUME r.fence = "landlock", x4[n] \in r.there
          PROVE  Fence!LandlockAllows(r, n) <=> r.git \/ n # ".git"
      <3>1. Fence!GrantsFit(r)
        BY <2>3, <2>8 DEF Fence!Fenced
      <3>2. x4[n] # 0
        BY <2>3, <2>8
      <3>3. n \in Names => x4[n] # x4[".git"]
        BY <2>6, <3>2
      <3> QED BY <2>4, <2>7, <2>8, <3>1, <3>3 DEF Fence!GrantsFit, Fence!LandlockAllows
    <2>9. ASSUME r.fence = "seatbelt", x4[n] # 0
          PROVE  Fence!LandlockAllows([r EXCEPT !.grants = Fence!LandlockGrants(r.git)], n)
                     <=> r.git \/ n # ".git"
      <3>1. PICK l : l = [r EXCEPT !.grants = Fence!LandlockGrants(r.git)]
        OBVIOUS
      <3>2. l.grants = Fence!LandlockGrants(r.git)
        <4>1. r = [text |-> r.text, fence |-> r.fence, git |-> r.git,
                   grants |-> r.grants, there |-> r.there]
          BY <2>3 DEF Fence!Fenced
        <4> QED BY <3>1, <4>1
      <3>3. Fence!LandlockAllows(l, n) <=> r.git \/ x4[n] \in Fence!WritableChildren
        BY <2>4, <3>2 DEF Fence!LandlockAllows, Fence!LandlockGrants
      <3>4. n \in Names => x4[n] \in Fence!WritableChildren
        BY <2>9 DEF Fence!WritableChildren
      <3>5. x4[".git"] # 0 => x4[".git"] \notin Fence!WritableChildren
        BY <2>6 DEF Fence!WritableChildren
      <3> QED BY <2>4, <2>7, <2>9, <3>1, <3>3, <3>4, <3>5
    <2> QED BY <2>5, <2>8, <2>9
  <1> QED BY <1>1, <1>2, <1>3 DEF Fence!ConfinementHolds

(* The invariant in the composition.                                         *)
LEMMA ConfineInvariant == ToolsSpec => [](part = "fence" => Fence!ConfineInv)
  <1> DEFINE Inv == part = "fence" => Fence!ConfineInv
  <1>1. ToolsInit => Inv
    BY ToolsAssumption, ConfineStarts DEF ToolsInit
  <1>2. Inv /\ [ToolsNext]_tools => Inv'
    <2>1. SUFFICES ASSUME Inv, [ToolsNext]_tools, part' = "fence" PROVE Fence!ConfineInv'
      OBVIOUS
    <2>2. CASE OfFence(Fence!Next)
      BY <2>1, <2>2, ToolsAssumption, ConfineStep DEF OfFence
    <2>3. CASE UNCHANGED tools
      BY <2>1, <2>3, ConfineSame DEF tools, others, Fence!vars
    <2> QED BY <2>1, <2>2, <2>3 DEF ToolsNext, OfRules, OfBash, OfFiles, OfOutput
  <1> QED BY <1>1, <1>2, PTL DEF ToolsSpec

\* For any number of callers, entries, directories of PATH and command texts:
\* .git is written by git alone, the scan reads quotes as the shell does, and
\* the two backends decide alike (confine.rs, git.rs).
THEOREM ConfinementCorrect == ToolsSpec => []ConfinementHolds
  <1> DEFINE Inv == part = "fence" => Fence!ConfineInv
  <1>1. Inv => ConfinementHolds
    BY ToolsAssumption, ConfineTells DEF ConfinementHolds
  <1> QED BY <1>1, ConfineInvariant, PTL
==============================================================================
