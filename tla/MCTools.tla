------------------------------- MODULE MCTools -------------------------------
(****************************************************************************)
(* The small instance of Tools: commands with a dangerous prefix, files of  *)
(* rules that deny and allow in several orders, outputs and command texts   *)
(* of a few lines and characters.                                           *)
(****************************************************************************)
EXTENDS Tools

Q(tool, command, outside) == [tool |-> tool, command |-> command, outside_root |-> outside]
R(tool, prefix, action) == [tool |-> tool, prefix |-> prefix, action |-> action,
                            source |-> "project"]

MCQuery == {
    Q("bash", <<"git", "push">>, FALSE),
    Q("bash", <<"git", "push", "force">>, FALSE),
    Q("bash", <<"ls">>, FALSE),
    Q("bash", <<"ls">>, TRUE),
    Q("edit_file", <<>>, FALSE),
    Q("edit_file", <<>>, TRUE),
    Q("read_file", <<>>, TRUE),
    Q("web_search", <<>>, FALSE)}

MCAllowlist == << <<"ls">>, <<"git", "status">> >>

GlobalDeny == [tool |-> "bash", prefix |-> <<"git">>, action |-> "deny", source |-> "global"]

\* permissions.toml: nothing; a deny with a wildcard allow after it; a deny of a
\* prefix under a blanket allow; a global deny under a project ask.
MCConfigFiles == {
    <<>>,
    << R("edit_file", NoPrefix, "deny"), R(AnyTool, NoPrefix, "allow") >>,
    << R("bash", <<"git", "push">>, "deny"), R("bash", NoPrefix, "allow") >>,
    << GlobalDeny, R(AnyTool, <<"git">>, "ask"), R("bash", <<"git">>, "deny") >>}

\* Outputs of a few short lines, with and without a last newline.
Ended(ls, newline) ==
    LET text == FlattenSeq([i \in DOMAIN ls |-> Append(ls[i], "\n")])
    IN  IF newline \/ ls = <<>> THEN text ELSE Front(text)
TextsOf(lines, n) == {Ended(ls, nl) : ls \in SeqOf(lines, n), nl \in BOOLEAN}

OutLine == <<"--- stdout ---">>
ErrLine == <<"--- stderr ---">>
MCStdouts ==
    TextsOf({<<"1">>, <<"2", "2">>, <<"a", "wide">>, ErrLine}, 3)
        \cup TextsOf({<<"1">>, <<"2", "2">>}, 4)
MCStderrs ==
    TextsOf({<<"a">>, OutLine, ErrLine}, 2) \cup {Ended(<<<<"a">>, <<"b">>, ErrLine>>, TRUE)}
MCPathLists == TextsOf({<<"a">>, <<"b">>}, 4)

\* Command texts with quotes, escapes and substitutions in every order.
MCTexts ==
    {[first |-> "git", chars |-> cs] :
        cs \in [1..3 -> {"dq", "back", "semi"}]
               \cup [1..2 -> {"sq", "dollar", "brace"}]
               \cup {<< >>, <<"dq", "tick", "dq">>, <<"sq", "tick", "sq">>,
                     <<"dq", "dollar", "brace", "dq">>,
                     <<"sq", "dollar", "brace", "sq">>,
                     <<"dq", "back", "dq", "semi", "dq">>}}
    \cup {[first |-> "other", chars |-> << >>]}
==============================================================================
