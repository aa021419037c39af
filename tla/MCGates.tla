------------------------------- MODULE MCGates -------------------------------
(* Small instances of Gates.                                                 *)
EXTENDS Gates

Edit == [tool |-> "edit_file", command |-> <<>>, outside_root |-> FALSE]
EditOutside == [tool |-> "edit_file", command |-> <<>>, outside_root |-> TRUE]
Push == [tool |-> "bash", command |-> <<"git", "push">>, outside_root |-> FALSE]

MCRequest == {Edit, EditOutside, Push}
MCOneRequest == {Push}

DenyPush == [tool |-> "bash", prefix |-> <<"git", "push">>, action |-> "deny",
             source |-> "project"]
MCBaseRules == BuiltinDefaults(<< <<"ls">> >>, Confined)
MCDenyRules == MCBaseRules \o <<DenyPush>>
==============================================================================
