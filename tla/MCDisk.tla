------------------------------- MODULE MCDisk --------------------------------
(****************************************************************************)
(* The small instance of Disk: two memory names that share a file, one      *)
(* profile to write, a repository inside the home folder, two skill names   *)
(* that share a slug.                                                       *)
(****************************************************************************)
EXTENDS Disk

MCKeys == {[scope |-> "user", name |-> "a"], [scope |-> "user", name |-> "A"],
           [scope |-> "project", name |-> "a"]}
MCEarlier == {{}, {k \in MCKeys : k.name = "a"}}
MCSlug(name) == "a"

MCFields == [adapter |-> {"openai"}, url |-> {"remote"}, key |-> {"mine"}]
MCSettings ==
    [provider |-> {"local", "mine"}, search |-> {"brave"}, threshold |-> {"bad"}]

MCAncestors == [f \in Folders |-> IF f = "repo" THEN {"home", "repo"} ELSE {f}]

MCSlugOf == [n \in SkillNames |-> "my-tool"]
==============================================================================
