------------------------------ MODULE Authority ------------------------------
(* What the permission seam promises, whatever channels, vectors, prompts    *)
(* and modes it is made of: an action runs once it is allowed, and it is     *)
(* allowed once a person approved exactly it or, inside the project root,    *)
(* once the rules did (Requirements 6, HC-4).                                *)
CONSTANTS Ask, Outside(_)

VARIABLES raised, approved, allowed, ran

vars == <<raised, approved, allowed, ran>>

Init == raised = {} /\ approved = {} /\ allowed = {} /\ ran = {}

Raise(a) ==
    /\ a \notin raised
    /\ raised' = raised \cup {a}
    /\ UNCHANGED <<approved, allowed, ran>>

Approve(a) ==
    /\ a \in raised
    /\ approved' = approved \cup {a}
    /\ UNCHANGED <<raised, allowed, ran>>

Allow(a) ==
    /\ a \in raised \ allowed
    /\ a \in approved \/ ~Outside(a)
    /\ allowed' = allowed \cup {a}
    /\ UNCHANGED <<raised, approved, ran>>

Run(a) ==
    /\ a \in allowed \ ran
    /\ ran' = ran \cup {a}
    /\ UNCHANGED <<raised, approved, allowed>>

Next == \E a \in Ask : Raise(a) \/ Approve(a) \/ Allow(a) \/ Run(a)

Spec == Init /\ [][Next]_vars
==============================================================================
