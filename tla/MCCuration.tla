------------------------------- MODULE MCCuration ------------------------------
(* One node with two consoles and an agent, and the questions put to it.   *)
EXTENDS Curation, TLC

CONSTANTS A, B, M, a, b, c, x, y, panel, app, agent

NamesOf == (A :> {x}) @@ (B :> {y}) @@ (M :> {a, b, c})

Act(kind, targets, into, tier) ==
    [kind |-> kind, targets |-> targets, into |-> into, tier |-> tier]

Confirm == Act("claim_promotion", {A}, None, HumanConfirmed)
Undo == Act("claim_demotion", {A}, None, AgentExtracted)
Both == Act("claim_promotion", {A, B}, None, HostSigned)
BIntoA == Act("entity_merge", {a, b}, a, None)
CIntoB == Act("entity_merge", {b, c}, b, None)
AIntoB == Act("entity_merge", {a, b}, b, None)

Questions == <<Confirm, Confirm, Undo, Undo, Both, CIntoB, BIntoA, BIntoA, AIntoB,
               Act("entity_split", {7}, None, None), Act("recall", {A}, None, None)>>

AgainOf == [p \in DOMAIN Questions |->
    CASE p = 1 -> 2 [] p = 3 -> 4 [] p = 7 -> 8 [] OTHER -> None]

SurfacesOf == [k \in Callers |-> IF k = agent THEN "agent" ELSE "console"]

(* A claim confirmed, undone and confirmed again at two consoles, with     *)
(* peers whose agents confirm it, and undo it by a clock that is ahead.    *)
Settling ==
    [says |-> {A}, asks |-> {1, 3},
     elsewhere |-> {Join(Opened(3), Cast(3, "agent", 9)), Join(Opened(1), Cast(1, "agent", 2))},
     callers |-> {panel, app}, decisions |-> {"merge"}, reviews |-> 3]

(* A promotion of two claims whose parts arrive, or are written here. *)
Spreading ==
    [says |-> {A, B}, asks |-> {3, 5},
     elsewhere |-> {Opened(5), Cast(5, "agent", 2), Said(A, HostSigned)},
     callers |-> {panel, agent}, decisions |-> Decisions, reviews |-> 2]

(* Merges in a chain and in a ring. *)
Merging ==
    [says |-> {M}, asks |-> {6, 7, 9}, elsewhere |-> {},
     callers |-> {panel}, decisions |-> {"merge"}, reviews |-> 3]

(* A merge taken back and asked again, with verdicts from elsewhere. *)
Splitting ==
    [says |-> {M}, asks |-> {7, 10},
     elsewhere |-> {Join(Opened(10), Cast(10, "console", 5)),
                   Join(Rejected(7), Join(Opened(11), Cast(11, "console", 1)))},
     callers |-> {panel, agent}, decisions |-> {"merge", "reject"}, reviews |-> 3]

(* A peer asked again for what it had seen rejected: the repeat, and why it *)
(* was asked, arrive one before the other.                                 *)
Crossing ==
    [says |-> {A}, asks |-> {1},
     elsewhere |-> {Opened(2), Join(Opened(1), Rejected(1))},
     callers |-> {panel, app}, decisions |-> {"merge", "reject"}, reviews |-> 2]

AllAgendas == {Settling, Spreading, Merging, Splitting, Crossing}
===============================================================================
