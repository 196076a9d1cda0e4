--------------------------------- MODULE Tiers ---------------------------------
(* Trust tiers, what moves a claim between them and what a surface grants.  *)
EXTENDS Integers, FiniteSetsExt

Unverified == 0
AgentExtracted == 1
HostSigned == 2
HumanConfirmed == 3
Tiers == Unverified .. HumanConfirmed

Least(a, b) == IF a <= b THEN a ELSE b
Most(a, b) == IF a >= b THEN a ELSE b

GateKinds == {"claim_promotion", "claim_demotion"}

(* A promotion only raises, a demotion only lowers. *)
Moved(kind, tier, grant) ==
    IF kind = "claim_promotion" THEN Most(tier, grant) ELSE Least(tier, grant)

Surfaces == {"console", "agent"}

(* The highest tier a promotion merged on a surface grants. *)
Ceiling(s) == IF s = "console" THEN HumanConfirmed ELSE HostSigned
===============================================================================
