----------------------------- MODULE MCReplication -----------------------------
(* Small federations for TLC: one hub, or two, and the spokes around them.  *)
(* A run gives each constant of Replication one of these values.            *)
EXTENDS Replication

CONSTANTS hub, hub2, spoke, spoke2

(* ----------------------------- who syncs ------------------------------- *)

OneSpoke == {<<spoke, hub>>}
TwoSpokes == {<<spoke, hub>>, <<spoke2, hub>>}

(* spoke2 exchanges with both hubs, so it is a bridge between them. *)
Bridge == {<<spoke2, hub>>, <<spoke2, hub2>>}

(* ---------------------------- who observes ----------------------------- *)

SpokeAuthor == [a \in Acts |-> spoke]
MixedAuthor == [a \in Acts |-> IF a = 2 THEN hub ELSE spoke]
BridgeAuthor == [a \in Acts |-> IF a <= 2 THEN hub ELSE spoke2]

(* ----------------------- who is trusted, granted ------------------------ *)

AllKeys == [n \in Nodes |-> Nodes]
BridgeLacksH == [n \in Nodes |-> IF n = spoke2 THEN Nodes \ {hub} ELSE Nodes]

HubGrantsAll == [n \in Nodes |-> IF n = hub THEN Nodes \ {hub} ELSE {}]

NobodyYet == [n \in Nodes |-> {}]

(* Both hubs serve the bridge alone: the stream of hub must not reach hub2 *)
(* through it.                                                             *)
BridgeGrants == [n \in Nodes |-> IF n = spoke2 THEN {} ELSE {spoke2}]

(* ------------------------- how much goes wrong ------------------------- *)

NoFaults == [f \in Faults |-> 0]
OneCrash == [NoFaults EXCEPT !["crash"] = 1]
OneLoss == [NoFaults EXCEPT !["loss"] = 1]
OneEdit == [NoFaults EXCEPT !["edit"] = 1]
RestoreOnly == [NoFaults EXCEPT !["backup"] = 1, !["restore"] = 1]
OneRestore == [RestoreOnly EXCEPT !["crash"] = 1, !["loss"] = 1, !["edit"] = 1]
===============================================================================
