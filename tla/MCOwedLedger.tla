----------------------------- MODULE MCOwedLedger -----------------------------
(* Two observations that touch one entity; the second also touches a        *)
(* relation, so the two halves of a reproject can disagree about it.        *)
EXTENDS OwedLedger

CONSTANTS o1, o2, entity, relation, c1, c2

Touches == [o \in Obs |-> IF o = o1 THEN {entity} ELSE {entity, relation}]
===============================================================================
