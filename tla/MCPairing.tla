------------------------------- MODULE MCPairing -------------------------------
(* One hub with two codes and two machines that may use either; or two      *)
(* machines that each make a code.                                          *)
EXTENDS Pairing, TLC

CONSTANTS studio, laptop, desktop, home, abroad

StudioMakes == [c \in Codes |-> studio]
EachMakesOne == [c \in Codes |-> IF c = 1 THEN studio ELSE laptop]

(* The hub has moved by the time it makes its second code;                 *)
(* or two hubs are found at the same address, one after the other.         *)
Moved == [c \in Codes |-> IF c = 1 THEN {home} ELSE {abroad}]
Shared == [c \in Codes |-> {home}]

(* The hub itself is tried with its first code only; or all is tried. *)
NotTwiceOnStudio == [m \in Machines |-> IF m = studio THEN {1} ELSE Codes]
Anywhere == [m \in Machines |-> Codes]

(* The machines that make no code are interchangeable. *)
Joiners == Permutations({laptop, desktop})
===============================================================================
