------------------------------- MODULE Streams -------------------------------
(***************************************************************************)
(* What replication promises, without rounds, calls or counters.  A node   *)
(* stamps its own acts in a stream whose sequence numbers only rise, and   *)
(* every other node takes a stream in order: an event is delivered to a    *)
(* node only after every event written before it in that stream, except    *)
(* the ones every receiver refuses.  Nothing delivered is withdrawn.       *)
(***************************************************************************)
EXTENDS Naturals

CONSTANTS Acts, Nodes, MaxSeq, Malformed

VARIABLES
    issued, \* every event stamped so far
    held    \* the events each node holds

vars == <<issued, held>>

Event == [act : Acts, origin : Nodes, seq : 1 .. MaxSeq]

Before(e, f) == e.origin = f.origin /\ e.seq < f.seq

Init == issued = {} /\ held = [n \in Nodes |-> {}]

(* An act that has no stamp gets one past every seq of its origin's stream. *)
Issue(e) ==
    /\ \A f \in issued : f.act # e.act
    /\ \A f \in issued : f.origin = e.origin => Before(f, e)
    /\ issued' = issued \cup {e}
    /\ held' = [held EXCEPT ![e.origin] = @ \cup {e}]

Deliver(n, e) ==
    /\ \A f \in issued : Before(f, e) => f \in held[n] \/ f.act \in Malformed
    /\ held' = [held EXCEPT ![n] = @ \cup {e}]
    /\ UNCHANGED issued

Next ==
    \/ \E e \in Event : Issue(e)
    \/ \E n \in Nodes, e \in issued : Deliver(n, e)

Spec == Init /\ [][Next]_vars

(* Every event below one that is held is held too, the refused excepted.   *)
Prefix ==
    \A n \in Nodes : \A f \in held[n], e \in issued :
        Before(e, f) /\ e.act \notin Malformed => e \in held[n]
===============================================================================
