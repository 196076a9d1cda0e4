-------------------------------- MODULE Machine --------------------------------
(***************************************************************************)
(* One machine: the daemons that are started on it, the one that has the   *)
(* store, or a one-shot command that has it; the parts of that process     *)
(* which a stop cuts short - rows being re-created or embedded, the hub's  *)
(* listener - and a client's bridge, which outlives it.                    *)
(***************************************************************************)
EXTENDS Maintenance, Listener, Bridge, Lifecycle

vars == <<proc, agenda, mvars, lvars, bvars, dvars>>

Init == proc = "down" /\ agenda \in Agendas /\ MInit /\ LInit /\ BInit /\ DInit

(* A daemon gets the store: what is owed is repaid, the hub built, the     *)
(* backfill of vectors started beside what is served.                      *)
Serve(d) ==
    /\ TakesStore("serving")
    /\ DServe(d) /\ ServeOpens(agenda.embeds[d]) /\ LServe /\ BServe /\ UNCHANGED agenda

(* One whose store holds another model's vectors does not start. *)
Declines(d) ==
    /\ proc = "down" /\ ~Opens(agenda.embeds[d]) /\ DFails(d)
    /\ UNCHANGED <<proc, agenda, mvars, lvars, bvars>>

(* A reset finds the store free, or does nothing. *)
Resets(d) ==
    /\ DReset(d) /\ IF Held THEN UNCHANGED mvars ELSE MReset
    /\ UNCHANGED <<proc, agenda, lvars, bvars>>

(* A command opens the store, which it finds free. *)
Tool(does) ==
    /\ does \in agenda.tools /\ TakesStore("tool")
    /\ ToolOpens(does) /\ UNCHANGED <<agenda, lvars, bvars, dvars>>

ToolDone == ToolEnds /\ LeavesStore("tool") /\ UNCHANGED <<agenda, lvars, bvars, dvars>>

(* The process is killed, or stops, at whatever it was doing. *)
Stop(d) ==
    /\ LeavesStore("serving")
    /\ DStop(d) /\ MStop /\ LStop /\ BStop /\ UNCHANGED agenda

ToolStops ==
    /\ LeavesStore("tool")
    /\ MStop /\ UNCHANGED <<agenda, lvars, bvars, dvars>>

Next ==
    \/ \E d \in Daemons : Serve(d) \/ Declines(d) \/ Stop(d)
    \/ \E d \in Doers : Resets(d)
    \/ ToolDone \/ ToolStops
    \/ \E does \in {"rekey", "migrate"} : Tool(does)
    \/ MNext /\ UNCHANGED <<proc, agenda, lvars, bvars, dvars>>
    \/ LNext /\ UNCHANGED <<proc, agenda, mvars, bvars, dvars>>
    \/ BNext /\ UNCHANGED <<proc, agenda, mvars, lvars, dvars>>
    \/ DNext /\ UNCHANGED <<proc, agenda, mvars, lvars, bvars>>

Spec == Init /\ [][Next]_vars

(* What is serving runs on, until it is told to stop, and then it stops;   *)
(* that anything starts it again is not assumed.                           *)
FairSpec ==
    /\ Spec /\ LFairness /\ BFairness /\ DFairness
    /\ WF_vars(\E d \in Daemons : life[d] = "stopping" /\ Stop(d))
    /\ WF_vars(\E d \in Doers : Resets(d))

(* ------------------------------ properties ----------------------------- *)

TypeOK ==
    /\ proc \in {"down", "serving", "tool"} /\ agenda \in Agendas
    /\ \A id \in Ids : held[id] \subseteq Att!Attestation /\ derived[id] \subseteq Ids
    /\ \A x \in apps : x[1] \in Ids /\ x[2] \in Bases
    /\ owed \subseteq Spaces /\ model \in BOOLEAN
    /\ job.does \in {"nothing", "rekey", "migrate"} /\ job.todo \subseteq Ids
    /\ embedding.at \in {"off", "waiting", "writing"}
    /\ file \in Config \cup {None} /\ directory \in Allowlist
    /\ listening \in {None, 1, 2} /\ {state, changed} \subseteq BOOLEAN /\ invited \in {"no", "open", "expired"}
    /\ turn # None => task[turn].at \in {"deciding", "binding"}
    /\ \A t \in Tasks : task[t].conf \in Config \cup {None}
    /\ sessions \subseteq [id : Nat, initialized : BOOLEAN]
    /\ reopening # None =>
           request[reopening].at \in {"opening", "opened", "notifying", "notified", "broken"}
    /\ Serving <=> \E d \in Daemons : life[d] \in {"up", "stopping"}
    /\ Cardinality({d \in Daemons : life[d] \in {"up", "stopping"}}) <= 1
    /\ \A d \in Daemons : life[d] \in {"off", "starting", "up", "stopping", "failed"}
    /\ loaded \subseteq Jobs /\ aside \subseteq {"hand", "generated"}
    /\ plist \in {"absent", "generated", "hand"} /\ pidfile \in Forks \cup {None}
    /\ app.child # None <=> app.shows = "spawned"
    /\ \A d \in Doers : act[d].plan \subseteq Daemons
===============================================================================
