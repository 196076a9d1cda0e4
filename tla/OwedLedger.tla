------------------------------ MODULE OwedLedger ------------------------------
(***************************************************************************)
(* How one workspace's projection follows its log in one writer process,   *)
(* and across its ends.  The engine's writers commit a log row with the    *)
(* rows it changes, under the write guard.  Sync applies and stamping      *)
(* backfills append without the guard, recording in the same transaction   *)
(* that the observation's projection is owed; a reproject repays what the  *)
(* ledger held before it read the log.  A process repays before it serves. *)
(*                                                                         *)
(* A row of the graph is the set of <<observation, attestation>> pairs it  *)
(* was folded from; what the fold makes of them is abstracted.             *)
(***************************************************************************)
EXTENDS Naturals, FiniteSets

CONSTANTS
    Obs,       \* observation ids
    Atts,      \* attestations, stamped ones included
    Entities,  \* entity rows
    Relations, \* relation rows
    About,     \* the rows each observation's assertions touch
    Callers,   \* threads that write through the engine
    None,
    MaxCrashes,
    MaxFailures

Rows == Entities \cup Relations

ASSUME OwedAssumption ==
    /\ About \in [Obs -> SUBSET Rows]
    /\ None \notin Callers
    /\ MaxCrashes \in Nat /\ MaxFailures \in Nat

VARIABLES
    log,      \* OBSERVATIONS: the attestations of each observation
    graph,    \* ENTITIES and RELATIONS: what each row was folded from
    owed,     \* OWED: observations whose projection is owed
    ledger,   \* whether the store has the ledger yet (format 2)
    mode,     \* of the process: closed, opening, serving
    guard,    \* the caller holding the engine's write guard
    section,  \* where each caller is in its write section
    crashes, failures,
    overtaken \* history: appended to while a reproject was about to clear it

disk == <<log, graph, owed, ledger>>
vars == <<disk, mode, guard, section, crashes, failures, overtaken>>

(* What row r folds when the log reads L. *)
Fold(L, r) == {p \in Obs \X Atts : r \in About[p[1]] /\ p[2] \in L[p[1]]}

(* Everything the log says of o is in the rows it touches. *)
Current(L, G, o) == \A r \in About[o], a \in L[o] : <<o, a>> \in G[r]

Pairs == Obs \X Atts
NoRows == [r \in Rows |-> {}]

Out == [at |-> "out", obs |-> None, att |-> None, owed |-> {}, rows |-> NoRows]

Sections == {"out", "folded", "owed", "entities", "relations", "put"}

Append1(L, o, a) == [L EXCEPT ![o] = @ \cup {a}]

(* A store just made, or one from a release without the ledger, whose      *)
(* crash may have left any part of its graph behind the log.               *)
Init ==
    /\ \/ /\ log = [o \in Obs |-> {}] /\ graph = NoRows /\ ledger = TRUE
       \/ /\ ledger = FALSE
          /\ \E o \in Obs, a \in Atts :
              /\ log = Append1([x \in Obs |-> {}], o, a)
              /\ graph \in {[r \in Rows |-> IF r \in S THEN Fold(log, r) ELSE {}] :
                                S \in SUBSET Rows}
    /\ owed = {}
    /\ mode = "closed"
    /\ guard = None
    /\ section = [c \in Callers |-> Out]
    /\ crashes = 0 /\ failures = 0
    /\ overtaken = {}

(* ---------------------------- engine writes ---------------------------- *)

(* A slip: observe folds before it has the guard. *)
ObserveFoldUnguarded(c, o, a) ==
    /\ mode = "serving" /\ section[c].at = "out" /\ a \notin log[o]
    /\ guard' = c
    /\ section' = [section EXCEPT ![c] =
           [Out EXCEPT !.at = "folded", !.obs = o, !.att = a,
                !.rows = [r \in Rows |-> IF r \in About[o]
                            THEN Fold(Append1(log, o, a), r) ELSE {}]]]
    /\ UNCHANGED <<disk, mode, crashes, failures, overtaken>>

(* observe takes the guard and folds the rows it touches from the log as   *)
(* it will read with the new attestation in it.                            *)
ObserveFold(c, o, a) ==
    /\ mode = "serving" /\ guard = None /\ a \notin log[o]
    /\ guard' = c
    /\ section' = [section EXCEPT ![c] =
           [Out EXCEPT !.at = "folded", !.obs = o, !.att = a,
                !.rows = [r \in Rows |-> IF r \in About[o]
                            THEN Fold(Append1(log, o, a), r) ELSE {}]]]
    /\ UNCHANGED <<disk, mode, crashes, failures, overtaken>>

(* commit_projected: the row and its projection in one transaction.        *)
(* Nothing is owed for it, and no entry is cleared.                        *)
CommitProjected(c) ==
    LET s == section[c]
    IN  /\ s.at = "folded"
        /\ log' = Append1(log, s.obs, s.att)
        /\ graph' = [r \in Rows |->
               IF r \in About[s.obs] THEN s.rows[r] ELSE graph[r]]
        /\ guard' = None
        /\ section' = [section EXCEPT ![c] = Out]
        /\ UNCHANGED <<owed, ledger, mode, crashes, failures, overtaken>>

(* --------------------- appends outside the guard ----------------------- *)

(* add_observation from a sync apply or a stamping backfill: the row and   *)
(* its ledger entry in one transaction, whoever holds the guard.           *)
AddObservation(o, a) ==
    /\ mode = "serving" /\ a \notin log[o]
    /\ log' = Append1(log, o, a)
    /\ owed' = owed \cup {o}
    /\ overtaken' = IF \E c \in Callers : o \in section[c].owed
                    THEN overtaken \cup {o} ELSE overtaken
    /\ UNCHANGED <<graph, ledger, mode, guard, section, crashes, failures>>

(* ------------------------------ reproject ------------------------------ *)

(* A slip: an opening store repays nothing. *)
ReadOwedServing(c) ==
    /\ guard = None
    /\ mode = "serving"
    /\ guard' = c
    /\ section' = [section EXCEPT ![c] =
           [Out EXCEPT !.at = "owed", !.owed = owed]]
    /\ UNCHANGED <<disk, mode, crashes, failures, overtaken>>

(* The guard, then the ledger, before the log is read.  A serving process  *)
(* reprojects after a sync moved rows, or when asked; an opening one when  *)
(* it finds entries.                                                       *)
ReadOwed(c) ==
    /\ guard = None
    /\ mode = "serving" \/ (mode = "opening" /\ owed # {})
    /\ guard' = c
    /\ section' = [section EXCEPT ![c] =
           [Out EXCEPT !.at = "owed", !.owed = owed]]
    /\ UNCHANGED <<disk, mode, crashes, failures, overtaken>>

(* materialize_entities reads the log, ... *)
FoldEntities(c) ==
    /\ section[c].at = "owed"
    /\ section' = [section EXCEPT ![c] = [section[c] EXCEPT !.at = "entities",
           !.rows = [r \in Rows |-> IF r \in Entities THEN Fold(log, r) ELSE {}]]]
    /\ UNCHANGED <<disk, mode, guard, crashes, failures, overtaken>>

(* A slip: the rows written are the relations alone. *)
FoldRelationsOnly(c) ==
    /\ section[c].at = "entities"
    /\ section' = [section EXCEPT ![c] = [section[c] EXCEPT !.at = "relations",
           !.rows = [r \in Relations |-> Fold(log, r)]]]
    /\ UNCHANGED <<disk, mode, guard, crashes, failures, overtaken>>

(* ... and relation_rows reads it again, later. *)
FoldRelations(c) ==
    /\ section[c].at = "entities"
    /\ section' = [section EXCEPT ![c] = [section[c] EXCEPT !.at = "relations",
           !.rows = [r \in Rows |-> IF r \in Relations THEN Fold(log, r)
                                 ELSE section[c].rows[r]]]]
    /\ UNCHANGED <<disk, mode, guard, crashes, failures, overtaken>>

(* put_projection: every row of the workspace in one transaction. *)
PutProjection(c) ==
    /\ section[c].at = "relations"
    /\ graph' = section[c].rows
    /\ section' = [section EXCEPT ![c] = [section[c] EXCEPT !.at = "put"]]
    /\ overtaken' = {o \in overtaken : ~Current(log, graph', o)}
    /\ UNCHANGED <<log, owed, ledger, mode, guard, crashes, failures>>

(* A slip: the whole ledger is cleared. *)
ClearOwedAll(c) ==
    /\ section[c].at = "put"
    /\ owed' = {}
    /\ guard' = None
    /\ section' = [section EXCEPT ![c] = Out]
    /\ UNCHANGED <<log, graph, ledger, mode, crashes, failures, overtaken>>

(* clear_owed: the entries read before the log was, by observation id. *)
ClearOwed(c) ==
    /\ section[c].at = "put"
    /\ owed' = owed \ section[c].owed
    /\ guard' = None
    /\ section' = [section EXCEPT ![c] = Out]
    /\ UNCHANGED <<log, graph, ledger, mode, crashes, failures, overtaken>>

(* ------------------------------ failures ------------------------------- *)

(* A store call of a write section fails: it changes nothing and the       *)
(* section ends with the error.  While opening, the process ends with it.  *)
StoreFails(c) ==
    /\ section[c].at # "out"
    /\ failures < MaxFailures /\ failures' = failures + 1
    /\ guard' = None
    /\ section' = [section EXCEPT ![c] = Out]
    /\ mode' = IF mode = "opening" THEN "closed" ELSE mode
    /\ UNCHANGED <<disk, crashes, overtaken>>

(* The process ends, however it ends. *)
Crash ==
    /\ mode # "closed"
    /\ crashes < MaxCrashes /\ crashes' = crashes + 1
    /\ mode' = "closed" /\ guard' = None
    /\ section' = [c \in Callers |-> Out]
    /\ UNCHANGED <<disk, failures, overtaken>>

(* Opening the store; one the ledger has never seen is owed in full, in    *)
(* the transaction that records the new format.                            *)
Open ==
    /\ mode = "closed"
    /\ mode' = "opening"
    /\ owed' = IF ledger THEN owed ELSE owed \cup {o \in Obs : log[o] # {}}
    /\ ledger' = TRUE
    /\ UNCHANGED <<log, graph, guard, section, crashes, failures, overtaken>>

(* A slip: the process serves before it has repaid. *)
ServeUnpaid ==
    /\ mode = "opening" /\ guard = None
    /\ mode' = "serving"
    /\ UNCHANGED <<disk, guard, section, crashes, failures, overtaken>>

(* repay_owed found nothing left owed: the process binds its sockets. *)
Serve ==
    /\ mode = "opening" /\ guard = None /\ owed = {}
    /\ mode' = "serving"
    /\ UNCHANGED <<disk, guard, section, crashes, failures, overtaken>>

Reproject(c) ==
    FoldEntities(c) \/ FoldRelations(c) \/ PutProjection(c) \/ ClearOwed(c)

Next ==
    \/ \E c \in Callers, o \in Obs, a \in Atts : ObserveFold(c, o, a)
    \/ \E c \in Callers : CommitProjected(c)
    \/ \E o \in Obs, a \in Atts : AddObservation(o, a)
    \/ \E c \in Callers : ReadOwed(c) \/ Reproject(c) \/ StoreFails(c)
    \/ Crash \/ Open \/ Serve

Spec == Init /\ [][Next]_vars
(* A caller's section runs to its end, and a process is started until it   *)
(* serves; nothing makes a caller write, a sync append or a store fail.    *)
Fairness ==
    /\ WF_vars(Open) /\ WF_vars(Serve)
    /\ \A c \in Callers :
        /\ WF_vars(CommitProjected(c)) /\ WF_vars(Reproject(c))
    /\ WF_vars(mode = "opening" /\ \E c \in Callers : ReadOwed(c))

FairSpec == Spec /\ Fairness

(* ---------------------------- properties ------------------------------- *)

TypeOK ==
    /\ log \in [Obs -> SUBSET Atts]
    /\ graph \in [Rows -> SUBSET Pairs]
    /\ owed \in SUBSET Obs
    /\ ledger \in BOOLEAN
    /\ mode \in {"closed", "opening", "serving"}
    /\ guard \in Callers \cup {None}
    /\ section \in [Callers -> [at : Sections, obs : Obs \cup {None},
                               att : Atts \cup {None}, owed : SUBSET Obs,
                               rows : [Rows -> SUBSET Pairs]]]
    /\ crashes \in Nat /\ failures \in Nat
    /\ overtaken \in SUBSET Obs

(* Once a store has the ledger, an observation some row does not show in   *)
(* full is an entry of the ledger, at every instant, whatever crashes or   *)
(* fails - unless the entry was cleared by a reproject it was appended to  *)
(* during.                                                                 *)
LagIsOwed ==
    ledger => \A o \in Obs :
        Current(log, graph, o) \/ o \in owed \/ o \in overtaken

(* The promise without the exception: what the next open has to repay is   *)
(* always in the ledger.                                                   *)
LagIsAlwaysOwed ==
    ledger => \A o \in Obs : Current(log, graph, o) \/ o \in owed

(* No write of the projection takes back an attestation a row had folded:  *)
(* an older snapshot never overwrites a newer one.                         *)
GraphNeverGoesBack ==
    [][\A r \in Rows : graph[r] \subseteq graph'[r]]_vars

(* A process answers its first request from a graph that shows everything  *)
(* the log holds, whatever an earlier process, or an earlier release, left *)
(* (an overtaken entry apart).                                             *)
ServesCurrent ==
    [][mode = "opening" /\ mode' = "serving" =>
        \A o \in Obs \ overtaken : Current(log, graph, o)]_vars

(* Repaying ends: a process that is started comes to serve. *)
OpensToServe == mode # "serving" ~> mode = "serving"
===============================================================================
