------------------------------- MODULE MachineProofs ---------------------------
(***************************************************************************)
(* The processes of a machine keep their promises for any certificates,    *)
(* grants, requests, daemons and commands.                                 *)
(*                                                                         *)
(* The listener: one refresh has the turn, and what is said of the         *)
(* listener is true but while that one binds.  The bridge: the request     *)
(* that reopens knows which session the daemon holds.  The daemons: one of *)
(* them has the store, and an install that acts alone knows which others   *)
(* may still run.                                                          *)
(***************************************************************************)
EXTENDS Machine, FiniteSetTheorems, TLAPS

(* ------------------------------- listener ------------------------------ *)

(* The agenda is the instance's: nothing changes it. *)
LEMMA AgendaStays == [Next]_vars => agenda' = agenda
<1> SUFFICES ASSUME [Next]_vars PROVE agenda' = agenda
  OBVIOUS
<1> QED BY DEF Next, vars, Serve, Declines, Resets, Tool, ToolDone, Stop, ToolStops, TakesStore, LeavesStore

LEMMA AgendaOne == Spec => [](agenda \in Agendas)
<1>1. Init => agenda \in Agendas
  BY DEF Init
<1>2. agenda \in Agendas /\ [Next]_vars => (agenda \in Agendas)'
  BY AgendaStays
<1> QED BY <1>1, <1>2, PTL DEF Spec

(* What a step of the machine is to the listener. *)
LEMMA ListenerFrame ==
    ASSUME [Next]_vars
    PROVE  \/ LServe /\ ~Serving /\ Serving'
           \/ LStop
           \/ LNext /\ proc' = proc
           \/ UNCHANGED lvars /\ (Serving' <=> Serving)
<1>1. CASE \E d \in Daemons : Serve(d)
  BY <1>1 DEF Serve, Serving, TakesStore
<1>2. CASE \E d \in Daemons : Declines(d)
  BY <1>2 DEF Declines, Serving
<1>3. CASE \E d \in Daemons : Stop(d)
  BY <1>3 DEF Stop, LeavesStore
<1>4. CASE \E d \in Doers : Resets(d)
  BY <1>4 DEF Resets, Serving
<1>5. CASE ToolDone \/ ToolStops \/ \E does \in {"rekey", "migrate"} : Tool(does)
  <2>1. CASE ToolDone
    BY <2>1 DEF ToolDone, ToolEnds, Serving, LeavesStore
  <2>2. CASE ToolStops
    BY <2>2 DEF ToolStops, Serving, LeavesStore
  <2>3. CASE \E does \in {"rekey", "migrate"} : Tool(does)
    BY <2>3 DEF Tool, Serving, TakesStore
  <2> QED BY <1>5, <2>1, <2>2, <2>3
<1>6. CASE MNext /\ UNCHANGED <<proc, agenda, lvars, bvars, dvars>>
  BY <1>6 DEF Serving
<1>7. CASE LNext /\ UNCHANGED <<proc, agenda, mvars, bvars, dvars>>
  BY <1>7
<1>8. CASE BNext /\ UNCHANGED <<proc, agenda, mvars, lvars, dvars>>
  BY <1>8 DEF Serving
<1>9. CASE DNext /\ UNCHANGED <<proc, agenda, mvars, lvars, bvars>>
  BY <1>9 DEF Serving
<1>10. CASE UNCHANGED vars
  BY <1>10 DEF vars, Serving
<1> QED BY <1>1, <1>2, <1>3, <1>4, <1>5, <1>6, <1>7, <1>8, <1>9, <1>10 DEF Next

Refreshing ==
    [at : {"unborn", "out", "reading", "queued", "deciding", "binding"}, conf : Config \cup {None}]
Narrowing == [at : {"out", "written", "read"}, conf : Config \cup {None}]

ListenerShape ==
    /\ file \in Config \cup {None} /\ directory \in Allowlist
    /\ listening \in {None, 1, 2} /\ state \in BOOLEAN /\ changed \in BOOLEAN
    /\ invited \in {"no", "open", "expired"}
    /\ task \in [Tasks -> Refreshing] /\ turn \in Tasks \cup {None}
    /\ narrow \in Narrowing /\ (narrow.at = "read" => narrow.conf # None)

(* A refresh has the turn while it decides and binds.  What is said of the *)
(* listener is true but while one binds, and then the socket is free.      *)
InTurn ==
    /\ \A t \in Tasks : task[t].at \in {"deciding", "binding"} <=> turn = t
    /\ \A t \in Tasks : turn = t => task[t].conf # None
    /\ (\A t \in Tasks : task[t].at # "binding") => state = (listening # None)
    /\ \A t \in Tasks : task[t].at = "binding" => listening = None /\ task[t].conf.tls # None
    /\ ~Serving => task = NoTask

LInv == ListenerShape /\ InTurn

LEMMA IdleListener ==
    /\ Idle \in Refreshing /\ Unborn \in Refreshing /\ NoTask \in [Tasks -> Refreshing]
    /\ Idle \in Narrowing /\ Nobody \in Allowlist
    /\ \A t \in Tasks : NoTask[t].at \in {"out", "unborn"}
BY DEF Idle, Unborn, NoTask, Refreshing, Narrowing, Nobody, Allowlist, Tasks

LEMMA ConfigIs ==
    \A c \in Config : /\ c \in [tls : {None, 1, 2}, allow : Allowlist] /\ c # None
                      /\ c.tls \in {None, 1, 2} /\ c.allow \in Allowlist
BY ListenerAssumption DEF Config

LEMMA ListenerInit == agenda \in Agendas /\ Init => LInv
<1> SUFFICES ASSUME agenda \in Agendas, Init PROVE LInv
  OBVIOUS
<1>1. ListenerShape
  BY IdleListener, ListenerAssumption DEF Init, LInit, ListenerShape, Idle
<1>2. InTurn
  BY IdleListener, ListenerAssumption DEF Init, LInit, InTurn
<1> QED BY <1>1, <1>2 DEF LInv

(* One refresh changes its own record and nothing of the others'. *)
LEMMA OneTask ==
    ASSUME LInv, NEW t \in Tasks, NEW e \in Refreshing, task' = [task EXCEPT ![t] = e]
    PROVE  /\ task' \in [Tasks -> Refreshing] /\ task'[t] = e
           /\ \A u \in Tasks \ {t} : task'[u] = task[u]
BY DEF LInv, ListenerShape

LEMMA GoesIs ==
    ASSUME LInv, NEW t \in Tasks, NEW at \in {"reading", "queued", "deciding", "binding"}, Goes(t, at)
    PROVE  /\ [task[t] EXCEPT !.at = at] = [at |-> at, conf |-> task[t].conf]
           /\ [at |-> at, conf |-> task[t].conf] \in Refreshing
           /\ task' = [task EXCEPT ![t] = [at |-> at, conf |-> task[t].conf]]
<1>1. task[t] \in Refreshing
  BY DEF LInv, ListenerShape
<1>2. [task[t] EXCEPT !.at = at] = [at |-> at, conf |-> task[t].conf]
  BY <1>1 DEF Refreshing
<1>3. [at |-> at, conf |-> task[t].conf] \in Refreshing
  BY <1>1 DEF Refreshing
<1> QED BY <1>2, <1>3 DEF Goes

(* A step that leaves the tasks, the turn and the listener alone. *)
LEMMA TurnStays ==
    ASSUME LInv, UNCHANGED <<listening, state, turn>>, Serving' <=> Serving,
           \/ UNCHANGED task
           \/ /\ Serving /\ task' \in [Tasks -> Refreshing]
              /\ \A t \in Tasks : task'[t] = task[t] \/ (turn # t /\ task'[t].at \in {"out", "reading"})
    PROVE  InTurn'
<1>1. CASE UNCHANGED task
  BY <1>1 DEF LInv, InTurn
<1>2. CASE /\ Serving /\ task' \in [Tasks -> Refreshing]
           /\ \A t \in Tasks : task'[t] = task[t] \/ (turn # t /\ task'[t].at \in {"out", "reading"})
  <2>1. \A t \in Tasks : task'[t].at \in {"deciding", "binding"} =>
            task'[t] = task[t]
    BY <1>2
  <2>2. \A t \in Tasks : task[t].at \in {"deciding", "binding"} => task'[t] = task[t]
    BY <1>2 DEF LInv, InTurn
  <2> QED BY <1>2, <2>1, <2>2 DEF LInv, InTurn
<1> QED BY <1>1, <1>2

LEMMA ActsKeep ==
    ASSUME LInv, NEW conf \in Config \cup {None}, NEW open \in {"no", "open", "expired"},
           NEW notice \in BOOLEAN, Acted(conf, open, notice), proc' = proc,
           \/ UNCHANGED task
           \/ /\ task' \in [Tasks -> Refreshing]
              /\ \A t \in Tasks : task'[t] = task[t] \/ (turn # t /\ task'[t].at \in {"out", "reading"})
    PROVE  LInv'
<1>1. InTurn'
  BY TurnStays DEF Acted, Serving
<1>2. ListenerShape'
  BY DEF LInv, ListenerShape, Acted
<1> QED BY <1>1, <1>2 DEF LInv

LEMMA InviteKeeps == ASSUME LInv, Invite, proc' = proc PROVE LInv'
<1>1. task["invite"] \in Refreshing /\ task["follow"] \in Refreshing
  BY DEF LInv, ListenerShape, Tasks
<1> DEFINE e == [at |-> "reading", conf |-> task["invite"].conf]
           f == IF task["follow"] = Unborn THEN Idle ELSE task["follow"]
<1>2. e \in Refreshing /\ f \in Refreshing
  BY <1>1, IdleListener DEF Refreshing
<1>3. [task["invite"] EXCEPT !.at = "reading"] = e
  BY <1>1 DEF Refreshing
<1>4. task' = [task EXCEPT !["invite"] = e, !["follow"] = f]
  BY <1>3 DEF Invite, Tasks
<1>5. e.at = "reading" /\ (f = task["follow"] \/ (f.at = "out" /\ task["follow"].at = "unborn"))
  BY DEF Idle, Unborn
<1> HIDE DEF e, f
<1>6. /\ task' \in [Tasks -> Refreshing] /\ task'["invite"] = e /\ task'["follow"] = f
      /\ task'["start"] = task["start"]
  BY <1>2, <1>4 DEF LInv, ListenerShape, Tasks
<1>7. turn # "invite" /\ (f # task["follow"] => turn # "follow")
  BY <1>5 DEF LInv, InTurn, Invite, Tasks
<1>8. \A t \in Tasks : task'[t] = task[t] \/ (turn # t /\ task'[t].at \in {"out", "reading"})
  BY <1>5, <1>6, <1>7 DEF Tasks
<1>9. CASE file = None
  <2>1. [tls |-> 1, allow |-> Nobody] \in Config
    BY IdleListener DEF Config
  <2> HIDE DEF Config
  <2>2. Acted([tls |-> 1, allow |-> Nobody], "open", TRUE)
    BY <1>9 DEF Invite
  <2> QED BY <1>6, <1>8, <2>1, <2>2, ActsKeep
<1>10. CASE file # None
  BY <1>6, <1>8, <1>10, ActsKeep DEF Invite, LInv, ListenerShape
<1> QED BY <1>9, <1>10

LEMMA AllowChanged ==
    ASSUME NEW c \in Config, NEW m \in Machines, NEW k \in {"no", "some", "all"}
    PROVE  [c EXCEPT !.allow[m] = k] \in Config
<1>1. c \in [tls : {None, 1, 2}, allow : Allowlist]
  BY DEF Config
<1>2. [c.allow EXCEPT ![m] = k] \in Allowlist
  BY <1>1 DEF Allowlist
<1> HIDE DEF Allowlist
<1> QED BY <1>1, <1>2 DEF Config

LEMMA ActStep ==
    ASSUME LInv, proc' = proc,
           \/ Invite \/ Close \/ \E m \in Machines : Allow(m) \/ Remove(m)
           \/ Edit(None) \/ \E cert \in {None, 1, 2} : file # None /\ Edit([file EXCEPT !.tls = cert])
    PROVE  LInv'
<1> USE DEF LInv, ListenerShape
<1>1. CASE Invite
  BY <1>1, InviteKeeps
<1>2. CASE Close
  BY <1>2, ActsKeep DEF Close
<1>3. ASSUME NEW m \in Machines, Allow(m) PROVE LInv'
  BY <1>3, ActsKeep, AllowChanged DEF Allow
<1>4. ASSUME NEW m \in Machines, Remove(m) PROVE LInv'
  BY <1>4, ActsKeep, AllowChanged DEF Remove
<1>5. CASE Edit(None)
  BY <1>5, ActsKeep DEF Edit
<1>6. ASSUME NEW cert \in {None, 1, 2}, file # None, Edit([file EXCEPT !.tls = cert]) PROVE LInv'
  <2>1. [file EXCEPT !.tls = cert] \in Config
    BY <1>6 DEF Config
  <2> QED BY <1>6, <2>1, ActsKeep DEF Edit
<1> QED BY <1>1, <1>2, <1>3, <1>4, <1>5, <1>6

LEMMA ConsoleStep ==
    ASSUME LInv, proc' = proc,
           NarrowReads \/ NarrowApplies \/ Expires \/ \E m \in Machines : Narrow(m)
    PROVE  LInv'
<1>0. Serving' <=> Serving
  BY DEF Serving
<1>1. CASE NarrowReads
  <2>1. narrow' \in Narrowing /\ (narrow'.at = "read" => narrow'.conf # None)
    BY <1>1, IdleListener DEF NarrowReads, LInv, ListenerShape, Narrowing, Idle
  <2>2. InTurn'
    BY <1>0, <1>1, TurnStays DEF NarrowReads
  <2> QED BY <1>1, <2>1, <2>2 DEF NarrowReads, LInv, ListenerShape
<1>2. CASE NarrowApplies
  <2>1. narrow.conf \in Config
    BY <1>2 DEF NarrowApplies, LInv, ListenerShape, Narrowing
  <2>2. narrow.conf.allow \in Allowlist
    BY <2>1, ConfigIs
  <2>3. InTurn'
    BY <1>0, <1>2, TurnStays DEF NarrowApplies
  <2> QED BY <1>2, <2>2, <2>3, IdleListener DEF NarrowApplies, LInv, ListenerShape, Idle
<1>3. CASE Expires
  <2>1. InTurn'
    BY <1>0, <1>3, TurnStays DEF Expires
  <2> QED BY <1>3, <2>1 DEF Expires, LInv, ListenerShape
<1>4. ASSUME NEW m \in Machines, Narrow(m) PROVE LInv'
  <2>1. file' \in Config
    BY <1>4, AllowChanged DEF Narrow, LInv, ListenerShape
  <2>2. narrow' = [at |-> "written", conf |-> None]
    BY <1>4 DEF Narrow, Idle
  <2>3. narrow' \in Narrowing /\ narrow'.at # "read"
    BY <2>2 DEF Narrowing
  <2>4. InTurn'
    BY <1>0, <1>4, TurnStays DEF Narrow
  <2> QED BY <1>4, <2>1, <2>3, <2>4 DEF Narrow, LInv, ListenerShape
<1> QED BY <1>1, <1>2, <1>3, <1>4

(* The loop wakes, or records an expiry. *)
LEMMA FollowStep ==
    ASSUME LInv, proc' = proc, FollowWakes \/ FollowExpires
    PROVE  LInv'
<1>0. "follow" \in Tasks /\ Serving /\ (Serving' <=> Serving) /\ Goes("follow", "reading")
  BY DEF Tasks, Serving, FollowWakes, FollowExpires
<1> DEFINE e == [at |-> "reading", conf |-> task["follow"].conf]
<1>4. e \in Refreshing /\ task' = [task EXCEPT !["follow"] = e] /\ e.at = "reading"
  BY <1>0, GoesIs
<1> HIDE DEF e
<1>1. /\ task' \in [Tasks -> Refreshing] /\ task'["follow"].at = "reading"
      /\ \A u \in Tasks \ {"follow"} : task'[u] = task[u]
  BY <1>0, <1>4, OneTask
<1>2. turn # "follow"
  BY <1>0 DEF LInv, InTurn, FollowWakes, FollowExpires
<1>3. UNCHANGED <<listening, state, turn>>
  BY DEF FollowWakes, FollowExpires
<1>5. InTurn'
  BY <1>0, <1>1, <1>2, <1>3, TurnStays
<1> QED BY <1>1, <1>5 DEF FollowWakes, FollowExpires, LInv, ListenerShape

LEMMA ReadKeeps == ASSUME LInv, NEW t \in Tasks, Read(t), proc' = proc PROVE LInv'
<1> DEFINE e == [at |-> "queued", conf |-> file]
<1>1. e \in Refreshing /\ e.at = "queued"
  BY DEF Refreshing, LInv, ListenerShape
<1> HIDE DEF e
<1>2. /\ task' \in [Tasks -> Refreshing] /\ task'[t] = e
      /\ \A u \in Tasks \ {t} : task'[u] = task[u]
  BY <1>1, OneTask DEF Read, e
<1>3. turn # t /\ Serving
  <2>1. NoTask[t].at # "reading"
    BY IdleListener
  <2> QED BY <2>1 DEF LInv, InTurn, Read
<1>4. InTurn'
  BY <1>1, <1>2, <1>3 DEF LInv, InTurn, Read, Serving
<1> QED BY <1>2, <1>4 DEF LInv, ListenerShape, Read

(* A refresh that ends leaves the listener as it says. *)
LEMMA EndsKeep ==
    ASSUME LInv, NEW t \in Tasks, NEW cert \in {None, 1, 2}, Ends(t, cert), proc' = proc, Serving,
           turn = t \/ turn = None
    PROVE  InTurn' /\ task' \in [Tasks -> Refreshing] /\ listening' \in {None, 1, 2}
           /\ state' \in BOOLEAN /\ turn' = None
<1>1. /\ task' \in [Tasks -> Refreshing] /\ task'[t] = Idle
      /\ \A u \in Tasks \ {t} : task'[u] = task[u]
  BY IdleListener, OneTask DEF Ends
<1>2. Idle.at = "out"
  BY DEF Idle
<1>3. \A u \in Tasks \ {t} : task[u].at \notin {"deciding", "binding"}
  BY ListenerAssumption DEF LInv, InTurn
<1>4. None \notin Tasks
  BY ListenerAssumption
<1> QED BY <1>1, <1>2, <1>3, <1>4 DEF InTurn, Ends, Serving

LEMMA TakeKeeps == ASSUME LInv, NEW t \in Tasks, Take(t), proc' = proc PROVE LInv'
<1>1. Serving
  BY IdleListener DEF LInv, InTurn, Take
<1>2. CASE task[t].conf = None
  <2>1. Ends(t, None) /\ UNCHANGED <<directory, file, invited, changed, narrow>> /\ turn = None
    BY <1>2 DEF Take
  <2>2. InTurn' /\ task' \in [Tasks -> Refreshing] /\ listening' \in {None, 1, 2}
           /\ state' \in BOOLEAN /\ turn' = None
    BY <1>1, <2>1, EndsKeep
  <2> QED BY <2>1, <2>2 DEF LInv, ListenerShape
<1>3. CASE task[t].conf # None
  <2>1. /\ directory' = task[t].conf.allow /\ turn' = t /\ Goes(t, "deciding") /\ turn = None
        /\ UNCHANGED <<listening, state, file, invited, changed, narrow>>
    BY <1>3 DEF Take
  <2> DEFINE e == [at |-> "deciding", conf |-> task[t].conf]
  <2>2. e \in Refreshing /\ task' = [task EXCEPT ![t] = e]
    BY <2>1, GoesIs
  <2>3. e.at = "deciding" /\ e.conf = task[t].conf
    OBVIOUS
  <2> HIDE DEF e
  <2>4. /\ task' \in [Tasks -> Refreshing] /\ task'[t] = e
        /\ \A u \in Tasks \ {t} : task'[u] = task[u]
    BY <2>2, OneTask
  <2>5. task[t].conf \in Config
    BY <1>3 DEF LInv, ListenerShape, Refreshing
  <2>6. task[t].conf.allow \in Allowlist
    BY <2>5, ConfigIs
  <2>7. \A u \in Tasks : task[u].at \notin {"deciding", "binding"}
    BY <2>1, ListenerAssumption DEF LInv, InTurn
  <2>8. state = (listening # None)
    BY <2>7 DEF LInv, InTurn
  <2>9. InTurn'
    BY <1>1, <1>3, <2>1, <2>3, <2>4, <2>7, <2>8 DEF InTurn, Serving
  <2> QED BY <2>1, <2>4, <2>6, <2>9 DEF LInv, ListenerShape
<1> QED BY <1>2, <1>3

LEMMA DecideKeeps == ASSUME LInv, NEW t \in Tasks, Decide(t), proc' = proc PROVE LInv'
<1> DEFINE conf == task[t].conf
<1>1. task[t].at = "deciding" /\ turn = t /\ Serving
  BY IdleListener DEF LInv, InTurn, Decide
<1>2. conf \in Config
  BY <1>1 DEF LInv, InTurn, ListenerShape, Refreshing
<1>3. conf.tls \in {None, 1, 2}
  BY <1>2, ConfigIs
<1>4. UNCHANGED <<file, invited, directory, changed, narrow>>
  BY DEF Decide
<1>5. ASSUME NEW cert \in {None, 1, 2}, Ends(t, cert) PROVE LInv'
  <2>1. InTurn' /\ task' \in [Tasks -> Refreshing] /\ listening' \in {None, 1, 2}
           /\ state' \in BOOLEAN /\ turn' = None
    BY <1>1, <1>5, EndsKeep
  <2> QED BY <1>4, <2>1 DEF LInv, ListenerShape
<1>6. CASE Wanted(conf) /\ listening' = None /\ Goes(t, "binding") /\ UNCHANGED <<state, turn>>
  <2> DEFINE e == [at |-> "binding", conf |-> conf]
  <2>2. e \in Refreshing /\ task' = [task EXCEPT ![t] = e]
    BY <1>6, GoesIs
  <2>3. e.at = "binding" /\ e.conf = conf /\ conf # None /\ conf.tls # None
    BY <1>2, <1>6, ConfigIs DEF Wanted
  <2> HIDE DEF e, conf
  <2>4. /\ task' \in [Tasks -> Refreshing] /\ task'[t] = e
        /\ \A u \in Tasks \ {t} : task'[u] = task[u]
    BY <2>2, OneTask
  <2>5. \A u \in Tasks \ {t} : task[u].at \notin {"deciding", "binding"}
    BY <1>1 DEF LInv, InTurn
  <2>6. InTurn'
    BY <1>1, <1>6, <2>3, <2>4, <2>5 DEF InTurn, Serving
  <2> QED BY <1>4, <1>6, <2>4, <2>6 DEF LInv, ListenerShape
<1>7. \/ ~Wanted(conf) /\ Ends(t, None)
      \/ Wanted(conf) /\ listening = conf.tls /\ Ends(t, listening)
      \/ Wanted(conf) /\ listening' = None /\ Goes(t, "binding") /\ UNCHANGED <<state, turn>>
  BY DEF Decide
<1>8. listening \in {None, 1, 2}
  BY DEF LInv, ListenerShape
<1> HIDE DEF conf
<1> QED BY <1>5, <1>6, <1>7, <1>8

LEMMA BindKeeps == ASSUME LInv, NEW t \in Tasks, Bind(t), proc' = proc PROVE LInv'
<1>1. task[t].at = "binding" /\ turn = t /\ Serving /\ listening = None
  BY IdleListener DEF LInv, InTurn, Bind
<1>2. task[t].conf \in Config
  BY <1>1 DEF LInv, InTurn, ListenerShape, Refreshing
<1>3. task[t].conf.tls \in {None, 1, 2}
  BY <1>2, ConfigIs
<1>4. \E cert \in {None, 1, 2} : Ends(t, cert)
  BY <1>1, <1>3 DEF Bind, Ends
<1>5. PICK cert \in {None, 1, 2} : Ends(t, cert)
  BY <1>4
<1>6. InTurn' /\ task' \in [Tasks -> Refreshing] /\ listening' \in {None, 1, 2}
           /\ state' \in BOOLEAN /\ turn' = None
  BY <1>1, <1>5, EndsKeep
<1> QED BY <1>6 DEF Bind, LInv, ListenerShape

LEMMA ListenerStep == LInv /\ [Next]_vars => LInv'
<1> SUFFICES ASSUME LInv, [Next]_vars PROVE LInv'
  OBVIOUS
<1>1. CASE LServe /\ ~Serving /\ Serving'
  <2>1. task = NoTask
    BY <1>1 DEF LInv, InTurn
  <2>2. \A t \in Tasks : task'[t].at \in {"out", "unborn", "queued"}
    <3>1. CASE file = None
      BY <1>1, <2>1, <3>1, IdleListener DEF LServe
    <3>2. CASE file # None
      BY <1>1, <2>1, <3>2 DEF LServe, NoTask, Tasks, Idle
    <3> QED BY <3>1, <3>2
  <2>3. task' \in [Tasks -> Refreshing]
    <3>1. [at |-> "queued", conf |-> file] \in Refreshing
      BY DEF Refreshing, LInv, ListenerShape
    <3> HIDE DEF Refreshing
    <3> QED BY <1>1, <3>1, IdleListener DEF LServe, LInv, ListenerShape
  <2>4. \A t \in Tasks : task[t].at \notin {"deciding", "binding"}
    BY <2>1, IdleListener
  <2>5. InTurn'
    BY <1>1, <2>2, <2>4 DEF LInv, InTurn, LServe
  <2> QED BY <1>1, <2>3, <2>5 DEF LInv, ListenerShape, LServe
<1>2. CASE LStop
  <2>1. InTurn'
    BY <1>2, IdleListener, ListenerAssumption DEF LStop, InTurn
  <2>2. Idle.at = "out"
    BY DEF Idle
  <2> QED BY <1>2, <2>1, <2>2, IdleListener DEF LStop, LInv, ListenerShape
<1>3. CASE LNext /\ proc' = proc
  <2>1. CASE \/ Invite \/ Close \/ \E m \in Machines : Allow(m) \/ Remove(m)
             \/ Edit(None) \/ \E cert \in {None, 1, 2} : file # None /\ Edit([file EXCEPT !.tls = cert])
    BY <1>3, <2>1, ActStep
  <2>2. CASE NarrowReads \/ NarrowApplies \/ Expires \/ \E m \in Machines : Narrow(m)
    BY <1>3, <2>2, ConsoleStep
  <2>3. CASE FollowWakes \/ FollowExpires
    BY <1>3, <2>3, FollowStep
  <2>4. ASSUME NEW t \in Tasks, Refresh(t) PROVE LInv'
    BY <1>3, <2>4, ReadKeeps, TakeKeeps, DecideKeeps, BindKeeps DEF Refresh
  <2> QED BY <1>3, <2>1, <2>2, <2>3, <2>4 DEF LNext
<1>4. CASE UNCHANGED lvars /\ (Serving' <=> Serving)
  BY <1>4 DEF lvars, LInv, ListenerShape, InTurn
<1> QED BY <1>1, <1>2, <1>3, <1>4, ListenerFrame

LEMMA ListenerInvariant == Spec => []LInv
<1>1. agenda \in Agendas /\ Init => LInv
  BY ListenerInit
<1> QED BY <1>1, AgendaOne, ListenerStep, PTL DEF Spec

(* With no refresh in its turn, what is said of the listener is true: the  *)
(* start, the loop and an invitation refresh one at a time, and only the   *)
(* one that binds leaves the two apart.                                    *)
THEOREM WhatItSaysIsSo == Spec => []StateIsTrue
<1>1. LInv => StateIsTrue
  BY ListenerAssumption DEF LInv, InTurn, StateIsTrue
<1> QED BY <1>1, ListenerInvariant, PTL

(* ------------------------------- bridge ------------------------------- *)

(* What a step of the machine is to the bridge. *)
LEMMA BridgeFrame ==
    ASSUME [Next]_vars
    PROVE  \/ BStop /\ ~Serving'
           \/ BNext /\ proc' = proc
           \/ UNCHANGED bvars /\ (Serving => Serving')
<1>1. CASE \E d \in Daemons : Serve(d)
  BY <1>1 DEF Serve, Serving, BServe, TakesStore
<1>2. CASE \E d \in Daemons : Declines(d)
  BY <1>2 DEF Declines, Serving
<1>3. CASE \E d \in Daemons : Stop(d)
  BY <1>3 DEF Stop, Serving, LeavesStore
<1>4. CASE \E d \in Doers : Resets(d)
  BY <1>4 DEF Resets, Serving
<1>5. CASE ToolDone \/ ToolStops \/ \E does \in {"rekey", "migrate"} : Tool(does)
  <2>1. CASE ToolDone
    BY <2>1 DEF ToolDone, ToolEnds, Serving, LeavesStore
  <2>2. CASE ToolStops
    BY <2>2 DEF ToolStops, Serving, LeavesStore
  <2>3. CASE \E does \in {"rekey", "migrate"} : Tool(does)
    BY <2>3 DEF Tool, Serving, TakesStore
  <2> QED BY <1>5, <2>1, <2>2, <2>3
<1>6. CASE MNext /\ UNCHANGED <<proc, agenda, lvars, bvars, dvars>>
  BY <1>6 DEF Serving
<1>7. CASE LNext /\ UNCHANGED <<proc, agenda, mvars, bvars, dvars>>
  BY <1>7 DEF Serving
<1>8. CASE BNext /\ UNCHANGED <<proc, agenda, mvars, lvars, dvars>>
  BY <1>8
<1>9. CASE DNext /\ UNCHANGED <<proc, agenda, mvars, lvars, bvars>>
  BY <1>9 DEF Serving
<1>10. CASE UNCHANGED vars
  BY <1>10 DEF vars, Serving
<1> QED BY <1>1, <1>2, <1>3, <1>4, <1>5, <1>6, <1>7, <1>8, <1>9, <1>10 DEF Next

RequestAts ==
    {"out", "sent", "running", "broken", "reopen", "opening", "opened", "notifying", "notified",
     "resend", "again", "done"}
Relayed == [at : RequestAts, id : Nat, generation : Nat]

BridgeShape ==
    /\ sessions \subseteq [id : Nat, initialized : BOOLEAN]
    /\ session \in [id : Nat, generation : Nat]
    /\ request \in [Requests -> Relayed]
    /\ reopening \in Requests \cup {None} /\ ran \in [Requests -> Nat]

(* Where a request has not run. *)
Unrun ==
    {"out", "sent", "reopen", "opening", "opened", "notifying", "notified", "resend", "again"}

(* A request runs from where it has not, and goes back to no such place.   *)
RanInv == \A r \in Requests : ran[r] <= 1 /\ (request[r].at \in Unrun => ran[r] = 0)

(* The daemon holds at most this session, told of its initialization or not. *)
OnlySession(id, told) == sessions \subseteq {[id |-> id, initialized |-> told]}

Opens0 == {"opening", "opened", "notifying", "notified"}

(* Where the request that holds the reopening is, and so what the daemon   *)
(* holds: nothing until it opens, then the session it opened, which the    *)
(* bridge takes on and tells.  A request that was refused saw a session    *)
(* that the daemon will never know again.                                  *)
RequestInv(r) ==
    /\ request[r].generation <= session.generation
    /\ request[r].at \in {"sent", "reopen"} => request[r].id = request[r].generation
    /\ request[r].at = "reopen" => ~Known(request[r].generation)
    /\ request[r].at \in Opens0 => reopening = r
    /\ reopening = r => request[r].at \in Opens0 \cup {"broken"}
    /\ request[r].at = "opening" => sessions = {}
    /\ request[r].at = "opened" =>
          request[r].id = session.generation + 1 /\ OnlySession(session.generation + 1, FALSE)
    /\ request[r].at = "notifying" => request[r].id = session.id /\ OnlySession(session.id, FALSE)
    /\ request[r].at = "notified" => OnlySession(session.id, TRUE)
    /\ reopening = r /\ request[r].at = "broken" => sessions = {}

SessionInv ==
    /\ session.id = session.generation
    /\ ~Serving => sessions = {}
    /\ \A r \in Requests : RequestInv(r)
    /\ reopening = None => OnlySession(session.id, TRUE)

BInv == BridgeShape /\ RanInv /\ SessionInv

LEMMA BridgeInit == Init => BInv
<1> SUFFICES ASSUME Init PROVE BInv
  OBVIOUS
<1>1. BridgeShape
  BY DEF Init, BInit, BridgeShape, Relayed, RequestAts
<1>2. RanInv
  BY DEF Init, BInit, RanInv
<1>3. SessionInv
  BY BridgeAssumption DEF Init, BInit, SessionInv, RequestInv, Opens0, OnlySession, Known
<1> QED BY <1>1, <1>2, <1>3 DEF BInv

(* One request goes from one place to another, and keeps what it saw. *)
LEMMA RelayIs ==
    ASSUME BInv, NEW r \in Requests, NEW from, NEW to \in RequestAts, Relay(r, from, to)
    PROVE  /\ request[r].at = from /\ request' \in [Requests -> Relayed]
           /\ request'[r].at = to /\ request'[r].id = request[r].id
           /\ request'[r].generation = request[r].generation
           /\ \A q \in Requests \ {r} : request'[q] = request[q]
<1> DEFINE e == [at |-> to, id |-> request[r].id, generation |-> request[r].generation]
<1>1. request[r] \in Relayed /\ request \in [Requests -> Relayed]
  BY DEF BInv, BridgeShape
<1>2. e \in Relayed
  BY <1>1 DEF Relayed
<1>3. [request[r] EXCEPT !.at = to] = e
  BY <1>1 DEF Relayed
<1>4. request' = [request EXCEPT ![r] = e] /\ request[r].at = from
  BY <1>3 DEF Relay
<1> HIDE DEF e
<1>5. request'[r] = e /\ request' \in [Requests -> Relayed] /\ \A q \in Requests \ {r} : request'[q] = request[q]
  BY <1>1, <1>2, <1>4
<1> QED BY <1>4, <1>5 DEF e

(* An error ends a request, and with it the reopening it held. *)
LEMMA FailKeeps ==
    ASSUME BInv, NEW r \in Requests, NEW from \in RequestAts, Fail(r, from), proc' = proc,
           from \in {"opened", "notifying", "notified"} => sessions = {}
    PROVE  BInv'
<1>1. /\ request[r].at = from /\ request' \in [Requests -> Relayed] /\ request'[r].at = "done"
      /\ request'[r].generation = request[r].generation
      /\ \A q \in Requests \ {r} : request'[q] = request[q]
  <2>1. "done" \in RequestAts
    BY DEF RequestAts
  <2>2. Relay(r, from, "done")
    BY DEF Fail
  <2> QED BY <2>1, <2>2, RelayIs
<1>2. /\ UNCHANGED <<sessions, session, ran>>
      /\ reopening' = IF reopening = r THEN None ELSE reopening
  BY DEF Fail, Release
<1>3. BridgeShape'
  BY <1>1, <1>2 DEF BInv, BridgeShape
<1>4. RanInv'
  BY <1>1, <1>2 DEF BInv, RanInv, Unrun
<1>5. reopening = r => sessions = {}
  <2>0. RequestInv(r)
    BY DEF BInv, SessionInv
  <2>1. reopening = r => request[r].at \in Opens0 \cup {"broken"}
    BY <2>0 DEF RequestInv
  <2>2. CASE request[r].at = "opening"
    BY <2>0, <2>2 DEF RequestInv
  <2>3. CASE request[r].at = "broken"
    BY <2>0, <2>3 DEF RequestInv
  <2> QED BY <1>1, <2>1, <2>2, <2>3 DEF Opens0
<1>6. \A q \in Requests : reopening' = q <=> reopening = q /\ q # r
  <2>1. \A q \in Requests : q # None
    BY BridgeAssumption
  <2> QED BY <1>2, <2>1
<1>7. /\ session'.id = session'.generation
      /\ ~Serving' => sessions' = {}
  BY <1>2 DEF BInv, SessionInv, Serving
<1>8. reopening' = None => OnlySession(session.id, TRUE)'
  <2>1. reopening = None => OnlySession(session.id, TRUE)
    BY DEF BInv, SessionInv
  <2> QED BY <1>2, <1>5, <2>1 DEF OnlySession
<1>9. ASSUME NEW q \in Requests PROVE RequestInv(q)'
  <2>0. RequestInv(q)
    BY DEF BInv, SessionInv
  <2>1. CASE q = r
    BY <1>1, <1>2, <1>6, <2>0, <2>1 DEF RequestInv, Opens0
  <2>2. CASE q # r
    BY <1>1, <1>2, <1>6, <2>0, <2>2 DEF RequestInv, OnlySession, Known
  <2> QED BY <2>1, <2>2
<1>10. SessionInv'
  BY <1>7, <1>8, <1>9 DEF SessionInv
<1> QED BY <1>3, <1>4, <1>10 DEF BInv

(* A relay that leaves the sessions and the reopening alone. *)
LEMMA RelayKeeps ==
    ASSUME BInv, NEW r \in Requests, NEW from \in {"sent", "again", "running"}, NEW to \in RequestAts,
           Relay(r, from, to), proc' = proc, UNCHANGED <<sessions, session, reopening>>,
           \/ to \in {"done", "running"}
           \/ to = "reopen" /\ from = "sent" /\ ~Known(request[r].id)
    PROVE  request' \in [Requests -> Relayed] /\ SessionInv'
<1>1. /\ request[r].at = from /\ request' \in [Requests -> Relayed] /\ request'[r].at = to
      /\ request'[r].id = request[r].id /\ request'[r].generation = request[r].generation
      /\ \A q \in Requests \ {r} : request'[q] = request[q]
  BY RelayIs
<1>2. ASSUME NEW q \in Requests PROVE RequestInv(q)'
  <2>0. RequestInv(q)
    BY DEF BInv, SessionInv
  <2>1. CASE q = r
    BY <1>1, <2>0, <2>1 DEF RequestInv, Opens0, Known
  <2>2. CASE q # r
    BY <1>1, <2>0, <2>2 DEF RequestInv, OnlySession, Known
  <2> QED BY <2>1, <2>2
<1>3. OnlySession(session.id, TRUE)' <=> OnlySession(session.id, TRUE)
  BY DEF OnlySession
<1> QED BY <1>1, <1>2, <1>3 DEF BInv, SessionInv, Serving

LEMMA SendKeeps == ASSUME BInv, NEW r \in Requests, Send(r), proc' = proc PROVE BInv'
<1> DEFINE e == [at |-> "sent", id |-> session.id, generation |-> session.generation]
<1>1. e \in Relayed
  BY DEF Relayed, RequestAts, BInv, BridgeShape
<1>2. request' = [request EXCEPT ![r] = e] /\ request[r].at = "out"
      /\ UNCHANGED <<sessions, session, reopening, ran>>
  BY DEF Send
<1>3. e.at = "sent" /\ e.id = session.id /\ e.generation = session.generation
  OBVIOUS
<1> HIDE DEF e
<1>4. /\ request' \in [Requests -> Relayed] /\ request'[r] = e
      /\ \A q \in Requests \ {r} : request'[q] = request[q]
  BY <1>1, <1>2 DEF BInv, BridgeShape
<1>5. ASSUME NEW q \in Requests PROVE RequestInv(q)'
  <2>0. RequestInv(q)
    BY DEF BInv, SessionInv
  <2>1. CASE q = r
    <3>1. session.generation \in Nat /\ session.id = session.generation
      BY DEF BInv, BridgeShape, SessionInv
    <3>2. /\ request'[r].at = "sent" /\ request'[r].id = request'[r].generation
          /\ request'[r].generation <= session'.generation
      BY <1>2, <1>3, <1>4, <3>1
    <3>3. reopening' # r
      BY <1>2, <2>0, <2>1 DEF RequestInv, Opens0
    <3> QED BY <2>1, <3>2, <3>3 DEF RequestInv, Opens0
  <2>2. CASE q # r
    BY <1>2, <1>4, <2>0, <2>2 DEF RequestInv, OnlySession, Known
  <2> QED BY <2>1, <2>2
<1>6. OnlySession(session.id, TRUE)' <=> OnlySession(session.id, TRUE)
  BY <1>2 DEF OnlySession
<1>7. SessionInv'
  BY <1>2, <1>5, <1>6 DEF BInv, SessionInv, Serving
<1>8. RanInv'
  BY <1>2, <1>3, <1>4 DEF BInv, RanInv, Unrun
<1>9. BridgeShape'
  BY <1>2, <1>4 DEF BInv, BridgeShape
<1> QED BY <1>7, <1>8, <1>9 DEF BInv

LEMMA RunsKeeps == ASSUME BInv, NEW r \in Requests, Runs(r), proc' = proc PROVE BInv'
<1>1. PICK from \in {"sent", "again"} : Relay(r, from, "running")
  BY DEF Runs
<1>2. "running" \in RequestAts /\ UNCHANGED <<sessions, session, reopening>>
      /\ ran' = [ran EXCEPT ![r] = @ + 1]
  BY DEF RequestAts, Runs
<1>3. request' \in [Requests -> Relayed] /\ SessionInv'
  BY <1>1, <1>2, RelayKeeps
<1>4. /\ request[r].at = from /\ request'[r].at = "running"
      /\ \A q \in Requests \ {r} : request'[q] = request[q]
  BY <1>1, <1>2, RelayIs
<1>5. ran[r] = 0
  BY <1>4 DEF BInv, RanInv, Unrun
<1>6. RanInv' /\ ran' \in [Requests -> Nat]
  BY <1>2, <1>4, <1>5 DEF BInv, BridgeShape, RanInv, Unrun
<1> QED BY <1>2, <1>3, <1>6 DEF BInv, BridgeShape

LEMMA RefusedKeeps == ASSUME BInv, NEW r \in Requests, Refused(r), proc' = proc PROVE BInv'
<1>1. CASE Relay(r, "sent", "reopen") /\ UNCHANGED <<sessions, session, reopening, ran, answers>>
  <2>1. "reopen" \in RequestAts /\ ~Known(request[r].id)
    BY DEF RequestAts, Refused
  <2>2. request' \in [Requests -> Relayed] /\ SessionInv'
    BY <1>1, <2>1, RelayKeeps
  <2>3. /\ request[r].at = "sent" /\ request'[r].at = "reopen"
        /\ \A q \in Requests \ {r} : request'[q] = request[q]
    BY <1>1, <2>1, RelayIs
  <2>4. RanInv'
    BY <1>1, <2>3 DEF BInv, RanInv, Unrun
  <2> QED BY <1>1, <2>2, <2>4 DEF BInv, BridgeShape
<1>2. CASE Fail(r, "again")
  <2>1. "again" \in RequestAts
    BY DEF RequestAts
  <2> QED BY <1>2, <2>1, FailKeeps
<1> QED BY <1>1, <1>2 DEF Refused

LEMMA AnswerKeeps == ASSUME BInv, NEW r \in Requests, Answer(r), proc' = proc PROVE BInv'
<1>1. "done" \in RequestAts /\ Relay(r, "running", "done") /\ UNCHANGED <<sessions, session, reopening, ran>>
  BY DEF RequestAts, Answer
<1>2. request' \in [Requests -> Relayed] /\ SessionInv'
  BY <1>1, RelayKeeps
<1>3. request'[r].at = "done" /\ \A q \in Requests \ {r} : request'[q] = request[q]
  BY <1>1, RelayIs
<1>4. RanInv'
  BY <1>1, <1>3 DEF BInv, RanInv, Unrun
<1> QED BY <1>1, <1>2, <1>4 DEF BInv, BridgeShape

LEMMA TellsAnError ==
    ASSUME BInv, NEW r \in Requests, Empty(r) \/ Broken(r) \/ Unreachable(r), proc' = proc PROVE BInv'
<1>1. {"running", "broken", "sent", "again", "opening", "notifying"} \subseteq RequestAts
  BY DEF RequestAts
<1>2. CASE Fail(r, "running") \/ Fail(r, "broken") \/ Fail(r, "sent") \/ Fail(r, "again") \/ Fail(r, "opening")
  BY <1>1, <1>2, FailKeeps
<1>3. CASE Unreachable(r) /\ Fail(r, "notifying")
  <2>1. sessions = {}
    BY <1>3 DEF Unreachable, BInv, SessionInv
  <2> QED BY <1>1, <1>3, <2>1, FailKeeps
<1> QED BY <1>2, <1>3 DEF Empty, Broken, Unreachable

LEMMA ReopenKeeps == ASSUME BInv, NEW r \in Requests, Reopen(r), proc' = proc PROVE BInv'
<1>1. UNCHANGED <<sessions, session, ran>> /\ reopening = None /\ r # None
  BY BridgeAssumption DEF Reopen
<1>2. {"opening", "resend"} \subseteq RequestAts
  BY DEF RequestAts
<1>3. PICK to \in {"opening", "resend"} :
          /\ Relay(r, "reopen", to)
          /\ to = "opening" => session.generation = request[r].generation /\ reopening' = r
          /\ to = "resend" => reopening' = reopening
  BY DEF Reopen
<1>4. /\ request[r].at = "reopen" /\ request' \in [Requests -> Relayed] /\ request'[r].at = to
      /\ request'[r].id = request[r].id /\ request'[r].generation = request[r].generation
      /\ \A q \in Requests \ {r} : request'[q] = request[q]
  BY <1>2, <1>3, RelayIs
<1>5. OnlySession(session.id, TRUE) /\ session.id = session.generation /\ RequestInv(r)
  BY <1>1 DEF BInv, SessionInv
<1>6. to = "opening" => sessions = {}
  BY <1>3, <1>4, <1>5 DEF OnlySession, RequestInv, Known
<1>7. ASSUME NEW q \in Requests PROVE RequestInv(q)'
  <2>0. RequestInv(q)
    BY DEF BInv, SessionInv
  <2>1. CASE q = r
    BY <1>1, <1>3, <1>4, <1>6, <2>0, <2>1 DEF RequestInv, Opens0
  <2>2. CASE q # r
    <3>1. q # None
      BY BridgeAssumption
    <3>2. reopening' # q /\ reopening # q
      BY <1>1, <1>3, <2>2, <3>1
    <3> QED BY <1>1, <1>4, <2>0, <2>2, <3>2 DEF RequestInv, OnlySession, Known
  <2> QED BY <2>1, <2>2
<1>8. OnlySession(session.id, TRUE)'
  BY <1>1, <1>5 DEF OnlySession
<1>9. SessionInv'
  BY <1>1, <1>7, <1>8 DEF BInv, SessionInv, Serving
<1>10. RanInv'
  BY <1>1, <1>4 DEF BInv, RanInv, Unrun
<1>11. BridgeShape'
  BY <1>1, <1>3, <1>4 DEF BInv, BridgeShape
<1> QED BY <1>9, <1>10, <1>11 DEF BInv

LEMMA FirstField ==
    ASSUME NEW f \in [Requests -> Relayed], NEW r \in Requests, NEW at \in RequestAts
    PROVE  LET h == [f EXCEPT ![r].at = at] IN
           /\ h \in [Requests -> Relayed] /\ h[r].at = at /\ h[r].generation = f[r].generation
           /\ \A q \in Requests \ {r} : h[q] = f[q]
<1> DEFINE a == [at |-> at, id |-> f[r].id, generation |-> f[r].generation]
           h == [f EXCEPT ![r].at = at]
<1>1. a \in Relayed /\ [f[r] EXCEPT !.at = at] = a
  BY DEF Relayed
<1>2. a.at = at /\ a.generation = f[r].generation
  OBVIOUS
<1>3. h = [f EXCEPT ![r] = a]
  BY <1>1
<1> HIDE DEF a, h
<1>4. /\ h \in [Requests -> Relayed] /\ h[r] = a
      /\ \A q \in Requests \ {r} : h[q] = f[q]
  BY <1>1, <1>3
<1>5. /\ h \in [Requests -> Relayed] /\ h[r].at = at /\ h[r].generation = f[r].generation
      /\ \A q \in Requests \ {r} : h[q] = f[q]
  BY <1>2, <1>4
<1> QED BY <1>5 DEF h

(* Where the request is and the session it uses, when both change. *)
LEMMA TwoFields ==
    ASSUME BInv, NEW r \in Requests, NEW at \in RequestAts, NEW id \in Nat,
           request' = [request EXCEPT ![r].at = at, ![r].id = id]
    PROVE  /\ request' \in [Requests -> Relayed] /\ request'[r].at = at /\ request'[r].id = id
           /\ request'[r].generation = request[r].generation
           /\ \A q \in Requests \ {r} : request'[q] = request[q]
<1> DEFINE h == [request EXCEPT ![r].at = at]
<1>1. request \in [Requests -> Relayed]
  BY DEF BInv, BridgeShape
<1>2. /\ h \in [Requests -> Relayed] /\ h[r].at = at /\ h[r].generation = request[r].generation
      /\ \A q \in Requests \ {r} : h[q] = request[q]
  BY <1>1, FirstField
<1>3. request' = [h EXCEPT ![r].id = id]
  OBVIOUS
<1> HIDE DEF h
<1> DEFINE a == [at |-> h[r].at, id |-> id, generation |-> h[r].generation]
<1>4. a \in Relayed /\ [h[r] EXCEPT !.id = id] = a
  BY <1>2 DEF Relayed
<1>5. a.at = h[r].at /\ a.generation = h[r].generation /\ a.id = id
  OBVIOUS
<1>6. request' = [h EXCEPT ![r] = a]
  BY <1>3, <1>4
<1> HIDE DEF a
<1>7. /\ request' \in [Requests -> Relayed] /\ request'[r] = a
      /\ \A q \in Requests \ {r} : request'[q] = h[q]
  BY <1>2, <1>4, <1>6
<1> QED BY <1>2, <1>5, <1>7

LEMMA OpenKeeps == ASSUME BInv, NEW r \in Requests, Open(r), proc' = proc PROVE BInv'
<1> DEFINE id == session.generation + 1
           s == [id |-> id, initialized |-> FALSE]
<1>1. /\ request[r].at = "opening" /\ Serving /\ sessions' = sessions \cup {s}
      /\ UNCHANGED <<session, reopening, ran>>
  BY DEF Open
<1>2. request[r] \in Relayed /\ request \in [Requests -> Relayed] /\ id \in Nat /\ session.generation \in Nat
  BY DEF BInv, BridgeShape
<1>8. RequestInv(r)
  BY DEF BInv, SessionInv
<1>9. sessions = {} /\ reopening = r
  BY <1>1, <1>8 DEF RequestInv, Opens0
<1>10. sessions' = {s} /\ s \in [id : Nat, initialized : BOOLEAN] /\ s.id = id
  BY <1>1, <1>2, <1>9
<1>11. OnlySession(session.generation + 1, FALSE)'
  BY <1>1, <1>10 DEF OnlySession
<1>4. request' = [request EXCEPT ![r].at = "opened", ![r].id = id]
  BY DEF Open
<1> HIDE DEF s, id
<1>12. /\ request' \in [Requests -> Relayed] /\ request'[r].at = "opened" /\ request'[r].id = id
       /\ request'[r].generation = request[r].generation
       /\ \A q \in Requests \ {r} : request'[q] = request[q]
  <2>1. "opened" \in RequestAts
    BY DEF RequestAts
  <2> QED BY <1>2, <1>4, <2>1, TwoFields
<1>13. id = session.generation + 1
  BY DEF id
<1>14. ASSUME NEW q \in Requests PROVE RequestInv(q)'
  <2>0. RequestInv(q)
    BY DEF BInv, SessionInv
  <2>1. CASE q = r
    BY <1>1, <1>9, <1>11, <1>12, <1>13, <2>0, <2>1 DEF RequestInv, Opens0
  <2>2. CASE q # r
    <3>1. request[q].generation # id
      <4>1. request[q].generation <= session.generation /\ request[q].generation \in Nat
        BY <1>2, <2>0 DEF RequestInv, Relayed
      <4> QED BY <1>2, <1>13, <4>1
    <3>2. ~Known(request[q].generation)'
      BY <1>10, <1>12, <2>2, <3>1 DEF Known
    <3>3. request[q].at \notin Opens0 /\ reopening # q
      BY <1>9, <2>0, <2>2 DEF RequestInv
    <3> QED BY <1>1, <1>12, <2>0, <2>2, <3>2, <3>3 DEF RequestInv, Opens0
  <2> QED BY <2>1, <2>2
<1>15. SessionInv'
  <2>1. r # None
    BY BridgeAssumption
  <2> QED BY <1>1, <1>9, <1>14, <2>1 DEF BInv, SessionInv, Serving
<1>16. RanInv'
  BY <1>1, <1>12 DEF BInv, RanInv, Unrun
<1>17. BridgeShape'
  BY <1>1, <1>10, <1>12 DEF BInv, BridgeShape
<1> QED BY <1>15, <1>16, <1>17 DEF BInv

LEMMA SetSessionKeeps == ASSUME BInv, NEW r \in Requests, SetSession(r), proc' = proc PROVE BInv'
<1> DEFINE new == [id |-> request[r].id, generation |-> session.generation + 1]
<1>1. /\ Relay(r, "opened", "notifying") /\ session' = new
      /\ UNCHANGED <<sessions, reopening, ran>>
  BY DEF SetSession
<1>2. /\ request[r].at = "opened" /\ request' \in [Requests -> Relayed] /\ request'[r].at = "notifying"
      /\ request'[r].id = request[r].id /\ request'[r].generation = request[r].generation
      /\ \A q \in Requests \ {r} : request'[q] = request[q]
  <2>1. "notifying" \in RequestAts
    BY DEF RequestAts
  <2> QED BY <1>1, <2>1, RelayIs
<1>3. RequestInv(r) /\ request[r] \in Relayed /\ session.generation \in Nat
  BY DEF BInv, SessionInv, BridgeShape
<1>4. /\ request[r].id = session.generation + 1 /\ OnlySession(session.generation + 1, FALSE)
      /\ reopening = r /\ r # None
  BY <1>2, <1>3, BridgeAssumption DEF RequestInv, Opens0
<1>5. new.id = session.generation + 1 /\ new.generation = session.generation + 1
      /\ new \in [id : Nat, generation : Nat]
  BY <1>3, <1>4
<1> HIDE DEF new
<1>6. OnlySession(session.id, FALSE)'
  BY <1>1, <1>4, <1>5 DEF OnlySession
<1>7. ASSUME NEW q \in Requests PROVE RequestInv(q)'
  <2>0. RequestInv(q) /\ request[q].generation \in Nat
    BY DEF BInv, SessionInv, BridgeShape, Relayed
  <2>3. request[q].generation <= session'.generation
    BY <1>1, <1>3, <1>5, <2>0 DEF RequestInv
  <2>1. CASE q = r
    BY <1>1, <1>2, <1>4, <1>5, <1>6, <2>0, <2>1, <2>3 DEF RequestInv, Opens0
  <2>2. CASE q # r
    <3>3. request[q].at \notin Opens0 /\ reopening # q
      BY <1>4, <2>0, <2>2 DEF RequestInv
    <3> QED BY <1>1, <1>2, <2>0, <2>2, <2>3, <3>3 DEF RequestInv, Opens0, Known
  <2> QED BY <2>1, <2>2
<1>8. SessionInv'
  BY <1>1, <1>4, <1>5, <1>7 DEF BInv, SessionInv, Serving
<1>9. RanInv'
  BY <1>1, <1>2 DEF BInv, RanInv, Unrun
<1>10. BridgeShape'
  BY <1>1, <1>2, <1>5 DEF BInv, BridgeShape
<1> QED BY <1>8, <1>9, <1>10 DEF BInv

LEMMA ToldOf ==
    \A B : \A told \in B : \A s \in [id : Nat, initialized : B] :
        [s EXCEPT !.initialized = told] = [id |-> s.id, initialized |-> told]
OBVIOUS

LEMMA NotifyKeeps == ASSUME BInv, NEW r \in Requests, Notify(r), proc' = proc PROVE BInv'
<1>0. RequestInv(r) /\ {"notifying", "notified"} \subseteq RequestAts
  BY DEF BInv, SessionInv, RequestAts
<1>1. CASE ~Known(request[r].id)
  <2>1. Fail(r, "notifying")
    BY <1>1 DEF Notify
  <2>2. request[r].at = "notifying"
    BY <2>1 DEF Fail, Relay
  <2>3. sessions = {}
    BY <1>0, <1>1, <2>2 DEF RequestInv, OnlySession, Known
  <2> QED BY <1>0, <2>1, <2>3, FailKeeps
<1>2. CASE Known(request[r].id)
  <2>1. /\ Relay(r, "notifying", "notified")
        /\ sessions' = {[s EXCEPT !.initialized = @ \/ s.id = request[r].id] : s \in sessions}
        /\ UNCHANGED <<session, reopening, ran>> /\ Serving
    BY <1>2 DEF Notify
  <2>2. /\ request[r].at = "notifying" /\ request' \in [Requests -> Relayed] /\ request'[r].at = "notified"
        /\ request'[r].id = request[r].id /\ request'[r].generation = request[r].generation
        /\ \A q \in Requests \ {r} : request'[q] = request[q]
    BY <1>0, <2>1, RelayIs
  <2>3. request[r].id = session.id /\ OnlySession(session.id, FALSE) /\ reopening = r /\ r # None
    BY <1>0, <2>2, BridgeAssumption DEF RequestInv, Opens0
  <2>4. \A s \in sessions :
            [s EXCEPT !.initialized = @ \/ s.id = request[r].id] = [id |-> s.id, initialized |-> TRUE]
    <3> TAKE s \in sessions
    <3>1. s \in [id : Nat, initialized : BOOLEAN]
      BY DEF BInv, BridgeShape
    <3>2. s.id = session.id
      BY <2>3 DEF OnlySession
    <3> DEFINE b == s.initialized \/ s.id = request[r].id
    <3>3. b = TRUE
      BY <2>3, <3>2
    <3>4. [s EXCEPT !.initialized = TRUE] = [id |-> s.id, initialized |-> TRUE]
      BY <3>1, ToldOf, Zenon
    <3> HIDE DEF b
    <3>5. [s EXCEPT !.initialized = b] = [s EXCEPT !.initialized = TRUE]
      BY <3>3
    <3> QED BY <3>4, <3>5 DEF b
  <2>5. sessions' = {[id |-> s.id, initialized |-> TRUE] : s \in sessions}
    BY <2>1, <2>4
  <2>6. \A s \in sessions : s.id = session.id /\ s.id \in Nat
    BY <2>3 DEF OnlySession, BInv, BridgeShape
  <2>7. OnlySession(session.id, TRUE)'
    BY <2>1, <2>5, <2>6 DEF OnlySession
  <2>8. \A i : Known(i)' => Known(i)
    <3>1. \A x \in sessions' : \E s \in sessions : x.id = s.id
      BY <2>5
    <3> QED BY <3>1 DEF Known
  <2>9. sessions' \subseteq [id : Nat, initialized : BOOLEAN]
    <3>1. \A i \in Nat : [id |-> i, initialized |-> TRUE] \in [id : Nat, initialized : BOOLEAN]
      OBVIOUS
    <3> QED BY <2>5, <2>6, <3>1
  <2>10. ASSUME NEW q \in Requests PROVE RequestInv(q)'
    <3>0. RequestInv(q)
      BY DEF BInv, SessionInv
    <3>1. CASE q = r
      BY <2>1, <2>2, <2>3, <2>7, <3>0, <3>1 DEF RequestInv, Opens0
    <3>2. CASE q # r
      <4>1. request[q].at \notin Opens0 /\ reopening # q
        BY <2>3, <3>0, <3>2 DEF RequestInv
      <4>2. request'[q].at = "reopen" => ~Known(request[q].generation)'
        BY <2>2, <2>8, <3>0, <3>2 DEF RequestInv, Known
      <4> QED BY <2>1, <2>2, <3>0, <3>2, <4>1, <4>2 DEF RequestInv, Opens0
    <3> QED BY <3>1, <3>2
  <2>11. SessionInv'
    BY <2>1, <2>3, <2>10 DEF BInv, SessionInv, Serving
  <2>12. RanInv'
    BY <2>1, <2>2 DEF BInv, RanInv, Unrun
  <2>13. BridgeShape'
    BY <2>1, <2>2, <2>9 DEF BInv, BridgeShape
  <2> QED BY <2>11, <2>12, <2>13 DEF BInv
<1> QED BY <1>1, <1>2

LEMMA NotifiedKeeps == ASSUME BInv, NEW r \in Requests, Notified(r), proc' = proc PROVE BInv'
<1>0. RequestInv(r) /\ "resend" \in RequestAts
  BY DEF BInv, SessionInv, RequestAts
<1>1. /\ Relay(r, "notified", "resend") /\ UNCHANGED <<sessions, session, ran>>
      /\ reopening' = IF reopening = r THEN None ELSE reopening
  BY DEF Notified, Release
<1>2. /\ request[r].at = "notified" /\ request' \in [Requests -> Relayed] /\ request'[r].at = "resend"
      /\ request'[r].id = request[r].id /\ request'[r].generation = request[r].generation
      /\ \A q \in Requests \ {r} : request'[q] = request[q]
  BY <1>0, <1>1, RelayIs
<1>3. OnlySession(session.id, TRUE) /\ reopening = r /\ reopening' = None
  BY <1>0, <1>1, <1>2 DEF RequestInv, Opens0
<1>4. ASSUME NEW q \in Requests PROVE RequestInv(q)'
  <2>0. RequestInv(q) /\ q # None
    BY BridgeAssumption DEF BInv, SessionInv
  <2>1. CASE q = r
    BY <1>1, <1>2, <1>3, <2>0, <2>1 DEF RequestInv, Opens0
  <2>2. CASE q # r
    <3>1. request[q].at \notin Opens0 /\ reopening # q
      BY <1>3, <2>0, <2>2 DEF RequestInv
    <3> QED BY <1>1, <1>2, <1>3, <2>0, <2>2, <3>1 DEF RequestInv, Opens0, Known
  <2> QED BY <2>1, <2>2
<1>5. OnlySession(session.id, TRUE)'
  BY <1>1, <1>3 DEF OnlySession
<1>6. SessionInv'
  BY <1>1, <1>4, <1>5 DEF BInv, SessionInv, Serving
<1>7. RanInv'
  BY <1>1, <1>2 DEF BInv, RanInv, Unrun
<1>8. BridgeShape'
  BY <1>1, <1>2, <1>3 DEF BInv, BridgeShape
<1> QED BY <1>6, <1>7, <1>8 DEF BInv

LEMMA ResendKeeps == ASSUME BInv, NEW r \in Requests, Resend(r), proc' = proc PROVE BInv'
<1>1. request[r].at = "resend" /\ UNCHANGED <<sessions, session, reopening, ran>>
  BY DEF Resend
<1>2. request' = [request EXCEPT ![r].at = "again", ![r].id = session.id]
  BY DEF Resend
<1>3. "again" \in RequestAts /\ session.id \in Nat
  BY DEF RequestAts, BInv, BridgeShape
<1>6. /\ request' \in [Requests -> Relayed] /\ request'[r].at = "again"
      /\ request'[r].generation = request[r].generation
      /\ \A q \in Requests \ {r} : request'[q] = request[q]
  BY <1>2, <1>3, TwoFields
<1>7. ASSUME NEW q \in Requests PROVE RequestInv(q)'
  <2>0. RequestInv(q)
    BY DEF BInv, SessionInv
  <2>1. CASE q = r
    BY <1>1, <1>6, <2>0, <2>1 DEF RequestInv, Opens0
  <2>2. CASE q # r
    BY <1>1, <1>6, <2>0, <2>2 DEF RequestInv, OnlySession, Known
  <2> QED BY <2>1, <2>2
<1>8. OnlySession(session.id, TRUE)' <=> OnlySession(session.id, TRUE)
  BY <1>1 DEF OnlySession
<1>9. SessionInv'
  BY <1>1, <1>7, <1>8 DEF BInv, SessionInv, Serving
<1>10. RanInv'
  BY <1>1, <1>6 DEF BInv, RanInv, Unrun
<1>11. BridgeShape'
  BY <1>1, <1>6 DEF BInv, BridgeShape
<1> QED BY <1>9, <1>10, <1>11 DEF BInv

(* A stop forgets the sessions, and breaks off what was being answered. *)
LEMMA BStopKeeps == ASSUME BInv, BStop, ~Serving' PROVE BInv'
<1> DEFINE Cut == {"running", "opened", "notified"}
<1>1. PICK through \in SUBSET {r \in Requests : request[r].at \in Cut} :
          request' = [r \in Requests |->
               IF request[r].at \in Cut /\ r \notin through
               THEN [request[r] EXCEPT !.at = "broken"] ELSE request[r]]
  BY DEF BStop
<1>2. sessions' = {} /\ UNCHANGED <<session, reopening, ran>>
  BY DEF BStop
<1>3. ASSUME NEW r \in Requests
      PROVE  /\ request'[r] \in Relayed /\ request'[r].id = request[r].id
             /\ request'[r].generation = request[r].generation
             /\ \/ request'[r].at = request[r].at
                \/ request'[r].at = "broken" /\ request[r].at \in Cut
  <2>1. request[r] \in Relayed
    BY DEF BInv, BridgeShape
  <2> DEFINE e == [at |-> "broken", id |-> request[r].id, generation |-> request[r].generation]
  <2>2. e \in Relayed /\ [request[r] EXCEPT !.at = "broken"] = e
    BY <2>1 DEF Relayed, RequestAts
  <2>3. request'[r] = IF request[r].at \in Cut /\ r \notin through THEN e ELSE request[r]
    BY <1>1, <2>2
  <2>4. e.at = "broken" /\ e.id = request[r].id /\ e.generation = request[r].generation
    OBVIOUS
  <2> HIDE DEF e
  <2> QED BY <2>1, <2>2, <2>3, <2>4
<1>4. request' \in [Requests -> Relayed]
  <2>1. request' = [r \in Requests |-> request'[r]]
    BY <1>1
  <2> QED BY <1>3, <2>1
<1>5. ASSUME NEW q \in Requests PROVE RequestInv(q)'
  <2>0. RequestInv(q)
    BY DEF BInv, SessionInv
  <2>1. \A id, told : OnlySession(id, told)'
    BY <1>2 DEF OnlySession
  <2>2. ~Known(request[q].generation)'
    BY <1>2 DEF Known
  <2>3. CASE request'[q].at = request[q].at
    BY <1>2, <1>3, <2>0, <2>2, <2>3 DEF RequestInv, OnlySession
  <2>4. CASE request'[q].at = "broken"
    <3>1. request'[q].at \notin Opens0 \cup {"sent", "reopen"}
      BY <2>4 DEF Opens0
    <3> QED BY <1>2, <1>3, <2>0, <2>4, <3>1 DEF RequestInv, Opens0
  <2> QED BY <1>3, <2>3, <2>4
<1>6. SessionInv'
  BY <1>2, <1>5 DEF BInv, SessionInv, OnlySession
<1>7. RanInv'
  BY <1>2, <1>3 DEF BInv, RanInv, Unrun
<1> QED BY <1>2, <1>4, <1>6, <1>7 DEF BInv, BridgeShape

LEMMA BridgeStep == BInv /\ [Next]_vars => BInv'
<1> SUFFICES ASSUME BInv, [Next]_vars PROVE BInv'
  OBVIOUS
<1>1. CASE BStop /\ ~Serving'
  BY <1>1, BStopKeeps
<1>2. CASE BNext /\ proc' = proc
  BY <1>2, SendKeeps, RunsKeeps, RefusedKeeps, AnswerKeeps, TellsAnError, ReopenKeeps, OpenKeeps,
     SetSessionKeeps, NotifyKeeps, NotifiedKeeps, ResendKeeps DEF BNext, Relays
<1>3. CASE UNCHANGED bvars /\ (Serving => Serving')
  <2>1. \A r \in Requests : RequestInv(r) => RequestInv(r)'
    BY <1>3 DEF bvars, RequestInv, OnlySession, Known
  <2>2. OnlySession(session.id, TRUE)' <=> OnlySession(session.id, TRUE)
    BY <1>3 DEF bvars, OnlySession
  <2> QED BY <1>3, <2>1, <2>2 DEF bvars, BInv, BridgeShape, RanInv, SessionInv
<1> QED BY <1>1, <1>2, <1>3, BridgeFrame

LEMMA BridgeInvariant == Spec => []BInv
<1> QED BY BridgeInit, BridgeStep, PTL DEF Spec

(* No request runs twice: it runs from a place it has not run at, and what *)
(* broke off, ended or was answered is never sent again.                   *)
THEOREM NothingRunsTwice == Spec => []RanOnce
<1>1. BInv => RanOnce
  BY DEF BInv, RanInv, RanOnce
<1> QED BY <1>1, BridgeInvariant, PTL

(* The daemon holds one session for the client at most, and has been told  *)
(* it is initialized unless a request is opening it: of the requests that  *)
(* meet a lost session only the first finds its generation current.        *)
THEOREM OneSessionEach == Spec => []OneSession
<1>1. ASSUME BInv PROVE OneSession
  <2>1. \E id, told : OnlySession(id, told)
    <3>1. CASE reopening = None
      BY <1>1, <3>1 DEF BInv, SessionInv
    <3>2. CASE reopening \in Requests
      <4>1. RequestInv(reopening)
        BY <1>1, <3>2 DEF BInv, SessionInv
      <4> QED BY <4>1 DEF RequestInv, Opens0, OnlySession
    <3> QED BY <1>1, <3>1, <3>2 DEF BInv, BridgeShape
  <2>2. PICK id : \E told : OnlySession(id, told)
    BY <2>1
  <2>3. PICK told : OnlySession(id, told)
    BY <2>2
  <2> DEFINE s == [id |-> id, initialized |-> told]
  <2>4. sessions \subseteq {s}
    BY <2>3 DEF OnlySession
  <2> HIDE DEF s
  <2>5. IsFiniteSet({s}) /\ Cardinality({s}) = 1
    BY FS_Singleton
  <2>6. Cardinality(sessions) <= 1
    BY <2>4, <2>5, FS_Subset
  <2>7. reopening = None => \A x \in sessions : x.initialized
    BY <1>1 DEF BInv, SessionInv, OnlySession
  <2> QED BY <2>6, <2>7 DEF OneSession
<1> QED BY <1>1, BridgeInvariant, PTL

(* ------------------------------ lifecycle ----------------------------- *)

Ats ==
    {"out", "looking", "forking", "awaiting", "retiring", "stopping", "freeing", "kicking", "loading",
     "clearing", "resetting", "waiting", "releasing", "writing", "settling", "bringing", "watching",
     "reaping"}
Does == Commands \cup {"nothing", "launch"}
Plists == {"absent", "generated", "hand"}
Doing ==
    [asked : Does, does : Does, at : Ats, plan : SUBSET Daemons, saw : Plists,
     shell : BOOLEAN, alone : BOOLEAN]

(* What a doer does now, field by field, with what the others do kept. *)
Turns(f, g, d, does, at, plan, saw, alone) ==
    /\ g \in [Doers -> Doing]
    /\ g[d].does = does /\ g[d].at = at /\ g[d].plan = plan /\ g[d].saw = saw /\ g[d].alone = alone
    /\ \A y \in Doers \ {d} : g[y] = f[y]

LEMMA AtSet ==
    ASSUME NEW f \in [Doers -> Doing], NEW d \in Doers, NEW v \in Ats
    PROVE  Turns(f, [f EXCEPT ![d].at = v], d, f[d].does, v, f[d].plan, f[d].saw, f[d].alone)
<1> DEFINE a == [asked |-> f[d].asked, does |-> f[d].does, at |-> v, plan |-> f[d].plan,
                 saw |-> f[d].saw, shell |-> f[d].shell, alone |-> f[d].alone]
           h == [f EXCEPT ![d].at = v]
<1>1. a \in Doing /\ [f[d] EXCEPT !.at = v] = a
  BY DEF Doing
<1>2. a.does = f[d].does /\ a.at = v /\ a.plan = f[d].plan /\ a.saw = f[d].saw /\ a.alone = f[d].alone
  OBVIOUS
<1>3. h = [f EXCEPT ![d] = a]
  BY <1>1
<1> HIDE DEF a, h
<1>4. h \in [Doers -> Doing] /\ h[d] = a /\ \A q \in Doers \ {d} : h[q] = f[q]
  BY <1>1, <1>3
<1>5. Turns(f, h, d, f[d].does, v, f[d].plan, f[d].saw, f[d].alone)
  BY <1>2, <1>4 DEF Turns
<1> QED BY <1>5 DEF h

LEMMA PlanSet ==
    ASSUME NEW f \in [Doers -> Doing], NEW d \in Doers, NEW v \in SUBSET Daemons
    PROVE  Turns(f, [f EXCEPT ![d].plan = v], d, f[d].does, f[d].at, v, f[d].saw, f[d].alone)
<1> DEFINE a == [asked |-> f[d].asked, does |-> f[d].does, at |-> f[d].at, plan |-> v,
                 saw |-> f[d].saw, shell |-> f[d].shell, alone |-> f[d].alone]
           h == [f EXCEPT ![d].plan = v]
<1>1. a \in Doing /\ [f[d] EXCEPT !.plan = v] = a
  BY DEF Doing
<1>2. a.does = f[d].does /\ a.at = f[d].at /\ a.plan = v /\ a.saw = f[d].saw /\ a.alone = f[d].alone
  OBVIOUS
<1>3. h = [f EXCEPT ![d] = a]
  BY <1>1
<1> HIDE DEF a, h
<1>4. h \in [Doers -> Doing] /\ h[d] = a /\ \A q \in Doers \ {d} : h[q] = f[q]
  BY <1>1, <1>3
<1>5. Turns(f, h, d, f[d].does, f[d].at, v, f[d].saw, f[d].alone)
  BY <1>2, <1>4 DEF Turns
<1> QED BY <1>5 DEF h

LEMMA DoesSet ==
    ASSUME NEW f \in [Doers -> Doing], NEW d \in Doers, NEW v \in Does
    PROVE  Turns(f, [f EXCEPT ![d].does = v], d, v, f[d].at, f[d].plan, f[d].saw, f[d].alone)
<1> DEFINE a == [asked |-> f[d].asked, does |-> v, at |-> f[d].at, plan |-> f[d].plan,
                 saw |-> f[d].saw, shell |-> f[d].shell, alone |-> f[d].alone]
           h == [f EXCEPT ![d].does = v]
<1>1. a \in Doing /\ [f[d] EXCEPT !.does = v] = a
  BY DEF Doing
<1>2. a.does = v /\ a.at = f[d].at /\ a.plan = f[d].plan /\ a.saw = f[d].saw /\ a.alone = f[d].alone
  OBVIOUS
<1>3. h = [f EXCEPT ![d] = a]
  BY <1>1
<1> HIDE DEF a, h
<1>4. h \in [Doers -> Doing] /\ h[d] = a /\ \A q \in Doers \ {d} : h[q] = f[q]
  BY <1>1, <1>3
<1>5. Turns(f, h, d, v, f[d].at, f[d].plan, f[d].saw, f[d].alone)
  BY <1>2, <1>4 DEF Turns
<1> QED BY <1>5 DEF h

LEMMA SawSet ==
    ASSUME NEW f \in [Doers -> Doing], NEW d \in Doers, NEW v \in Plists
    PROVE  Turns(f, [f EXCEPT ![d].saw = v], d, f[d].does, f[d].at, f[d].plan, v, f[d].alone)
<1> DEFINE a == [asked |-> f[d].asked, does |-> f[d].does, at |-> f[d].at, plan |-> f[d].plan,
                 saw |-> v, shell |-> f[d].shell, alone |-> f[d].alone]
           h == [f EXCEPT ![d].saw = v]
<1>1. a \in Doing /\ [f[d] EXCEPT !.saw = v] = a
  BY DEF Doing
<1>2. a.does = f[d].does /\ a.at = f[d].at /\ a.plan = f[d].plan /\ a.saw = v /\ a.alone = f[d].alone
  OBVIOUS
<1>3. h = [f EXCEPT ![d] = a]
  BY <1>1
<1> HIDE DEF a, h
<1>4. h \in [Doers -> Doing] /\ h[d] = a /\ \A q \in Doers \ {d} : h[q] = f[q]
  BY <1>1, <1>3
<1>5. Turns(f, h, d, f[d].does, f[d].at, f[d].plan, v, f[d].alone)
  BY <1>2, <1>4 DEF Turns
<1> QED BY <1>5 DEF h

LEMMA AloneSet ==
    ASSUME NEW f \in [Doers -> Doing], NEW d \in Doers, NEW v \in BOOLEAN
    PROVE  Turns(f, [f EXCEPT ![d].alone = v], d, f[d].does, f[d].at, f[d].plan, f[d].saw, v)
<1> DEFINE a == [asked |-> f[d].asked, does |-> f[d].does, at |-> f[d].at, plan |-> f[d].plan,
                 saw |-> f[d].saw, shell |-> f[d].shell, alone |-> v]
           h == [f EXCEPT ![d].alone = v]
<1>1. a \in Doing /\ [f[d] EXCEPT !.alone = v] = a
  BY DEF Doing
<1>2. a.does = f[d].does /\ a.at = f[d].at /\ a.plan = f[d].plan /\ a.saw = f[d].saw /\ a.alone = v
  OBVIOUS
<1>3. h = [f EXCEPT ![d] = a]
  BY <1>1
<1> HIDE DEF a, h
<1>4. h \in [Doers -> Doing] /\ h[d] = a /\ \A q \in Doers \ {d} : h[q] = f[q]
  BY <1>1, <1>3
<1>5. Turns(f, h, d, f[d].does, f[d].at, f[d].plan, f[d].saw, v)
  BY <1>2, <1>4 DEF Turns
<1> QED BY <1>5 DEF h

LEMMA AtPlanSet ==
    ASSUME NEW f \in [Doers -> Doing], NEW d \in Doers, NEW at \in Ats, NEW plan \in SUBSET Daemons
    PROVE  Turns(f, [f EXCEPT ![d].at = at, ![d].plan = plan], d, f[d].does, at, plan, f[d].saw, f[d].alone)
<1> DEFINE h == [f EXCEPT ![d].at = at]
           k == [h EXCEPT ![d].plan = plan]
<1>1. Turns(f, h, d, f[d].does, at, f[d].plan, f[d].saw, f[d].alone)
  BY AtSet
<1> HIDE DEF h
<1>2. h \in [Doers -> Doing]
  BY <1>1 DEF Turns
<1>3. Turns(h, k, d, h[d].does, h[d].at, plan, h[d].saw, h[d].alone)
  BY <1>2, PlanSet
<1> HIDE DEF k
<1>4. Turns(f, k, d, f[d].does, at, plan, f[d].saw, f[d].alone)
  BY <1>1, <1>3 DEF Turns
<1> QED BY <1>4 DEF h, k

LEMMA DoesAtSet ==
    ASSUME NEW f \in [Doers -> Doing], NEW d \in Doers, NEW does \in Does, NEW at \in Ats
    PROVE  Turns(f, [f EXCEPT ![d].does = does, ![d].at = at], d, does, at, f[d].plan, f[d].saw, f[d].alone)
<1> DEFINE h == [f EXCEPT ![d].does = does]
           k == [h EXCEPT ![d].at = at]
<1>1. Turns(f, h, d, does, f[d].at, f[d].plan, f[d].saw, f[d].alone)
  BY DoesSet
<1> HIDE DEF h
<1>2. h \in [Doers -> Doing]
  BY <1>1 DEF Turns
<1>3. Turns(h, k, d, h[d].does, at, h[d].plan, h[d].saw, h[d].alone)
  BY <1>2, AtSet
<1> HIDE DEF k
<1>4. Turns(f, k, d, does, at, f[d].plan, f[d].saw, f[d].alone)
  BY <1>1, <1>3 DEF Turns
<1> QED BY <1>4 DEF h, k

LEMMA AtPlanSawSet ==
    ASSUME NEW f \in [Doers -> Doing], NEW d \in Doers, NEW at \in Ats, NEW plan \in SUBSET Daemons,
           NEW saw \in Plists
    PROVE  Turns(f, [f EXCEPT ![d].at = at, ![d].plan = plan, ![d].saw = saw],
                 d, f[d].does, at, plan, saw, f[d].alone)
<1> DEFINE h == [f EXCEPT ![d].at = at, ![d].plan = plan]
           k == [h EXCEPT ![d].saw = saw]
<1>1. Turns(f, h, d, f[d].does, at, plan, f[d].saw, f[d].alone)
  BY AtPlanSet
<1> HIDE DEF h
<1>2. h \in [Doers -> Doing]
  BY <1>1 DEF Turns
<1>3. Turns(h, k, d, h[d].does, h[d].at, h[d].plan, saw, h[d].alone)
  BY <1>2, SawSet
<1> HIDE DEF k
<1>4. Turns(f, k, d, f[d].does, at, plan, saw, f[d].alone)
  BY <1>1, <1>3 DEF Turns
<1> QED BY <1>4 DEF h, k

Lives == {"off", "starting", "up", "stopping", "failed"}
Shows == {"starting", "external", "spawned", "failed"}
Apps == [open : BOOLEAN, shows : Shows, child : Children \cup {None}]

AppShape == app \in Apps /\ (app.child # None <=> app.shows = "spawned")
FilesShape ==
    /\ loaded \subseteq Jobs /\ plist \in Plists
    /\ aside \subseteq {"hand", "generated"} /\ pidfile \in Forks \cup {None}
LifeShape == life \in [Daemons -> Lives]
ActShape ==
    /\ act \in [Doers -> Doing]
    /\ \A d \in Doers : act[d].at = "watching" => \E c \in Children : act[d].plan = {c}

(* The store has one holder, and that is the daemon that serves. *)
Holding(d) == life[d] \in {"up", "stopping"}
HolderInv ==
    /\ Serving <=> \E d \in Daemons : Holding(d)
    /\ \A x, y \in Daemons : Holding(x) /\ Holding(y) => x = y

(* What an install that nobody interferes with has brought about when it   *)
(* is somewhere: the jobs that are loaded are those it has still to retire *)
(* and no daemon outside its plan is starting; then none is loaded or      *)
(* starting; then, as the store is free, every daemon is dead; then its    *)
(* own is loaded, and any other is dead.                                   *)
Ended(lf, x) == lf[x] \in {"off", "failed"}
OwnsIn(ls, lf, at, plan) ==
    /\ at \in {"retiring", "waiting"} =>
          ls = plan \cap Jobs /\ \A x \in Daemons \ plan : lf[x] # "starting"
    /\ at = "releasing" => ls = {} /\ \A x \in Daemons : lf[x] # "starting"
    /\ at \in {"writing", "loading"} => ls = {} /\ \A x \in Daemons : Ended(lf, x)
    /\ at = "awaiting" => ls = {"canonical"} /\ \A x \in Daemons \ {"canonical"} : Ended(lf, x)
OwnsAt(at, plan) == OwnsIn(loaded, life, at, plan)

Installs == {"install", "takeover"}
OwnerOf(d) ==
    /\ act[d].at \in {"forking", "kicking", "stopping"} => act[d].does \notin Installs
    /\ act[d].alone => \A y \in Doers \ {d} : act[y] = NoAct
    /\ act[d].alone /\ act[d].does \in Installs => OwnsAt(act[d].at, act[d].plan)

OwnerInv == \A d \in Doers : OwnerOf(d)

DInv == /\ AppShape /\ FilesShape /\ LifeShape /\ ActShape
        /\ HolderInv /\ OwnerInv

LEMMA NoActIs ==
    /\ NoAct \in Doing /\ NoAct.at = "out" /\ NoAct.alone = FALSE /\ NoAct.plan = {}
    /\ NoAct.does = "nothing"
BY DEF NoAct, Doing, Does, Ats, Plists

LEMMA LifecycleInit == agenda \in Agendas /\ Init => DInv
<1> SUFFICES ASSUME agenda \in Agendas, Init PROVE DInv
  OBVIOUS
<1>1. AppShape
  BY DEF Init, DInit, AppShape, Apps, Shows
<1>2. FilesShape
  BY LifecycleAssumption DEF Init, DInit, FilesShape, Plists
<1>3. LifeShape
  BY DEF Init, DInit, LifeShape, Lives
<1>4. ActShape
  BY NoActIs DEF Init, DInit, ActShape
<1>5. HolderInv
  BY DEF Init, DInit, HolderInv, Holding, Serving
<1>6. OwnerInv
  BY NoActIs DEF Init, DInit, OwnerInv, OwnerOf
<1> QED BY <1>1, <1>2, <1>3, <1>4, <1>5, <1>6 DEF DInv

(* The daemons that are told to stop. *)
LEMMA ToldIs ==
    ASSUME LifeShape, NEW ds, life' = Told(ds)
    PROVE  /\ LifeShape'
           /\ \A d \in Daemons :
                 /\ Holding(d)' <=> Holding(d)
                 /\ Dead(d) => life'[d] = life[d]
                 /\ d \notin ds => life'[d] = life[d]
                 /\ d \in ds => life'[d] # "starting"
                 /\ life'[d] = "starting" => life[d] = "starting"
BY DEF LifeShape, Told, Lives, Holding, Dead

(* A step of a doer that is in the middle of something.  Nobody else is    *)
(* alone then, and so what it does matters to its own act only.            *)
LEMMA DoerStep ==
    ASSUME DInv, NEW d \in Doers, act[d].at # "out",
           act' \in [Doers -> Doing], \A y \in Doers \ {d} : act'[y] = act[y],
           act'[d].alone => act[d].alone,
           act'[d].at \in {"forking", "kicking", "stopping"} => act'[d].does \notin Installs,
           act'[d].at = "watching" => \E c \in Children : act'[d].plan = {c},
           act'[d].alone /\ act'[d].does \in Installs => OwnsAt(act[d].at, act[d].plan)'
    PROVE  ActShape' /\ OwnerInv'
<1>1. act[d] # NoAct
  BY NoActIs
<1>2. ASSUME NEW x \in Doers \ {d} PROVE act'[x] = act[x] /\ ~act[x].alone
  <2>1. OwnerOf(x)
    BY DEF DInv, OwnerInv
  <2>2. act[x].alone \in BOOLEAN
    BY DEF DInv, ActShape, Doing
  <2> QED BY <1>1, <2>1, <2>2 DEF OwnerOf
<1>3. OwnerOf(d) /\ (act[d].alone => \A y \in Doers \ {d} : act'[y] = NoAct)
  <2>1. OwnerOf(d)
    BY DEF DInv, OwnerInv
  <2> QED BY <1>2, <2>1 DEF OwnerOf
<1>4. ASSUME NEW x \in Doers PROVE OwnerOf(x)'
  <2>0. OwnerOf(x)
    BY DEF DInv, OwnerInv
  <2>1. CASE x = d
    BY <1>3, <2>1 DEF OwnerOf
  <2>2. CASE x # d
    BY <1>2, <2>0, <2>2 DEF OwnerOf
  <2> QED BY <2>1, <2>2
<1>5. ActShape'
  BY <1>2 DEF DInv, ActShape
<1> QED BY <1>4, <1>5 DEF OwnerInv

(* An act that ends, or goes on in the app. *)
LEMMA DoneStep ==
    ASSUME DInv, NEW d \in Doers, act[d].at # "out", Done(d)
    PROVE  ActShape' /\ OwnerInv'
<1>0. act \in [Doers -> Doing]
  BY DEF DInv, ActShape
<1>1. CASE act[d].shell
  <2>1. act' = [act EXCEPT ![d] = NoAct]
    BY <1>1 DEF Done
  <2>2. Turns(act, act', d, "nothing", "out", {}, NoAct.saw, FALSE)
    BY <1>0, <2>1, NoActIs DEF Turns
  <2> QED BY <2>2, DoerStep DEF Turns
<1>2. CASE ~act[d].shell
  <2>1. act' = [act EXCEPT ![d].at = "settling"]
    BY <1>2 DEF Done
  <2>2. "settling" \in Ats
    BY DEF Ats
  <2>3. Turns(act, [act EXCEPT ![d].at = "settling"], d, act[d].does, "settling", act[d].plan, act[d].saw, act[d].alone)
    BY <1>0, <2>2, AtSet
  <2>4. Turns(act, act', d, act[d].does, "settling", act[d].plan, act[d].saw, act[d].alone)
    BY <2>1, <2>3
  <2>5. OwnsAt(act[d].at, act[d].plan)'
    BY <2>4 DEF OwnsAt, OwnsIn, Turns
  <2> QED BY <2>4, <2>5, DoerStep DEF Turns
<1> QED BY <1>1, <1>2

(* The same, for a doer that goes to another place and nothing else. *)
LEMMA ToStep ==
    ASSUME DInv, NEW d \in Doers, act[d].at # "out", NEW at \in Ats \ {"watching"}, To(d, at),
           at \in {"forking", "kicking", "stopping"} => act[d].does \notin Installs,
           act[d].alone /\ act[d].does \in Installs => OwnsIn(loaded', life', at, act[d].plan)
    PROVE  ActShape' /\ OwnerInv'
<1>1. act \in [Doers -> Doing]
  BY DEF DInv, ActShape
<1>2. Turns(act, [act EXCEPT ![d].at = at], d, act[d].does, at, act[d].plan, act[d].saw, act[d].alone)
  BY <1>1, AtSet
<1>3. Turns(act, act', d, act[d].does, at, act[d].plan, act[d].saw, act[d].alone)
  BY <1>2 DEF To
<1>4. OwnsIn(loaded', life', at, act[d].plan) => OwnsAt(act[d].at, act[d].plan)'
  BY <1>3 DEF OwnsAt, Turns
<1> QED BY <1>3, <1>4, DoerStep DEF Turns

(* What goes on without any doer: a loaded job is started, a daemon gets   *)
(* the store, or exits.                                                    *)
LEMMA WorldStep ==
    ASSUME DInv, LifeShape', act' = act, loaded' = loaded,
           \A x \in Daemons \ loaded : Dead(x) => Dead(x)',
           \A x \in Daemons \ loaded : life'[x] = "starting" => life[x] = "starting"
    PROVE  ActShape' /\ OwnerInv'
<1>1. ActShape'
  BY DEF DInv, ActShape
<1>2. ASSUME NEW d \in Doers PROVE OwnerOf(d)'
  <2>1. OwnerOf(d)
    BY DEF DInv, OwnerInv
  <2>2. ASSUME OwnsAt(act[d].at, act[d].plan) PROVE OwnsAt(act[d].at, act[d].plan)'
    <3>1. \A x \in loaded : x \in Jobs
      BY DEF DInv, FilesShape
    <3> QED BY <2>2, <3>1 DEF OwnsAt, OwnsIn, Ended, Dead
  <2> QED BY <2>1, <2>2 DEF OwnerOf
<1> QED BY <1>1, <1>2 DEF OwnerInv

(* The holder stays the holder where no daemon gets or leaves the store.   *)
LEMMA HolderStays ==
    ASSUME DInv, proc' = proc, \A x \in Daemons : Holding(x)' <=> Holding(x)
    PROVE  HolderInv'
BY DEF DInv, HolderInv, Serving

(* A place and a plan at once. *)
LEMMA AtPlanStep ==
    ASSUME DInv, NEW d \in Doers, act[d].at # "out", NEW at \in Ats \ {"watching"},
           NEW plan \in SUBSET Daemons, act' = [act EXCEPT ![d].at = at, ![d].plan = plan],
           at \in {"forking", "kicking", "stopping"} => act[d].does \notin Installs,
           act[d].alone /\ act[d].does \in Installs => OwnsIn(loaded', life', at, plan)
    PROVE  ActShape' /\ OwnerInv'
<1>1. act \in [Doers -> Doing]
  BY DEF DInv, ActShape
<1>2. Turns(act, [act EXCEPT ![d].at = at, ![d].plan = plan], d, act[d].does, at, plan, act[d].saw, act[d].alone)
  BY <1>1, AtPlanSet
<1>3. Turns(act, act', d, act[d].does, at, plan, act[d].saw, act[d].alone)
  BY <1>2
<1>4. OwnsIn(loaded', life', at, plan) => OwnsAt(act[d].at, act[d].plan)'
  BY <1>3 DEF OwnsAt, Turns
<1> QED BY <1>3, <1>4, DoerStep DEF Turns

LEMMA DoesAtStep ==
    ASSUME DInv, NEW d \in Doers, act[d].at # "out", NEW does \in Does,
           act' = [act EXCEPT ![d].does = does, ![d].at = "looking"]
    PROVE  ActShape' /\ OwnerInv'
<1>1. act \in [Doers -> Doing] /\ "looking" \in Ats
  BY DEF DInv, ActShape, Ats
<1>2. Turns(act, [act EXCEPT ![d].does = does, ![d].at = "looking"], d, does, "looking",
            act[d].plan, act[d].saw, act[d].alone)
  BY <1>1, DoesAtSet
<1>3. Turns(act, act', d, does, "looking", act[d].plan, act[d].saw, act[d].alone)
  BY <1>2
<1>4. OwnsAt(act[d].at, act[d].plan)'
  BY <1>3 DEF OwnsAt, OwnsIn, Turns
<1> QED BY <1>3, <1>4, DoerStep DEF Turns

LEMMA DoesStep ==
    ASSUME DInv, NEW d \in Doers, act[d].at = "looking", NEW does \in Does,
           act' = [act EXCEPT ![d].does = does]
    PROVE  ActShape' /\ OwnerInv'
<1>1. act \in [Doers -> Doing]
  BY DEF DInv, ActShape
<1>2. Turns(act, [act EXCEPT ![d].does = does], d, does, act[d].at,
            act[d].plan, act[d].saw, act[d].alone)
  BY <1>1, DoesSet
<1>3. Turns(act, act', d, does, "looking", act[d].plan, act[d].saw, act[d].alone)
  BY <1>2
<1>4. OwnsAt(act[d].at, act[d].plan)'
  BY <1>3 DEF OwnsAt, OwnsIn, Turns
<1> QED BY <1>3, <1>4, DoerStep DEF Turns

LEMMA NamedIs == FilesShape => Named \in Forks \cup {None} /\ Managers \subseteq Daemons
                                /\ Managers \cap Jobs = loaded
BY LifecycleAssumption DEF FilesShape, Named, Managers, Daemons, Jobs, Forks, Children

(* A step that changes what doers are at, and clears the pidfile at most.  *)
LEMMA ActOnly ==
    ASSUME DInv, proc' = proc, UNCHANGED <<life, loaded, plist, aside, app>>,
           pidfile' \in {pidfile, Named, None}, ActShape' /\ OwnerInv'
    PROVE  DInv'
<1>1. FilesShape'
  BY NamedIs DEF DInv, FilesShape
<1>2. HolderInv'
  BY HolderStays DEF Holding
<1> QED BY <1>1, <1>2 DEF DInv, AppShape, LifeShape

LEMMA StartLook == ASSUME DInv, NEW d \in Doers, LooksToStart(d), proc' = proc PROVE DInv'
<1>1. act[d].at = "looking" /\ act[d].does \notin Installs /\ "forking" \in Ats \ {"watching"}
  BY DEF LooksToStart, Looks, Installs, Ats
<1>2. Done(d) \/ To(d, "forking")
  BY DEF LooksToStart
<1>3. ActShape' /\ OwnerInv'
  BY <1>1, <1>2, DoneStep, ToStep
<1> QED BY <1>3, ActOnly DEF LooksToStart, ClearStale

LEMMA StopLook == ASSUME DInv, NEW d \in Doers, LooksToStop(d), proc' = proc PROVE DInv'
<1>0. OwnerOf(d) /\ Managers \in SUBSET Daemons
  BY NamedIs DEF DInv, OwnerInv
<1>1. act[d].at # "out" /\ act[d].does \notin Installs /\ {"retiring", "freeing"} \subseteq Ats \ {"watching"}
  BY <1>0 DEF LooksToStop, Looks, Installs, Ats, OwnerOf
<1>2. \/ Done(d) \/ To(d, "freeing")
      \/ act' = [act EXCEPT ![d].at = "retiring", ![d].plan = Managers]
  BY DEF LooksToStop
<1>3. ActShape' /\ OwnerInv'
  BY <1>0, <1>1, <1>2, DoneStep, ToStep, AtPlanStep
<1> QED BY <1>3, ActOnly DEF LooksToStop, ClearStale

LEMMA RestartLook == ASSUME DInv, NEW d \in Doers, LooksToRestart(d), proc' = proc PROVE DInv'
<1>0. Managers \in SUBSET Daemons /\ {"canonical"} \in SUBSET Daemons
  BY NamedIs DEF DInv, Daemons, Jobs
<1>1. act[d].at = "looking" /\ act[d].does = "restart" /\ act[d].does \notin Installs
  BY DEF LooksToRestart, Looks, Installs
<1>2. {"kicking", "retiring", "loading"} \subseteq Ats \ {"watching"} /\ "start" \in Does
  BY DEF Ats, Does, Commands
<1>3. \/ Done(d)
      \/ \E at \in {"kicking", "retiring"} : act' = [act EXCEPT ![d].at = at, ![d].plan = Managers]
      \/ act' = [act EXCEPT ![d].at = "loading", ![d].plan = {"canonical"}]
      \/ act' = [act EXCEPT ![d].does = "start"]
  BY DEF LooksToRestart
<1>4. ActShape' /\ OwnerInv'
  <2>1. CASE Done(d)
    BY <1>1, <2>1, DoneStep
  <2>2. CASE \E at \in {"kicking", "retiring"} : act' = [act EXCEPT ![d].at = at, ![d].plan = Managers]
    <3>1. PICK at \in {"kicking", "retiring"} : act' = [act EXCEPT ![d].at = at, ![d].plan = Managers]
      BY <2>2
    <3> QED BY <1>0, <1>1, <1>2, <3>1, AtPlanStep
  <2>3. CASE act' = [act EXCEPT ![d].at = "loading", ![d].plan = {"canonical"}]
    <3> DEFINE job0 == {"canonical"}
    <3>1. job0 \in SUBSET Daemons /\ act' = [act EXCEPT ![d].at = "loading", ![d].plan = job0]
      BY <1>0, <2>3
    <3> HIDE DEF job0
    <3> QED BY <1>1, <1>2, <3>1, AtPlanStep
  <2>4. CASE act' = [act EXCEPT ![d].does = "start"]
    BY <1>1, <1>2, <2>4, DoesStep
  <2> QED BY <1>3, <2>1, <2>2, <2>3, <2>4
<1> QED BY <1>4, ActOnly DEF LooksToRestart, ClearStale

(* What an install that is alone finds: its managers are its plan, and     *)
(* what nothing names is not starting.                                     *)
LEMMA InstallLook == ASSUME DInv, NEW d \in Doers, LooksToInstall(d), proc' = proc PROVE DInv'
<1>0. /\ Managers \in SUBSET Daemons /\ "retiring" \in Ats /\ plist \in Plists
      /\ act \in [Doers -> Doing]
  BY NamedIs DEF DInv, Ats, FilesShape, ActShape
<1>1. act[d].at = "looking"
  BY DEF LooksToInstall, Looks
<1> DEFINE alone == act[d].alone /\ \A y \in Unnamed : life[y] # "starting"
<1>2. \/ Done(d)
      \/ act' = [act EXCEPT ![d].at = "retiring", ![d].plan = Managers, ![d].saw = plist, ![d].alone = alone]
  <2>1. \/ Done(d)
        \/ act' = [act EXCEPT ![d].at = "retiring", ![d].plan = Managers, ![d].saw = plist,
                                   ![d].alone = @ /\ \A y \in Unnamed : life[y] # "starting"]
    BY DEF LooksToInstall
  <2> DEFINE h == [act EXCEPT ![d].at = "retiring", ![d].plan = Managers, ![d].saw = plist]
  <2>2. Turns(act, h, d, act[d].does, "retiring", Managers, plist, act[d].alone)
    BY <1>0, AtPlanSawSet
  <2>3. h[d].alone = act[d].alone
    BY <2>2 DEF Turns
  <2> QED BY <2>1, <2>3
<1>3. alone \in BOOLEAN /\ (alone => act[d].alone /\ \A y \in Unnamed : life[y] # "starting")
  OBVIOUS
<1> HIDE DEF alone
<1>4. ASSUME act' = [act EXCEPT ![d].at = "retiring", ![d].plan = Managers, ![d].saw = plist, ![d].alone = alone]
      PROVE  ActShape' /\ OwnerInv'
  <2> DEFINE h == [act EXCEPT ![d].at = "retiring", ![d].plan = Managers, ![d].saw = plist]
  <2>0. Turns(act, h, d, act[d].does, "retiring", Managers, plist, act[d].alone)
    BY <1>0, AtPlanSawSet
  <2>5. act' = [h EXCEPT ![d].alone = alone]
    BY <1>4
  <2> HIDE DEF h
  <2>6. h \in [Doers -> Doing]
    BY <2>0 DEF Turns
  <2>7. Turns(h, [h EXCEPT ![d].alone = alone], d, h[d].does, h[d].at, h[d].plan, h[d].saw, alone)
    BY <1>3, <2>6, AloneSet
  <2>1. Turns(act, act', d, act[d].does, "retiring", Managers, plist, alone)
    BY <2>0, <2>5, <2>7 DEF Turns
  <2>2. UNCHANGED <<loaded, life>>
    BY DEF LooksToInstall
  <2>3. alone => OwnsIn(loaded, life, "retiring", Managers)
    <3>1. loaded = Managers \cap Jobs
      BY NamedIs DEF DInv
    <3>2. ASSUME alone, NEW x \in Daemons \ Managers PROVE life[x] # "starting"
      BY <1>3, <3>2 DEF Unnamed, Dead
    <3> QED BY <3>1, <3>2 DEF OwnsIn
  <2>4. alone => OwnsAt(act[d].at, act[d].plan)'
    BY <2>1, <2>2, <2>3 DEF OwnsAt, Turns
  <2> QED BY <1>1, <1>3, <2>1, <2>4, DoerStep DEF Turns
<1>5. ActShape' /\ OwnerInv'
  BY <1>1, <1>2, <1>4, DoneStep
<1> QED BY <1>5, ActOnly DEF LooksToInstall

LEMMA UninstallLook == ASSUME DInv, NEW d \in Doers, LooksToUninstall(d), proc' = proc PROVE DInv'
<1> DEFINE plan == loaded \cap {"canonical"}
<1>0. /\ plan \in SUBSET Daemons /\ "retiring" \in Ats /\ plist \in Plists
      /\ act \in [Doers -> Doing]
  BY DEF DInv, Ats, FilesShape, ActShape, Daemons
<1>1. act[d].at = "looking" /\ act[d].does \notin Installs
      /\ act' = [act EXCEPT ![d].at = "retiring", ![d].plan = plan, ![d].saw = plist]
  BY DEF LooksToUninstall, Looks, Installs
<1> HIDE DEF plan
<1>2. Turns(act, act', d, act[d].does, "retiring", plan, plist, act[d].alone)
  BY <1>0, <1>1, AtPlanSawSet
<1>3. ActShape' /\ OwnerInv'
  BY <1>1, <1>2, DoerStep DEF Turns
<1> QED BY <1>3, ActOnly DEF LooksToUninstall

LEMMA SetUpLook == ASSUME DInv, NEW d \in Doers, LooksToSetUp(d), proc' = proc PROVE DInv'
<1>1. act[d].at = "looking" /\ {"install", "takeover"} \subseteq Does
  BY DEF LooksToSetUp, Looks, Does, Commands
<1>2. Done(d) \/ \E does \in {"install", "takeover"} : act' = [act EXCEPT ![d].does = does]
  BY DEF LooksToSetUp
<1>3. ActShape' /\ OwnerInv'
  BY <1>1, <1>2, DoneStep, DoesStep
<1> QED BY <1>3, ActOnly DEF LooksToSetUp

LEMMA RebuildLook == ASSUME DInv, NEW d \in Doers, LooksToRebuild(d), proc' = proc PROVE DInv'
<1>1. act[d].at = "looking" /\ act[d].does \notin Installs
      /\ {"clearing", "resetting", "stopping"} \subseteq Ats \ {"watching"}
  BY DEF LooksToRebuild, Looks, Installs, Ats
<1>2. Done(d) \/ \E at \in {"clearing", "resetting", "stopping"} : To(d, at)
  BY DEF LooksToRebuild
<1>3. ActShape' /\ OwnerInv'
  BY <1>1, <1>2, DoneStep, ToStep
<1> QED BY <1>3, ActOnly DEF LooksToRebuild, ClearStale

LEMMA FreesStep == ASSUME DInv, NEW d \in Doers, Frees(d), proc' = proc PROVE DInv'
<1>1. act[d].at = "freeing" /\ "resetting" \in Ats \ {"watching"} /\ (Done(d) \/ To(d, "resetting"))
  BY DEF Frees, Ats
<1>2. OwnsIn(loaded', life', "resetting", act[d].plan)
  BY DEF OwnsIn
<1>3. ActShape' /\ OwnerInv'
  BY <1>1, <1>2, DoneStep, ToStep
<1> QED BY <1>3, ActOnly DEF Frees

LEMMA ResetStep == ASSUME DInv, NEW d \in Doers, DReset(d), proc' = proc PROVE DInv'
<1>1. act[d].at # "out" /\ "restart" \in Does
  BY DEF DReset, Looks, Does, Commands
<1>2. Done(d) \/ act' = [act EXCEPT ![d].does = "restart", ![d].at = "looking"]
  BY DEF DReset
<1>3. ActShape' /\ OwnerInv'
  BY <1>1, <1>2, DoneStep, DoesAtStep
<1> QED BY <1>3, ActOnly DEF DReset

LEMMA RetiredStep == ASSUME DInv, NEW d \in Doers, Retired(d), proc' = proc PROVE DInv'
<1>0. OwnerOf(d)
  BY DEF DInv, OwnerInv
<1>1. /\ act[d].at = "retiring" /\ act[d].plan = {} /\ "start" \in Does
      /\ {"freeing", "releasing"} \subseteq Ats \ {"watching"}
  BY DEF Retired, Ats, Does, Commands
<1>2. \/ Done(d) \/ \E at \in {"freeing", "releasing"} : To(d, at)
      \/ act' = [act EXCEPT ![d].does = "start", ![d].at = "looking"]
  BY DEF Retired
<1>3. act[d].alone /\ act[d].does \in Installs => OwnsIn(loaded, life, "releasing", {})
  BY <1>0, <1>1 DEF OwnerOf, OwnsAt, OwnsIn
<1>4. OwnsIn(loaded, life, "freeing", {})
  BY DEF OwnsIn
<1>5. UNCHANGED <<life, loaded>>
  BY DEF Retired
<1>6. ActShape' /\ OwnerInv'
  BY <1>1, <1>2, <1>3, <1>4, <1>5, DoneStep, ToStep, DoesAtStep
<1> QED BY <1>6, ActOnly DEF Retired

(* An install goes on when nothing holds the store: then all are dead.     *)
LEMMA ReleasesStep == ASSUME DInv, NEW d \in Doers, Releases(d), proc' = proc PROVE DInv'
<1>0. OwnerOf(d)
  BY DEF DInv, OwnerInv
<1>1. act[d].at = "releasing" /\ "writing" \in Ats \ {"watching"}
  BY DEF Releases, Ats
<1>2. Done(d) \/ (To(d, "writing") /\ (act[d].does \in Installs => ~Held))
  <2>1. CASE Held /\ act[d].does # "uninstall"
    BY <2>1 DEF Releases
  <2>2. CASE ~(Held /\ act[d].does # "uninstall")
    <3>1. To(d, "writing")
      BY <2>2 DEF Releases
    <3>2. act[d].does \in Installs => ~Held
      BY <2>2 DEF Installs
    <3> QED BY <3>1, <3>2
  <2> QED BY <2>1, <2>2
<1>3. act[d].alone /\ act[d].does \in Installs /\ ~Held => OwnsIn(loaded, life, "writing", act[d].plan)
  BY <1>0, <1>1 DEF OwnerOf, OwnsAt, OwnsIn, Held, Ended, DInv, LifeShape, Lives
<1>4. UNCHANGED <<life, loaded>>
  BY DEF Releases
<1>5. ActShape' /\ OwnerInv'
  BY <1>1, <1>2, <1>3, <1>4, DoneStep, ToStep
<1> QED BY <1>5, ActOnly DEF Releases

LEMMA AwaitsStep == ASSUME DInv, NEW d \in Doers, Awaits(d), proc' = proc PROVE DInv'
<1>1. act[d].at = "awaiting" /\ Done(d)
  BY DEF Awaits
<1>2. ActShape' /\ OwnerInv'
  BY <1>1, DoneStep
<1> QED BY <1>2, ActOnly DEF Awaits

LEMMA ReapsStep == ASSUME DInv, NEW d \in Doers, Reaps(d), proc' = proc PROVE DInv'
<1>1. /\ act[d].at = "reaping" /\ {"bringing", "looking"} \subseteq Ats \ {"watching"}
      /\ \E at \in {"bringing", "looking"} : To(d, at)
  BY DEF Reaps, Ats
<1>2. PICK at \in {"bringing", "looking"} : To(d, at)
  BY <1>1
<1>3. OwnsIn(loaded', life', at, act[d].plan)
  BY DEF OwnsIn
<1>4. ActShape' /\ OwnerInv'
  BY <1>1, <1>2, <1>3, ToStep
<1> QED BY <1>4, ActOnly DEF Reaps

LEMMA WaitsStep ==
    ASSUME DInv, NEW d \in Doers, NEW f \in Forks, Waits(d, f), proc' = proc PROVE DInv'
<1>0. OwnerOf(d) /\ act[d].plan \in SUBSET Daemons
  BY DEF DInv, OwnerInv, ActShape, Doing
<1> DEFINE plan == act[d].plan \ {f}
<1>1. /\ act[d].at = "waiting" /\ "retiring" \in Ats \ {"watching"} /\ plan \in SUBSET Daemons
      /\ plan \cap Jobs = act[d].plan \cap Jobs
  BY <1>0 DEF Waits, Ats, Forks, Jobs
<1>2. Done(d) \/ (Dead(f) /\ act' = [act EXCEPT ![d].at = "retiring", ![d].plan = plan])
  <2>1. "retiring" # "x" /\ act \in [Doers -> Doing]
    BY DEF DInv, ActShape
  <2> DEFINE h == [act EXCEPT ![d].at = "retiring"]
  <2>2. Turns(act, h, d, act[d].does, "retiring", act[d].plan, act[d].saw, act[d].alone)
    BY <1>1, <2>1, AtSet
  <2>3. h[d].plan = act[d].plan
    BY <2>2 DEF Turns
  <2>4. Done(d) \/ (Dead(f) /\ act' = [act EXCEPT ![d].at = "retiring", ![d].plan = @ \ {f}])
    <3>1. CASE Dead(f)
      BY <3>1 DEF Waits
    <3>2. CASE ~Dead(f)
      BY <3>2 DEF Waits
    <3> QED BY <3>1, <3>2
  <2> QED BY <2>3, <2>4
<1>3. \A x \in Daemons \ plan : x = f \/ x \in Daemons \ act[d].plan
  OBVIOUS
<1> HIDE DEF plan
<1>4. act[d].alone /\ act[d].does \in Installs /\ Dead(f) => OwnsIn(loaded, life, "retiring", plan)
  BY <1>0, <1>1, <1>3 DEF OwnerOf, OwnsAt, OwnsIn, Dead
<1>5. UNCHANGED <<life, loaded>>
  BY DEF Waits
<1>6. ActShape' /\ OwnerInv'
  BY <1>1, <1>2, <1>4, <1>5, DoneStep, AtPlanStep
<1> QED BY <1>6, ActOnly DEF Waits

(* A step that starts or stops daemons without one getting the store. *)
LEMMA LifeOnly ==
    ASSUME DInv, proc' = proc, LifeShape', \A x \in Daemons : Holding(x)' <=> Holding(x),
           FilesShape', AppShape', ActShape' /\ OwnerInv'
    PROVE  DInv'
BY HolderStays DEF DInv

LEMMA StartsIs ==
    ASSUME LifeShape, NEW d \in Daemons, Dead(d), life' = [life EXCEPT ![d] = "starting"]
    PROVE  /\ LifeShape' /\ \A x \in Daemons : Holding(x)' <=> Holding(x)
           /\ \A x \in Daemons \ {d} : life'[x] = life[x]
BY DEF LifeShape, Lives, Dead, Holding

LEMMA ForkingStep == ASSUME DInv, NEW d \in Doers, Forking(d), proc' = proc PROVE DInv'
<1>0. OwnerOf(d) /\ LifeShape /\ FilesShape
  BY DEF DInv, OwnerInv
<1>1. act[d].at = "forking" /\ act[d].does \notin Installs /\ "awaiting" \in Ats \ {"watching"}
  BY <1>0 DEF OwnerOf, Forking, Ats
<1>2. CASE Done(d) /\ UNCHANGED <<life, pidfile>>
  <2>1. ActShape' /\ OwnerInv'
    BY <1>1, <1>2, DoneStep
  <2> QED BY <1>2, <2>1, ActOnly DEF Forking
<1>3. ASSUME NEW f \in Forks, Dead(f), life' = [life EXCEPT ![f] = "starting"], pidfile' = f,
             act' = [act EXCEPT ![d].at = "awaiting", ![d].plan = {f}]
      PROVE  DInv'
  <2>1. f \in Daemons
    BY DEF Daemons
  <2>2. LifeShape' /\ \A x \in Daemons : Holding(x)' <=> Holding(x)
    BY <1>0, <1>3, <2>1, StartsIs
  <2> DEFINE plan == {f}
  <2>3. plan \in SUBSET Daemons /\ act' = [act EXCEPT ![d].at = "awaiting", ![d].plan = plan]
    BY <1>3, <2>1
  <2> HIDE DEF plan
  <2>4. ActShape' /\ OwnerInv'
    BY <1>1, <2>3, AtPlanStep
  <2>5. FilesShape' /\ AppShape'
    BY <1>0, <1>3 DEF Forking, FilesShape, AppShape, DInv
  <2> QED BY <2>2, <2>4, <2>5, LifeOnly
<1> QED BY <1>2, <1>3 DEF Forking

LEMMA KicksStep == ASSUME DInv, NEW d \in Doers, Kicks(d), proc' = proc PROVE DInv'
<1>0. OwnerOf(d) /\ LifeShape /\ FilesShape
  BY DEF DInv, OwnerInv
<1>1. act[d].at = "kicking" /\ act[d].does \notin Installs /\ "awaiting" \in Ats \ {"watching"}
  BY <1>0 DEF OwnerOf, Kicks, Ats
<1>2. (life' = Told(act[d].plan) /\ To(d, "awaiting")) \/ (UNCHANGED life /\ Done(d))
  BY DEF Kicks
<1>3. ActShape' /\ OwnerInv'
  BY <1>1, <1>2, DoneStep, ToStep
<1>4. LifeShape' /\ \A x \in Daemons : Holding(x)' <=> Holding(x)
  <2>1. CASE life' = Told(act[d].plan)
    BY <1>0, <2>1, ToldIs
  <2>2. CASE UNCHANGED life
    BY <1>0, <2>2 DEF LifeShape, Holding
  <2> QED BY <1>2, <2>1, <2>2
<1>5. FilesShape' /\ AppShape'
  BY DEF Kicks, FilesShape, AppShape, DInv
<1> QED BY <1>3, <1>4, <1>5, LifeOnly

LEMMA RetiresJobStep ==
    ASSUME DInv, NEW d \in Doers, NEW j \in Jobs, RetiresJob(d, j), proc' = proc PROVE DInv'
<1>0. /\ OwnerOf(d) /\ LifeShape /\ FilesShape /\ act \in [Doers -> Doing] /\ act[d].plan \in SUBSET Daemons
      /\ j \in Daemons
  BY DEF DInv, OwnerInv, ActShape, Doing, Daemons
<1>1. act[d].at = "retiring" /\ UNCHANGED <<plist, aside, pidfile, app>>
  BY DEF RetiresJob
<1>2. CASE Done(d) /\ UNCHANGED <<life, loaded>>
  <2>1. ActShape' /\ OwnerInv'
    BY <1>1, <1>2, DoneStep
  <2> QED BY <1>1, <1>2, <2>1, ActOnly
<1>3. ASSUME act' = [act EXCEPT ![d].plan = @ \ {j}],
             loaded' = loaded \ {j}, life' = IF j \in loaded THEN Told({j}) ELSE life
      PROVE  DInv'
  <2>1. act[d].plan \ {j} \in SUBSET Daemons
    BY <1>0
  <2>2. Turns(act, act', d, act[d].does, "retiring", act[d].plan \ {j}, act[d].saw, act[d].alone)
    <3> DEFINE plan == act[d].plan \ {j}
    <3>1. plan \in SUBSET Daemons /\ act' = [act EXCEPT ![d].plan = plan]
      BY <1>3, <2>1
    <3> HIDE DEF plan
    <3>2. Turns(act, [act EXCEPT ![d].plan = plan], d, act[d].does, act[d].at, plan, act[d].saw, act[d].alone)
      BY <1>0, <3>1, PlanSet
    <3>3. Turns(act, act', d, act[d].does, "retiring", plan, act[d].saw, act[d].alone)
      BY <1>1, <3>1, <3>2
    <3> QED BY <3>3 DEF plan
  <2>3. /\ LifeShape' /\ \A x \in Daemons : Holding(x)' <=> Holding(x)
        /\ \A x \in Daemons : life'[x] = "starting" => life[x] = "starting"
        /\ j \in loaded => life'[j] # "starting"
    <3>1. CASE j \in loaded
      BY <1>0, <1>3, <3>1, ToldIs
    <3>2. CASE j \notin loaded
      BY <1>0, <1>3, <3>2 DEF LifeShape, Holding
    <3> QED BY <3>1, <3>2
  <2>4. ASSUME act[d].alone, act[d].does \in Installs PROVE OwnsIn(loaded', life', "retiring", act[d].plan \ {j})
    <3>1. loaded = act[d].plan \cap Jobs /\ \A x \in Daemons \ act[d].plan : life[x] # "starting"
      BY <1>0, <1>1, <2>4 DEF OwnerOf, OwnsAt, OwnsIn
    <3>2. j \in act[d].plan
      BY DEF RetiresJob
    <3>3. loaded' = (act[d].plan \ {j}) \cap Jobs
      BY <1>3, <3>1
    <3>4. \A x \in Daemons \ (act[d].plan \ {j}) : life'[x] # "starting"
      BY <2>3, <3>1, <3>2
    <3> QED BY <3>3, <3>4 DEF OwnsIn
  <2>5. act'[d].alone /\ act'[d].does \in Installs => OwnsAt(act[d].at, act[d].plan)'
    BY <2>2, <2>4 DEF OwnsAt, Turns
  <2>6. ActShape' /\ OwnerInv'
    BY <1>1, <2>2, <2>5, DoerStep DEF Turns
  <2>7. FilesShape' /\ AppShape'
    BY <1>0, <1>1, <1>3 DEF FilesShape, AppShape, DInv
  <2> QED BY <2>3, <2>6, <2>7, LifeOnly
<1> QED BY <1>2, <1>3 DEF RetiresJob

LEMMA RetiresForkStep ==
    ASSUME DInv, NEW d \in Doers, NEW f \in Forks, RetiresFork(d, f), proc' = proc PROVE DInv'
<1>0. OwnerOf(d) /\ LifeShape
  BY DEF DInv, OwnerInv
<1>1. /\ act[d].at = "retiring" /\ "waiting" \in Ats \ {"watching"} /\ To(d, "waiting")
      /\ life' = Told({f}) /\ UNCHANGED <<loaded, plist, aside, pidfile, app>>
  BY DEF RetiresFork, Ats
<1>2. /\ LifeShape' /\ \A x \in Daemons : Holding(x)' <=> Holding(x)
      /\ \A x \in Daemons : life'[x] = "starting" => life[x] = "starting"
  BY <1>0, <1>1, ToldIs
<1>3. act[d].alone /\ act[d].does \in Installs => OwnsIn(loaded', life', "waiting", act[d].plan)
  BY <1>0, <1>1, <1>2 DEF OwnerOf, OwnsAt, OwnsIn
<1>4. ActShape' /\ OwnerInv'
  BY <1>1, <1>3, ToStep
<1>5. FilesShape' /\ AppShape'
  BY <1>1 DEF FilesShape, AppShape, DInv
<1> QED BY <1>2, <1>4, <1>5, LifeOnly

LEMMA WritesStep == ASSUME DInv, NEW d \in Doers, Writes(d), proc' = proc PROVE DInv'
<1>0. OwnerOf(d) /\ LifeShape /\ FilesShape
  BY DEF DInv, OwnerInv
<1> DEFINE plan == {"canonical"}
<1>1. /\ act[d].at = "writing" /\ "loading" \in Ats \ {"watching"} /\ plan \in SUBSET Daemons
      /\ UNCHANGED <<life, loaded, pidfile, app>>
  BY DEF Writes, Ats, Daemons, Jobs
<1>2. Done(d) \/ act' = [act EXCEPT ![d].at = "loading", ![d].plan = plan]
  BY DEF Writes
<1>3. FilesShape'
  <2>1. plist' \in Plists
    BY <1>0 DEF Writes, FilesShape, Plists
  <2>2. aside' \subseteq {"hand", "generated"}
    BY <1>0 DEF Writes, FilesShape, Plists
  <2> QED BY <1>0, <1>1, <2>1, <2>2 DEF FilesShape
<1> HIDE DEF plan
<1>4. act[d].alone /\ act[d].does \in Installs => OwnsIn(loaded', life', "loading", plan)
  BY <1>0, <1>1 DEF OwnerOf, OwnsAt, OwnsIn
<1>5. ActShape' /\ OwnerInv'
  BY <1>1, <1>2, <1>4, DoneStep, AtPlanStep
<1>6. LifeShape' /\ AppShape' /\ \A x \in Daemons : Holding(x)' <=> Holding(x)
  BY <1>0, <1>1 DEF LifeShape, AppShape, DInv, Holding
<1> QED BY <1>3, <1>5, <1>6, LifeOnly

LEMMA LoadsStep == ASSUME DInv, NEW d \in Doers, Loads(d), proc' = proc PROVE DInv'
<1>0. OwnerOf(d) /\ LifeShape /\ FilesShape /\ "canonical" \in Daemons /\ "canonical" \in Jobs
  BY DEF DInv, OwnerInv, Daemons, Jobs
<1>1. act[d].at = "loading" /\ UNCHANGED <<plist, aside, pidfile, app>> /\ "awaiting" \in Ats \ {"watching"}
  BY DEF Loads, Ats
<1>2. CASE Done(d) /\ UNCHANGED <<life, loaded>>
  <2>1. ActShape' /\ OwnerInv'
    BY <1>1, <1>2, DoneStep
  <2> QED BY <1>1, <1>2, <2>1, ActOnly
<1>3. ASSUME loaded' = loaded \cup {"canonical"}, To(d, "awaiting"),
             life' = IF Dead("canonical") THEN [life EXCEPT !["canonical"] = "starting"] ELSE life
      PROVE  DInv'
  <2>1. /\ LifeShape' /\ \A x \in Daemons : Holding(x)' <=> Holding(x)
        /\ \A x \in Daemons \ {"canonical"} : life'[x] = life[x]
    <3>1. CASE Dead("canonical")
      BY <1>0, <1>3, <3>1, StartsIs
    <3>2. CASE ~Dead("canonical")
      BY <1>0, <1>3, <3>2 DEF LifeShape, Holding
    <3> QED BY <3>1, <3>2
  <2>2. act[d].alone /\ act[d].does \in Installs => OwnsIn(loaded', life', "awaiting", act[d].plan)
    BY <1>0, <1>1, <1>3, <2>1 DEF OwnerOf, OwnsAt, OwnsIn, Ended
  <2>3. ActShape' /\ OwnerInv'
    BY <1>1, <1>3, <2>2, ToStep
  <2>4. FilesShape' /\ AppShape'
    BY <1>0, <1>1, <1>3 DEF FilesShape, AppShape, DInv
  <2> QED BY <2>1, <2>3, <2>4, LifeOnly
<1> QED BY <1>2, <1>3 DEF Loads

LEMMA CommandStep == ASSUME DInv, NEW d \in Doers, Command(d), proc' = proc PROVE DInv'
BY StartLook, ForkingStep, StopLook, RestartLook, KicksStep, InstallLook, UninstallLook, SetUpLook,
   RebuildLook, FreesStep, RetiredStep, ReleasesStep, WritesStep, LoadsStep, AwaitsStep,
   RetiresJobStep, RetiresForkStep, WaitsStep DEF Command

(* ------------------------------- the app ------------------------------ *)

LEMMA EndStep ==
    ASSUME DInv, NEW d \in Doers, act[d].at # "out", act' = [act EXCEPT ![d] = NoAct]
    PROVE  ActShape' /\ OwnerInv'
<1>1. act \in [Doers -> Doing]
  BY DEF DInv, ActShape
<1>2. Turns(act, act', d, "nothing", "out", {}, NoAct.saw, FALSE)
  BY <1>1, NoActIs DEF Turns
<1> QED BY <1>2, DoerStep DEF Turns

LEMMA AppSet ==
    ASSUME NEW f \in Apps, NEW s \in Shows, NEW c \in Children \cup {None},
           c # None <=> s = "spawned", app' = [f EXCEPT !.shows = s, !.child = c]
    PROVE  AppShape'
BY DEF Apps, AppShape

LEMMA AppClosed ==
    ASSUME app' = [open |-> FALSE, shows |-> "starting", child |-> None] PROVE AppShape'
BY DEF Apps, AppShape, Shows

LEMMA AppOpened ==
    ASSUME app' = [open |-> TRUE, shows |-> "starting", child |-> None] PROVE AppShape'
BY DEF Apps, AppShape, Shows

LEMMA ShowsAll == {"starting", "external", "spawned", "failed"} = Shows
BY DEF Shows

LEMMA ChildIs ==
    ASSUME AppShape, app.shows = "spawned"
    PROVE  app.child \in Children /\ {app.child} \in SUBSET Daemons
BY DEF AppShape, Apps, Daemons

LEMMA BringsUpStep == ASSUME DInv, NEW d \in Doers, BringsUp(d), proc' = proc PROVE DInv'
<1>0. /\ LifeShape /\ FilesShape /\ AppShape /\ app \in Apps /\ act \in [Doers -> Doing]
      /\ act[d].at = "bringing" /\ "watching" \in Ats
  BY DEF DInv, AppShape, ActShape, BringsUp, Ats
<1>1. CASE Up /\ act' = [act EXCEPT ![d] = NoAct] /\ UNCHANGED life
           /\ app' = [app EXCEPT !.shows = "external", !.child = None]
  <2>1. ActShape' /\ OwnerInv'
    BY <1>0, <1>1, EndStep
  <2>2. AppShape'
    BY <1>0, <1>1, ShowsAll, AppSet
  <2>3. LifeShape' /\ FilesShape' /\ \A x \in Daemons : Holding(x)' <=> Holding(x)
    BY <1>0, <1>1 DEF BringsUp, LifeShape, FilesShape, Holding
  <2> QED BY <2>1, <2>2, <2>3, LifeOnly
<1>2. ASSUME NEW c \in Children, Dead(c), life' = [life EXCEPT ![c] = "starting"], UNCHANGED app,
             act' = [act EXCEPT ![d].at = "watching", ![d].plan = {c}]
      PROVE  DInv'
  <2>1. c \in Daemons
    BY DEF Daemons
  <2>2. LifeShape' /\ \A x \in Daemons : Holding(x)' <=> Holding(x)
    BY <1>0, <1>2, <2>1, StartsIs
  <2> DEFINE plan == {c}
  <2>3. /\ plan \in SUBSET Daemons /\ act' = [act EXCEPT ![d].at = "watching", ![d].plan = plan]
        /\ plan = {c}
    BY <1>2, <2>1
  <2> HIDE DEF plan
  <2>4. Turns(act, [act EXCEPT ![d].at = "watching", ![d].plan = plan],
              d, act[d].does, "watching", plan, act[d].saw, act[d].alone)
    BY <1>0, <2>3, AtPlanSet
  <2>5. Turns(act, act', d, act[d].does, "watching", plan, act[d].saw, act[d].alone)
    BY <2>3, <2>4
  <2>6. OwnsAt(act[d].at, act[d].plan)'
    BY <2>5 DEF OwnsAt, OwnsIn, Turns
  <2>7. ActShape' /\ OwnerInv'
    BY <1>0, <2>3, <2>5, <2>6, DoerStep DEF Turns
  <2>8. FilesShape' /\ AppShape'
    BY <1>0, <1>2 DEF BringsUp, FilesShape, AppShape
  <2> QED BY <2>2, <2>7, <2>8, LifeOnly
<1> QED BY <1>1, <1>2 DEF BringsUp

LEMMA WatchesStep == ASSUME DInv, NEW d \in Doers, Watches(d), proc' = proc PROVE DInv'
<1>0. /\ LifeShape /\ FilesShape /\ app \in Apps
      /\ act[d].at = "watching" /\ act' = [act EXCEPT ![d] = NoAct]
  BY DEF DInv, AppShape, Watches
<1>1. ActShape' /\ OwnerInv'
  BY <1>0, EndStep
<1>2. (CHOOSE c \in act[d].plan : TRUE) \in Children
  <2>1. PICK c \in Children : act[d].plan = {c}
    BY <1>0 DEF DInv, ActShape
  <2> QED BY <2>1
<1>3. AppShape'
  <2>1. CASE app' = [app EXCEPT !.shows = "failed", !.child = None]
    BY <1>0, <2>1, ShowsAll, AppSet
  <2>2. CASE app' = [app EXCEPT !.shows = "spawned", !.child = CHOOSE c \in act[d].plan : TRUE]
    <3> DEFINE child == CHOOSE c \in act[d].plan : TRUE
    <3>1. child \in Children /\ app' = [app EXCEPT !.shows = "spawned", !.child = child]
      BY <1>2, <2>2
    <3>2. child # None
      BY <3>1, LifecycleAssumption DEF Daemons
    <3> HIDE DEF child
    <3> QED BY <1>0, <3>1, <3>2, ShowsAll, AppSet
  <2> QED BY <2>1, <2>2 DEF Watches
<1>4. LifeShape' /\ FilesShape' /\ \A x \in Daemons : Holding(x)' <=> Holding(x)
  BY <1>0 DEF Watches, LifeShape, FilesShape, Holding
<1> QED BY <1>1, <1>3, <1>4, LifeOnly

LEMMA SettlesStep == ASSUME DInv, NEW d \in Doers, Settles(d), proc' = proc PROVE DInv'
<1>0. /\ LifeShape /\ FilesShape /\ AppShape /\ app \in Apps
      /\ act[d].at = "settling" /\ "bringing" \in Ats \ {"watching"}
  BY DEF DInv, AppShape, Settles, Ats
<1>1. CASE To(d, "bringing") /\ UNCHANGED app
  <2>1. OwnsIn(loaded', life', "bringing", act[d].plan)
    BY DEF OwnsIn
  <2>2. ActShape' /\ OwnerInv'
    BY <1>0, <1>1, <2>1, ToStep
  <2> QED BY <1>1, <2>2, ActOnly DEF Settles
<1>2. CASE /\ act' = [act EXCEPT ![d] = NoAct]
           /\ app' = [app EXCEPT !.shows = "failed", !.child = None]
  <2>1. ActShape' /\ OwnerInv'
    BY <1>0, <1>2, EndStep
  <2>2. AppShape'
    BY <1>0, <1>2, ShowsAll, AppSet
  <2>3. LifeShape' /\ FilesShape' /\ \A x \in Daemons : Holding(x)' <=> Holding(x)
    BY <1>0 DEF Settles, LifeShape, FilesShape, Holding
  <2> QED BY <2>1, <2>2, <2>3, LifeOnly
<1> QED BY <1>1, <1>2 DEF Settles

LEMMA AppGoesOnStep == ASSUME DInv, NEW d \in Doers, AppGoesOn(d), proc' = proc PROVE DInv'
BY BringsUpStep, WatchesStep, ReapsStep, SettlesStep DEF AppGoesOn

(* Who else is at something is not alone in it any more. *)
LEMMA Accompanied ==
    ASSUME NEW r \in Doing, NEW s, s = [r EXCEPT !.alone = FALSE]
    PROVE  /\ s \in Doing /\ s.at = r.at /\ s.does = r.does /\ s.plan = r.plan /\ s.alone = FALSE
           /\ r = NoAct => s = NoAct
<1> DEFINE a == [asked |-> r.asked, does |-> r.does, at |-> r.at, plan |-> r.plan, saw |-> r.saw,
                 shell |-> r.shell, alone |-> FALSE]
<1>1. a \in Doing /\ s = a
  BY DEF Doing
<1>2. a.at = r.at /\ a.does = r.does /\ a.plan = r.plan /\ a.alone = FALSE
  OBVIOUS
<1>3. r = NoAct => a = NoAct
  BY DEF NoAct
<1> HIDE DEF a
<1> QED BY <1>1, <1>2, <1>3

LEMMA Detached ==
    ASSUME NEW r \in Doing, NEW s, s = [r EXCEPT !.shell = TRUE, !.alone = FALSE]
    PROVE  /\ s \in Doing /\ s.at = r.at /\ s.does = r.does /\ s.plan = r.plan /\ s.alone = FALSE
<1> DEFINE a == [asked |-> r.asked, does |-> r.does, at |-> r.at, plan |-> r.plan, saw |-> r.saw,
                 shell |-> TRUE, alone |-> FALSE]
<1>1. a \in Doing /\ s = a
  BY DEF Doing
<1>2. a.at = r.at /\ a.does = r.does /\ a.plan = r.plan /\ a.alone = FALSE
  OBVIOUS
<1> HIDE DEF a
<1> QED BY <1>1, <1>2

(* What a doer's act may become when another one takes something up. *)
Yields(r, s) ==
    s \in Doing /\ ~s.alone /\ (s = NoAct \/ (s.at = r.at /\ s.does = r.does /\ s.plan = r.plan))

LEMMA YieldsStep ==
    ASSUME DInv, NEW x \in Doers, Yields(act[x], act'[x])
    PROVE  /\ OwnerOf(x)'
           /\ act'[x].at = "watching" => \E c \in Children : act'[x].plan = {c}
<1>1. OwnerOf(x) /\ (act[x].at = "watching" => \E c \in Children : act[x].plan = {c})
  BY DEF DInv, OwnerInv, ActShape
<1> QED BY <1>1, NoActIs DEF Yields, OwnerOf, Installs

LEMMA BeginsStep ==
    ASSUME DInv, NEW d \in Doers, NEW does \in Does, NEW at \in {"looking", "bringing", "reaping"},
           NEW plan \in SUBSET Daemons, Begins(d, does, at, plan)
    PROVE  ActShape' /\ OwnerInv'
<1> DEFINE alone == \A y \in Doers : act[y] = NoAct
           new == [asked |-> does, does |-> does, at |-> at, plan |-> plan, saw |-> "absent",
                   shell |-> d = "person", alone |-> alone]
<1>0. act \in [Doers -> Doing] /\ at \in Ats /\ "absent" \in Plists
  BY DEF DInv, ActShape, Ats, Plists
<1>1. alone \in BOOLEAN /\ (d = "person") \in BOOLEAN
  OBVIOUS
<1>2. act' = [x \in Doers |-> IF x = d THEN new ELSE [act[x] EXCEPT !.alone = FALSE]]
  BY DEF Begins
<1>3. new \in Doing /\ new.at = at /\ new.does = does /\ new.plan = plan /\ new.alone = alone
  <2> HIDE DEF alone
  <2> QED BY <1>0, <1>1 DEF Doing
<1>4. alone => \A y \in Doers : act[y] = NoAct
  OBVIOUS
<1> HIDE DEF alone, new
<1>5. act'[d] = new
  BY <1>2
<1>6. ASSUME NEW x \in Doers \ {d}
      PROVE  Yields(act[x], act'[x]) /\ (act[x] = NoAct => act'[x] = NoAct)
  <2>1. act'[x] = [act[x] EXCEPT !.alone = FALSE]
    BY <1>2
  <2>2. act[x] \in Doing
    BY <1>0
  <2> QED BY <2>1, <2>2, Accompanied DEF Yields
<1>7. act' \in [Doers -> Doing]
  BY <1>2, <1>3, <1>5, <1>6 DEF Yields
<1>8. ASSUME NEW x \in Doers
      PROVE  /\ OwnerOf(x)'
             /\ act'[x].at = "watching" => \E c \in Children : act'[x].plan = {c}
  <2>1. CASE x = d
    <3>1. OwnsAt(act[d].at, act[d].plan)'
      BY <1>3, <1>5 DEF OwnsAt, OwnsIn
    <3> QED BY <1>3, <1>4, <1>5, <1>6, <2>1, <3>1 DEF OwnerOf
  <2>2. CASE x # d
    BY <1>6, <2>2, YieldsStep
  <2> QED BY <2>1, <2>2
<1> QED BY <1>7, <1>8 DEF ActShape, OwnerInv

LEMMA TypesStep == ASSUME DInv, NEW does \in Does, Types(does), proc' = proc PROVE DInv'
<1> DEFINE none == {}
<1>1. /\ none \in SUBSET Daemons /\ Begins("person", does, "looking", none) /\ "person" \in Doers
  BY DEF Types, Doers
<1> HIDE DEF none
<1>2. ActShape' /\ OwnerInv'
  BY <1>1, BeginsStep
<1> QED BY <1>2, ActOnly DEF Types

LEMMA LaunchStep == ASSUME DInv, Launch, proc' = proc PROVE DInv'
<1> DEFINE none == {}
<1>1. /\ none \in SUBSET Daemons /\ Begins("launch", "launch", "bringing", none)
      /\ "launch" \in Doers /\ "launch" \in Does
  BY DEF Launch, Doers, Does
<1> HIDE DEF none
<1>2. ActShape' /\ OwnerInv'
  BY <1>1, BeginsStep
<1>3. AppShape'
  BY AppOpened DEF Launch
<1>4. LifeShape' /\ FilesShape' /\ \A x \in Daemons : Holding(x)' <=> Holding(x)
  BY DEF DInv, Launch, LifeShape, FilesShape, Holding
<1> QED BY <1>2, <1>3, <1>4, LifeOnly

LEMMA PressedStep ==
    ASSUME DInv, NEW does \in Does, NEW at \in {"looking", "bringing", "reaping"},
           NEW plan \in SUBSET Daemons, Pressed(does, at, plan), proc' = proc,
           (app.shows = "spawned" /\ life' = Told({app.child})) \/ UNCHANGED life
    PROVE  DInv'
<1>1. Begins("page", does, at, plan) /\ "page" \in Doers
  BY DEF Pressed, Doers
<1>2. ActShape' /\ OwnerInv'
  BY <1>1, BeginsStep
<1>3. AppShape'
  BY ShowsAll, AppSet DEF Pressed, DInv, AppShape
<1>4. LifeShape' /\ \A x \in Daemons : Holding(x)' <=> Holding(x)
  <2>1. CASE life' = Told({app.child})
    BY <2>1, ToldIs DEF DInv
  <2>2. CASE UNCHANGED life
    BY <2>2 DEF DInv, LifeShape, Holding
  <2> QED BY <2>1, <2>2
<1>5. FilesShape'
  BY DEF Pressed, DInv, FilesShape
<1> QED BY <1>2, <1>3, <1>4, <1>5, LifeOnly

(* The page's buttons: our child is told to stop first, or nothing is. *)
LEMMA ButtonStep ==
    ASSUME DInv, NEW does \in Does, proc' = proc,
           \/ /\ app.shows = "spawned" /\ Pressed(does, "reaping", {app.child})
              /\ life' = Told({app.child})
           \/ Pressed(does, "looking", {}) /\ UNCHANGED life
           \/ Pressed(does, "bringing", {}) /\ UNCHANGED life
    PROVE  DInv'
<1>1. CASE /\ app.shows = "spawned" /\ Pressed(does, "reaping", {app.child})
           /\ life' = Told({app.child})
  <2> DEFINE plan == {app.child}
  <2>1. plan \in SUBSET Daemons /\ Pressed(does, "reaping", plan)
    BY <1>1, ChildIs DEF DInv
  <2> HIDE DEF plan
  <2> QED BY <1>1, <2>1, PressedStep
<1>2. CASE Pressed(does, "looking", {}) /\ UNCHANGED life
  <2> DEFINE plan == {}
  <2>1. plan \in SUBSET Daemons /\ Pressed(does, "looking", plan)
    BY <1>2
  <2> HIDE DEF plan
  <2> QED BY <1>2, <2>1, PressedStep
<1>3. CASE Pressed(does, "bringing", {}) /\ UNCHANGED life
  <2> DEFINE plan == {}
  <2>1. plan \in SUBSET Daemons /\ Pressed(does, "bringing", plan)
    BY <1>3
  <2> HIDE DEF plan
  <2> QED BY <1>3, <2>1, PressedStep
<1> QED BY <1>1, <1>2, <1>3

LEMMA ButtonsStep ==
    ASSUME DInv, RestartPressed \/ LoginPressed \/ RebuildPressed, proc' = proc PROVE DInv'
<1>0. {"restart", "uninstall", "takeover", "rebuild"} \subseteq Does
  BY DEF Does, Commands
<1>1. CASE RestartPressed
  <2>1. \/ /\ app.shows = "spawned" /\ Pressed("restart", "reaping", {app.child})
           /\ life' = Told({app.child})
        \/ Pressed("restart", "looking", {}) /\ UNCHANGED life
        \/ Pressed("restart", "bringing", {}) /\ UNCHANGED life
    BY <1>1 DEF RestartPressed
  <2> QED BY <1>0, <2>1, ButtonStep
<1>2. CASE LoginPressed
  <2>1. \/ Pressed("uninstall", "looking", {}) /\ UNCHANGED life
        \/ /\ app.shows = "spawned" /\ Pressed("takeover", "reaping", {app.child})
           /\ life' = Told({app.child})
        \/ Pressed("takeover", "looking", {}) /\ UNCHANGED life
    BY <1>2 DEF LoginPressed
  <2>2. CASE Pressed("uninstall", "looking", {}) /\ UNCHANGED life
    BY <1>0, <2>2, ButtonStep
  <2>3. CASE \/ /\ app.shows = "spawned" /\ Pressed("takeover", "reaping", {app.child})
                /\ life' = Told({app.child})
             \/ Pressed("takeover", "looking", {}) /\ UNCHANGED life
    BY <1>0, <2>3, ButtonStep
  <2> QED BY <2>1, <2>2, <2>3
<1>3. CASE RebuildPressed
  <2>1. \/ /\ app.shows = "spawned" /\ Pressed("rebuild", "reaping", {app.child})
           /\ life' = Told({app.child})
        \/ Pressed("rebuild", "looking", {}) /\ UNCHANGED life
    BY <1>3 DEF RebuildPressed
  <2> QED BY <1>0, <2>1, ButtonStep
<1> QED BY <1>1, <1>2, <1>3

LEMMA QuitStep == ASSUME DInv, Quit, proc' = proc PROVE DInv'
<1>0. act \in [Doers -> Doing] /\ LifeShape /\ FilesShape
  BY DEF DInv, ActShape
<1>1. ASSUME NEW x \in Doers PROVE Yields(act[x], act'[x])
  <2>0. act[x] \in Doing
    BY <1>0
  <2>1. CASE x = "person"
    <3>1. act'[x] = [act[x] EXCEPT !.alone = FALSE]
      BY <2>1 DEF Quit
    <3> QED BY <2>0, <3>1, Accompanied DEF Yields
  <2>2. CASE x # "person" /\ act[x].at \in {"out", "bringing", "watching", "reaping", "settling"}
    <3>1. act'[x] = NoAct
      BY <2>2 DEF Quit
    <3> QED BY <3>1, NoActIs DEF Yields
  <2>3. CASE x # "person" /\ act[x].at \notin {"out", "bringing", "watching", "reaping", "settling"}
    <3>1. act'[x] = [act[x] EXCEPT !.shell = TRUE, !.alone = FALSE]
      BY <2>3 DEF Quit
    <3> QED BY <2>0, <3>1, Detached DEF Yields
  <2> QED BY <2>1, <2>2, <2>3
<1>2. act' \in [Doers -> Doing]
  <2>1. DOMAIN act' = Doers /\ act' = [x \in Doers |-> act'[x]]
    BY DEF Quit
  <2> QED BY <1>1, <2>1 DEF Yields
<1>3. ActShape' /\ OwnerInv'
  BY <1>1, <1>2, YieldsStep DEF ActShape, OwnerInv
<1>4. LifeShape' /\ \A x \in Daemons : Holding(x)' <=> Holding(x)
  <2>1. CASE life' = Told({app.child})
    BY <1>0, <2>1, ToldIs
  <2>2. CASE UNCHANGED life
    BY <1>0, <2>2 DEF LifeShape, Holding
  <2> QED BY <2>1, <2>2 DEF Quit
<1>5. AppShape' /\ FilesShape'
  BY <1>0, AppClosed DEF Quit, FilesShape
<1> QED BY <1>3, <1>4, <1>5, LifeOnly

LEMMA TerminalStep == ASSUME DInv, TerminalServes, proc' = proc PROVE DInv'
<1>0. act \in [Doers -> Doing] /\ LifeShape /\ FilesShape /\ AppShape /\ "terminal" \in Daemons
  BY DEF DInv, ActShape, Daemons
<1>1. ASSUME NEW x \in Doers PROVE Yields(act[x], act'[x])
  <2>1. act'[x] = [act[x] EXCEPT !.alone = FALSE] /\ act[x] \in Doing
    BY <1>0 DEF TerminalServes
  <2> QED BY <2>1, Accompanied DEF Yields
<1>2. act' \in [Doers -> Doing]
  <2>1. act' = [x \in Doers |-> act'[x]]
    BY DEF TerminalServes
  <2> QED BY <1>1, <2>1 DEF Yields
<1>3. ActShape' /\ OwnerInv'
  BY <1>1, <1>2, YieldsStep DEF ActShape, OwnerInv
<1>4. LifeShape' /\ \A x \in Daemons : Holding(x)' <=> Holding(x)
  BY <1>0, StartsIs DEF TerminalServes
<1>5. AppShape' /\ FilesShape'
  BY <1>0 DEF TerminalServes, FilesShape, AppShape
<1> QED BY <1>3, <1>4, <1>5, LifeOnly

LEMMA AppReadsStep == ASSUME DInv, Heals \/ SettlesExited, proc' = proc PROVE DInv'
<1>0. AppShape /\ app \in Apps
  BY DEF DInv, AppShape
<1>1. AppShape'
  <2>1. CASE Heals
    <3>1. app.child = None /\ app' = [app EXCEPT !.shows = "external"]
      BY <1>0, <2>1 DEF Heals, AppShape
    <3> QED BY <1>0, <3>1, ShowsAll DEF AppShape, Apps
  <2>2. CASE SettlesExited
    BY <1>0, <2>2, ShowsAll, AppSet DEF SettlesExited
  <2> QED BY <2>1, <2>2
<1>2. UNCHANGED <<life, loaded, plist, aside, pidfile, act>>
  BY DEF Heals, SettlesExited
<1>3. ActShape' /\ OwnerInv'
  BY <1>2 DEF DInv, ActShape, OwnerInv, OwnerOf, OwnsAt
<1>4. LifeShape' /\ FilesShape' /\ \A x \in Daemons : Holding(x)' <=> Holding(x)
  BY <1>2 DEF DInv, LifeShape, FilesShape, Holding
<1> QED BY <1>1, <1>3, <1>4, LifeOnly

(* ------------------------------ the daemons --------------------------- *)

LEMMA JobRunsStep == ASSUME DInv, NEW j \in Jobs, JobRuns(j), proc' = proc PROVE DInv'
<1>1. LifeShape /\ FilesShape /\ AppShape /\ j \in Daemons
  BY DEF DInv, Daemons
<1>2. /\ LifeShape' /\ \A x \in Daemons : Holding(x)' <=> Holding(x)
      /\ \A x \in Daemons \ {j} : life'[x] = life[x]
  BY <1>1, StartsIs DEF JobRuns
<1>3. ActShape' /\ OwnerInv'
  BY <1>2, WorldStep DEF JobRuns, Dead
<1>4. FilesShape' /\ AppShape'
  BY <1>1 DEF JobRuns, FilesShape, AppShape
<1> QED BY <1>2, <1>3, <1>4, LifeOnly

LEMMA FailsStep == ASSUME DInv, NEW d \in Daemons, DFails(d), proc' = proc PROVE DInv'
<1>1. LifeShape /\ FilesShape /\ AppShape
  BY DEF DInv
<1>2. LifeShape' /\ \A x \in Daemons : Holding(x)' <=> Holding(x)
  BY <1>1 DEF DFails, LifeShape, Lives, Holding
<1>3. ActShape' /\ OwnerInv'
  BY <1>1, <1>2, WorldStep DEF DFails, Dead, LifeShape
<1>4. FilesShape' /\ AppShape'
  BY <1>1 DEF DFails, FilesShape, AppShape
<1> QED BY <1>2, <1>3, <1>4, LifeOnly

LEMMA ServeStep ==
    ASSUME DInv, NEW d \in Daemons, DServe(d), proc = "down", proc' = "serving" PROVE DInv'
<1>1. LifeShape /\ FilesShape /\ AppShape /\ HolderInv
  BY DEF DInv
<1>2. LifeShape'
  BY <1>1 DEF DServe, LifeShape, Lives
<1>3. HolderInv'
  BY <1>1 DEF DServe, LifeShape, HolderInv, Holding, Serving
<1>4. ActShape' /\ OwnerInv'
  BY <1>1, <1>2, WorldStep DEF DServe, Dead, LifeShape
<1>5. FilesShape' /\ AppShape'
  BY <1>1 DEF DServe, FilesShape, AppShape
<1> QED BY <1>2, <1>3, <1>4, <1>5 DEF DInv

LEMMA StopStep ==
    ASSUME DInv, NEW d \in Daemons, DStop(d), Serving, proc' = "down" PROVE DInv'
<1>1. LifeShape /\ FilesShape /\ AppShape /\ HolderInv
  BY DEF DInv
<1>2. LifeShape'
  BY <1>1 DEF DStop, LifeShape, Lives
<1>3. HolderInv'
  BY <1>1 DEF DStop, LifeShape, HolderInv, Holding, Serving
<1>4. ActShape' /\ OwnerInv'
  BY <1>1, <1>2, WorldStep DEF DStop, Dead, LifeShape
<1>5. FilesShape' /\ AppShape'
  BY <1>1 DEF DStop, FilesShape, AppShape
<1> QED BY <1>2, <1>3, <1>4, <1>5 DEF DInv

LEMMA LifecycleFrame == ASSUME DInv, UNCHANGED dvars, Serving' <=> Serving PROVE DInv'
BY DEF DInv, dvars, AppShape, FilesShape, LifeShape, ActShape, HolderInv, Holding, OwnerInv,
       OwnerOf, OwnsAt

LEMMA LifecycleStep == ASSUME DInv, agenda \in Agendas, DNext, proc' = proc PROVE DInv'
<1>1. agenda.commands \subseteq Does
  BY LifecycleAssumption DEF Does
<1>2. CASE \E d \in Doers : Command(d) \/ AppGoesOn(d)
  BY <1>2, CommandStep, AppGoesOnStep
<1>3. CASE \E d \in Daemons : Loses(d)
  BY <1>3, FailsStep DEF Loses
<1>4. CASE \E does \in agenda.commands : Types(does)
  BY <1>1, <1>4, TypesStep
<1> QED BY <1>2, <1>3, <1>4, JobRunsStep, LaunchStep, ButtonsStep, QuitStep, TerminalStep,
           AppReadsStep DEF DNext

(* What a step of the machine is to the daemons and to who runs them. *)
LEMMA LifecycleKeeps == agenda \in Agendas /\ DInv /\ [Next]_vars => DInv'
<1> SUFFICES ASSUME agenda \in Agendas, DInv, [Next]_vars PROVE DInv'
  OBVIOUS
<1>1. CASE \E d \in Daemons : Serve(d) \/ Declines(d) \/ Stop(d)
  BY <1>1, ServeStep, FailsStep, StopStep
  DEF Serve, Declines, Stop, TakesStore, LeavesStore, Serving
<1>2. CASE \E d \in Doers : Resets(d)
  BY <1>2, ResetStep DEF Resets
<1>3. CASE ToolDone \/ ToolStops \/ \E does \in {"rekey", "migrate"} : Tool(does)
  <2>1. UNCHANGED dvars /\ (Serving' <=> Serving)
    <3>1. CASE ToolDone
      BY <3>1 DEF ToolDone, ToolEnds, Serving, LeavesStore
    <3>2. CASE ToolStops
      BY <3>2 DEF ToolStops, Serving, LeavesStore
    <3>3. CASE \E does \in {"rekey", "migrate"} : Tool(does)
      BY <3>3 DEF Tool, Serving, TakesStore
    <3> QED BY <1>3, <3>1, <3>2, <3>3
  <2> QED BY <2>1, LifecycleFrame
<1>4. CASE DNext /\ UNCHANGED <<proc, agenda, mvars, lvars, bvars>>
  BY <1>4, LifecycleStep
<1>5. CASE UNCHANGED dvars /\ proc' = proc
  BY <1>5, LifecycleFrame DEF Serving
<1> QED BY <1>1, <1>2, <1>3, <1>4, <1>5 DEF Next, vars

LEMMA LifecycleInvariant == Spec => []DInv
<1>1. Init => agenda \in Agendas /\ DInv
  BY LifecycleInit DEF Init
<1> QED BY <1>1, LifecycleKeeps, AgendaOne, PTL DEF Spec

(* An install that nobody interferes with ends with one owner: what it     *)
(* found it retired, what it had not retired was not starting, it went on  *)
(* only when the store was free, and so nothing but its own job is left.   *)
THEOREM AnInstallOwns == Spec => []OneOwner
<1>1. DInv => OneOwner
  BY DEF DInv, OwnerInv, OwnerOf, OwnsAt, OwnsIn, Installs, OneOwner, Ended, Dead
<1> QED BY <1>1, LifecycleInvariant, PTL
===============================================================================
