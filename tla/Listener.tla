-------------------------------- MODULE Listener -------------------------------
(***************************************************************************)
(* The hub's listener: who may connect, and whether it listens.  Both are  *)
(* copies in memory of what the configuration file and the invitations     *)
(* say.  Acts change the file or the invitation and notify a loop, which   *)
(* refreshes the copies; an invitation and the start refresh them too, and *)
(* the console's narrowing replaces the directory itself.  A refresh reads *)
(* the file before it waits for its turn.                                  *)
(*                                                                         *)
(* The address is not a loopback one, so the bind rule asks for TLS and    *)
(* something admitted.                                                     *)
(***************************************************************************)
EXTENDS StoreHolder, Integers, FiniteSets

CONSTANTS Machines  \* that may be admitted

(* Who refreshes: the start, the loop, and an invitation in the making. *)
Tasks == {"start", "follow", "invite"}

(* Who is admitted: a machine with all the workspaces it was allowed, or    *)
(* with some of them since a narrowing.                                    *)
Allowlist == [Machines -> {"no", "some", "all"}]
Nobody == [m \in Machines |-> "no"]

(* The [server] section: its certificate, None without one, and allowlist. *)
Config == [tls : {None, 1, 2}, allow : Allowlist]

ASSUME ListenerAssumption ==
    /\ None \notin {1, 2} \cup Config \cup Tasks
    /\ \A a \in Agendas : a.file \in Config \cup {None}

VARIABLES
    file,      \* [server] in the configuration file, or None
    invited,   \* the invitation: "open", "expired" while recorded as open, or "no"
    directory, \* who the running hub admits
    listening, \* the certificate the bound listener runs with, or None
    state,     \* what the daemon says of its listener
    task,      \* where each refresh is, and the configuration it read
    turn,      \* the refresh that applies, or None
    changed,   \* the loop's permit
    narrow,    \* where the narrowing is, and the configuration it read back
    edits      \* acts on the file still to come

lvars == <<file, invited, directory, listening, state, task, turn, changed, narrow, edits>>

Idle == [at |-> "out", conf |-> None]
Unborn == [at |-> "unborn", conf |-> None] \* the loop, until the hub is built

NoTask == [t \in Tasks |-> IF t = "follow" THEN Unborn ELSE Idle]

LInit ==
    /\ file = agenda.file /\ invited = "no" /\ edits = agenda.edits
    /\ directory = Nobody /\ listening = None /\ state = FALSE
    /\ task = NoTask /\ turn = None /\ changed = FALSE /\ narrow = Idle

Goes(t, at) == task' = [task EXCEPT ![t].at = at]

(* A daemon with a [server] section builds its hub and applies it; the     *)
(* others' first invitation does.                                          *)
LServe ==
    /\ task' = IF file = None THEN task
               ELSE [task EXCEPT !["start"] = [at |-> "queued", conf |-> file], !["follow"] = Idle]
    /\ UNCHANGED <<file, invited, directory, listening, state, turn, changed, narrow, edits>>

LStop ==
    /\ directory' = Nobody /\ listening' = None /\ state' = FALSE
    /\ task' = NoTask /\ turn' = None /\ changed' = FALSE /\ narrow' = Idle
    /\ UNCHANGED <<file, invited, edits>>

(* ------------------- acts on the file and the invitation --------------- *)

(* What an act changes, the notice it gives, and nothing of the listener.  *)
Acted(conf, open, notice) ==
    /\ Serving /\ edits > 0 /\ edits' = edits - 1
    /\ file' = conf /\ invited' = open /\ changed' = (changed \/ notice)
    /\ UNCHANGED <<directory, listening, state, turn, narrow>>

(* A hub that admits no machine makes an invitation, with a certificate    *)
(* and a [server] section if it has none, and refreshes.                   *)
Invite ==
    /\ task["invite"].at = "out"
    /\ IF file = None THEN Acted([tls |-> 1, allow |-> Nobody], "open", TRUE)
       ELSE file.allow = Nobody /\ Acted(file, "open", TRUE)
    /\ task' = [task EXCEPT !["invite"].at = "reading",
                            !["follow"] = IF @ = Unborn THEN Idle ELSE @]

(* Allow admits the machine and uses the invitation up. *)
Allow(m) ==
    /\ invited = "open" /\ file # None /\ Acted([file EXCEPT !.allow[m] = "all"], "no", TRUE)
    /\ UNCHANGED task

(* A slip: an invitation that closes tells nobody. *)
CloseUnsaid == invited = "open" /\ Acted(file, "no", FALSE) /\ UNCHANGED task

(* Deny and Cancel close it. *)
Close == invited = "open" /\ Acted(file, "no", TRUE) /\ UNCHANGED task

(* Its time comes, whatever runs. *)
Expires ==
    /\ invited = "open" /\ invited' = "expired"
    /\ UNCHANGED <<file, directory, listening, state, task, turn, changed, narrow, edits>>

Remove(m) ==
    /\ file # None /\ file.allow[m] # "no"
    /\ Acted([file EXCEPT !.allow[m] = "no"], invited, TRUE)
    /\ UNCHANGED task

(* A person gives the listener another certificate by hand, or none, or    *)
(* takes the section out; what is written by hand is read at the next      *)
(* refresh.                                                                *)
Edit(conf) ==
    /\ file # None /\ Acted(conf, invited, FALSE)
    /\ UNCHANGED task

(* The console narrows a machine's grant: the file, ... *)
Narrow(m) ==
    /\ narrow = Idle /\ directory # Nobody /\ file # None /\ file.allow[m] = "all"
    /\ Serving /\ edits > 0 /\ edits' = edits - 1
    /\ file' = [file EXCEPT !.allow[m] = "some"]
    /\ narrow' = [Idle EXCEPT !.at = "written"]
    /\ UNCHANGED <<invited, directory, listening, state, task, turn, changed>>

(* ... its reading back, ... *)
NarrowReads ==
    /\ narrow.at = "written"
    /\ narrow' = IF file = None THEN Idle ELSE [at |-> "read", conf |-> file]
    /\ UNCHANGED <<file, invited, directory, listening, state, task, turn, changed, edits>>

(* ... and the directory, from what was read. *)
NarrowApplies ==
    /\ narrow.at = "read" /\ directory' = narrow.conf.allow /\ narrow' = Idle
    /\ UNCHANGED <<file, invited, listening, state, task, turn, changed, edits>>

(* -------------------------------- refreshes ---------------------------- *)

FollowWakes ==
    /\ Serving /\ changed /\ task["follow"].at = "out"
    /\ changed' = FALSE /\ Goes("follow", "reading")
    /\ UNCHANGED <<file, invited, directory, listening, state, turn, narrow, edits>>

(* The loop waits for the expiry too, and records it. *)
FollowExpires ==
    /\ Serving /\ invited = "expired" /\ task["follow"].at = "out"
    /\ invited' = "no" /\ changed' = TRUE /\ Goes("follow", "reading")
    /\ UNCHANGED <<file, directory, listening, state, turn, narrow, edits>>

Read(t) ==
    /\ task[t].at = "reading"
    /\ task' = [task EXCEPT ![t] = [at |-> "queued", conf |-> file]]
    /\ UNCHANGED <<file, invited, directory, listening, state, turn, changed, narrow, edits>>

(* A refresh ends: what runs, what is said of it, and the turn. *)
Ends(t, cert) ==
    /\ listening' = cert /\ state' = (cert # None)
    /\ task' = [task EXCEPT ![t] = Idle] /\ turn' = None

(* A slip: refreshes do not wait for each other. *)
TakeAnyTurn(t) ==
    /\ task[t].at = "queued"
    /\ IF task[t].conf = None THEN Ends(t, None) /\ UNCHANGED directory
       ELSE /\ directory' = task[t].conf.allow /\ turn' = t /\ Goes(t, "deciding")
            /\ UNCHANGED <<listening, state>>
    /\ UNCHANGED <<file, invited, changed, narrow, edits>>

(* Its turn: with no [server] it closes; else the directory is the file's. *)
Take(t) ==
    /\ task[t].at = "queued" /\ turn = None
    /\ IF task[t].conf = None THEN Ends(t, None) /\ UNCHANGED directory
       ELSE /\ directory' = task[t].conf.allow /\ turn' = t /\ Goes(t, "deciding")
            /\ UNCHANGED <<listening, state>>
    /\ UNCHANGED <<file, invited, changed, narrow, edits>>

Wanted(conf) == conf.tls # None /\ (directory # Nobody \/ invited = "open")

(* The bind rule: close, keep, or - its socket released first - open. *)
Decide(t) ==
    LET conf == task[t].conf
    IN  /\ task[t].at = "deciding"
        /\ \/ ~Wanted(conf) /\ Ends(t, None)
           \/ Wanted(conf) /\ listening = conf.tls /\ Ends(t, listening)
           \/ /\ Wanted(conf) /\ listening # conf.tls
              /\ listening' = None /\ Goes(t, "binding") /\ UNCHANGED <<state, turn>>
        /\ UNCHANGED <<file, invited, directory, changed, narrow, edits>>

(* It binds, or finds the address taken. *)
Bind(t) ==
    /\ task[t].at = "binding"
    /\ \/ listening = None /\ Ends(t, task[t].conf.tls)
       \/ /\ state' = FALSE /\ task' = [task EXCEPT ![t] = Idle] /\ turn' = None
          /\ UNCHANGED listening
    /\ UNCHANGED <<file, invited, directory, changed, narrow, edits>>

Refresh(t) == Read(t) \/ Take(t) \/ Decide(t) \/ Bind(t)

LNext ==
    \/ Invite \/ Close \/ NarrowReads \/ NarrowApplies
    \/ Expires \/ FollowWakes \/ FollowExpires
    \/ \E m \in Machines : Allow(m) \/ Remove(m) \/ Narrow(m)
    \/ Edit(None) \/ \E cert \in {None, 1, 2} : file # None /\ Edit([file EXCEPT !.tls = cert])
    \/ \E t \in Tasks : Refresh(t)

(* Time passes; the loop, the refreshes and the console's handler run on.  *)
LFairness ==
    /\ WF_lvars(Expires) /\ WF_lvars(FollowWakes \/ FollowExpires)
    /\ WF_lvars(NarrowReads \/ NarrowApplies)
    /\ \A t \in Tasks : WF_lvars(Refresh(t))

(* ------------------------------ properties ----------------------------- *)

(* With no refresh in its turn, the daemon says it listens when it does:   *)
(* no two refreshes bind, one losing and saying so while the other runs.   *)
StateIsTrue == turn = None => state = (listening # None)

(* A listener open for an invitation alone admits a machine or closes,     *)
(* however the invitation ends - used, denied, cancelled or expired, the   *)
(* last of which nobody does - and though other acts keep coming.          *)
ClosesUninvited ==
    (listening # None /\ invited = "open" /\ directory = Nobody) ~>
        (listening = None \/ directory # Nobody)
===============================================================================
