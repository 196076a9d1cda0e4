--------------------------------- MODULE Bridge --------------------------------
(***************************************************************************)
(* A client's stdio, relayed to the daemon over one session the bridge     *)
(* holds for it.  The daemon's sessions are in its memory, so a restart    *)
(* loses them: the first request refused for it replays the client's       *)
(* handshake, the others wait and use the session it opened, and each is   *)
(* sent once more.  Several requests are relayed at once.                  *)
(*                                                                         *)
(* The daemon here is what the bridge sees of it: an answer, an event      *)
(* stream that ends without one, an answer that breaks off, a 404 for a    *)
(* session it does not know, or a connection nothing accepts.              *)
(***************************************************************************)
EXTENDS StoreHolder, Integers, FiniteSets

CONSTANTS Requests

ASSUME BridgeAssumption == None \notin Requests

VARIABLES
    sessions,  \* the daemon's: an id, and whether `initialized` reached it
    session,   \* the bridge's: an id and the generation it is of
    request,   \* where each request is, and the session and generation it saw
    reopening, \* the request that holds the reopening, or None
    ran,       \* history: how often the daemon ran each request
    answers    \* replies written to the client for each request

bvars == <<sessions, session, request, reopening, ran, answers>>

(* The client has been through its handshake, with an earlier daemon, and  *)
(* sends requests with an id; those without are not answered at all.       *)
BInit ==
    /\ sessions = {} /\ session = [id |-> 0, generation |-> 0]
    /\ request = [r \in Requests |-> [at |-> "out", id |-> 0, generation |-> 0]]
    /\ reopening = None
    /\ ran = [r \in Requests |-> 0] /\ answers = [r \in Requests |-> 0]

BServe == UNCHANGED bvars

(* The daemon stops: it forgets its sessions, and what it was answering    *)
(* breaks off, unless the answer is through.                               *)
BStop ==
    /\ sessions' = {}
    /\ \E through \in SUBSET {r \in Requests : request[r].at \in {"running", "opened", "notified"}} :
           request' = [r \in Requests |->
               IF request[r].at \in {"running", "opened", "notified"} /\ r \notin through
               THEN [request[r] EXCEPT !.at = "broken"] ELSE request[r]]
    /\ UNCHANGED <<session, reopening, ran, answers>>

Relay(r, from, to) == request[r].at = from /\ request' = [request EXCEPT ![r].at = to]

Known(id) == \E s \in sessions : s.id = id

Release(r) == reopening' = IF reopening = r THEN None ELSE reopening

(* A slip: an early return leaves the reopening held. *)
FailHolding(r, from) ==
    /\ Relay(r, from, "done")
    /\ answers' = [answers EXCEPT ![r] = @ + 1]
    /\ UNCHANGED <<sessions, session, reopening, ran>>

(* An error the client is told instead of an answer. *)
Fail(r, from) ==
    /\ Relay(r, from, "done")
    /\ answers' = [answers EXCEPT ![r] = @ + 1]
    /\ Release(r)
    /\ UNCHANGED <<sessions, session, ran>>

(* ------------------------------- forwarding ---------------------------- *)

Send(r) ==
    /\ r \in agenda.requests /\ request[r].at = "out"
    /\ request' = [request EXCEPT ![r] =
           [at |-> "sent", id |-> session.id, generation |-> session.generation]]
    /\ UNCHANGED <<sessions, session, reopening, ran, answers>>

(* The daemon takes a request of a session it knows ... *)
Runs(r) ==
    /\ Serving /\ Known(request[r].id)
    /\ Relay(r, "sent", "running") \/ Relay(r, "again", "running")
    /\ ran' = [ran EXCEPT ![r] = @ + 1]
    /\ UNCHANGED <<sessions, session, reopening, answers>>

(* ... and refuses another's, which is reopened the first time. *)
Refused(r) ==
    /\ Serving /\ ~Known(request[r].id)
    /\ \/ Relay(r, "sent", "reopen") /\ UNCHANGED <<sessions, session, reopening, ran, answers>>
       \/ Fail(r, "again")

Answer(r) ==
    /\ Relay(r, "running", "done")
    /\ answers' = [answers EXCEPT ![r] = @ + 1]
    /\ UNCHANGED <<sessions, session, reopening, ran>>

(* A slip: no message in the answer is no message for the client. *)
EmptySilent(r) ==
    Relay(r, "running", "done") /\ UNCHANGED <<sessions, session, reopening, ran, answers>>

(* The event stream closed before its message: the client is told. *)
Empty(r) == Fail(r, "running")

(* A slip: what broke off is sent again. *)
BrokenAgain(r) ==
    /\ Relay(r, "broken", "reopen") /\ Release(r)
    /\ UNCHANGED <<sessions, session, ran, answers>>

(* An answer that breaks off may be of what ran: the client is told. *)
Broken(r) == Fail(r, "broken")

(* Nothing accepts the connection for as long as a post waits. *)
Unreachable(r) ==
    /\ ~Serving
    /\ Fail(r, "sent") \/ Fail(r, "again") \/ Fail(r, "opening") \/ Fail(r, "notifying")

(* ------------------------------- reopening ----------------------------- *)

(* A slip: a request whose session is gone opens another, whoever did. *)
ReopenAnyway(r) ==
    /\ reopening = None /\ Relay(r, "reopen", "opening") /\ reopening' = r
    /\ UNCHANGED <<sessions, session, ran, answers>>

(* One at a time: if the session is still the one this request saw, its    *)
(* handshake is replayed; else another has done so.                        *)
Reopen(r) ==
    /\ reopening = None
    /\ IF session.generation = request[r].generation
       THEN Relay(r, "reopen", "opening") /\ reopening' = r
       ELSE Relay(r, "reopen", "resend") /\ UNCHANGED reopening
    /\ UNCHANGED <<sessions, session, ran, answers>>

(* The replayed initialize makes a session, named as none was before. *)
Open(r) ==
    LET id == session.generation + 1
    IN  /\ Serving /\ request[r].at = "opening"
        /\ sessions' = sessions \cup {[id |-> id, initialized |-> FALSE]}
        /\ request' = [request EXCEPT ![r].at = "opened", ![r].id = id]
        /\ UNCHANGED <<session, reopening, ran, answers>>

SetSession(r) ==
    /\ Relay(r, "opened", "notifying")
    /\ session' = [id |-> request[r].id, generation |-> session.generation + 1]
    /\ UNCHANGED <<sessions, reopening, ran, answers>>

(* The replayed `initialized`; its session may be gone already. *)
Notify(r) ==
    /\ Serving
    /\ IF Known(request[r].id)
       THEN /\ Relay(r, "notifying", "notified")
            /\ sessions' = {[s EXCEPT !.initialized = @ \/ s.id = request[r].id] : s \in sessions}
            /\ UNCHANGED <<session, reopening, ran, answers>>
       ELSE Fail(r, "notifying")

Notified(r) ==
    /\ Relay(r, "notified", "resend") /\ Release(r)
    /\ UNCHANGED <<sessions, session, ran, answers>>

(* The request once more, on the session there is now. *)
Resend(r) ==
    /\ request[r].at = "resend"
    /\ request' = [request EXCEPT ![r].at = "again", ![r].id = session.id]
    /\ UNCHANGED <<sessions, session, reopening, ran, answers>>

Relays(r) ==
    \/ Runs(r) \/ Refused(r) \/ Answer(r) \/ Empty(r) \/ Broken(r) \/ Unreachable(r)
    \/ Reopen(r) \/ Open(r) \/ SetSession(r) \/ Notify(r) \/ Notified(r) \/ Resend(r)

BNext == \E r \in Requests : Send(r) \/ Relays(r)

(* The bridge's tasks run on, and a daemon that serves answers. *)
BFairness == \A r \in Requests : WF_bvars(Relays(r))

(* ------------------------------ properties ----------------------------- *)

(* No request runs twice, though it is sent again for a session that was   *)
(* lost: a write is not applied twice by a daemon that died answering it.  *)
RanOnce == \A r \in Requests : ran[r] <= 1

(* Requests that meet a lost session together open one session between     *)
(* them: the daemon never holds two for one client, and while none is      *)
(* being opened, the one it holds was told it is initialized.              *)
OneSession ==
    /\ Cardinality(sessions) <= 1
    /\ reopening = None => \A s \in sessions : s.initialized

(* Every request is answered, once, whatever becomes of the daemon: no     *)
(* client waits for an id nobody will answer.                              *)
Answered == \A r \in Requests : request[r].at = "sent" ~> [](answers[r] = 1)
===============================================================================
