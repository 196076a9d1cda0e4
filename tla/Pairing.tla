------------------------------- MODULE Pairing -------------------------------
(***************************************************************************)
(* How a machine joins a hub with a one-time code, and leaves it.  The hub *)
(* keeps three files: its invitations, the machines pairing admitted, and  *)
(* the configuration with its allowlist.  An act of the hub's daemon holds *)
(* one lock and writes them in turn; the joining machine's command, another *)
(* process, writes its own configuration and a record beside it.           *)
(*                                                                         *)
(* Abstracted: the three words and the proof are the pair of code and key, *)
(* the credential minted by an Allow is the code it answered; workspaces,  *)
(* certificates and the hubs' keys are left out.  A machine runs one       *)
(* joining or leaving command at a time, and every clock agrees.           *)
(***************************************************************************)
EXTENDS Naturals, FiniteSets

CONSTANTS
    Machines,
    Codes,     \* invitations that may be made, numbered as a hub makes them
    Maker,     \* the hub that makes each
    Addresses, \* where each code says its hub answers
    Tries,     \* the codes a person may bring to each machine, a bound
    None,
    MaxFaults  \* stops, failed writes and lost answers, together

ASSUME PairingAssumption ==
    /\ Codes \subseteq Nat
    /\ Maker \in [Codes -> Machines]
    /\ None \notin Machines /\ None \notin Codes
    /\ \A c \in Codes : None \notin Addresses[c]
    /\ Tries \in [Machines -> SUBSET Codes]
    /\ MaxFaults \in Nat

VARIABLES
    book,     \* invites.toml: each invitation
    expired,  \* the codes whose expiry has passed
    allow,    \* the allowlist entries in each hub's configuration
    joined,   \* peers.toml: the machines pairing admitted, by which code
    acting,   \* the act a hub's daemon is in, holding the lock
    inviting, \* the invitation being made, before the lock is taken
    shown,    \* the request the hub's person was last shown
    link,     \* the hub entry of a machine's configuration, by its code
    url,      \* the address in that entry
    sidecar,  \* by hub, the address in a machine's record of its join
    cli,      \* a machine's joining or leaving command
    answered, \* history: requests the hub's person answered Allow to
    torn,     \* history: codes whose Allow stopped between its writes
    unkept,   \* history: machines whose entry's join has not recorded it
    faults

hub == <<book, allow, joined, acting, inviting, shown, answered>>
kept == <<link, url, sidecar, unkept>>
joiner == <<kept, cli>>
vars == <<hub, joiner, expired, torn, faults>>

States == {"unmade", "open", "used", "denied", "cancelled", "ended", "expired"}

Invite == [state : States, request : Machines \cup {None}, answer : BOOLEAN]
Unmade == [state |-> "unmade", request |-> None, answer |-> FALSE]

Entry == [node : Machines, cred : Codes]
Ask == [code : Codes, node : Machines]
Address == UNION {Addresses[c] : c \in Codes}
NoAsk == [code |-> None, node |-> None]

Idle == [at |-> "idle", code |-> None, node |-> None]
Out == [at |-> "out", on |-> None]

Init ==
    /\ book = [c \in Codes |-> Unmade]
    /\ expired = {}
    /\ allow = [m \in Machines |-> {}]
    /\ joined = [m \in Machines |-> {}]
    /\ acting = [m \in Machines |-> Idle]
    /\ inviting = [m \in Machines |-> None]
    /\ shown = [m \in Machines |-> NoAsk]
    /\ link = [m \in Machines |-> None]
    /\ url = [m \in Machines |-> None]
    /\ sidecar = [m \in Machines |-> [h \in Machines |-> None]]
    /\ cli = [m \in Machines |-> Out]
    /\ answered = {} /\ torn = {} /\ unkept = {} /\ faults = 0

Fault == faults < MaxFaults /\ faults' = faults + 1
Free(h) == acting[h] = Idle

(* --------------------------- what a hub reads -------------------------- *)

(* An invitation as every act reads it: closed past its expiry, its answer *)
(* dropped then.  An act that writes the file back writes it as read, which *)
(* no later read tells apart, so that part of its write is left out.       *)
Read(c) ==
    LET i == book[c]
        late == i.state = "open" /\ c \in expired
    IN  [i EXCEPT !.state = IF late THEN "expired" ELSE @,
                  !.answer = @ /\ c \notin expired]

Open(h) == {c \in Codes : Maker[c] = h /\ Read(c).state = "open"}

(* A slip: a hub that admits a machine still takes another. *)
AdmitsNoneEver(h) == TRUE

AdmitsNone(h) == allow[h] = {}

MayInvite(h) == link[h] = None /\ AdmitsNone(h)

MayAdmit(h, n) ==
    link[h] = None /\ (\A e \in allow[h] : e.node # n) /\ AdmitsNone(h)

MayJoin(m) == link[m] = None /\ allow[m] = {}

(* ------------------------------- the hub ------------------------------- *)

(* Who may invite is checked before the lock is taken. *)
InviteAsked(h, c) ==
    /\ Maker[c] = h /\ book[c] = Unmade /\ inviting[h] = None
    /\ \A d \in Codes : Maker[d] = h /\ d < c => book[d] # Unmade
    /\ MayInvite(h)
    /\ inviting' = [inviting EXCEPT ![h] = c]
    /\ UNCHANGED <<book, allow, joined, acting, shown, answered, joiner, expired,
                   torn, faults>>

(* One open at a time: the new invitation cancels the open one. *)
InviteMade(h) ==
    /\ inviting[h] # None /\ Free(h)
    /\ book' = [c \in Codes |->
           IF c = inviting[h] THEN [Unmade EXCEPT !.state = "open"]
           ELSE IF c \in Open(h) THEN [book[c] EXCEPT !.state = "cancelled"]
           ELSE book[c]]
    /\ inviting' = [inviting EXCEPT ![h] = None]
    /\ UNCHANGED <<allow, joined, acting, shown, answered, joiner, expired, torn,
                   faults>>

(* A slip: an open invitation is shown before a machine has asked. *)
StatusUnasked(h) ==
    /\ Free(h)
    /\ \E c \in Open(h) :
        shown' = [shown EXCEPT ![h] = [code |-> c, node |-> Read(c).request]]
    /\ UNCHANGED <<book, allow, joined, acting, inviting, answered, joiner, expired,
                   torn, faults>>

(* The person is shown the open invitation's request. *)
Status(h) ==
    /\ Free(h)
    /\ \E c \in Open(h) : LET asked == Read(c).request IN
        /\ asked # None
        /\ shown' = [shown EXCEPT ![h] = [code |-> c, node |-> asked]]
    /\ UNCHANGED <<book, allow, joined, acting, inviting, answered, joiner, expired,
                   torn, faults>>

(* A slip: the answer goes to whatever request is open. *)
AnswerableAny(h, ask) ==
    \E c \in Open(h) : Read(c).request # None

(* The open invitation's request is still the one that was shown. *)
Answerable(h, ask) ==
    ask.code \in Open(h) /\ Read(ask.code).request = ask.node

(* Allow, first write: the allowlist entry, checked again under the        *)
(* configuration's lock.  The answer was made before.                      *)
Allow(h) ==
    LET ask == shown[h]
    IN  /\ Free(h) /\ ask # NoAsk /\ Answerable(h, ask)
        /\ \E c \in Open(h) : LET n == Read(c).request IN
            /\ MayAdmit(h, n)
            /\ allow' = [allow EXCEPT ![h] = @ \cup {[node |-> n, cred |-> c]}]
            /\ acting' = [acting EXCEPT ![h] =
                   [at |-> "record", code |-> c, node |-> n]]
        /\ answered' = answered \cup {ask}
        /\ UNCHANGED <<book, joined, inviting, shown, joiner, expired, torn, faults>>

(* Second write: the machine is recorded as one pairing admitted. *)
AllowRecord(h) ==
    /\ acting[h].at = "record"
    /\ joined' = [joined EXCEPT ![h] =
           @ \cup {[node |-> acting[h].node, cred |-> acting[h].code]}]
    /\ acting' = [acting EXCEPT ![h].at = "answer"]
    /\ UNCHANGED <<book, allow, inviting, shown, answered, joiner, expired, torn,
                   faults>>

(* A slip: the invitation is read again, and one that has expired since is *)
(* left as it is.                                                          *)
AllowAnswerIfOpen(h) ==
    LET c == acting[h].code
    IN  /\ acting[h].at = "answer"
        /\ book' = [book EXCEPT ![c] =
               IF Read(c).state = "open"
               THEN [@ EXCEPT !.state = "used", !.answer = TRUE] ELSE @]
        /\ acting' = [acting EXCEPT ![h] = Idle]
        /\ UNCHANGED <<allow, joined, inviting, shown, answered, joiner, expired,
                       torn, faults>>

(* A slip: the answer is not kept. *)
AllowAnswerOnce(h) ==
    LET c == acting[h].code
    IN  /\ acting[h].at = "answer"
        /\ book' = [book EXCEPT ![c].state = "used"]
        /\ acting' = [acting EXCEPT ![h] = Idle]
        /\ UNCHANGED <<allow, joined, inviting, shown, answered, joiner, expired,
                       torn, faults>>

(* Last write: the invitation is used and its answer kept for the asker. *)
AllowAnswer(h) ==
    LET c == acting[h].code
    IN  /\ acting[h].at = "answer"
        /\ book' = [book EXCEPT ![c].state = "used", ![c].answer = TRUE]
        /\ acting' = [acting EXCEPT ![h] = Idle]
        /\ UNCHANGED <<allow, joined, inviting, shown, answered, joiner, expired,
                       torn, faults>>

(* Deny answers the request shown; cancel ends the open one whatever it is. *)
Close(h, state) ==
    /\ Free(h)
    /\ \E c \in Open(h) :
        /\ state = "denied" => shown[h] # NoAsk /\ Answerable(h, shown[h])
        /\ book' = [book EXCEPT ![c].state = state]
    /\ UNCHANGED <<allow, joined, acting, inviting, shown, answered, joiner,
                   expired, torn, faults>>

Recorded(h, n) == {j \in joined[h] : j.node = n}

(* Removing takes the entry out of the configuration first, ... *)
RemoveEntry(h, n) ==
    /\ Free(h) /\ Recorded(h, n) # {}
    /\ allow' = [allow EXCEPT ![h] = {e \in @ : e.node # n}]
    /\ acting' = [acting EXCEPT ![h] = [Idle EXCEPT !.at = "remove", !.node = n]]

Remove(h, n) ==
    /\ RemoveEntry(h, n)
    /\ UNCHANGED <<book, joined, inviting, shown, answered, joiner, expired, torn,
                   faults>>

(* ... and the first record of the machine then. *)
RemoveRecord(h) ==
    /\ acting[h].at = "remove"
    /\ joined' = [joined EXCEPT ![h] =
           {j \in @ : \E k \in Recorded(h, acting[h].node) :
               j.node # acting[h].node \/ k.cred < j.cred}]
    /\ acting' = [acting EXCEPT ![h] = Idle]
    /\ UNCHANGED <<book, allow, inviting, shown, answered, joiner, expired, torn,
                   faults>>

(* An Allow that stopped between its writes. *)
Torn(h) == IF acting[h].at \in {"record", "answer"}
           THEN torn \cup {acting[h].code} ELSE torn

(* The next write fails: the act ends with the error and goes no further. *)
WriteFails(h) ==
    /\ ~Free(h) /\ Fault
    /\ acting' = [acting EXCEPT ![h] = Idle]
    /\ torn' = Torn(h)
    /\ UNCHANGED <<book, allow, joined, inviting, shown, answered, joiner, expired>>

(* The daemon stops and starts again: what it had in hand is gone. *)
DaemonStops(h) ==
    /\ ~Free(h) \/ inviting[h] # None
    /\ Fault
    /\ acting' = [acting EXCEPT ![h] = Idle]
    /\ inviting' = [inviting EXCEPT ![h] = None]
    /\ torn' = Torn(h)
    /\ UNCHANGED <<book, allow, joined, shown, answered, joiner, expired>>

(* ------------------------- the joining machine ------------------------- *)

CliBecomes(m, at, on) == cli' = [cli EXCEPT ![m] = [at |-> at, on |-> on]]

(* The person brings code c to machine m. *)
JoinStart(m, c) ==
    /\ cli[m] = Out /\ c \in Tries[m] /\ book[c].state # "unmade" /\ c \notin expired
    /\ MayJoin(m)
    /\ CliBecomes(m, "preview", c)
    /\ UNCHANGED <<hub, kept, expired, torn, faults>>

(* What the code would grant; only an open or a used one is asked further. *)
Preview(m) ==
    LET c == cli[m].on
    IN  /\ cli[m].at = "preview" /\ Free(Maker[c])
        /\ IF Read(c).state \in {"open", "used"}
           THEN CliBecomes(m, "ask", c) ELSE cli' = [cli EXCEPT ![m] = Out]
        /\ UNCHANGED <<hub, kept, expired, torn, faults>>

(* The answer to a join call arrives, or the connection fails and the same *)
(* request is made again.                                                  *)
Heard(m, becomes) ==
    \/ cli' = [cli EXCEPT ![m] = becomes] /\ UNCHANGED faults
    \/ Fault /\ UNCHANGED cli

Asking(m, c) == cli[m] = [at |-> "ask", on |-> c] /\ Free(Maker[c])

(* A slip: the kept answer goes to whoever has the code. *)
IsAnswerToAny(c, m) == Read(c).state = "used" /\ Read(c).answer

(* The kept answer is for the key the request came with. *)
IsAnswerTo(c, m) ==
    Read(c).state = "used" /\ Read(c).answer /\ Read(c).request = m

JoinAllowed(m, c) ==
    /\ Asking(m, c) /\ IsAnswerTo(c, m)
    /\ Heard(m, [at |-> "write", on |-> c])
    /\ UNCHANGED <<hub, kept, expired, torn>>

(* A closed invitation says what became of it. *)
JoinTold(m, c) ==
    /\ Asking(m, c) /\ Read(c).state # "open" /\ ~IsAnswerTo(c, m)
    /\ Heard(m, Out)
    /\ UNCHANGED <<hub, kept, expired, torn>>

(* A machine the hub could never admit is not shown. *)
Refused(h, m) == m = h \/ ~AdmitsNone(h)

JoinRefused(m, c) ==
    /\ Asking(m, c) /\ Read(c).state = "open" /\ Read(c).request = None
    /\ Refused(Maker[c], m)
    /\ Heard(m, Out)
    /\ UNCHANGED <<hub, kept, expired, torn>>

(* The first request is held and repeated; it waits for the person. *)
JoinPending(m, c) ==
    /\ Asking(m, c) /\ Read(c).state = "open"
    /\ \/ Read(c).request = m
       \/ Read(c).request = None /\ ~Refused(Maker[c], m)
    /\ book' = [book EXCEPT ![c].request = m]
    /\ UNCHANGED <<allow, joined, acting, inviting, shown, answered, joiner,
                   expired, torn, faults>>

(* Another key with the same code ends the invitation. *)
JoinSecond(m, c) ==
    /\ Asking(m, c) /\ Read(c).state = "open"
    /\ Read(c).request \notin {None, m}
    /\ book' = [book EXCEPT ![c].state = "ended"]
    /\ Heard(m, Out)
    /\ UNCHANGED <<allow, joined, acting, inviting, shown, answered, kept,
                   expired, torn>>

(* The hub has not answered by the code's expiry. *)
JoinGivesUp(m) ==
    /\ cli[m].at = "ask" /\ cli[m].on \in expired
    /\ cli' = [cli EXCEPT ![m] = Out]
    /\ UNCHANGED <<hub, kept, expired, torn, faults>>

(* The hub's entry, under the configuration's lock: only a hub written     *)
(* meanwhile refuses it.  Its address is the one of the code's that the    *)
(* preview reached, which no step looks at before this one.                *)
WriteJoin(m) ==
    /\ cli[m].at = "write"
    /\ IF link[m] = None
       THEN /\ link' = [link EXCEPT ![m] = cli[m].on]
            /\ \E a \in Addresses[cli[m].on] : url' = [url EXCEPT ![m] = a]
            /\ unkept' = unkept \cup {m}
            /\ CliBecomes(m, "record", cli[m].on)
       ELSE cli' = [cli EXCEPT ![m] = Out] /\ UNCHANGED <<link, url, unkept>>
    /\ UNCHANGED <<hub, sidecar, expired, torn, faults>>

Recording(m, a) ==
    /\ cli[m].at = "record"
    /\ sidecar' = [sidecar EXCEPT ![m][Maker[cli[m].on]] = a]
    /\ unkept' = unkept \ {m}
    /\ cli' = [cli EXCEPT ![m] = Out]
    /\ UNCHANGED <<hub, link, url, expired, torn, faults>>

(* A slip: the record an earlier join of this hub left is kept. *)
WriteSidecarOnce(m) ==
    LET old == sidecar[m][Maker[cli[m].on]]
    IN  Recording(m, IF old = None THEN url[m] ELSE old)

(* The join's record, in place of an earlier one of the same hub. *)
WriteSidecar(m) == Recording(m, url[m])

LinkedAt(m, a) == link[m] # None /\ url[m] = a

(* Leaving finds the entry by the address in its record, and asks the hub  *)
(* of that entry to remove this machine, by its credential, whether or not *)
(* the hub can, ...                                                        *)
LeaveStart(m, h) ==
    /\ cli[m] = Out /\ sidecar[m][h] # None
    /\ CliBecomes(m, "edit", h)
    /\ \/ UNCHANGED <<allow, acting>>
       \/ /\ LinkedAt(m, sidecar[m][h])
          /\ \E e \in allow[Maker[link[m]]] :
              e.cred = link[m] /\ RemoveEntry(Maker[link[m]], e.node)
    /\ UNCHANGED <<book, joined, inviting, shown, answered, kept, expired, torn,
                   faults>>

(* ... then takes the entry at that address out of its own configuration ... *)
LeaveEdit(m) ==
    LET gone == LinkedAt(m, sidecar[m][cli[m].on])
    IN  /\ cli[m].at = "edit"
        /\ link' = [link EXCEPT ![m] = IF gone THEN None ELSE @]
        /\ url' = [url EXCEPT ![m] = IF gone THEN None ELSE @]
        /\ unkept' = IF gone THEN unkept \ {m} ELSE unkept
        /\ CliBecomes(m, "forget", cli[m].on)
        /\ UNCHANGED <<hub, sidecar, expired, torn, faults>>

(* ... and its record away. *)
LeaveForget(m) ==
    /\ cli[m].at = "forget"
    /\ sidecar' = [sidecar EXCEPT ![m][cli[m].on] = None]
    /\ cli' = [cli EXCEPT ![m] = Out]
    /\ UNCHANGED <<hub, link, url, unkept, expired, torn, faults>>

(* The command is stopped wherever it is. *)
CliStops(m) ==
    /\ cli[m] # Out /\ Fault
    /\ cli' = [cli EXCEPT ![m] = Out]
    /\ UNCHANGED <<hub, kept, expired, torn>>

Expire(c) ==
    /\ book[c].state # "unmade" /\ c \notin expired
    /\ expired' = expired \cup {c}
    /\ UNCHANGED <<hub, joiner, torn, faults>>

(* -------------------------- specification ------------------------------ *)

(* What the hub's person does, a daemon's act in progress, a command's     *)
(* steps once it is started.                                               *)
PersonStep(h) ==
    \/ \E c \in Codes : InviteAsked(h, c)
    \/ Status(h) \/ Allow(h)
    \/ \E state \in {"denied", "cancelled"} : Close(h, state)
    \/ \E n \in Machines : Remove(h, n)

HubStep(h) ==
    InviteMade(h) \/ AllowRecord(h) \/ AllowAnswer(h) \/ RemoveRecord(h)

CliStep(m) ==
    \/ Preview(m)
    \/ \E c \in Codes :
        \/ JoinAllowed(m, c) \/ JoinTold(m, c) \/ JoinRefused(m, c)
        \/ JoinPending(m, c) \/ JoinSecond(m, c)
    \/ JoinGivesUp(m) \/ WriteJoin(m) \/ WriteSidecar(m)
    \/ LeaveEdit(m) \/ LeaveForget(m)

Next ==
    \/ \E m \in Machines :
        \/ PersonStep(m) \/ HubStep(m) \/ WriteFails(m) \/ DaemonStops(m)
        \/ \E c \in Codes : JoinStart(m, c)
        \/ \E h \in Machines : LeaveStart(m, h)
        \/ CliStep(m) \/ CliStops(m)
    \/ \E c \in Codes : Expire(c)

Spec == Init /\ [][Next]_vars

(* ---------------------------- properties ------------------------------- *)

TypeOK ==
    /\ book \in [Codes -> Invite]
    /\ expired \in SUBSET Codes
    /\ allow \in [Machines -> SUBSET Entry]
    /\ joined \in [Machines -> SUBSET Entry]
    /\ acting \in [Machines ->
           [at : {"idle", "record", "answer", "remove"},
            code : Codes \cup {None}, node : Machines \cup {None}]]
    /\ inviting \in [Machines -> Codes \cup {None}]
    /\ shown \in [Machines -> Ask \cup {NoAsk}]
    /\ link \in [Machines -> Codes \cup {None}]
    /\ url \in [Machines -> Address \cup {None}]
    /\ sidecar \in [Machines -> [Machines -> Address \cup {None}]]
    /\ cli \in [Machines ->
           [at : {"preview", "ask", "write", "record"}, on : Codes]
               \cup [at : {"edit", "forget"}, on : Machines] \cup {Out}]
    /\ answered \in SUBSET Ask /\ torn \in SUBSET Codes /\ unkept \in SUBSET Machines
    /\ faults \in Nat

(* A hub admits a machine only by an Allow its person gave to that         *)
(* machine's request under that code, as it was shown to them: not to a    *)
(* request or an invitation that has taken its place since.                *)
AllowedAsShown ==
    \A h \in Machines : \A e \in allow[h] :
        [code |-> e.cred, node |-> e.node] \in answered

(* One code lets in one machine: no two machines hold a hub's entry by the *)
(* same code, and none holds one by a code that admitted another.          *)
OneMachinePerCode ==
    \A m \in Machines : link[m] # None =>
        /\ \A n \in Machines : link[n] = link[m] => n = m
        /\ \A e \in allow[Maker[link[m]]] : e.cred = link[m] => e.node = m

(* A hub admits one machine, over every code it makes and every act that   *)
(* stops half way.                                                         *)
OneAdmitted == \A h \in Machines : Cardinality(allow[h]) <= 1

(* While the hub is not in the middle of an act, a machine is admitted by  *)
(* an invitation that says so, or one whose Allow was cut short.           *)
AdmittedIsAnswered ==
    \A h \in Machines : \A e \in allow[h] :
        acting[h].at \in {"idle", "remove"} =>
            e.cred \in torn \/ Read(e.cred).state = "used"

(* The same without the exception: an Allow that fails or is stopped       *)
(* leaves nothing admitted.                                                *)
AllowIsWhole ==
    \A h \in Machines : \A e \in allow[h] :
        acting[h].at \in {"idle", "remove"} =>
            Read(e.cred).state = "used"

(* A machine that admits another does not sync with a hub itself. *)
HubOrJoined == \A m \in Machines : link[m] = None \/ allow[m] = {}

(* The machine that was allowed is not turned away while its code is good: *)
(* a lost answer, or a hub that stopped since, keeps its answer for it.    *)
AllowedIsAnswered ==
    [][\A m \in Machines, c \in Codes :
        /\ cli[m] = [at |-> "ask", on |-> c] /\ cli'[m] = Out
        /\ Read(c).state = "used" /\ Read(c).request = m /\ c \notin expired
        => faults' # faults]_vars

LinkedTo(m, h) == link[m] # None /\ Maker[link[m]] = h

(* A leave drops its record of a hub only when no entry of the hub is left *)
(* in the configuration, wherever joins and leaves stop, over rejoins and  *)
(* whatever addresses they went through.  One entry escapes it: that of a  *)
(* join cut before its own record, under an address an older record lacks. *)
LeavesNothing ==
    [][\A m, h \in Machines :
        /\ sidecar[m][h] # None /\ sidecar'[m][h] = None
        /\ LinkedTo(m, h)
        => m \in unkept /\ url[m] # sidecar[m][h]]_vars
=============================================================================
