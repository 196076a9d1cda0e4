----------------------------- MODULE PairingProofs -----------------------------
(* Pairing keeps its promises on the hub's side and the joiner's for any   *)
(* machines, codes and faults.                                             *)
EXTENDS Pairing, FiniteSetTheorems, TLAPS

(* ---------------------- the inductive invariant ------------------------ *)

(* A code being made is its hub's, and new. *)
Inviting ==
    \A h \in Machines : inviting[h] # None =>
        Maker[inviting[h]] = h /\ book[inviting[h]] = Unmade

OneEntry == \A h \in Machines : \A e, f \in allow[h] : e = f

(* A hub has one open invitation. *)
OneOpen == \A h \in Machines : \A c, d \in Open(h) : c = d

(* A hub in the middle of an Allow has written its entry. *)
Allowing(h) == acting[h].at \in {"record", "answer"}

Holding ==
    \A h \in Machines : Allowing(h) =>
        /\ acting[h].code \in Codes /\ acting[h].node \in Machines
        /\ [node |-> acting[h].node, cred |-> acting[h].code] \in allow[h]

(* An entry is for the request its code holds, which the person was shown; *)
(* and the Allow that wrote it is complete, under way, or was cut short.   *)
Granted(h, n, c) ==
    /\ Maker[c] = h /\ book[c].request = n /\ [code |-> c, node |-> n] \in answered
    /\ \/ c \in torn
       \/ book[c].state = "used"
       \/ Allowing(h) /\ acting[h].code = c

Grants ==
    \A h, n \in Machines, c \in Codes :
        [node |-> n, cred |-> c] \in allow[h] => Granted(h, n, c)

(* A machine's hub entry, and one it is about to write, is by a code that  *)
(* holds its own request.                                                  *)
Joins ==
    \A m \in Machines :
        /\ link[m] # None => book[link[m]].request = m
        /\ cli[m].at \in {"write", "record"} => book[cli[m].on].request = m

(* An invitation's answer is kept with its use. *)
Answers == \A c \in Codes : book[c].state = "used" => book[c].answer

IInv ==
    /\ TypeOK /\ Inviting /\ OneOpen /\ Answers
    /\ OneEntry /\ Holding /\ Grants /\ Joins

(* ------------------------------- reading ------------------------------- *)

(* An entry is some hub's. *)
LEMMA LinkedHub ==
    ASSUME TypeOK, NEW m \in Machines, NEW a, LinkedAt(m, a)
    PROVE  Maker[link[m]] \in Machines
BY PairingAssumption DEF TypeOK, LinkedAt

LEMMA ReadFacts ==
    ASSUME TypeOK, NEW c \in Codes
    PROVE  /\ book[c] \in Invite
           /\ Read(c).request = book[c].request
           /\ Read(c).state = "used" <=> book[c].state = "used"
           /\ Read(c).state = "open" => book[c].state = "open"
           /\ Read(c).answer => book[c].answer
BY DEF TypeOK, Read, Invite

(* What a step never does to an invitation: change a request it holds,     *)
(* take back its use, or use it without an answer.                         *)
GoesOn(c) ==
    /\ book[c].request # None => book'[c].request = book[c].request
    /\ book[c].state = "used" => book'[c].state = "used"
    /\ book'[c].state = "used" => book'[c].answer

BookGoesOn == book' \in [Codes -> Invite] /\ \A c \in Codes : GoesOn(c)

(* A new code stays unmade and no invitation opens, unless one is made. *)
OpensNone ==
    \A c \in Codes :
        /\ book[c] = Unmade => book'[c] = Unmade
        /\ book'[c].state = "open" => book[c].state = "open"

LEMMA InviteMadeBook ==
    ASSUME IInv, NEW h \in Machines, InviteMade(h) PROVE BookGoesOn
<1>1. inviting[h] \in Codes /\ book[inviting[h]] = Unmade
  BY DEF IInv, TypeOK, Inviting, InviteMade
<1>2. ASSUME NEW c \in Codes PROVE book'[c] \in Invite /\ GoesOn(c)
  <2>1. CASE c = inviting[h]
    <3>1. book'[c] = [state |-> "open", request |-> None, answer |-> FALSE]
      BY <2>1 DEF InviteMade, Unmade
    <3>q. QED BY <1>1, <2>1, <3>1 DEF Unmade, Invite, States, GoesOn
  <2>2. CASE c # inviting[h] /\ c \in Open(h)
    BY <2>2, ReadFacts DEF IInv, InviteMade, Open, Invite, States, GoesOn
  <2>3. CASE c # inviting[h] /\ c \notin Open(h)
    BY <2>3, ReadFacts DEF IInv, InviteMade, Answers, GoesOn
  <2>q. QED BY <2>1, <2>2, <2>3
<1>q. QED BY <1>2 DEF InviteMade, BookGoesOn

(* The other writes change one invitation that was made before. *)
LEMMA OneWrite ==
    ASSUME IInv, NEW c \in Codes, NEW i \in Invite,
           book' = [book EXCEPT ![c] = i], book[c] # Unmade,
           book[c].request # None => i.request = book[c].request,
           book[c].state = "used" => i.state = "used",
           i.state = "used" => i.answer,
           i.state = "open" => book[c].state = "open"
    PROVE  BookGoesOn /\ OpensNone
<1>1. ASSUME NEW d \in Codes PROVE book'[d] \in Invite /\ GoesOn(d)
  <2>1. CASE d = c BY <2>1 DEF IInv, TypeOK, GoesOn
  <2>2. CASE d # c BY <2>2 DEF IInv, TypeOK, Answers, GoesOn
  <2>q. QED BY <2>1, <2>2
<1>2. OpensNone BY DEF IInv, TypeOK, OpensNone
<1>q. QED BY <1>1, <1>2 DEF IInv, TypeOK, BookGoesOn

LEMMA AllowAnswerBook ==
    ASSUME IInv, NEW h \in Machines, AllowAnswer(h) PROVE BookGoesOn /\ OpensNone
<1> DEFINE c == acting[h].code
           i == [book[c] EXCEPT !.state = "used", !.answer = TRUE]
<1>1. /\ c \in Codes /\ acting[h].node \in Machines
      /\ [node |-> acting[h].node, cred |-> c] \in allow[h]
  BY DEF IInv, Holding, Allowing, AllowAnswer
<1>2. book[c] \in Invite BY <1>1 DEF IInv, TypeOK
<1>3. i \in Invite /\ i.request = book[c].request /\ i.state = "used" /\ i.answer
  BY <1>2 DEF Invite, States
<1>4. book' = [book EXCEPT ![c] = i] BY <1>1, <1>2 DEF AllowAnswer, IInv, TypeOK, Invite
<1>5. book[c] # Unmade
  <2>1. Granted(h, acting[h].node, c) BY <1>1 DEF IInv, Grants
  <2>q. QED BY <1>1, <2>1, PairingAssumption DEF Granted, Unmade
<1>q. QED BY <1>1, <1>3, <1>4, <1>5, OneWrite

LEMMA StateWrite ==
    ASSUME IInv, NEW c \in Codes, NEW state \in States \ {"used", "open"},
           book[c].state = "open", book' = [book EXCEPT ![c].state = state]
    PROVE  BookGoesOn /\ OpensNone
<1> DEFINE i == [book[c] EXCEPT !.state = state]
<1>1. book[c] \in Invite BY DEF IInv, TypeOK
<1>2. i \in Invite /\ i.request = book[c].request /\ i.state \notin {"used", "open"}
  BY <1>1 DEF Invite, States
<1>3. book' = [book EXCEPT ![c] = i] BY DEF IInv, TypeOK
<1>4. book[c] # Unmade BY DEF Unmade
<1>q. QED BY <1>2, <1>3, <1>4, OneWrite

LEMMA CloseBook ==
    ASSUME IInv, NEW h \in Machines, NEW state \in {"denied", "cancelled"},
           Close(h, state)
    PROVE  BookGoesOn /\ OpensNone
<1>1. PICK c \in Open(h) : book' = [book EXCEPT ![c].state = state] BY DEF Close
<1>2. c \in Codes /\ book[c].state = "open" BY <1>1, ReadFacts DEF Open, IInv
<1>q. QED BY <1>1, <1>2, StateWrite DEF States

LEMMA JoinSecondBook ==
    ASSUME IInv, NEW m \in Machines, NEW c \in Codes, JoinSecond(m, c)
    PROVE  BookGoesOn /\ OpensNone
<1>1. book[c].state = "open" BY ReadFacts DEF IInv, JoinSecond
<1>q. QED BY <1>1, StateWrite DEF JoinSecond, States

LEMMA JoinPendingBook ==
    ASSUME IInv, NEW m \in Machines, NEW c \in Codes, JoinPending(m, c)
    PROVE  BookGoesOn /\ OpensNone
<1> DEFINE i == [book[c] EXCEPT !.request = m]
<1>1. book[c] \in Invite /\ book[c].state = "open" BY ReadFacts DEF IInv, JoinPending
<1>2. book[c].request = m \/ book[c].request = None
  BY ReadFacts DEF IInv, JoinPending
<1>3. i \in Invite /\ i.request = m /\ i.state = "open" BY <1>1 DEF Invite
<1>4. book' = [book EXCEPT ![c] = i] BY DEF JoinPending, IInv, TypeOK
<1>5. book[c] # Unmade BY <1>1 DEF Unmade
<1>q. QED BY <1>1, <1>2, <1>3, <1>4, <1>5, OneWrite

(* The steps that write an invitation. *)
WritesBook ==
    \/ \E h \in Machines : InviteMade(h)
    \/ \E h \in Machines : AllowAnswer(h)
    \/ \E h \in Machines, state \in {"denied", "cancelled"} : Close(h, state)
    \/ \E m \in Machines, c \in Codes : JoinPending(m, c)
    \/ \E m \in Machines, c \in Codes : JoinSecond(m, c)

LEMMA BookFrame == ASSUME Next PROVE WritesBook \/ UNCHANGED book
<1>1. ASSUME NEW h \in Machines, PersonStep(h) PROVE WritesBook \/ UNCHANGED book
  BY <1>1 DEF PersonStep, WritesBook, InviteAsked, Status, Allow, Remove, RemoveEntry
<1>2. ASSUME NEW h \in Machines, HubStep(h) PROVE WritesBook \/ UNCHANGED book
  BY <1>2 DEF HubStep, WritesBook, AllowRecord, RemoveRecord
<1>3. ASSUME NEW h \in Machines, WriteFails(h) \/ DaemonStops(h) PROVE UNCHANGED book
  BY <1>3 DEF WriteFails, DaemonStops
<1>4. ASSUME NEW m \in Machines, NEW c \in Codes, JoinStart(m, c) PROVE UNCHANGED book
  BY <1>4 DEF JoinStart, hub
<1>5. ASSUME NEW m \in Machines, NEW h \in Machines, LeaveStart(m, h)
      PROVE UNCHANGED book
  BY <1>5 DEF LeaveStart
<1>6. ASSUME NEW m \in Machines, CliStep(m) PROVE WritesBook \/ UNCHANGED book
  <2>1. CASE \E c \in Codes : JoinAllowed(m, c) \/ JoinTold(m, c) \/ JoinRefused(m, c)
    BY <2>1 DEF JoinAllowed, JoinTold, JoinRefused, hub
  <2>2. CASE Preview(m) \/ JoinGivesUp(m) \/ WriteJoin(m) \/ WriteSidecar(m)
             \/ LeaveEdit(m) \/ LeaveForget(m)
    BY <2>2 DEF Preview, JoinGivesUp, WriteJoin, WriteSidecar, Recording, LeaveEdit,
       LeaveForget, hub
  <2>q. QED BY <1>6, <2>1, <2>2 DEF CliStep, WritesBook
<1>7. ASSUME NEW m \in Machines, CliStops(m) PROVE UNCHANGED book
  BY <1>7 DEF CliStops, hub
<1>8. ASSUME NEW c \in Codes, Expire(c) PROVE UNCHANGED book
  BY <1>8 DEF Expire, hub
<1>q. QED BY <1>1, <1>2, <1>3, <1>4, <1>5, <1>6, <1>7, <1>8 DEF Next

LEMMA BookStep == ASSUME IInv, Next PROVE BookGoesOn
<1>1. CASE UNCHANGED book
  BY <1>1 DEF IInv, TypeOK, Answers, BookGoesOn, GoesOn
<1>2. CASE WritesBook
  BY <1>2, InviteMadeBook, AllowAnswerBook, CloseBook, JoinPendingBook,
     JoinSecondBook DEF WritesBook
<1>q. QED BY <1>1, <1>2, BookFrame

(* -------------------------- what a hub admits -------------------------- *)

Admits == OneEntry /\ Holding /\ Grants

LEMMA AskedAndShown ==
    ASSUME IInv, NEW h \in Machines, NEW c \in Open(h),
           shown[h] # NoAsk, Answerable(h, shown[h])
    PROVE  /\ c \in Codes /\ Maker[c] = h /\ Read(c).request \in Machines
           /\ book[c].request = Read(c).request
           /\ shown[h] = [code |-> c, node |-> Read(c).request]
<1>1. c = shown[h].code BY DEF Answerable, IInv, OneOpen
<1>2. shown[h] \in Ask BY DEF IInv, TypeOK
<1>3. c \in Codes /\ Maker[c] = h BY DEF Open
<1>4. Read(c).request = shown[h].node BY <1>1 DEF Answerable
<1>q. QED BY <1>1, <1>2, <1>3, <1>4, ReadFacts DEF IInv, Ask

LEMMA AllowAdmits ==
    ASSUME IInv, BookGoesOn, NEW h \in Machines, Allow(h) PROVE Admits'
<1>1. PICK c \in Open(h) : LET n == Read(c).request IN
         /\ MayAdmit(h, n)
         /\ allow' = [allow EXCEPT ![h] = @ \cup {[node |-> n, cred |-> c]}]
         /\ acting' = [acting EXCEPT ![h] =
                [at |-> "record", code |-> c, node |-> n]]
  BY DEF Allow
<1> DEFINE n == Read(c).request
           entry == [node |-> n, cred |-> c]
<1>2. /\ c \in Codes /\ Maker[c] = h /\ n \in Machines /\ book[c].request = n
      /\ shown[h] = [code |-> c, node |-> n]
  BY <1>1, AskedAndShown DEF Allow
<1>3. allow'[h] = {entry} /\ \A k \in Machines \ {h} : allow'[k] = allow[k]
  BY <1>1 DEF MayAdmit, AdmitsNone, IInv, TypeOK
<1>4. /\ acting'[h] = [at |-> "record", code |-> c, node |-> n]
      /\ \A k \in Machines \ {h} : acting'[k] = acting[k]
  BY <1>1 DEF IInv, TypeOK
<1>5. /\ answered' = answered \cup {[code |-> c, node |-> n]}
      /\ torn' = torn /\ book' = book
  BY <1>2 DEF Allow
<1> HIDE DEF n
<1>6. OneEntry' BY <1>3 DEF IInv, OneEntry
<1>7. Holding'
  <2>1. ASSUME NEW k \in Machines, Allowing(k)'
        PROVE  /\ acting'[k].code \in Codes /\ acting'[k].node \in Machines
               /\ [node |-> acting'[k].node, cred |-> acting'[k].code] \in allow'[k]
    <3>1. CASE k = h BY <3>1, <1>2, <1>3, <1>4
    <3>2. CASE k # h BY <3>2, <2>1, <1>3, <1>4 DEF IInv, Holding, Allowing
    <3>q. QED BY <3>1, <3>2
  <2>q. QED BY <2>1 DEF Holding
<1>8. Grants'
  <2>1. ASSUME NEW k \in Machines, NEW a \in Machines, NEW d \in Codes,
               [node |-> a, cred |-> d] \in allow'[k]
        PROVE  Granted(k, a, d)'
    <3>1. CASE k = h
      <4>1. a = n /\ d = c BY <3>1, <2>1, <1>3
      <4>q. QED BY <4>1, <3>1, <1>2, <1>4, <1>5 DEF Granted, Allowing
    <3>2. CASE k # h
      BY <3>2, <2>1, <1>3, <1>4, <1>5 DEF IInv, Grants, Granted, Allowing
    <3>q. QED BY <3>1, <3>2
  <2>q. QED BY <2>1 DEF Grants
<1>q. QED BY <1>6, <1>7, <1>8 DEF Admits

(* A step that takes entries away or leaves them, ends acts or moves them  *)
(* on, and settles what it ends.                                           *)
ActsOn ==
    \A h \in Machines :
        /\ allow'[h] \subseteq allow[h]
        /\ Allowing(h)' => /\ Allowing(h) /\ allow'[h] = allow[h]
                           /\ acting'[h].code = acting[h].code
                           /\ acting'[h].node = acting[h].node
        /\ Allowing(h) /\ ~Allowing(h)' =>
               \/ acting[h].code \in torn'
               \/ book'[acting[h].code].state = "used"

LEMMA ActsOnAdmits ==
    ASSUME IInv, BookGoesOn, ActsOn, answered \subseteq answered', torn \subseteq torn'
    PROVE  Admits'
<1>1. OneEntry' BY DEF IInv, OneEntry, ActsOn
<1>2. Holding'
  <2>1. ASSUME NEW k \in Machines, Allowing(k)'
        PROVE  /\ acting'[k].code \in Codes /\ acting'[k].node \in Machines
               /\ [node |-> acting'[k].node, cred |-> acting'[k].code] \in allow'[k]
    BY <2>1 DEF IInv, Holding, ActsOn
  <2>q. QED BY <2>1 DEF Holding
<1>3. Grants'
  <2>1. ASSUME NEW k \in Machines, NEW a \in Machines, NEW d \in Codes,
               [node |-> a, cred |-> d] \in allow'[k]
        PROVE  Granted(k, a, d)'
    <3>1. Granted(k, a, d) BY <2>1 DEF ActsOn, IInv, Grants
    <3>2. book'[d].request = a
      BY <3>1, PairingAssumption DEF Granted, BookGoesOn, GoesOn
    <3>3. \/ d \in torn' \/ book'[d].state = "used"
          \/ Allowing(k)' /\ acting'[k].code = d
      BY <3>1 DEF Granted, ActsOn, BookGoesOn, GoesOn
    <3>q. QED BY <3>1, <3>2, <3>3 DEF Granted
  <2>q. QED BY <2>1 DEF Grants
<1>q. QED BY <1>1, <1>2, <1>3 DEF Admits

Kept == answered \subseteq answered' /\ torn \subseteq torn'

LEMMA AllowRecordActs ==
    ASSUME IInv, NEW h \in Machines, AllowRecord(h) PROVE ActsOn /\ Kept
<1>1. acting'[h].at = "answer" /\ acting'[h].code = acting[h].code
      /\ acting'[h].node = acting[h].node
  BY DEF AllowRecord, IInv, TypeOK
<1>2. \A k \in Machines \ {h} : acting'[k] = acting[k]
  BY DEF AllowRecord, IInv, TypeOK
<1>q. QED BY <1>1, <1>2 DEF AllowRecord, Allowing, ActsOn, Kept

(* An act of one hub that ends: its Allow is answered or cut short. *)
LEMMA EndsAct ==
    ASSUME IInv, NEW h \in Machines, acting' = [acting EXCEPT ![h] = Idle],
           UNCHANGED <<allow, answered>>, torn \subseteq torn',
           Allowing(h) => \/ acting[h].code \in torn'
                          \/ book'[acting[h].code].state = "used"
    PROVE  ActsOn /\ Kept
<1>1. ~Allowing(h)' /\ \A k \in Machines \ {h} : acting'[k] = acting[k]
  BY DEF IInv, TypeOK, Allowing, Idle
<1>q. QED BY <1>1 DEF ActsOn, Kept, Allowing

LEMMA AllowAnswerActs ==
    ASSUME IInv, NEW h \in Machines, AllowAnswer(h) PROVE ActsOn /\ Kept
<1>1. acting[h].code \in Codes BY DEF IInv, Holding, Allowing, AllowAnswer
<1>2. book'[acting[h].code].state = "used"
  BY <1>1 DEF AllowAnswer, IInv, TypeOK, Invite
<1>q. QED BY <1>2, EndsAct DEF AllowAnswer

LEMMA RemoveRecordActs ==
    ASSUME IInv, NEW h \in Machines, RemoveRecord(h) PROVE ActsOn /\ Kept
BY EndsAct DEF RemoveRecord, Allowing

LEMMA StopActs ==
    ASSUME IInv, NEW h \in Machines, WriteFails(h) \/ DaemonStops(h)
    PROVE  ActsOn /\ Kept
<1>1. torn \subseteq torn' /\ (Allowing(h) => acting[h].code \in torn')
  BY DEF WriteFails, DaemonStops, Torn, Allowing
<1>q. QED BY <1>1, EndsAct DEF WriteFails, DaemonStops

LEMMA RemoveEntryActs ==
    ASSUME IInv, NEW h \in Machines, NEW n \in Machines, RemoveEntry(h, n),
           UNCHANGED <<answered, torn>>
    PROVE  ActsOn /\ Kept
<1>1. ~Allowing(h) /\ ~Allowing(h)'
  BY DEF RemoveEntry, Free, Allowing, Idle, IInv, TypeOK
<1>2. \A k \in Machines \ {h} : acting'[k] = acting[k] /\ allow'[k] = allow[k]
  BY DEF RemoveEntry, IInv, TypeOK
<1>3. allow'[h] \subseteq allow[h] BY DEF RemoveEntry, IInv, TypeOK
<1>q. QED BY <1>1, <1>2, <1>3 DEF ActsOn, Kept, Allowing

LEMMA StillActs ==
    ASSUME UNCHANGED <<allow, acting, answered, torn>> PROVE ActsOn /\ Kept
BY DEF ActsOn, Kept, Allowing

LEMMA AdmitsStep == ASSUME IInv, Next PROVE Admits'
<1> BookGoesOn BY BookStep
<1> SUFFICES (\E h \in Machines : Allow(h)) \/ (ActsOn /\ Kept)
  BY AllowAdmits, ActsOnAdmits DEF Kept
<1>1. ASSUME NEW h \in Machines, PersonStep(h) PROVE Allow(h) \/ (ActsOn /\ Kept)
  <2>1. CASE \E n \in Machines : Remove(h, n) BY <2>1, RemoveEntryActs DEF Remove
  <2>2. CASE Status(h) \/ \E c \in Codes : InviteAsked(h, c)
    BY <2>2, StillActs DEF Status, InviteAsked
  <2>3. CASE \E state \in {"denied", "cancelled"} : Close(h, state)
    BY <2>3, StillActs DEF Close
  <2>q. QED BY <1>1, <2>1, <2>2, <2>3 DEF PersonStep
<1>2. ASSUME NEW h \in Machines, HubStep(h) PROVE ActsOn /\ Kept
  BY <1>2, AllowRecordActs, AllowAnswerActs, RemoveRecordActs, StillActs
  DEF HubStep, InviteMade
<1>3. ASSUME NEW h \in Machines, WriteFails(h) \/ DaemonStops(h) PROVE ActsOn /\ Kept
  BY <1>3, StopActs
<1>4. ASSUME NEW m \in Machines, NEW c \in Codes, JoinStart(m, c) PROVE ActsOn /\ Kept
  BY <1>4, StillActs DEF JoinStart, hub
<1>5. ASSUME NEW m \in Machines, NEW h \in Machines, LeaveStart(m, h)
      PROVE ActsOn /\ Kept
  <2>1. CASE UNCHANGED <<allow, acting>> BY <1>5, <2>1, StillActs DEF LeaveStart
  <2>2. CASE LinkedAt(m, sidecar[m][h]) /\ ~UNCHANGED <<allow, acting>>
    <3>1. PICK g \in Machines : \E e \in allow[g] : RemoveEntry(g, e.node)
      BY <1>5, <2>2, LinkedHub DEF LeaveStart, IInv
    <3>2. PICK e \in allow[g] : RemoveEntry(g, e.node) BY <3>1
    <3>3. e.node \in Machines BY DEF IInv, TypeOK, Entry
    <3>q. QED BY <1>5, <3>2, <3>3, RemoveEntryActs DEF LeaveStart
  <2>q. QED BY <1>5, <2>1, <2>2 DEF LeaveStart
<1>6. ASSUME NEW m \in Machines, CliStep(m) PROVE ActsOn /\ Kept
  <2>1. CASE \E c \in Codes : JoinAllowed(m, c) \/ JoinTold(m, c) \/ JoinRefused(m, c)
    BY <2>1, StillActs DEF JoinAllowed, JoinTold, JoinRefused, hub
  <2>2. CASE \E c \in Codes : JoinPending(m, c) \/ JoinSecond(m, c)
    BY <2>2, StillActs DEF JoinPending, JoinSecond
  <2>3. CASE Preview(m) \/ JoinGivesUp(m) \/ WriteJoin(m) \/ WriteSidecar(m)
             \/ LeaveEdit(m) \/ LeaveForget(m)
    BY <2>3, StillActs
    DEF Preview, JoinGivesUp, WriteJoin, WriteSidecar, Recording, LeaveEdit,
        LeaveForget, hub
  <2>q. QED BY <1>6, <2>1, <2>2, <2>3 DEF CliStep
<1>7. ASSUME NEW m \in Machines, CliStops(m) PROVE ActsOn /\ Kept
  BY <1>7, StillActs DEF CliStops, hub
<1>8. ASSUME NEW c \in Codes, Expire(c) PROVE ActsOn /\ Kept
  BY <1>8, StillActs DEF Expire, hub
<1>q. QED BY <1>1, <1>2, <1>3, <1>4, <1>5, <1>6, <1>7, <1>8 DEF Next

(* ---------------------- what a machine has joined ---------------------- *)

Links(m) ==
    /\ link'[m] # None => book[link'[m]].request = m
    /\ cli'[m].at \in {"write", "record"} => book[cli'[m].on].request = m

LEMMA LinksJoin ==
    ASSUME IInv, TypeOK', BookGoesOn, \A m \in Machines : Links(m)
    PROVE  Joins'
<1>1. ASSUME NEW m \in Machines
      PROVE  /\ link'[m] # None => book'[link'[m]].request = m
             /\ cli'[m].at \in {"write", "record"} => book'[cli'[m].on].request = m
  <2>1. link'[m] # None => link'[m] \in Codes BY DEF TypeOK
  <2>2. cli'[m].at \in {"write", "record"} => cli'[m].on \in Codes
    BY DEF TypeOK, Out
  <2>q. QED BY <2>1, <2>2, PairingAssumption DEF Links, BookGoesOn, GoesOn
<1>q. QED BY <1>1 DEF Joins

LEMMA OneCommand ==
    ASSUME IInv, NEW m \in Machines, NEW l, NEW k,
           link' = [link EXCEPT ![m] = l], cli' = [cli EXCEPT ![m] = k],
           l # None => book[l].request = m,
           k.at \in {"write", "record"} => book[k.on].request = m
    PROVE  \A n \in Machines : Links(n)
BY DEF IInv, TypeOK, Joins, Links

LEMMA StillLinks ==
    ASSUME IInv, UNCHANGED <<link, cli>> PROVE \A n \in Machines : Links(n)
BY DEF IInv, Joins, Links

LEMMA CliOnly ==
    ASSUME IInv, NEW m \in Machines, NEW k, UNCHANGED link,
           cli' = [cli EXCEPT ![m] = k],
           k.at \in {"write", "record"} => book[k.on].request = m
    PROVE  \A n \in Machines : Links(n)
BY DEF IInv, TypeOK, Joins, Links

LEMMA LinksStep == ASSUME IInv, Next PROVE \A n \in Machines : Links(n)
<1>1. ASSUME NEW h \in Machines, PersonStep(h) PROVE UNCHANGED <<link, cli>>
  BY <1>1 DEF PersonStep, InviteAsked, Status, Allow, Close, Remove, joiner, kept
<1>2. ASSUME NEW h \in Machines, HubStep(h) PROVE UNCHANGED <<link, cli>>
  BY <1>2 DEF HubStep, InviteMade, AllowRecord, AllowAnswer, RemoveRecord, joiner, kept
<1>3. ASSUME NEW h \in Machines, WriteFails(h) \/ DaemonStops(h)
      PROVE  UNCHANGED <<link, cli>>
  BY <1>3 DEF WriteFails, DaemonStops, joiner, kept
<1>4. ASSUME NEW m \in Machines, NEW c \in Codes, JoinStart(m, c)
      PROVE  \A n \in Machines : Links(n)
  BY <1>4, CliOnly DEF JoinStart, CliBecomes, kept
<1>5. ASSUME NEW m \in Machines, NEW h \in Machines, LeaveStart(m, h)
      PROVE  \A n \in Machines : Links(n)
  BY <1>5, CliOnly DEF LeaveStart, CliBecomes, kept
<1>6. ASSUME NEW m \in Machines, CliStep(m) PROVE \A n \in Machines : Links(n)
  <2>1. ASSUME NEW c \in Codes, JoinAllowed(m, c) PROVE \A n \in Machines : Links(n)
    <3>1. book[c].request = m
      BY <2>1, ReadFacts DEF JoinAllowed, IsAnswerTo, IInv
    <3>q. QED BY <2>1, <3>1, CliOnly, StillLinks DEF JoinAllowed, Heard, kept
  <2>2. ASSUME NEW c \in Codes, JoinTold(m, c) \/ JoinRefused(m, c) \/ JoinSecond(m, c)
        PROVE  \A n \in Machines : Links(n)
    <3>1. UNCHANGED link BY <2>2 DEF JoinTold, JoinRefused, JoinSecond, kept
    <3>2. UNCHANGED cli \/ cli' = [cli EXCEPT ![m] = Out]
      BY <2>2 DEF JoinTold, JoinRefused, JoinSecond, Heard
    <3>q. QED BY <3>1, <3>2, CliOnly, StillLinks DEF Out
  <2>3. ASSUME NEW c \in Codes, JoinPending(m, c) PROVE UNCHANGED <<link, cli>>
    BY <2>3 DEF JoinPending, joiner, kept
  <2>4. CASE Preview(m) BY <2>4, CliOnly DEF Preview, CliBecomes, Out, kept
  <2>5. CASE JoinGivesUp(m) \/ WriteSidecar(m) \/ LeaveForget(m)
    BY <2>5, CliOnly DEF JoinGivesUp, WriteSidecar, Recording, LeaveForget, Out, kept
  <2>6. CASE WriteJoin(m)
    <3>1. book[cli[m].on].request = m BY <2>6 DEF WriteJoin, IInv, Joins
    <3>2. CASE link[m] = None
      BY <2>6, <3>1, <3>2, OneCommand DEF WriteJoin, CliBecomes
    <3>3. CASE link[m] # None BY <2>6, <3>3, CliOnly DEF WriteJoin, Out
    <3>q. QED BY <3>2, <3>3
  <2>7. CASE LeaveEdit(m)
    BY <2>7, OneCommand DEF LeaveEdit, CliBecomes, IInv, TypeOK, Joins
  <2>q. QED
    BY <1>6, <2>1, <2>2, <2>3, <2>4, <2>5, <2>6, <2>7, StillLinks DEF CliStep
<1>7. ASSUME NEW m \in Machines, CliStops(m) PROVE \A n \in Machines : Links(n)
  BY <1>7, CliOnly DEF CliStops, Out, kept
<1>8. ASSUME NEW c \in Codes, Expire(c) PROVE UNCHANGED <<link, cli>>
  BY <1>8 DEF Expire, joiner, kept
<1>q. QED
  BY <1>1, <1>2, <1>3, <1>4, <1>5, <1>6, <1>7, <1>8, StillLinks DEF Next

(* --------------------------- making a code ----------------------------- *)

(* A step that makes no code. *)
MakesNone ==
    /\ \A h \in Machines : inviting'[h] \in {inviting[h], None}
    /\ OpensNone
    /\ expired \subseteq expired'

LEMMA OpenIsOpen ==
    ASSUME TypeOK, NEW c \in Codes
    PROVE  Read(c).state = "open" <=> book[c].state = "open" /\ c \notin expired
BY DEF TypeOK, Read, Invite

LEMMA OpenIsOpenNext ==
    ASSUME TypeOK', NEW c \in Codes
    PROVE  Read(c)'.state = "open" <=> book'[c].state = "open" /\ c \notin expired'
BY DEF TypeOK, Read, Invite

LEMMA MakesNoneInvites ==
    ASSUME IInv, TypeOK', MakesNone PROVE Inviting' /\ OneOpen'
<1>1. Inviting'
  BY DEF IInv, TypeOK, Inviting, MakesNone, OpensNone
<1>2. ASSUME NEW h \in Machines PROVE Open(h)' \subseteq Open(h)
  BY OpenIsOpen, OpenIsOpenNext DEF Open, MakesNone, OpensNone, IInv
<1>q. QED BY <1>1, <1>2 DEF IInv, OneOpen

LEMMA AskedInvites ==
    ASSUME IInv, TypeOK', NEW h \in Machines, NEW c \in Codes, InviteAsked(h, c)
    PROVE  Inviting' /\ OneOpen'
<1>1. Inviting' BY DEF IInv, TypeOK, Inviting, InviteAsked
<1>2. ASSUME NEW k \in Machines PROVE Open(k)' = Open(k)
  BY DEF InviteAsked, Open, Read
<1>q. QED BY <1>1, <1>2 DEF IInv, OneOpen

LEMMA MadeInvites ==
    ASSUME IInv, TypeOK', NEW h \in Machines, InviteMade(h)
    PROVE  Inviting' /\ OneOpen'
<1> DEFINE c == inviting[h]
<1>1. c \in Codes /\ Maker[c] = h /\ book[c] = Unmade
  BY DEF IInv, TypeOK, Inviting, InviteMade
<1>2. inviting'[h] = None /\ \A k \in Machines \ {h} : inviting'[k] = inviting[k]
  BY DEF InviteMade, IInv, TypeOK
<1>3. ASSUME NEW d \in Codes, d # c, d \notin Open(h) PROVE book'[d] = book[d]
  BY <1>3 DEF InviteMade
<1>4. ASSUME NEW d \in Codes, d # c, d \in Open(h) PROVE book'[d].state = "cancelled"
  BY <1>4 DEF InviteMade, IInv, TypeOK, Invite
<1>5. Inviting'
  <2>1. ASSUME NEW k \in Machines, inviting'[k] # None
        PROVE  Maker[inviting'[k]] = k /\ book'[inviting'[k]] = Unmade
    <3>1. k # h /\ inviting[k] = inviting'[k] BY <2>1, <1>2
    <3>2. Maker[inviting[k]] = k /\ book[inviting[k]] = Unmade /\ inviting[k] \in Codes
      BY <3>1, <2>1 DEF IInv, Inviting, TypeOK
    <3>3. inviting[k] # c /\ inviting[k] \notin Open(h) BY <3>1, <3>2, <1>1 DEF Open
    <3>q. QED BY <3>1, <3>2, <3>3, <1>3
  <2>q. QED BY <2>1 DEF Inviting
<1>6. ASSUME NEW d \in Codes, d # c, Read(d)'.state = "open"
      PROVE  Read(d).state = "open" /\ Maker[d] # h
  <2>1. book'[d].state = "open" /\ d \notin expired
    BY <1>6, OpenIsOpenNext DEF InviteMade
  <2>2. d \notin Open(h) BY <2>1, <1>4, <1>6
  <2>3. book[d].state = "open" BY <2>1, <2>2, <1>3, <1>6
  <2>4. Read(d).state = "open" BY <2>1, <2>3, OpenIsOpen DEF IInv
  <2>q. QED BY <2>2, <2>4 DEF Open
<1>7. OneOpen'
  <2>1. Open(h)' \subseteq {c} BY <1>6 DEF Open
  <2>2. ASSUME NEW k \in Machines \ {h} PROVE Open(k)' \subseteq Open(k)
    BY <1>1, <1>6 DEF Open
  <2>q. QED BY <2>1, <2>2 DEF IInv, OneOpen
<1>q. QED BY <1>5, <1>7

LEMMA InvitesStep == ASSUME IInv, TypeOK', Next PROVE Inviting' /\ OneOpen'
<1> DEFINE Other == (\A h \in Machines : inviting'[h] \in {inviting[h], None})
                    /\ expired \subseteq expired'
<1>1. CASE \E h \in Machines, c \in Codes : InviteAsked(h, c) BY <1>1, AskedInvites
<1>2. CASE \E h \in Machines : InviteMade(h) BY <1>2, MadeInvites
<1>3. ASSUME ~\E h \in Machines : InviteMade(h) PROVE OpensNone
  <2>1. CASE UNCHANGED book BY <2>1 DEF OpensNone
  <2>2. CASE WritesBook
    BY <1>3, <2>2, AllowAnswerBook, CloseBook, JoinPendingBook, JoinSecondBook
    DEF WritesBook
  <2>q. QED BY <2>1, <2>2, BookFrame
<1>4. CASE /\ ~\E h \in Machines, c \in Codes : InviteAsked(h, c)
           /\ ~\E h \in Machines : InviteMade(h)
  <2>1. ASSUME NEW h \in Machines, PersonStep(h) PROVE UNCHANGED <<inviting, expired>>
    BY <1>4, <2>1 DEF PersonStep, Status, Allow, Close, Remove
  <2>2. ASSUME NEW h \in Machines, HubStep(h) PROVE UNCHANGED <<inviting, expired>>
    BY <1>4, <2>2 DEF HubStep, AllowRecord, AllowAnswer, RemoveRecord
  <2>3. ASSUME NEW h \in Machines, WriteFails(h) PROVE UNCHANGED <<inviting, expired>>
    BY <2>3 DEF WriteFails
  <2>4. ASSUME NEW h \in Machines, DaemonStops(h) PROVE Other
    BY <2>4 DEF DaemonStops, IInv, TypeOK
  <2>5. ASSUME NEW m \in Machines, NEW c \in Codes, JoinStart(m, c)
        PROVE  UNCHANGED <<inviting, expired>>
    BY <2>5 DEF JoinStart, hub
  <2>6. ASSUME NEW m \in Machines, NEW h \in Machines, LeaveStart(m, h)
        PROVE  UNCHANGED <<inviting, expired>>
    BY <2>6 DEF LeaveStart
  <2>7. ASSUME NEW m \in Machines, CliStep(m) PROVE UNCHANGED <<inviting, expired>>
    <3>1. CASE \E c \in Codes : JoinAllowed(m, c) \/ JoinTold(m, c) \/ JoinRefused(m, c)
      BY <3>1 DEF JoinAllowed, JoinTold, JoinRefused, hub
    <3>2. CASE \E c \in Codes : JoinPending(m, c) \/ JoinSecond(m, c)
      BY <3>2 DEF JoinPending, JoinSecond
    <3>3. CASE Preview(m) \/ JoinGivesUp(m) \/ WriteJoin(m) \/ WriteSidecar(m)
               \/ LeaveEdit(m) \/ LeaveForget(m)
      BY <3>3
      DEF Preview, JoinGivesUp, WriteJoin, WriteSidecar, Recording, LeaveEdit,
        LeaveForget, hub
    <3>q. QED BY <2>7, <3>1, <3>2, <3>3 DEF CliStep
  <2>8. ASSUME NEW m \in Machines, CliStops(m) PROVE UNCHANGED <<inviting, expired>>
    BY <2>8 DEF CliStops, hub
  <2>9. ASSUME NEW c \in Codes, Expire(c) PROVE Other
    BY <2>9 DEF Expire, hub
  <2>10. Other
    BY <2>1, <2>2, <2>3, <2>4, <2>5, <2>6, <2>7, <2>8, <2>9 DEF Next
  <2>q. QED BY <1>3, <1>4, <2>10, MakesNoneInvites DEF MakesNone
<1>q. QED BY <1>1, <1>2, <1>4

(* ------------------------------- types --------------------------------- *)

Acting ==
    [at : {"idle", "record", "answer", "remove"},
     code : Codes \cup {None}, node : Machines \cup {None}]

Commands ==
    [at : {"preview", "ask", "write", "record"}, on : Codes]
        \cup [at : {"edit", "forget"}, on : Machines] \cup {Out}

LEMMA HubTypes ==
    ASSUME IInv, NEW h \in Machines, PersonStep(h) \/ HubStep(h) PROVE TypeOK'
<1> BookGoesOn BY BookStep DEF Next
<1>b. book' \in [Codes -> Invite] BY DEF BookGoesOn
<1>1. ASSUME NEW c \in Codes, InviteAsked(h, c) PROVE TypeOK'
  BY <1>1, <1>b DEF InviteAsked, IInv, TypeOK, joiner, kept
<1>2. CASE InviteMade(h) BY <1>2, <1>b DEF InviteMade, IInv, TypeOK, joiner, kept
<1>3. CASE Status(h)
  BY <1>3, <1>b, ReadFacts DEF Status, IInv, TypeOK, joiner, kept, Open, Ask, Invite
<1>4. CASE Allow(h)
  <2>1. PICK c \in Open(h) : LET n == Read(c).request IN
           /\ MayAdmit(h, n)
           /\ allow' = [allow EXCEPT ![h] = @ \cup {[node |-> n, cred |-> c]}]
           /\ acting' = [acting EXCEPT ![h] =
                  [at |-> "record", code |-> c, node |-> n]]
    BY <1>4 DEF Allow
  <2>2. /\ c \in Codes /\ Read(c).request \in Machines
        /\ shown[h] = [code |-> c, node |-> Read(c).request]
    BY <1>4, <2>1, AskedAndShown DEF Allow
  <2>3. allow' \in [Machines -> SUBSET Entry] BY <2>1, <2>2 DEF IInv, TypeOK, Entry
  <2>4. acting' \in [Machines -> Acting] BY <2>1, <2>2 DEF IInv, TypeOK, Acting
  <2>5. answered' \in SUBSET Ask BY <1>4, <2>2 DEF Allow, IInv, TypeOK, Ask
  <2>q. QED BY <1>4, <1>b, <2>3, <2>4, <2>5 DEF Allow, IInv, TypeOK, joiner, kept, Acting
<1>5. ASSUME NEW state \in {"denied", "cancelled"}, Close(h, state) PROVE TypeOK'
  BY <1>5, <1>b DEF Close, IInv, TypeOK, joiner, kept
<1>6. ASSUME NEW n \in Machines, Remove(h, n) PROVE TypeOK'
  <2>1. acting' \in [Machines -> Acting]
    BY <1>6 DEF Remove, RemoveEntry, Idle, IInv, TypeOK, Acting
  <2>q. QED BY <1>6, <1>b, <2>1 DEF Remove, RemoveEntry, IInv, TypeOK, joiner, kept, Acting
<1>7. CASE AllowRecord(h)
  <2>1. [node |-> acting[h].node, cred |-> acting[h].code] \in Entry
    BY <1>7 DEF AllowRecord, IInv, Holding, Allowing, Entry
  <2>2. acting' \in [Machines -> Acting]
    <3>1. acting \in [Machines -> Acting] BY DEF IInv, TypeOK, Acting
    <3>q. QED BY <1>7, <3>1 DEF AllowRecord, Acting
  <2>q. QED BY <1>7, <1>b, <2>1, <2>2 DEF AllowRecord, IInv, TypeOK, joiner, kept, Acting
<1>8. CASE AllowAnswer(h)
  BY <1>8, <1>b DEF AllowAnswer, Idle, IInv, TypeOK, joiner, kept
<1>9. CASE RemoveRecord(h)
  BY <1>9, <1>b DEF RemoveRecord, Idle, IInv, TypeOK, joiner, kept
<1>q. QED
  BY <1>1, <1>2, <1>3, <1>4, <1>5, <1>6, <1>7, <1>8, <1>9 DEF PersonStep, HubStep

LEMMA StopTypes ==
    ASSUME IInv, NEW h \in Machines, WriteFails(h) \/ DaemonStops(h) PROVE TypeOK'
<1>1. torn' = Torn(h) BY DEF WriteFails, DaemonStops
<1>2. Torn(h) \in SUBSET Codes
  <2>1. CASE Allowing(h) BY <2>1 DEF Torn, IInv, TypeOK, Holding, Allowing
  <2>2. CASE ~Allowing(h) BY <2>2 DEF Torn, IInv, TypeOK, Allowing
  <2>q. QED BY <2>1, <2>2
<1>3. acting' \in [Machines -> Acting]
  BY DEF WriteFails, DaemonStops, Idle, IInv, TypeOK, Acting
<1>4. inviting' \in [Machines -> Codes \cup {None}]
  BY DEF WriteFails, DaemonStops, IInv, TypeOK
<1>5. faults' \in Nat BY DEF WriteFails, DaemonStops, Fault, IInv, TypeOK
<1>q. QED
  BY <1>1, <1>2, <1>3, <1>4, <1>5
  DEF WriteFails, DaemonStops, IInv, TypeOK, joiner, kept, Acting

KeptTypes ==
    /\ link \in [Machines -> Codes \cup {None}]
    /\ url \in [Machines -> Address \cup {None}]
    /\ sidecar \in [Machines -> [Machines -> Address \cup {None}]]
    /\ unkept \in SUBSET Machines

(* A command's step: what it becomes is a command. *)
LEMMA CliTypes ==
    ASSUME IInv, Next, NEW m \in Machines, NEW k \in Commands,
           cli' \in {cli, [cli EXCEPT ![m] = k]}, KeptTypes',
           faults' \in {faults, faults + 1},
           UNCHANGED <<allow, joined, acting, inviting, shown, answered, expired, torn>>
    PROVE  TypeOK'
<1>1. book' \in [Codes -> Invite] BY BookStep DEF BookGoesOn
<1>2. cli' \in [Machines -> Commands] BY DEF IInv, TypeOK, Commands
<1>q. QED BY <1>1, <1>2 DEF IInv, TypeOK, Commands, KeptTypes

LEMMA JoinTypes ==
    ASSUME IInv, Next, NEW m \in Machines, NEW c \in Codes,
           \/ JoinStart(m, c) \/ JoinAllowed(m, c) \/ JoinTold(m, c)
           \/ JoinRefused(m, c) \/ JoinPending(m, c) \/ JoinSecond(m, c)
    PROVE  TypeOK'
<1> USE DEF hub, joiner, kept
<1>1. Out \in Commands BY DEF Commands
<1>2. \A at \in {"preview", "ask", "write", "record"} :
         [at |-> at, on |-> c] \in Commands
  BY DEF Commands
<1>3. UNCHANGED kept => KeptTypes'
  BY DEF IInv, TypeOK, KeptTypes
<1>4. CASE JoinStart(m, c) BY <1>2, <1>3, <1>4, CliTypes DEF JoinStart, CliBecomes
<1>5. CASE JoinAllowed(m, c)
  BY <1>2, <1>3, <1>5, CliTypes DEF JoinAllowed, Heard, Fault
<1>6. CASE JoinTold(m, c) \/ JoinRefused(m, c) \/ JoinSecond(m, c)
  BY <1>1, <1>3, <1>6, CliTypes DEF JoinTold, JoinRefused, JoinSecond, Heard, Fault
<1>7. CASE JoinPending(m, c) BY <1>1, <1>3, <1>7, CliTypes DEF JoinPending
<1>q. QED BY <1>4, <1>5, <1>6, <1>7

LEMMA CommandTypes ==
    ASSUME IInv, Next, NEW m \in Machines,
           \/ Preview(m) \/ JoinGivesUp(m) \/ WriteJoin(m) \/ WriteSidecar(m)
           \/ LeaveEdit(m) \/ LeaveForget(m) \/ CliStops(m)
    PROVE  TypeOK'
<1> USE DEF hub, joiner, kept
<1>1. Out \in Commands BY DEF Commands
<1>2. KeptTypes /\ (UNCHANGED kept => KeptTypes')
  BY DEF IInv, TypeOK, KeptTypes
<1>3. cli[m] \in Commands BY DEF IInv, TypeOK, Commands
<1>4. cli[m].at \in {"preview", "ask", "write", "record"} =>
        /\ cli[m].on \in Codes
        /\ \A at \in {"preview", "ask", "write", "record"} :
               [at |-> at, on |-> cli[m].on] \in Commands
  BY <1>3 DEF Commands, Out
<1>5. cli[m].at \in {"edit", "forget"} =>
        /\ cli[m].on \in Machines
        /\ [at |-> "forget", on |-> cli[m].on] \in Commands
  BY <1>3 DEF Commands, Out
<1>6. CASE Preview(m) BY <1>1, <1>2, <1>4, <1>6, CliTypes DEF Preview, CliBecomes
<1>7. CASE JoinGivesUp(m) BY <1>1, <1>2, <1>7, CliTypes DEF JoinGivesUp
<1>8. CASE WriteJoin(m)
  <2>1. CASE link[m] = None
    <3>1. PICK a \in Addresses[cli[m].on] : url' = [url EXCEPT ![m] = a]
      BY <1>8, <2>1 DEF WriteJoin
    <3>2. a \in Address BY <1>4, <1>8, <3>1 DEF WriteJoin, Address
    <3>3. KeptTypes' BY <1>2, <1>4, <1>8, <2>1, <3>1, <3>2 DEF WriteJoin, KeptTypes
    <3>q. QED BY <1>4, <1>8, <2>1, <3>3, CliTypes DEF WriteJoin, CliBecomes
  <2>2. CASE link[m] # None BY <1>1, <1>2, <1>8, <2>2, CliTypes DEF WriteJoin
  <2>q. QED BY <2>1, <2>2
<1>9. CASE WriteSidecar(m)
  <2>1. Maker[cli[m].on] \in Machines
    BY <1>4, <1>9, PairingAssumption DEF WriteSidecar, Recording
  <2>2. KeptTypes' BY <1>2, <1>9, <2>1 DEF WriteSidecar, Recording, KeptTypes
  <2>q. QED BY <1>1, <1>9, <2>2, CliTypes DEF WriteSidecar, Recording
<1>10. CASE LeaveEdit(m)
  <2>1. KeptTypes' BY <1>2, <1>10 DEF LeaveEdit, KeptTypes
  <2>q. QED BY <1>5, <1>10, <2>1, CliTypes DEF LeaveEdit, CliBecomes
<1>11. CASE LeaveForget(m)
  <2>1. KeptTypes' BY <1>2, <1>5, <1>11 DEF LeaveForget, KeptTypes
  <2>q. QED BY <1>1, <1>11, <2>1, CliTypes DEF LeaveForget
<1>12. CASE CliStops(m) BY <1>1, <1>2, <1>12, CliTypes DEF CliStops, Fault
<1>q. QED BY <1>6, <1>7, <1>8, <1>9, <1>10, <1>11, <1>12

LEMMA LeaveTypes ==
    ASSUME IInv, Next, NEW m \in Machines, NEW h \in Machines, LeaveStart(m, h)
    PROVE  TypeOK'
<1>1. book' \in [Codes -> Invite] BY BookStep DEF BookGoesOn
<1>2. [at |-> "edit", on |-> h] \in Commands BY DEF Commands
<1>3. cli' \in [Machines -> Commands]
  BY <1>2 DEF LeaveStart, CliBecomes, IInv, TypeOK, Commands
<1>4. allow' \in [Machines -> SUBSET Entry] /\ acting' \in [Machines -> Acting]
  <2>1. CASE UNCHANGED <<allow, acting>> BY <2>1 DEF IInv, TypeOK, Acting
  <2>2. CASE LinkedAt(m, sidecar[m][h]) /\ ~UNCHANGED <<allow, acting>>
    <3>1. PICK g \in Machines : \E e \in allow[g] : RemoveEntry(g, e.node)
      BY <2>2, LinkedHub DEF LeaveStart, IInv
    <3>2. PICK e \in allow[g] : RemoveEntry(g, e.node) BY <3>1
    <3>3. e.node \in Machines BY DEF IInv, TypeOK, Entry
    <3>q. QED BY <3>2, <3>3 DEF RemoveEntry, Idle, IInv, TypeOK, Acting
  <2>q. QED BY <2>1, <2>2 DEF LeaveStart
<1>q. QED BY <1>1, <1>3, <1>4 DEF LeaveStart, IInv, TypeOK, Commands, Acting, kept

LEMMA TypeStep == ASSUME IInv, Next PROVE TypeOK'
<1>1. ASSUME NEW c \in Codes, Expire(c) PROVE TypeOK'
  BY <1>1 DEF Expire, IInv, TypeOK, hub, joiner, kept
<1>2. ASSUME NEW m \in Machines, CliStep(m) PROVE TypeOK'
  BY <1>2, JoinTypes, CommandTypes DEF CliStep
<1>q. QED
  BY <1>1, <1>2, HubTypes, StopTypes, JoinTypes, LeaveTypes, CommandTypes DEF Next

(* ------------------------------ theorems ------------------------------- *)

LEMMA Initially == ASSUME Init PROVE IInv
<1>1. TypeOK
  BY DEF Init, TypeOK, Invite, Unmade, States, Idle
<1>2. Inviting /\ OneEntry /\ Holding /\ Grants /\ Answers
  BY DEF Init, Inviting, OneEntry, Holding, Allowing, Grants, Answers, Unmade, Idle
<1>3. OneOpen BY ReadFacts, <1>1 DEF Init, OneOpen, Open, Unmade
<1>4. Joins BY DEF Init, Joins, Out
<1>q. QED BY <1>1, <1>2, <1>3, <1>4 DEF IInv

LEMMA Inductive == ASSUME IInv, [Next]_vars PROVE IInv'
<1>1. CASE Next
  <2>1. TypeOK' BY <1>1, TypeStep
  <2>2. BookGoesOn BY <1>1, BookStep
  <2>3. Answers' BY <2>2 DEF BookGoesOn, GoesOn, Answers
  <2>4. Inviting' /\ OneOpen' BY <1>1, <2>1, InvitesStep
  <2>5. Admits' BY <1>1, AdmitsStep
  <2>6. Joins' BY <1>1, <2>1, <2>2, LinksStep, LinksJoin
  <2>q. QED BY <2>1, <2>3, <2>4, <2>5, <2>6 DEF IInv, Admits
<1>2. CASE UNCHANGED vars
  BY <1>2 DEF vars, hub, joiner, kept, IInv, TypeOK, Inviting, OneOpen, Open, Read, Answers,
     OneEntry, Holding, Allowing, Grants, Granted, Joins
<1>q. QED BY <1>1, <1>2

LEMMA Always == Spec => []IInv
<1>1. Init => IInv BY Initially
<1>2. IInv /\ [Next]_vars => IInv' BY Inductive
<1>q. QED BY <1>1, <1>2, PTL DEF Spec

(* Every variable keeps its type, for any machines, codes and faults.      *)
THEOREM TypeCorrect == Spec => []TypeOK
<1>1. IInv => TypeOK BY DEF IInv
<1>q. QED BY <1>1, Always, PTL

(* A hub admits a machine only as its person was shown it: its code, and   *)
(* the request that was there when they answered.                          *)
THEOREM AdmittedAsShown == Spec => []AllowedAsShown
<1>1. IInv => AllowedAsShown
  <2>1. ASSUME IInv, NEW h \in Machines, NEW e \in allow[h]
        PROVE  [code |-> e.cred, node |-> e.node] \in answered
    <3>1. e \in Entry BY <2>1 DEF IInv, TypeOK
    <3>2. e = [node |-> e.node, cred |-> e.cred] /\ e.node \in Machines /\ e.cred \in Codes
      BY <3>1 DEF Entry
    <3>q. QED BY <2>1, <3>2 DEF IInv, Grants, Granted
  <2>q. QED BY <2>1 DEF AllowedAsShown
<1>q. QED BY <1>1, Always, PTL

(* One code lets in one machine, over every retry, leave and stop.         *)
THEOREM OneCodeOneMachine == Spec => []OneMachinePerCode
<1>1. IInv => OneMachinePerCode
  <2>1. ASSUME IInv, NEW m \in Machines, link[m] # None
        PROVE  /\ \A n \in Machines : link[n] = link[m] => n = m
               /\ \A e \in allow[Maker[link[m]]] : e.cred = link[m] => e.node = m
    <3>1. link[m] \in Codes /\ book[link[m]].request = m
      BY <2>1 DEF IInv, TypeOK, Joins
    <3>2. ASSUME NEW n \in Machines, link[n] = link[m] PROVE n = m
      BY <2>1, <3>1, <3>2 DEF IInv, Joins
    <3>3. ASSUME NEW e \in allow[Maker[link[m]]], e.cred = link[m] PROVE e.node = m
      <4>1. Maker[link[m]] \in Machines BY <3>1, PairingAssumption
      <4>2. e \in Entry BY <2>1, <4>1 DEF IInv, TypeOK
      <4>3. e = [node |-> e.node, cred |-> e.cred] /\ e.node \in Machines
        BY <4>2 DEF Entry
      <4>4. [node |-> e.node, cred |-> link[m]] \in allow[Maker[link[m]]]
        BY <3>3, <4>3
      <4>5. Granted(Maker[link[m]], e.node, link[m])
        BY <2>1, <3>1, <4>1, <4>3, <4>4 DEF IInv, Grants
      <4>q. QED BY <3>1, <4>5 DEF Granted
    <3>q. QED BY <3>2, <3>3
  <2>q. QED BY <2>1 DEF OneMachinePerCode
<1>q. QED BY <1>1, Always, PTL

(* A hub admits one machine, whatever stops between its writes.            *)
THEOREM AtMostOneAdmitted == Spec => []OneAdmitted
<1>1. IInv => OneAdmitted
  <2>1. ASSUME IInv, NEW h \in Machines PROVE Cardinality(allow[h]) <= 1
    <3>1. CASE allow[h] = {} BY <3>1, FS_EmptySet
    <3>2. CASE allow[h] # {}
      <4>1. PICK e \in allow[h] : allow[h] = {e} BY <2>1, <3>2 DEF IInv, OneEntry
      <4>2. Cardinality({e}) = 1 BY FS_Singleton
      <4>q. QED BY <4>1, <4>2
    <3>q. QED BY <3>1, <3>2
  <2>q. QED BY <2>1 DEF OneAdmitted
<1>q. QED BY <1>1, Always, PTL

(* Outside an Allow, a machine is admitted by an invitation that says so,  *)
(* or by an Allow that was cut short: no other act leaves one behind.      *)
THEOREM AdmittedByAnAnswer == Spec => []AdmittedIsAnswered
<1>1. IInv => AdmittedIsAnswered
  <2>1. ASSUME IInv, NEW h \in Machines, NEW e \in allow[h],
               acting[h].at \in {"idle", "remove"}
        PROVE  e.cred \in torn \/ Read(e.cred).state = "used"
    <3>1. e \in Entry BY <2>1 DEF IInv, TypeOK
    <3>2. e = [node |-> e.node, cred |-> e.cred] /\ e.node \in Machines /\ e.cred \in Codes
      BY <3>1 DEF Entry
    <3>3. Granted(h, e.node, e.cred) BY <2>1, <3>2 DEF IInv, Grants
    <3>4. Read(e.cred).state = "used" <=> book[e.cred].state = "used"
      BY <2>1, <3>2, ReadFacts DEF IInv
    <3>q. QED BY <2>1, <3>3, <3>4 DEF Granted, Allowing
  <2>q. QED BY <2>1 DEF AdmittedIsAnswered
<1>q. QED BY <1>1, Always, PTL

(* While its code is good, a machine that was allowed is not turned away:  *)
(* only its own stop ends its asking.                                      *)
THEOREM TheAllowedIsAnswered == Spec => AllowedIsAnswered
<1>1. ASSUME IInv, [Next]_vars
      PROVE  [\A m \in Machines, c \in Codes :
                /\ cli[m] = [at |-> "ask", on |-> c] /\ cli'[m] = Out
                /\ Read(c).state = "used" /\ Read(c).request = m /\ c \notin expired
                => faults' # faults]_vars
  <2> SUFFICES ASSUME NEW m \in Machines, NEW c \in Codes,
                      cli[m] = [at |-> "ask", on |-> c], cli'[m] = Out,
                      Read(c).state = "used", Read(c).request = m, c \notin expired
               PROVE  faults' # faults
    OBVIOUS
  <2>1. IsAnswerTo(c, m)
    <3>1. book[c].state = "used" /\ book[c] \in Invite BY <1>1, ReadFacts DEF IInv
    <3>2. book[c].answer BY <1>1, <3>1 DEF IInv, Answers
    <3>3. Read(c) = [book[c] EXCEPT !.state = book[c].state, !.answer = book[c].answer]
      BY <3>1, <3>2 DEF Read, Invite
    <3>4. Read(c).answer BY <3>1, <3>2, <3>3 DEF Invite
    <3>q. QED BY <3>4 DEF IsAnswerTo
  <2>2. cli'[m] # cli[m] /\ cli[m] # Out /\ cli[m].at = "ask" /\ cli[m].on = c
    BY DEF Out
  <2>3. PICK n \in Machines : \/ CliStep(n) \/ CliStops(n)
                              \/ \E d \in Codes : JoinStart(n, d)
                              \/ \E h \in Machines : LeaveStart(n, h)
    BY <1>1, <2>2
    DEF Next, vars, joiner, kept, PersonStep, HubStep, InviteAsked, Status, Allow, Close,
        Remove, InviteMade, AllowRecord, AllowAnswer, RemoveRecord, WriteFails,
        DaemonStops, Expire
  <2>4. ASSUME NEW k, cli' = [cli EXCEPT ![n] = k] PROVE n = m /\ k = Out
    BY <1>1, <2>2, <2>4 DEF IInv, TypeOK
  <2>5. ASSUME NEW d \in Codes, JoinStart(n, d) PROVE FALSE
    BY <2>2, <2>4, <2>5 DEF JoinStart, CliBecomes, Out
  <2>6. ASSUME NEW h \in Machines, LeaveStart(n, h) PROVE FALSE
    BY <2>2, <2>4, <2>6 DEF LeaveStart, CliBecomes, Out
  <2>7. CASE CliStops(n) BY <1>1, <2>7 DEF CliStops, Fault, IInv, TypeOK
  <2>8. CASE \E d \in Codes : \/ JoinAllowed(n, d) \/ JoinTold(n, d)
                              \/ JoinRefused(n, d) \/ JoinPending(n, d)
                              \/ JoinSecond(n, d)
    <3>1. PICK d \in Codes : \/ JoinAllowed(n, d) \/ JoinTold(n, d)
                             \/ JoinRefused(n, d) \/ JoinPending(n, d)
                             \/ JoinSecond(n, d)
      BY <2>8
    <3>2. UNCHANGED cli \/ \E k : cli' = [cli EXCEPT ![n] = k]
      BY <3>1 DEF JoinAllowed, JoinTold, JoinRefused, JoinPending, JoinSecond, Heard,
         joiner, kept
    <3>3. n = m BY <2>2, <2>4, <3>2
    <3>4. d = c BY <2>2, <3>1, <3>3
      DEF JoinAllowed, JoinTold, JoinRefused, JoinPending, JoinSecond, Asking
    <3>5. JoinAllowed(m, c) BY <2>1, <3>1, <3>3, <3>4
      DEF JoinTold, JoinRefused, JoinPending, JoinSecond, IsAnswerTo
    <3>q. QED BY <1>1, <2>2, <2>4, <3>3, <3>5 DEF JoinAllowed, Heard, Fault, IInv, TypeOK, Out
  <2>9. CASE \/ Preview(n) \/ JoinGivesUp(n) \/ WriteJoin(n) \/ WriteSidecar(n)
             \/ LeaveEdit(n) \/ LeaveForget(n)
    <3>1. \E k : cli' = [cli EXCEPT ![n] = k]
      BY <2>9 DEF Preview, JoinGivesUp, WriteJoin, WriteSidecar, Recording, LeaveEdit,
         LeaveForget, CliBecomes
    <3>2. n = m BY <2>4, <3>1
    <3>q. QED BY <2>2, <2>9, <3>2
      DEF Preview, JoinGivesUp, WriteJoin, WriteSidecar, Recording, LeaveEdit,
          LeaveForget
  <2>q. QED BY <2>3, <2>5, <2>6, <2>7, <2>8, <2>9 DEF CliStep
<1>q. QED BY <1>1, Always, PTL DEF Spec, AllowedIsAnswered

(* ------------------------------- leaving ------------------------------- *)

(* What a machine keeps of its hub: a join that writes its record has the  *)
(* entry it wrote; an entry whose join was recorded is one its hub's record *)
(* names; and a leave that has edited finds no entry at its address.       *)
Keeps(m) ==
    /\ link[m] # None => url[m] # None
    /\ cli[m].at = "record" => link[m] = cli[m].on
    /\ link[m] # None /\ m \notin unkept => sidecar[m][Maker[link[m]]] = url[m]
    /\ cli[m].at = "forget" => ~LinkedAt(m, sidecar[m][cli[m].on])

Keeping == \A m \in Machines : Keeps(m)

(* What a step of machine m's command leaves alone. *)
OthersKeep(m) ==
    \A n \in Machines \ {m} :
        /\ link'[n] = link[n] /\ url'[n] = url[n] /\ sidecar'[n] = sidecar[n]
        /\ cli'[n] = cli[n] /\ (n \in unkept' <=> n \in unkept)

(* The steps of a command are all that changes what a machine keeps. *)
LEMMA JoinerFrame ==
    ASSUME Next
    PROVE  \/ UNCHANGED joiner
           \/ \E m \in Machines :
                /\ UNCHANGED kept
                /\ \/ UNCHANGED cli
                   \/ \E k : /\ cli' = [cli EXCEPT ![m] = k]
                            /\ k.at \notin {"record", "forget"}
           \/ \E m \in Machines :
                \/ WriteJoin(m) \/ WriteSidecar(m) \/ LeaveEdit(m) \/ LeaveForget(m)
<1>1. ASSUME NEW h \in Machines,
             PersonStep(h) \/ HubStep(h) \/ WriteFails(h) \/ DaemonStops(h)
      PROVE  UNCHANGED joiner
  BY <1>1 DEF PersonStep, HubStep, InviteAsked, Status, Allow, Close, Remove,
     InviteMade, AllowRecord, AllowAnswer, RemoveRecord, WriteFails, DaemonStops
<1>2. ASSUME NEW c \in Codes, Expire(c) PROVE UNCHANGED joiner
  BY <1>2 DEF Expire
<1> DEFINE Moves(m) ==
        /\ UNCHANGED kept
        /\ \/ UNCHANGED cli
           \/ \E k : cli' = [cli EXCEPT ![m] = k] /\ k.at \notin {"record", "forget"}
<1>3. Out.at \notin {"record", "forget"} BY DEF Out
<1>4. ASSUME NEW m \in Machines, NEW c \in Codes,
             \/ JoinStart(m, c) \/ JoinAllowed(m, c) \/ JoinTold(m, c)
             \/ JoinRefused(m, c) \/ JoinPending(m, c) \/ JoinSecond(m, c)
      PROVE  Moves(m)
  <2>1. [at |-> "preview", on |-> c].at \notin {"record", "forget"}
        /\ [at |-> "write", on |-> c].at \notin {"record", "forget"}
    OBVIOUS
  <2>q. QED
    BY <1>3, <1>4, <2>1 DEF JoinStart, JoinAllowed, JoinTold, JoinRefused,
       JoinPending, JoinSecond, Heard, CliBecomes, joiner
<1>5. ASSUME NEW m \in Machines, NEW h \in Machines, LeaveStart(m, h)
      PROVE  Moves(m)
  <2>1. cli' = [cli EXCEPT ![m] = [at |-> "edit", on |-> h]] /\ UNCHANGED kept
    BY <1>5 DEF LeaveStart, CliBecomes
  <2>2. [at |-> "edit", on |-> h].at \notin {"record", "forget"}
    OBVIOUS
  <2>q. QED BY <2>1, <2>2
<1>6. ASSUME NEW m \in Machines, Preview(m) \/ JoinGivesUp(m) \/ CliStops(m)
      PROVE  Moves(m)
  BY <1>3, <1>6 DEF Preview, JoinGivesUp, CliStops, CliBecomes
<1>q. QED BY <1>1, <1>2, <1>4, <1>5, <1>6 DEF Next, CliStep

(* One command's step: it is enough to look at its machine. *)
LEMMA OneKeeps ==
    ASSUME Keeping, NEW m \in Machines, OthersKeep(m), Keeps(m)'
    PROVE  Keeping'
<1>1. ASSUME NEW n \in Machines \ {m} PROVE Keeps(n)'
  BY <1>1 DEF Keeping, Keeps, OthersKeep, LinkedAt
<1>q. QED BY <1>1 DEF Keeping

LEMMA WriteJoinKeeps ==
    ASSUME IInv, Keeping, NEW m \in Machines, WriteJoin(m)
    PROVE  Keeping' /\ UNCHANGED sidecar
<1>0. KeptTypes /\ cli = [n \in Machines |-> cli[n]] /\ cli[m].at = "write"
  BY DEF IInv, TypeOK, KeptTypes, WriteJoin
<1>1. CASE link[m] = None
  <2>1. PICK a \in Addresses[cli[m].on] : url' = [url EXCEPT ![m] = a]
    BY <1>1 DEF WriteJoin
  <2>2. a # None /\ url'[m] = a
    <3>1. cli[m].on \in Codes BY <1>0 DEF IInv, TypeOK, Out
    <3>q. QED BY <1>0, <2>1, <3>1, PairingAssumption DEF KeptTypes
  <2>3. /\ \A n \in Machines : link'[n] = IF n = m THEN cli[m].on ELSE link[n]
        /\ \A n \in Machines : n \in unkept' <=> n = m \/ n \in unkept
        /\ sidecar' = sidecar
    BY <1>0, <1>1 DEF WriteJoin, KeptTypes
  <2>4. \A n \in Machines :
          cli'[n] = IF n = m THEN [at |-> "record", on |-> cli[m].on] ELSE cli[n]
    BY <1>0, <1>1 DEF WriteJoin, CliBecomes
  <2>5. OthersKeep(m) BY <1>0, <2>1, <2>3, <2>4 DEF OthersKeep, KeptTypes
  <2>6. Keeps(m)' BY <2>2, <2>3, <2>4 DEF Keeps
  <2>q. QED BY <2>3, <2>5, <2>6, OneKeeps
<1>2. CASE link[m] # None
  <2>1. UNCHANGED <<link, url, unkept, sidecar>> /\ cli' = [cli EXCEPT ![m] = Out]
    BY <1>2 DEF WriteJoin
  <2>2. \A n \in Machines : cli'[n] = IF n = m THEN Out ELSE cli[n]
    BY <1>0, <2>1
  <2>3. OthersKeep(m) BY <2>1, <2>2 DEF OthersKeep
  <2>4. Keeps(m)' BY <2>1, <2>2 DEF Keeping, Keeps, Out
  <2>q. QED BY <2>1, <2>3, <2>4, OneKeeps
<1>q. QED BY <1>1, <1>2

LEMMA WriteSidecarKeeps ==
    ASSUME IInv, Keeping, NEW m \in Machines, WriteSidecar(m)
    PROVE  /\ Keeping'
           /\ \A n, h \in Machines : sidecar[n][h] # None => sidecar'[n][h] # None
<1>a. KeptTypes /\ cli \in [Machines -> Commands] /\ cli[m].at = "record"
  BY DEF IInv, TypeOK, KeptTypes, Commands, WriteSidecar, Recording
<1>0. KeptTypes /\ cli = [n \in Machines |-> cli[n]] /\ cli[m].on \in Codes
  BY <1>a DEF Commands, Out
<1>1. link[m] = cli[m].on /\ link[m] # None /\ url[m] # None
  BY <1>a, <1>0, PairingAssumption DEF Keeping, Keeps
<1>2. Maker[link[m]] \in Machines BY <1>0, <1>1, PairingAssumption
<1>3. \A n, h \in Machines :
        sidecar'[n][h] = IF n = m /\ h = Maker[link[m]] THEN url[m] ELSE sidecar[n][h]
  BY <1>0, <1>1, <1>2 DEF WriteSidecar, Recording, KeptTypes
<1>4. \A n \in Machines : n # m => sidecar'[n] = sidecar[n]
  BY <1>0, <1>1, <1>2 DEF WriteSidecar, Recording, KeptTypes
<1>5. /\ UNCHANGED <<link, url>>
      /\ \A n \in Machines : n \in unkept' <=> n # m /\ n \in unkept
      /\ \A n \in Machines : cli'[n] = IF n = m THEN Out ELSE cli[n]
  BY <1>0 DEF WriteSidecar, Recording
<1>6. OthersKeep(m) BY <1>4, <1>5 DEF OthersKeep
<1>7. Keeps(m)' BY <1>1, <1>2, <1>3, <1>5 DEF Keeps, Out
<1>q. QED BY <1>1, <1>3, <1>6, <1>7, OneKeeps

LEMMA LeaveEditKeeps ==
    ASSUME IInv, Keeping, NEW m \in Machines, LeaveEdit(m)
    PROVE  Keeping' /\ UNCHANGED sidecar
<1> DEFINE gone == LinkedAt(m, sidecar[m][cli[m].on])
<1>0. /\ KeptTypes /\ cli = [n \in Machines |-> cli[n]] /\ cli[m].at = "edit"
      /\ UNCHANGED sidecar
  BY DEF IInv, TypeOK, KeptTypes, LeaveEdit
<1>1. /\ \A n \in Machines : link'[n] = IF n = m /\ gone THEN None ELSE link[n]
      /\ \A n \in Machines : url'[n] = IF n = m /\ gone THEN None ELSE url[n]
      /\ \A n \in Machines : n \in unkept' <=> n \in unkept /\ ~(n = m /\ gone)
  BY <1>0 DEF LeaveEdit, KeptTypes
<1>2. \A n \in Machines :
        cli'[n] = IF n = m THEN [at |-> "forget", on |-> cli[m].on] ELSE cli[n]
  BY <1>0 DEF LeaveEdit, CliBecomes
<1>3. OthersKeep(m) BY <1>0, <1>1, <1>2 DEF OthersKeep
<1>4. Keeps(m)'
  <2>1. CASE gone BY <1>0, <1>1, <1>2, <2>1 DEF Keeps, LinkedAt
  <2>2. CASE ~gone
    <3>1. /\ link'[m] = link[m] /\ url'[m] = url[m] /\ sidecar'[m] = sidecar[m]
          /\ (m \in unkept' <=> m \in unkept)
          /\ cli'[m].at = "forget" /\ cli'[m].on = cli[m].on
      BY <1>0, <1>1, <1>2, <2>2
    <3>q. QED BY <2>2, <3>1 DEF Keeping, Keeps, LinkedAt
  <2>q. QED BY <2>1, <2>2
<1>q. QED BY <1>0, <1>3, <1>4, OneKeeps

LEMMA LeaveForgetKeeps ==
    ASSUME IInv, Keeping, NEW m \in Machines, LeaveForget(m)
    PROVE  /\ Keeping'
           /\ \A n, h \in Machines :
                /\ sidecar[n][h] # None /\ sidecar'[n][h] = None /\ LinkedTo(n, h)
                => n \in unkept /\ url[n] # sidecar[n][h]
<1>a. KeptTypes /\ cli \in [Machines -> Commands] /\ cli[m].at = "forget"
  BY DEF IInv, TypeOK, KeptTypes, Commands, LeaveForget
<1>0. KeptTypes /\ cli = [n \in Machines |-> cli[n]] /\ cli[m].on \in Machines
  BY <1>a DEF Commands, Out
<1>1. \A n, h \in Machines :
        sidecar'[n][h] = IF n = m /\ h = cli[m].on THEN None ELSE sidecar[n][h]
  BY <1>0 DEF LeaveForget, KeptTypes
<1>2. \A n \in Machines : n # m => sidecar'[n] = sidecar[n]
  BY <1>0 DEF LeaveForget, KeptTypes
<1>3. /\ UNCHANGED <<link, url, unkept>>
      /\ \A n \in Machines : cli'[n] = IF n = m THEN Out ELSE cli[n]
  BY <1>0 DEF LeaveForget
<1>4. LinkedTo(m, cli[m].on) => m \in unkept /\ url[m] # sidecar[m][cli[m].on]
  BY <1>a, <1>0 DEF Keeping, Keeps, LinkedTo, LinkedAt
<1>5. OthersKeep(m) BY <1>2, <1>3 DEF OthersKeep
<1>6. Keeps(m)'
  <2>1. link[m] # None => Maker[link[m]] \in Machines
    BY <1>0, PairingAssumption DEF KeptTypes
  <2>q. QED BY <1>0, <1>1, <1>3, <1>4, <2>1 DEF Keeping, Keeps, LinkedTo, Out
<1>q. QED BY <1>1, <1>4, <1>5, <1>6, OneKeeps

LEMMA KeepingStep ==
    ASSUME IInv, Keeping, [Next]_vars
    PROVE  /\ Keeping'
           /\ \A m, h \in Machines :
                /\ sidecar[m][h] # None /\ sidecar'[m][h] = None /\ LinkedTo(m, h)
                => m \in unkept /\ url[m] # sidecar[m][h]
<1>1. CASE UNCHANGED joiner
  BY <1>1 DEF joiner, kept, Keeping, Keeps, LinkedAt
<1>2. ASSUME NEW m \in Machines, UNCHANGED kept,
             \/ UNCHANGED cli
             \/ \E k : cli' = [cli EXCEPT ![m] = k] /\ k.at \notin {"record", "forget"}
      PROVE  Keeping' /\ UNCHANGED sidecar
  <2>1. CASE UNCHANGED cli
    BY <1>2, <2>1 DEF kept, Keeping, Keeps, LinkedAt
  <2>2. CASE \E k : cli' = [cli EXCEPT ![m] = k] /\ k.at \notin {"record", "forget"}
    <3>0. PICK k : cli' = [cli EXCEPT ![m] = k] /\ k.at \notin {"record", "forget"}
      BY <2>2
    <3>1. \A n \in Machines : cli'[n] = IF n = m THEN k ELSE cli[n]
      BY <3>0 DEF IInv, TypeOK
    <3>2. OthersKeep(m) BY <1>2, <3>1 DEF OthersKeep, kept
    <3>3. Keeps(m)' BY <1>2, <3>0, <3>1 DEF kept, Keeping, Keeps
    <3>q. QED BY <1>2, <3>2, <3>3, OneKeeps DEF kept
  <2>q. QED BY <1>2, <2>1, <2>2
<1>3. CASE Next
  BY <1>1, <1>2, <1>3, JoinerFrame, WriteJoinKeeps, WriteSidecarKeeps,
     LeaveEditKeeps, LeaveForgetKeeps DEF joiner, kept
<1>q. QED BY <1>1, <1>3 DEF vars

(* A leave drops its record of a hub only when no entry of the hub is left, *)
(* wherever joins and leaves stop and whatever addresses they went through: *)
(* what can be left is the entry of a join cut before its own record, and   *)
(* that only when an older record of the hub names another address.         *)
THEOREM NothingIsLeft == Spec => LeavesNothing
<1>1. Init => Keeping
  BY DEF Init, Keeping, Keeps, Out
<1>2. IInv /\ Keeping /\ [Next]_vars
        => /\ Keeping'
           /\ [\A m, h \in Machines :
                 /\ sidecar[m][h] # None /\ sidecar'[m][h] = None
                 /\ LinkedTo(m, h)
                 => m \in unkept /\ url[m] # sidecar[m][h]]_vars
  BY KeepingStep
<1>q. QED BY <1>1, <1>2, Always, PTL DEF Spec, LeavesNothing
===============================================================================
