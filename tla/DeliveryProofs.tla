---------------------------- MODULE DeliveryProofs ----------------------------
(* Every stream arrives in order and without holes, in every federation    *)
(* whose stores are not restored, so the rounds implement Streams.  The    *)
(* invariant says what each party of a round still counts on: a hub that   *)
(* it holds the vector it advertised, a push and a page that what they     *)
(* leave out is already there.                                             *)
EXTENDS ReplicationProofs

(* ------------------------- streams, in order --------------------------- *)

(* Event e comes before p in its stream, and every receiver keeps it. *)
Owed(e, p) == e.origin = p.origin /\ e.seq < p.seq /\ e.act \notin Malformed

(* Of the streams not in H, what the history I owes before an event of E   *)
(* is in S.                                                                *)
InOrder(I, E, H, S) ==
    \A p \in E, e \in I : p.origin \notin H /\ Owed(e, p) => e \in S

(* The seq q of stream o is that of an event of E, or nothing. *)
Reached(E, o, q) == q = 0 \/ \E f \in E : f.origin = o /\ f.seq = q

(* History I grows to I2 past what it holds, and no log loses a stamp. *)
Grows(L, L2, I, I2) ==
    /\ I \subseteq I2 /\ I2 \subseteq Event
    /\ \A m \in Nodes : Events(L[m]) \subseteq Events(L2[m])
    /\ \A e \in I2 \ I, f \in I : e.origin = f.origin => f.seq < e.seq

(* ------------------------ the inductive invariant ---------------------- *)

(* A hub holds the end of every stream of the vector it advertised. *)
AnswersHeld(r, L) ==
    \A a \in r.asked : \A o \in Nodes : Reached(Events(L[a.hub]), o, a.vv[o])

(* What a push has left to send follows on what the hub holds. *)
ToSend(r, L, I) ==
    r.phase = "send" => InOrder(I, r.events, {}, L[r.peer] \cup r.events)

(* So it does behind the batch the hub is applying, the streams aside that *)
(* the hub has held in this batch.                                         *)
InFlight(n, r, L, I, J) ==
    r.phase = "sent" =>
        \A j \in J[r.peer] : j.from = n /\ j.live =>
            InOrder(I, r.events, j.held, L[r.peer] \cup r.events \cup j.events)

(* What is left of a page follows on what the puller holds. *)
ToApply(n, r, L, I) ==
    r.phase = "apply" => InOrder(I, r.events, r.held, L[n] \cup r.events)

(* The puller holds, or has on the page before it, every event of a stream *)
(* it does not ask for, except of a stream held in this exchange: that one *)
(* is claimed whole.                                                       *)
SinceHeld(n, r, L, I) ==
    r.phase \in {"fetch", "asked", "apply"} =>
        \A o \in Nodes : r.since[o] # MaxSeq =>
            /\ Reached(I, o, r.since[o])
            /\ o \notin r.held => \A e \in I :
                e.origin = o /\ e.seq <= r.since[o] /\ e.act \notin Malformed
                    => e \in L[n] \cup r.events

Bare(r) ==
    r.phase \notin {"send", "sent", "apply"} => r.events = {} /\ r.held = {}

RoundInv(n, r, L, I, J) ==
    /\ Bare(r) /\ AnswersHeld(r, L)
    /\ ToSend(r, L, I) /\ InFlight(n, r, L, I, J)
    /\ ToApply(n, r, L, I) /\ SinceHeld(n, r, L, I)

RoundsInv == \A n \in Nodes : RoundInv(n, round[n], log, issued, jobs)

(* What is left of a batch follows on what the hub holds. *)
JobsInv ==
    \A h \in Nodes : \A j \in jobs[h] :
        InOrder(issued, j.events, j.held, log[h] \cup j.events)

(* A job whose caller still waits is the one batch of that caller's round. *)
LiveSent(J, R) ==
    \A h \in Nodes : \A j \in J[h] : j.live =>
        /\ R[j.from].phase = "sent" /\ R[j.from].peer = h
        /\ \A i \in J[h] : i.live /\ i.from = j.from => i = j

DeliveryInv == NoHole /\ RoundsInv /\ JobsInv /\ LiveSent(jobs, round)

(* ---------------------------- facts of vectors ------------------------- *)

(* A bounded set of seqs has its highest among them. *)
LEMMA HighestIn ==
    ASSUME NEW S, S \subseteq 0 .. MaxSeq
    PROVE  Highest(S) = 0 \/ Highest(S) \in S
<1> DEFINE u == Highest(S)
<1>1. /\ u \in 0 .. MaxSeq /\ \A q \in S : q <= u
      /\ \A v \in 0 .. MaxSeq : (\A q \in S : q <= v) => u <= v
  BY HighestSpec
<1> HIDE DEF u
<1>2. CASE u # 0 /\ u \notin S
  <2>1. u - 1 \in 0 .. MaxSeq /\ \A q \in S : q <= u - 1
    BY <1>1, <1>2, MaxSeqAssumption
  <2> QED BY <1>1, <2>1
<1> QED BY <1>2 DEF u

(* A version vector reaches, and bounds, the streams of the log it is of. *)
LEMMA VectorSpec ==
    ASSUME NEW S, S \subseteq Attestation
    PROVE  /\ \A o \in Nodes : Reached(Events(S), o, VersionVector(S)[o])
           /\ \A e \in Events(S) : e.seq <= VersionVector(S)[e.origin]
<1>1. Events(S) \subseteq Event
  BY EventsType
<1>2. ASSUME NEW o \in Nodes
      PROVE  /\ Reached(Events(S), o, VersionVector(S)[o])
             /\ \A e \in Events(S) : e.origin = o => e.seq <= VersionVector(S)[o]
  <2> DEFINE Q == {p.seq : p \in {e \in Events(S) : e.origin = o}}
  <2>1. Q \subseteq 0 .. MaxSeq
    BY <1>1, MaxSeqAssumption DEF Event
  <2>2. VersionVector(S)[o] = Highest(Q)
    BY DEF VersionVector
  <2>3. /\ Highest(Q) = 0 \/ Highest(Q) \in Q
        /\ \A q \in Q : q <= Highest(Q)
    <3> HIDE DEF Q
    <3> QED BY <2>1, HighestIn, HighestSpec
  <2> QED BY <2>2, <2>3 DEF Reached
<1>3. \A e \in Events(S) : e.origin \in Nodes
  BY <1>1 DEF Event
<1> QED BY <1>2, <1>3

(* --------------------------- facts of growing -------------------------- *)

LEMMA InOrderGrows ==
    ASSUME NEW L, NEW L2, NEW I, NEW I2, Grows(L, L2, I, I2),
           NEW E, NEW H, NEW S, NEW S2, E \subseteq I,
           InOrder(I, E, H, S), \A e \in I : e \in S => e \in S2
    PROVE  InOrder(I2, E, H, S2)
<1> SUFFICES ASSUME NEW p \in E, NEW e \in I2, p.origin \notin H, Owed(e, p)
             PROVE  e \in S2
  BY DEF InOrder
<1>1. e \in I
  <2>1. CASE e \notin I
    <3>1. e.origin = p.origin => p.seq < e.seq
      BY <2>1 DEF Grows
    <3>2. p \in Event /\ e \in Event
      BY DEF Grows
    <3>3. p.seq \in Int /\ e.seq \in Int
      BY <3>2, MaxSeqAssumption DEF Event
    <3> QED BY <3>1, <3>3 DEF Owed
  <2> QED BY <2>1
<1> QED BY <1>1 DEF InOrder

(* A stamp in a log is there after the logs have grown. *)
LEMMA StampStays ==
    ASSUME NEW L, NEW L2, NEW I, NEW I2, Grows(L, L2, I, I2),
           NEW m \in Nodes, NEW e \in I, e \in L[m]
    PROVE  e \in L2[m]
<1>1. e \in Event
  BY DEF Grows
<1>2. e \in Events(L[m])
  BY <1>1, NoOriginAssumption DEF Events, IsStamped, Event
<1> QED BY <1>2 DEF Grows, Events

LEMMA AnswersGrow ==
    ASSUME NEW L, NEW L2, NEW I, NEW I2, Grows(L, L2, I, I2),
           NEW r \in Round, AnswersHeld(r, L)
    PROVE  AnswersHeld(r, L2)
<1> SUFFICES ASSUME NEW a \in r.asked, NEW o \in Nodes
             PROVE  Reached(Events(L2[a.hub]), o, a.vv[o])
  BY DEF AnswersHeld
<1>1. a.hub \in Nodes /\ Reached(Events(L[a.hub]), o, a.vv[o])
  BY DEF AnswersHeld, Round
<1> QED BY <1>1 DEF Reached, Grows

(* A round whose own record did not change keeps what it counts on while   *)
(* logs and history grow and no new batch is taken from it.                *)
LEMMA RoundGrows ==
    ASSUME NEW L, NEW L2, NEW I, NEW I2, Grows(L, L2, I, I2),
           NEW n \in Nodes, NEW r \in Round, r.events \subseteq I,
           NEW J, NEW J2, RoundInv(n, r, L, I, J),
           r.phase = "sent" =>
               \A j \in J2[r.peer] : j.from = n /\ j.live => j \in J[r.peer]
    PROVE  RoundInv(n, r, L2, I2, J2)
<1>1. Bare(r)
  BY DEF RoundInv
<1>2. AnswersHeld(r, L2)
  BY AnswersGrow DEF RoundInv
<1>3. ToSend(r, L2, I2)
  <2> SUFFICES ASSUME r.phase = "send"
               PROVE  InOrder(I2, r.events, {}, L2[r.peer] \cup r.events)
    BY DEF ToSend
  <2>1. InOrder(I, r.events, {}, L[r.peer] \cup r.events)
    BY DEF RoundInv, ToSend
  <2>2. r.peer \in Nodes
    BY DEF Round, None
  <2>3. \A e \in I : e \in L[r.peer] \cup r.events => e \in L2[r.peer] \cup r.events
    BY <2>2, StampStays
  <2> QED BY <2>1, <2>3, InOrderGrows
<1>4. InFlight(n, r, L2, I2, J2)
  <2> SUFFICES ASSUME r.phase = "sent",
                      NEW j \in J2[r.peer], j.from = n, j.live
               PROVE  InOrder(I2, r.events, j.held,
                              L2[r.peer] \cup r.events \cup j.events)
    BY DEF InFlight
  <2>1. InOrder(I, r.events, j.held, L[r.peer] \cup r.events \cup j.events)
    BY DEF RoundInv, InFlight
  <2>2. r.peer \in Nodes
    BY DEF Round, None
  <2>3. \A e \in I : e \in L[r.peer] \cup r.events \cup j.events
                        => e \in L2[r.peer] \cup r.events \cup j.events
    BY <2>2, StampStays
  <2> QED BY <2>1, <2>3, InOrderGrows
<1>5. ToApply(n, r, L2, I2)
  <2> SUFFICES ASSUME r.phase = "apply"
               PROVE  InOrder(I2, r.events, r.held, L2[n] \cup r.events)
    BY DEF ToApply
  <2>1. InOrder(I, r.events, r.held, L[n] \cup r.events)
    BY DEF RoundInv, ToApply
  <2>2. \A e \in I : e \in L[n] \cup r.events => e \in L2[n] \cup r.events
    BY StampStays
  <2> QED BY <2>1, <2>2, InOrderGrows
<1>6. SinceHeld(n, r, L2, I2)
  <2> SUFFICES ASSUME r.phase \in {"fetch", "asked", "apply"},
                      NEW o \in Nodes, r.since[o] # MaxSeq
               PROVE  /\ Reached(I2, o, r.since[o])
                      /\ o \notin r.held => \A e \in I2 :
                            e.origin = o /\ e.seq <= r.since[o]
                                /\ e.act \notin Malformed
                            => e \in L2[n] \cup r.events
    BY DEF SinceHeld
  <2>1. /\ Reached(I, o, r.since[o])
        /\ o \notin r.held => \A e \in I :
              e.origin = o /\ e.seq <= r.since[o] /\ e.act \notin Malformed
              => e \in L[n] \cup r.events
    BY DEF RoundInv, SinceHeld
  <2>2. Reached(I2, o, r.since[o])
    BY <2>1 DEF Reached, Grows
  <2>3. ASSUME NEW e \in I2, e.origin = o, e.seq <= r.since[o]
        PROVE  e \in I
    <3>1. CASE e \notin I
      <4>1. I2 \subseteq Event /\ e \in Event /\ I \subseteq I2
        BY DEF Grows
      <4>2. e.seq \in Int /\ e.seq >= 1
        BY <4>1, MaxSeqAssumption DEF Event
      <4>3. CASE r.since[o] = 0
        BY <2>3, <4>2, <4>3
      <4>4. CASE r.since[o] # 0
        <5>1. PICK f \in I : f.origin = o /\ f.seq = r.since[o]
          BY <2>1, <4>4 DEF Reached
        <5>2. f.seq \in Int /\ f.seq < e.seq
          BY <2>3, <3>1, <4>1, <5>1, MaxSeqAssumption DEF Event, Grows
        <5> QED BY <2>3, <4>2, <5>1, <5>2
      <4> QED BY <4>3, <4>4
    <3> QED BY <3>1
  <2> QED BY <2>1, <2>2, <2>3, StampStays
<1> QED BY <1>1, <1>2, <1>3, <1>4, <1>5, <1>6 DEF RoundInv

(* While no store is restored every step grows the logs and the history:   *)
(* what is stamped is past all that was.                                   *)
LEMMA StepGrows ==
    ASSUME IInv, ActInv, Budget["restore"] = 0, [Next]_vars
    PROVE  Grows(log, log', issued, issued')
<1>0. /\ log \in [Nodes -> SUBSET Attestation] /\ spent["restore"] \in Nat
      /\ issued' \subseteq Event
  BY InvStep DEF IInv, TypeOK, Faults
<1>1. ASSUME NEW n \in Nodes, NEW T, log' = [log EXCEPT ![n] = Absorb(log[n], T)]
      PROVE  \A m \in Nodes : Events(log[m]) \subseteq Events(log'[m])
  <2>1. Events(log[n]) \subseteq Events(Absorb(log[n], T))
    BY AbsorbKeepsStamps
  <2>2. \A m \in Nodes : log'[m] = IF m = n THEN Absorb(log[n], T) ELSE log[m]
    BY <1>0, <1>1
  <2> QED BY <2>1, <2>2
<1>2. CASE \E n \in Nodes, a \in Acts : Observe(n, a)
  <2>1. PICK n \in Nodes, a \in Acts : Observe(n, a)
    BY <1>2
  <2>2. log' = [log EXCEPT ![n] = Absorb(log[n], {Unstamped(a)})] /\ issued' = issued
    BY <2>1 DEF Observe
  <2> QED BY <1>0, <1>1, <2>2 DEF Grows
<1>3. CASE \E n, c \in Nodes : BackfillStart(n, c)
  BY <1>0, <1>3 DEF BackfillStart, Grows
<1>4. CASE \E n, c \in Nodes : BackfillWrite(n, c)
  <2>1. PICK n \in Nodes, c \in Nodes : BackfillWrite(n, c)
    BY <1>4
  <2>2. PICK a \in stamping[n][c].todo :
          LET e == Stamped(a, n, stamping[n][c].next)
          IN  /\ log' = [log EXCEPT ![n] = Absorb(@, {e})]
              /\ issued' = issued \cup {e}
    BY <2>1 DEF BackfillWrite
  <2> DEFINE e == Stamped(a, n, stamping[n][c].next)
  <2>3. log' = [log EXCEPT ![n] = Absorb(log[n], {e})] /\ issued' = issued \cup {e}
    BY <2>2
  <2>4. PassReserved(n, c)
    BY DEF IInv, SeqInv
  <2>5. \A f \in issued : f.origin = n => f.seq < e.seq
    BY <2>4 DEF PassReserved, Stamped
  <2>6. e.origin = n
    BY DEF Stamped
  <2> HIDE DEF e
  <2> QED BY <1>0, <1>1, <2>3, <2>5, <2>6 DEF Grows
<1>5. ASSUME NEW n \in Nodes, Restore(n)
      PROVE  FALSE
  BY <1>0, <1>5 DEF Restore, Spend
<1>6. CASE Delivers
  BY <1>0, <1>1, <1>6 DEF Delivers, Grows
<1>7. CASE Silent
  BY <1>0, <1>7 DEF Silent, Grows
<1> QED BY <1>2, <1>3, <1>4, <1>5, <1>6, <1>7, StepKinds

(* --------------------------- no hole is made --------------------------- *)

(* The step brings a log the next event that log is owed of its stream. *)
DeliversInOrder ==
    \E n \in Nodes, p \in issued :
        /\ log' = [log EXCEPT ![n] = Absorb(@, {p})]
        /\ UNCHANGED issued
        /\ \A e \in issued : Owed(e, p) => e \in log[n]

LEMMA OrderedKeepsNoHole ==
    ASSUME IInv, NoHole, DeliversInOrder
    PROVE  NoHole'
<1>1. PICK n \in Nodes, p \in issued :
          /\ log' = [log EXCEPT ![n] = Absorb(log[n], {p})]
          /\ UNCHANGED issued
          /\ \A e \in issued : Owed(e, p) => e \in log[n]
  BY DEF DeliversInOrder
<1>2. /\ p \in Event /\ issued \subseteq Event
      /\ \A m \in Nodes : log'[m] = IF m = n THEN Absorb(log[n], {p}) ELSE log[m]
  BY <1>1 DEF IInv, TypeOK
<1>3. Events(Absorb(log[n], {p})) = Events(log[n]) \cup {p}
  <2>1. Events({p}) = {p}
    BY <1>2, NoOriginAssumption DEF Events, IsStamped, Event
  <2> QED BY <2>1, AbsorbKeepsStamps
<1>4. \A e \in issued : e \in log[n] => e \in Absorb(log[n], {p})
  <2>1. \A e \in issued : e \in log[n] => e \in Events(log[n])
    BY <1>2, NoOriginAssumption DEF Events, IsStamped, Event
  <2> QED BY <1>3, <2>1 DEF Events
<1> SUFFICES ASSUME NEW m \in Nodes, NEW f \in Events(log'[m]), NEW e \in issued,
                    e.origin = f.origin, e.seq < f.seq, e.act \notin Malformed
             PROVE  e \in log'[m]
  BY <1>1 DEF NoHole
<1>5. CASE m = n
  <2>1. e \in log[n]
    <3>1. CASE f \in Events(log[n])
      BY <3>1 DEF NoHole
    <3>2. CASE f = p
      BY <1>1, <3>2 DEF Owed
    <3> QED BY <1>2, <1>3, <1>5, <3>1, <3>2
  <2> QED BY <1>2, <1>4, <1>5, <2>1
<1>6. CASE m # n
  BY <1>2, <1>6 DEF NoHole
<1> QED BY <1>5, <1>6

(* The author holds all it has stamped, so its next stamp leaves no hole;   *)
(* and nobody else holds anything past it.                                  *)
LEMMA StampingKeepsNoHole ==
    ASSUME IInv, ActInv, NoHole, Grows(log, log', issued, issued'),
           NEW n \in Nodes, NEW c \in Nodes, BackfillWrite(n, c)
    PROVE  NoHole'
<1>1. PICK a \in stamping[n][c].todo :
        LET e == Stamped(a, n, stamping[n][c].next)
        IN  /\ log' = [log EXCEPT ![n] = Absorb(@, {e})]
            /\ issued' = issued \cup {e}
  BY DEF BackfillWrite
<1> DEFINE g == Stamped(a, n, stamping[n][c].next)
<1>2. log' = [log EXCEPT ![n] = Absorb(log[n], {g})] /\ issued' = issued \cup {g}
  BY <1>1
<1>3. g.origin = n /\ g \in Event
  BY <1>2 DEF Stamped, Grows
<1> HIDE DEF g
<1>4. \A m \in Nodes : log'[m] = IF m = n THEN Absorb(log[n], {g}) ELSE log[m]
  BY <1>2 DEF IInv, TypeOK
<1>5. Events(Absorb(log[n], {g})) = Events(log[n]) \cup {g}
  <2>1. Events({g}) = {g}
    BY <1>3, NoOriginAssumption DEF Events, IsStamped, Event
  <2> QED BY <2>1, AbsorbKeepsStamps
<1> SUFFICES ASSUME NEW m \in Nodes, NEW f \in Events(log'[m]), NEW e \in issued',
                    e.origin = f.origin, e.seq < f.seq, e.act \notin Malformed
             PROVE  e \in log'[m]
  BY DEF NoHole
<1>6. CASE m = n /\ e = g
  BY <1>4, <1>5, <1>6 DEF Events
<1>7. CASE m = n /\ f = g /\ e \in issued
  <2>1. e \in log[n]
    BY <1>3, <1>7 DEF ActInv, StampsHeld
  <2> QED BY <1>7, <2>1, StampStays
<1>8. CASE f \in Events(log[m]) /\ e \in issued
  <2>1. e \in log[m]
    BY <1>8 DEF NoHole
  <2> QED BY <1>8, <2>1, StampStays
<1>9. CASE f \in Events(log[m]) /\ e = g
  <2>1. CASE g \notin issued
    <3>1. f \in issued
      BY <1>9 DEF IInv, AllIssued
    <3>2. f.seq < g.seq /\ f \in Event
      BY <1>2, <1>9, <2>1, <3>1 DEF Grows
    <3>3. f.seq \in Int /\ g.seq \in Int
      BY <1>3, <3>2, MaxSeqAssumption DEF Event
    <3> QED BY <1>9, <3>2, <3>3
  <2>2. CASE g \in issued
    BY <1>8, <1>9, <2>2
  <2> QED BY <2>1, <2>2
<1>10. f \in Events(log[m]) \/ (m = n /\ f = g)
  BY <1>4, <1>5
<1> QED BY <1>2, <1>6, <1>7, <1>8, <1>9, <1>10

(* ------------------- a round moves, nothing else does ------------------ *)

LEMMA RoundOnlyDelivery ==
    ASSUME IInv, DeliveryInv, NEW n \in Nodes, NEW r \in Round,
           RoundBecomes(n, r), UNCHANGED <<log, jobs, issued>>,
           round[n].phase # "sent", RoundInv(n, r, log, issued, jobs)
    PROVE  DeliveryInv'
<1>1. \A m \in Nodes : round'[m] = IF m = n THEN r ELSE round[m]
  BY DEF RoundBecomes, IInv, TypeOK
<1>2. NoHole'
  BY DEF DeliveryInv, NoHole
<1>3. RoundsInv'
  BY <1>1 DEF DeliveryInv, RoundsInv
<1>4. JobsInv'
  BY DEF DeliveryInv, JobsInv
<1>5. LiveSent(jobs, round')
  <2> SUFFICES ASSUME NEW h \in Nodes, NEW j \in jobs[h], j.live
               PROVE  /\ round'[j.from].phase = "sent" /\ round'[j.from].peer = h
                      /\ \A i \in jobs[h] : i.live /\ i.from = j.from => i = j
    BY DEF LiveSent
  <2>1. /\ round[j.from].phase = "sent" /\ round[j.from].peer = h
        /\ \A i \in jobs[h] : i.live /\ i.from = j.from => i = j
    BY DEF DeliveryInv, LiveSent
  <2>2. j.from \in Nodes
    BY DEF IInv, TypeOK, Job
  <2> QED BY <1>1, <2>1, <2>2
<1> QED BY <1>2, <1>3, <1>4, <1>5 DEF DeliveryInv

(* A round that carries no events, and is asked for none, counts only on   *)
(* the answers it has.                                                     *)
LEMMA QuietRound ==
    ASSUME NEW n, NEW r, NEW L, NEW I, NEW J, r.events = {}, r.held = {},
           r.phase \in {"idle", "ask", "stamp", "push", "pull"},
           AnswersHeld(r, L)
    PROVE  RoundInv(n, r, L, I, J)
BY DEF RoundInv, Bare, ToSend, InFlight, ToApply, SinceHeld

LEMMA LeaveQuiet ==
    ASSUME NEW n, NEW r \in Round, NEW L, NEW I, NEW J, AnswersHeld(r, L)
    PROVE  RoundInv(n, Leave(r), L, I, J)
<1>1. /\ Leave(r).events = {} /\ Leave(r).held = {}
      /\ Leave(r).phase \in {"push", "pull"}
      /\ Leave(r).asked = r.asked
  BY DEF Leave, Round
<1> HIDE DEF Leave
<1>2. AnswersHeld(Leave(r), L)
  BY <1>1 DEF AnswersHeld
<1> QED BY <1>1, <1>2, QuietRound

LEMMA AfterPushQuiet ==
    ASSUME NEW n, NEW m, NEW r, NEW L, NEW I, NEW J
    PROVE  RoundInv(n, AfterPush(r, m), L, I, J)
<1>1. /\ AfterPush(r, m).events = {} /\ AfterPush(r, m).held = {}
      /\ AfterPush(r, m).phase \in {"idle", "pull"}
      /\ AfterPush(r, m).asked = {}
  BY DEF AfterPush, Idle
<1>2. AnswersHeld(AfterPush(r, m), L)
  BY <1>1 DEF AnswersHeld
<1> HIDE DEF AfterPush
<1> QED BY <1>1, <1>2, QuietRound

LEMMA RoundFacts ==
    ASSUME IInv, DeliveryInv, NEW n \in Nodes
    PROVE  /\ round[n] \in Round /\ round[n].events \subseteq issued
           /\ RoundInv(n, round[n], log, issued, jobs)
           /\ AnswersHeld(round[n], log)
           /\ issued \subseteq Event /\ log[n] \subseteq Attestation
           /\ Events(log[n]) \subseteq issued
           /\ \A e \in issued : e \in log[n] => e \in Events(log[n])
<1>1. issued \subseteq Event
  BY DEF IInv, TypeOK
<1>2. \A e \in issued : e \in log[n] => e \in Events(log[n])
  BY <1>1, NoOriginAssumption DEF Events, IsStamped, Event
<1> QED BY <1>1, <1>2, RoundEvents
        DEF DeliveryInv, RoundsInv, RoundInv, IInv, TypeOK, AllIssued

LEMMA AskDelivery ==
    ASSUME IInv, DeliveryInv, NEW n \in Nodes,
           \/ \E pulls \in BOOLEAN : PushStart(n, pulls)
           \/ PullStart(n)
           \/ \E h \in Nodes : Advertise(n, h) \/ AdvertiseFails(n, h)
           \/ FloorSeq(n) \/ Stamping(n) \/ PushEnd(n) \/ PullEnd(n)
    PROVE  DeliveryInv'
<1>0. /\ round[n] \in Round /\ Bare(round[n]) /\ AnswersHeld(round[n], log)
  BY RoundFacts DEF RoundInv
<1>1. ASSUME NEW pulls \in BOOLEAN, PushStart(n, pulls)
      PROVE  DeliveryInv'
  <2> DEFINE r == [Idle EXCEPT !.phase = "ask", !.todo = Hubs(n), !.pulls = pulls]
  <2>1. r \in Round
    BY IdleType, HubsType DEF Idle, Round, Phases
  <2>2. r.events = {} /\ r.held = {} /\ r.phase = "ask" /\ r.asked = {}
    BY DEF Idle
  <2>3. RoundBecomes(n, r) /\ UNCHANGED <<log, jobs, issued>> /\ round[n] = Idle
    BY <1>1 DEF PushStart, disk
  <2> HIDE DEF r
  <2>4. RoundInv(n, r, log, issued, jobs)
    BY <2>2, QuietRound DEF AnswersHeld
  <2>5. round[n].phase # "sent"
    BY <2>3 DEF Idle
  <2> QED BY <2>1, <2>3, <2>4, <2>5, RoundOnlyDelivery
<1>2. CASE PullStart(n)
  <2> DEFINE r == [Idle EXCEPT !.phase = "pull", !.todo = Hubs(n)]
  <2>1. r \in Round
    BY IdleType, HubsType DEF Idle, Round, Phases
  <2>2. r.events = {} /\ r.held = {} /\ r.phase = "pull" /\ r.asked = {}
    BY DEF Idle
  <2>3. RoundBecomes(n, r) /\ UNCHANGED <<log, jobs, issued>> /\ round[n] = Idle
    BY <1>2 DEF PullStart, disk
  <2> HIDE DEF r
  <2>4. RoundInv(n, r, log, issued, jobs)
    BY <2>2, QuietRound DEF AnswersHeld
  <2>5. round[n].phase # "sent"
    BY <2>3 DEF Idle
  <2> QED BY <2>1, <2>3, <2>4, <2>5, RoundOnlyDelivery
<1>3. ASSUME NEW h \in Nodes, Advertise(n, h)
      PROVE  DeliveryInv'
  <2> DEFINE answer == [hub |-> h, vv |-> VersionVector(log[h])]
             r == [round[n] EXCEPT !.todo = @ \ {h}, !.asked = @ \cup {answer}]
  <2>1. answer \in [hub : Nodes, vv : Vector] /\ answer.hub = h
        /\ \A o \in Nodes : Reached(Events(log[h]), o, answer.vv[o])
    <3>1. VersionVector(log[h]) \in Vector /\ log[h] \subseteq Attestation
      BY RoundType DEF IInv
    <3> QED BY <3>1, VectorSpec
  <2> HIDE DEF answer
  <2>2. r \in Round
    BY <1>0, <2>1 DEF Round
  <2>3. /\ r.events = round[n].events /\ r.held = round[n].held
        /\ r.phase = round[n].phase /\ r.asked = round[n].asked \cup {answer}
    BY <1>0 DEF Round
  <2>4. RoundBecomes(n, r) /\ UNCHANGED <<log, jobs, issued>>
        /\ round[n].phase = "ask"
    BY <1>3 DEF Advertise, disk, answer
  <2> HIDE DEF r
  <2>5. AnswersHeld(r, log)
    BY <1>0, <2>1, <2>3 DEF AnswersHeld
  <2>6. RoundInv(n, r, log, issued, jobs)
    BY <1>0, <2>3, <2>4, <2>5, QuietRound DEF Bare
  <2> QED BY <2>2, <2>4, <2>6, RoundOnlyDelivery
<1>4. ASSUME NEW r \in Round, RoundBecomes(n, r), UNCHANGED <<log, jobs, issued>>,
             round[n].phase \in {"ask", "stamp"}, r.phase \in {"ask", "stamp", "push"},
             r.events = round[n].events, r.held = round[n].held,
             r.asked = round[n].asked
      PROVE  DeliveryInv'
  <2>1. RoundInv(n, r, log, issued, jobs)
    <3>1. AnswersHeld(r, log)
      BY <1>0, <1>4 DEF AnswersHeld
    <3> QED BY <1>0, <1>4, <3>1, QuietRound DEF Bare
  <2> QED BY <1>4, <2>1, RoundOnlyDelivery
<1>5. ASSUME NEW h \in Nodes, AdvertiseFails(n, h)
      PROVE  DeliveryInv'
  <2> DEFINE r == [round[n] EXCEPT !.todo = @ \ {h}]
  <2>1. /\ r \in Round /\ r.events = round[n].events /\ r.held = round[n].held
        /\ r.asked = round[n].asked /\ r.phase = round[n].phase
    BY <1>0 DEF Round
  <2>2. RoundBecomes(n, r) /\ UNCHANGED <<log, jobs, issued>>
        /\ round[n].phase = "ask"
    BY <1>5 DEF AdvertiseFails, disk
  <2> HIDE DEF r
  <2> QED BY <1>4, <2>1, <2>2
<1>6. CASE FloorSeq(n)
  <2> DEFINE r == [round[n] EXCEPT !.phase = "stamp"]
  <2>1. /\ r \in Round /\ r.events = round[n].events /\ r.held = round[n].held
        /\ r.asked = round[n].asked /\ r.phase = "stamp"
    BY <1>0 DEF Round, Phases
  <2>2. RoundBecomes(n, r) /\ UNCHANGED <<log, jobs, issued>>
        /\ round[n].phase = "ask"
    BY <1>6 DEF FloorSeq, disk
  <2> HIDE DEF r
  <2> QED BY <1>4, <2>1, <2>2
<1>7. CASE Stamping(n)
  <2> DEFINE r == [round[n] EXCEPT !.phase = "push"]
  <2>1. /\ r \in Round /\ r.events = round[n].events /\ r.held = round[n].held
        /\ r.asked = round[n].asked /\ r.phase = "push"
    BY <1>0 DEF Round, Phases
  <2>2. RoundBecomes(n, r) /\ UNCHANGED <<log, jobs, issued>>
        /\ round[n].phase = "stamp"
    BY <1>7 DEF Stamping, disk
  <2> HIDE DEF r
  <2> QED BY <1>4, <2>1, <2>2
<1>8. CASE PushEnd(n)
  <2>1. /\ RoundBecomes(n, AfterPush(round[n], n))
        /\ UNCHANGED <<log, jobs, issued>> /\ round[n].phase # "sent"
    BY <1>8 DEF PushEnd, disk
  <2> QED BY <1>0, <2>1, AfterPushType, AfterPushQuiet, RoundOnlyDelivery
<1>9. CASE PullEnd(n)
  <2>1. /\ RoundBecomes(n, Idle)
        /\ UNCHANGED <<log, jobs, issued>> /\ round[n].phase # "sent"
    BY <1>9 DEF PullEnd, disk
  <2>2. RoundInv(n, Idle, log, issued, jobs)
    BY QuietRound DEF Idle, AnswersHeld
  <2> QED BY <2>1, <2>2, IdleType, RoundOnlyDelivery
<1> QED BY <1>1, <1>2, <1>3, <1>5, <1>6, <1>7, <1>8, <1>9

(* ----------------------- what is left out is held ---------------------- *)

(* What the end of a stream claims is held: nothing before it is missing. *)
LEMMA ClaimedHeld ==
    ASSUME IInv, NoHole, NEW m \in Nodes, NEW e \in issued,
           e.act \notin Malformed, NEW q \in 0 .. MaxSeq, e.seq <= q,
           Reached(Events(log[m]), e.origin, q)
    PROVE  e \in log[m]
<1>0. e \in Event /\ Events(log[m]) \subseteq issued /\ issued \subseteq Event
  BY DEF IInv, TypeOK, AllIssued
<1>1. e.seq \in Int /\ e.seq >= 1 /\ q \in Int
  BY <1>0, MaxSeqAssumption DEF Event
<1>2. PICK f \in Events(log[m]) : f.origin = e.origin /\ f.seq = q
  BY <1>1 DEF Reached
<1>3. CASE e.seq < q
  BY <1>2, <1>3 DEF NoHole
<1>4. CASE e.seq = q
  <2>1. e = f
    BY <1>0, <1>2, <1>4 DEF IInv, IssuedUnique
  <2> QED BY <2>1 DEF Events
<1> QED BY <1>1, <1>3, <1>4

LEMMA ExportDelivery ==
    ASSUME IInv, DeliveryInv, NEW n \in Nodes, ExportDelta(n)
    PROVE  DeliveryInv'
<1>0. /\ round[n] \in Round /\ Bare(round[n]) /\ AnswersHeld(round[n], log)
      /\ round[n].phase = "push" /\ NoHole
  BY RoundFacts DEF RoundInv, ExportDelta, DeliveryInv
<1>1. PICK a \in round[n].asked :
        LET surplus == AttestationsSince(log[n], a.vv)
        IN  RoundBecomes(n,
              IF surplus = {} THEN [round[n] EXCEPT !.asked = @ \ {a}]
              ELSE [round[n] EXCEPT !.asked = @ \ {a}, !.phase = "send",
                                    !.peer = a.hub, !.events = surplus])
  BY DEF ExportDelta
<1> DEFINE surplus == AttestationsSince(log[n], a.vv)
<1>2. /\ a.hub \in Nodes /\ a.vv \in Vector
      /\ surplus \in SUBSET Event /\ surplus \subseteq Events(log[n])
      /\ \A p \in Events(log[n]) : p \in surplus \/ Covers(a.vv, p)
      /\ \A o \in Nodes : Reached(Events(log[a.hub]), o, a.vv[o])
  BY <1>0, RoundType DEF Round, AttestationsSince, AnswersHeld, IInv
<1>3. InOrder(issued, surplus, {}, log[a.hub] \cup surplus)
  <2> SUFFICES ASSUME NEW p \in surplus, NEW e \in issued, Owed(e, p),
                      e \notin surplus
               PROVE  e \in log[a.hub]
    BY DEF InOrder
  <2>1. e \in Events(log[n])
    <3>1. e \in log[n]
      BY <1>0, <1>2 DEF NoHole, Owed
    <3> QED BY <3>1, RoundFacts
  <2>2. e.seq <= a.vv[e.origin] /\ e \in Event
    BY <1>2, <2>1, RoundFacts DEF Covers
  <2>3. e.origin \in Nodes /\ a.vv[e.origin] \in 0 .. MaxSeq
    BY <1>2, <2>2 DEF Event, Vector
  <2> QED BY <1>0, <1>2, <2>2, <2>3, ClaimedHeld DEF Owed
<1>4. CASE surplus = {}
  <2> DEFINE r == [round[n] EXCEPT !.asked = @ \ {a}]
  <2>1. /\ r \in Round /\ r.events = round[n].events /\ r.held = round[n].held
        /\ r.phase = "push" /\ r.asked \subseteq round[n].asked
    BY <1>0 DEF Round
  <2>2. RoundBecomes(n, r)
    BY <1>1, <1>4
  <2> HIDE DEF r
  <2>3. RoundInv(n, r, log, issued, jobs)
    BY <1>0, <2>1, QuietRound DEF Bare, AnswersHeld
  <2> QED BY <1>0, <2>1, <2>2, <2>3, RoundOnlyDelivery DEF ExportDelta, disk
<1>5. CASE surplus # {}
  <2> DEFINE r == [round[n] EXCEPT !.asked = @ \ {a}, !.phase = "send",
                                   !.peer = a.hub, !.events = surplus]
  <2>1. RoundBecomes(n, r)
    BY <1>1, <1>5
  <2> HIDE DEF surplus
  <2>2. /\ r \in Round /\ r.events = surplus /\ r.phase = "send"
        /\ r.peer = a.hub /\ r.asked \subseteq round[n].asked
    BY <1>0, <1>2, NoOriginAssumption DEF Round, Phases, None
  <2> HIDE DEF r
  <2>3. RoundInv(n, r, log, issued, jobs)
    <3>1. AnswersHeld(r, log)
      BY <1>0, <2>2 DEF AnswersHeld
    <3> QED BY <1>3, <2>2, <3>1
            DEF RoundInv, Bare, ToSend, InFlight, ToApply, SinceHeld
  <2> QED BY <1>0, <2>1, <2>2, <2>3, RoundOnlyDelivery DEF ExportDelta, disk
<1> QED BY <1>4, <1>5

(* ------------------------------ pulling -------------------------------- *)

(* The vector of its own log is what a puller asks beyond. *)
LEMMA PullFromDelivery ==
    ASSUME IInv, DeliveryInv, NEW n \in Nodes, NEW h \in Nodes, PullFrom(n, h)
    PROVE  DeliveryInv'
<1>0. /\ round[n] \in Round /\ Bare(round[n]) /\ AnswersHeld(round[n], log)
      /\ round[n].phase = "pull" /\ NoHole
  BY RoundFacts DEF RoundInv, PullFrom, DeliveryInv
<1> DEFINE since == VersionVector(log[n])
           r == [round[n] EXCEPT !.todo = @ \ {h}, !.phase = "fetch",
                                 !.peer = h, !.since = since]
<1>1. /\ since \in Vector
      /\ \A o \in Nodes : Reached(Events(log[n]), o, since[o])
  <2>1. VersionVector(log[n]) \in Vector /\ log[n] \subseteq Attestation
    BY RoundType DEF IInv
  <2> QED BY <2>1, VectorSpec
<1>2. RoundBecomes(n, r) /\ UNCHANGED <<log, jobs, issued>>
  BY DEF PullFrom, disk
<1> HIDE DEF since
<1>3. /\ r \in Round /\ r.phase = "fetch" /\ r.asked = round[n].asked
      /\ r.events = {} /\ r.held = {} /\ r.since = since
  BY <1>0, <1>1, NoOriginAssumption DEF Round, Phases, None, Bare
<1> HIDE DEF r
<1>4. RoundInv(n, r, log, issued, jobs)
  <2>1. AnswersHeld(r, log)
    BY <1>0, <1>3 DEF AnswersHeld
  <2>2. SinceHeld(n, r, log, issued)
    <3> SUFFICES ASSUME NEW o \in Nodes
                 PROVE  /\ Reached(issued, o, since[o])
                        /\ \A e \in issued :
                              e.origin = o /\ e.seq <= since[o]
                                  /\ e.act \notin Malformed => e \in log[n]
      BY <1>3 DEF SinceHeld
    <3>1. Reached(Events(log[n]), o, since[o]) /\ since[o] \in 0 .. MaxSeq
      BY <1>1 DEF Vector
    <3>2. Reached(issued, o, since[o])
      BY <3>1, RoundFacts DEF Reached
    <3> QED BY <1>0, <3>1, <3>2, ClaimedHeld
  <2> QED BY <1>3, <2>1, <2>2 DEF RoundInv, Bare, ToSend, InFlight, ToApply
<1> QED BY <1>0, <1>2, <1>3, <1>4, RoundOnlyDelivery

(* A page is a prefix, in every stream, of what the puller does not claim. *)
LEMMA PageInOrder ==
    ASSUME IInv, DeliveryInv, NEW n \in Nodes, NEW h \in Nodes,
           round[n].phase = "asked", NEW page,
           page \subseteq AttestationsSince(log[h], round[n].since),
           IsPage(page, AttestationsSince(log[h], round[n].since), PageEvents)
    PROVE  /\ page \subseteq issued
           /\ InOrder(issued, page, {}, log[n] \cup page)
<1> DEFINE since == round[n].since
           delta == AttestationsSince(log[h], since)
<1>0. /\ round[n] \in Round /\ since \in Vector /\ NoHole
      /\ round[n].events = {} /\ round[n].held = {}
      /\ SinceHeld(n, round[n], log, issued)
  BY RoundFacts DEF RoundInv, Bare, DeliveryInv, Round
<1>1. /\ delta \subseteq Events(log[h]) /\ page \subseteq delta
      /\ \A p \in Events(log[h]) : p \in delta \/ Covers(since, p)
      /\ \A p \in delta : ~Covers(since, p)
      /\ \A p \in page, q \in delta : q.origin = p.origin /\ q.seq < p.seq => q \in page
  BY DEF AttestationsSince, IsPage
<1>2. Events(log[h]) \subseteq issued /\ issued \subseteq Event
  BY RoundFacts
<1> HIDE DEF since, delta
<1>3. InOrder(issued, page, {}, log[n] \cup page)
  <2> SUFFICES ASSUME NEW p \in page, NEW e \in issued, Owed(e, p), e \notin page
               PROVE  e \in log[n]
    BY DEF InOrder
  <2>1. e \in Events(log[h])
    <3>1. e \in log[h]
      BY <1>0, <1>1 DEF NoHole, Owed
    <3> QED BY <3>1, RoundFacts
  <2>2. e.seq <= since[e.origin]
    BY <1>1, <2>1 DEF Covers, Owed
  <2>3. /\ p \in Event /\ e \in Event /\ ~(p.seq <= since[p.origin])
        /\ p.origin = e.origin
    BY <1>1, <1>2 DEF Covers, Owed
  <2>4. since[e.origin] # MaxSeq /\ e.origin \in Nodes
    <3>1. p.seq \in Int /\ p.seq <= MaxSeq
      BY <2>3, MaxSeqAssumption DEF Event
    <3> QED BY <2>3, <3>1 DEF Event
  <2> QED BY <1>0, <2>2, <2>4 DEF SinceHeld, Owed, since
<1> QED BY <1>1, <1>2, <1>3

(* Past its page, the request claims what the page brings. *)
LEMMA AdvancedHeld ==
    ASSUME IInv, DeliveryInv, NEW n \in Nodes, round[n].phase = "asked",
           NEW page, page \subseteq issued,
           InOrder(issued, page, {}, log[n] \cup page),
           NEW o \in Nodes, Advanced(round[n].since, page)[o] # MaxSeq
    PROVE  /\ Reached(issued, o, Advanced(round[n].since, page)[o])
           /\ \A e \in issued :
                 e.origin = o /\ e.seq <= Advanced(round[n].since, page)[o]
                    /\ e.act \notin Malformed => e \in log[n] \cup page
<1> DEFINE since == round[n].since
           Q == {since[o]} \cup {p.seq : p \in {q \in page : q.origin = o}}
           top == Advanced(since, page)[o]
<1>0. /\ since \in Vector /\ issued \subseteq Event
      /\ round[n].events = {} /\ round[n].held = {}
      /\ SinceHeld(n, round[n], log, issued)
  BY RoundFacts DEF RoundInv, Bare, Round
<1>1. Q \subseteq 0 .. MaxSeq /\ top = Highest(Q)
  BY <1>0, MaxSeqAssumption DEF Vector, Event, Advanced
<1>2. top = 0 \/ top \in Q
  <2> HIDE DEF Q
  <2> QED BY <1>1, HighestIn
<1>3. CASE top = 0
  <2>1. \A e \in issued : ~(e.seq <= 0)
    BY <1>0, MaxSeqAssumption DEF Event
  <2> QED BY <1>3, <2>1 DEF Reached
<1>4. CASE top = since[o]
  <2>1. since[o] # MaxSeq
    BY <1>4
  <2> QED BY <1>0, <1>4, <2>1 DEF SinceHeld, since
<1>5. CASE \E p \in page : p.origin = o /\ p.seq = top
  <2>1. PICK p \in page : p.origin = o /\ p.seq = top
    BY <1>5
  <2> HIDE DEF top
  <2>2. Reached(issued, o, top)
    BY <2>1 DEF Reached
  <2>3. ASSUME NEW e \in issued, e.origin = o, e.seq <= top, e.act \notin Malformed
        PROVE  e \in log[n] \cup page
    <3>1. e.seq \in Int /\ top \in Int
      BY <1>0, <2>1, MaxSeqAssumption DEF Event
    <3>2. CASE e.seq = top
      <4>1. e = p
        BY <2>1, <2>3, <3>2 DEF IInv, IssuedUnique
      <4> QED BY <4>1
    <3>3. CASE e.seq < top
      BY <2>1, <2>3, <3>3 DEF InOrder, Owed
    <3> QED BY <2>3, <3>1, <3>2, <3>3
  <2> QED BY <2>2, <2>3 DEF top
<1>6. top \in Q => \/ top = since[o]
                   \/ \E p \in page : p.origin = o /\ p.seq = top
  BY DEF Q
<1> QED BY <1>2, <1>3, <1>4, <1>5, <1>6

LEMMA ServeDelivery ==
    ASSUME IInv, DeliveryInv, NEW n \in Nodes, PullServe(n)
    PROVE  DeliveryInv'
<1> DEFINE h == round[n].peer
           delta == AttestationsSince(log[h], round[n].since)
<1>0. /\ round[n] \in Round /\ AnswersHeld(round[n], log)
      /\ round[n].phase = "asked"
      /\ UNCHANGED <<log, jobs, issued>>
  BY RoundFacts DEF PullServe, disk
<1>1. h \in Nodes
  BY <1>0 DEF Round, None
<1>2. PICK page \in SUBSET delta :
        /\ IsPage(page, delta, PageEvents)
        /\ RoundBecomes(n,
             IF page = {} THEN Leave(round[n])
             ELSE [round[n] EXCEPT !.phase = "apply", !.events = page,
                      !.held = {}, !.more = page # delta,
                      !.since = Advanced(round[n].since, page)])
  BY DEF PullServe
<1>3. page \subseteq issued /\ InOrder(issued, page, {}, log[n] \cup page)
  BY <1>0, <1>1, <1>2, PageInOrder
<1>4. CASE page = {}
  <2>1. RoundBecomes(n, Leave(round[n]))
    BY <1>2, <1>4
  <2> QED BY <1>0, <2>1, LeaveType, LeaveQuiet, RoundOnlyDelivery
<1>5. CASE page # {}
  <2> DEFINE since == Advanced(round[n].since, page)
             more == page # delta
             r == [round[n] EXCEPT !.phase = "apply", !.events = page,
                      !.held = {}, !.more = more, !.since = since]
  <2>1. RoundBecomes(n, r)
    BY <1>2, <1>5
  <2>2. \A o \in Nodes : since[o] # MaxSeq =>
          /\ Reached(issued, o, since[o])
          /\ \A e \in issued : e.origin = o /\ e.seq <= since[o]
                /\ e.act \notin Malformed => e \in log[n] \cup page
    BY <1>0, <1>3, AdvancedHeld
  <2>3. since \in Vector /\ page \subseteq Event /\ more \in BOOLEAN
    <3> SUFFICES ASSUME NEW o \in Nodes
                 PROVE  Highest({round[n].since[o]} \cup
                            {p.seq : p \in {q \in page : q.origin = o}})
                                \in 0 .. MaxSeq
      BY <1>3, RoundFacts DEF Advanced, Vector
    <3>1. {round[n].since[o]} \cup
             {p.seq : p \in {q \in page : q.origin = o}} \subseteq 0 .. MaxSeq
      BY <1>0, <1>3, RoundFacts, MaxSeqAssumption DEF Round, Vector, Event
    <3> QED BY <3>1, HighestSpec
  <2> HIDE DEF since, more
  <2>4. /\ r \in Round /\ r.phase = "apply" /\ r.events = page /\ r.held = {}
        /\ r.since = since /\ r.asked = round[n].asked
    BY <1>0, <2>3 DEF Round, Phases
  <2> HIDE DEF r
  <2>5. AnswersHeld(r, log)
    BY <1>0, <2>4 DEF AnswersHeld
  <2>6. RoundInv(n, r, log, issued, jobs)
    BY <1>3, <2>2, <2>4, <2>5
       DEF RoundInv, Bare, ToSend, InFlight, ToApply, SinceHeld
  <2> QED BY <1>0, <2>1, <2>4, <2>6, RoundOnlyDelivery
<1> QED BY <1>4, <1>5

LEMMA PullMovesDelivery ==
    ASSUME IInv, DeliveryInv, NEW n \in Nodes,
           PullAsk(n) \/ PullNext(n) \/ PullFails(n)
    PROVE  DeliveryInv'
<1>0. /\ round[n] \in Round /\ AnswersHeld(round[n], log) /\ Bare(round[n])
      /\ SinceHeld(n, round[n], log, issued)
  BY RoundFacts DEF RoundInv
<1>1. CASE PullAsk(n)
  <2> DEFINE r == [round[n] EXCEPT !.phase = "asked"]
  <2>1. RoundBecomes(n, r) /\ UNCHANGED <<log, jobs, issued>>
        /\ round[n].phase = "fetch"
    BY <1>1 DEF PullAsk, disk
  <2>2. /\ r \in Round /\ r.phase = "asked" /\ r.events = {} /\ r.held = {}
        /\ r.since = round[n].since /\ r.asked = round[n].asked
        /\ round[n].events = {} /\ round[n].held = {}
    BY <1>0, <2>1 DEF Round, Phases, Bare
  <2> HIDE DEF r
  <2>3. AnswersHeld(r, log)
    BY <1>0, <2>2 DEF AnswersHeld
  <2>4. SinceHeld(n, r, log, issued)
    BY <1>0, <2>1, <2>2 DEF SinceHeld
  <2>5. RoundInv(n, r, log, issued, jobs)
    BY <2>2, <2>3, <2>4 DEF RoundInv, Bare, ToSend, InFlight, ToApply
  <2> QED BY <2>1, <2>2, <2>5, RoundOnlyDelivery
<1>2. CASE PullNext(n) /\ round[n].more
  <2> DEFINE claimed == [o \in Nodes |-> IF o \in round[n].held THEN MaxSeq
                                         ELSE round[n].since[o]]
             r == [round[n] EXCEPT !.phase = "fetch", !.since = claimed,
                                   !.held = {}, !.more = FALSE]
  <2>1. RoundBecomes(n, r) /\ UNCHANGED <<log, jobs, issued>>
        /\ round[n].phase = "apply" /\ round[n].events = {}
    BY <1>2 DEF PullNext, disk
  <2>2. /\ claimed \in Vector
        /\ \A o \in Nodes : claimed[o] = IF o \in round[n].held THEN MaxSeq
                                         ELSE round[n].since[o]
    BY <1>0, MaxSeqAssumption DEF Round, Vector
  <2> HIDE DEF claimed
  <2>3. /\ r \in Round /\ r.phase = "fetch" /\ r.events = {} /\ r.held = {}
        /\ r.since = claimed /\ r.asked = round[n].asked
    BY <1>0, <2>1, <2>2 DEF Round, Phases
  <2> HIDE DEF r
  <2>4. AnswersHeld(r, log)
    BY <1>0, <2>3 DEF AnswersHeld
  <2>5. SinceHeld(n, r, log, issued)
    BY <1>0, <2>1, <2>2, <2>3 DEF SinceHeld
  <2>6. RoundInv(n, r, log, issued, jobs)
    BY <2>3, <2>4, <2>5 DEF RoundInv, Bare, ToSend, InFlight, ToApply
  <2> QED BY <2>1, <2>3, <2>6, RoundOnlyDelivery
<1>3. CASE (PullNext(n) /\ ~round[n].more) \/ PullFails(n)
  <2>1. RoundBecomes(n, Leave(round[n])) /\ UNCHANGED <<log, jobs, issued>>
        /\ round[n].phase # "sent"
    BY <1>3 DEF PullNext, PullFails, disk
  <2> QED BY <1>0, <2>1, LeaveType, LeaveQuiet, RoundOnlyDelivery
<1> QED BY <1>1, <1>2, <1>3

(* A seq range used up ends the round that waited for the stamps. *)
LEMMA ExhaustedDelivery ==
    ASSUME IInv, DeliveryInv, NEW n \in Nodes, NEW c \in Nodes, SeqExhausted(n, c)
    PROVE  DeliveryInv'
<1>0. /\ round[c] \in Round /\ AnswersHeld(round[c], log)
      /\ RoundInv(c, round[c], log, issued, jobs)
      /\ UNCHANGED <<log, jobs, issued>>
  BY RoundFacts DEF SeqExhausted, disk
<1>1. CASE c = n /\ round[n].phase = "stamp"
  <2>1. RoundBecomes(c, AfterPush(round[n], n))
    BY <1>1 DEF SeqExhausted
  <2> QED BY <1>0, <1>1, <2>1, AfterPushType, AfterPushQuiet, RoundOnlyDelivery
<1>2. CASE /\ ~(c = n /\ round[n].phase = "stamp")
           /\ round[c].phase = "asked" /\ round[c].peer = n
  <2>1. RoundBecomes(c, Leave(round[c]))
    BY <1>2 DEF SeqExhausted
  <2> QED BY <1>0, <1>2, <2>1, LeaveType, LeaveQuiet, RoundOnlyDelivery
<1>3. CASE /\ ~(c = n /\ round[n].phase = "stamp")
           /\ ~(round[c].phase = "asked" /\ round[c].peer = n)
  <2>1. RoundBecomes(c, round[c])
    BY <1>3 DEF SeqExhausted
  <2>2. round' = round
    BY <2>1 DEF RoundBecomes, IInv, TypeOK
  <2> QED BY <1>0, <2>2 DEF DeliveryInv, NoHole, RoundsInv, JobsInv, LiveSent
<1> QED BY <1>1, <1>2, <1>3

(* ------------------------ events are applied --------------------------- *)

(* One event applied, in a hub's job or off a page. *)
LEMMA AppliedDelivery ==
    ASSUME IInv, NoHole, NEW n \in Nodes, NEW E, E \subseteq issued,
           NEW p \in E, IsNext(E, p), NEW H, NEW H2, NEW allowed,
           InOrder(issued, E, H, log[n] \cup E), UNCHANGED issued,
           H2 = IF Holds(n, p, allowed, H) THEN H \cup {p.origin} ELSE H,
           log' = IF Accepts(n, p, allowed, H)
                  THEN [log EXCEPT ![n] = Absorb(@, {p})] ELSE log
    PROVE  /\ NoHole' /\ (DeliversInOrder \/ UNCHANGED log)
           /\ Grows(log, log', issued, issued')
           /\ p \in log'[n] \/ p.act \in Malformed \/ p.origin \in H2
           /\ InOrder(issued, E \ {p}, H2, log'[n] \cup (E \ {p}))
<1>0. /\ issued \subseteq Event /\ p \in Event
      /\ log \in [Nodes -> SUBSET Attestation]
  BY DEF IInv, TypeOK
<1>1. DeliversInOrder \/ UNCHANGED log
  <2>1. CASE Accepts(n, p, allowed, H)
    <3>1. p.origin \notin H
      BY <2>1 DEF Accepts, Holds
    <3>2. ASSUME NEW e \in issued, Owed(e, p)
          PROVE  e \in log[n]
      <4>1. e \in log[n] \cup E
        BY <3>1, <3>2 DEF InOrder
      <4>2. e \in Event /\ e.seq \in Int /\ p.seq \in Int
        BY <1>0, MaxSeqAssumption DEF Event
      <4>3. e \notin E
        BY <3>2, <4>2 DEF IsNext, Owed
      <4> QED BY <4>1, <4>3
    <3> QED BY <2>1, <3>2 DEF DeliversInOrder
  <2> QED BY <2>1
<1>2. NoHole'
  BY <1>1, OrderedKeepsNoHole DEF NoHole
<1>3. \A m \in Nodes : Events(log[m]) \subseteq Events(log'[m])
  <2>1. Events(log[n]) \subseteq Events(Absorb(log[n], {p}))
    BY AbsorbKeepsStamps
  <2> QED BY <1>0, <2>1
<1>4. Grows(log, log', issued, issued')
  BY <1>0, <1>3 DEF Grows
<1>5. p \in log'[n] \/ p.act \in Malformed \/ p.origin \in H2
  <2>1. CASE Accepts(n, p, allowed, H)
    <3>1. p \in Absorb(log[n], {p})
      BY <1>0, NoOriginAssumption DEF Absorb, Enriched, IsStamped, Event
    <3> QED BY <1>0, <2>1, <3>1
  <2>2. CASE Holds(n, p, allowed, H)
    BY <2>2
  <2> QED BY <2>1, <2>2 DEF Accepts
<1>6. InOrder(issued, E \ {p}, H2, log'[n] \cup (E \ {p}))
  <2>1. \A e \in issued : e \in log[n] \cup E =>
           \/ e \in log'[n] \cup (E \ {p})
           \/ e.act \in Malformed \/ e.origin \in H2
    <3>1. ASSUME NEW e \in issued, e \in log[n] PROVE e \in log'[n]
      BY <1>4, <3>1, StampStays
    <3>2. ASSUME NEW e \in issued, e \in E, e # p PROVE e \in E \ {p}
      BY <3>2
    <3> QED BY <1>5, <3>1, <3>2
  <2>2. H \subseteq H2
    OBVIOUS
  <2> QED BY <2>1, <2>2 DEF InOrder, Owed
<1> QED BY <1>1, <1>2, <1>4, <1>5, <1>6

(* The rounds of the nodes a step does not touch. *)
LEMMA OtherRounds ==
    ASSUME IInv, DeliveryInv, Grows(log, log', issued, issued'), NEW n \in Nodes,
           \A m \in Nodes : m # n =>
               /\ round'[m] = round[m]
               /\ \A h \in Nodes : \A j \in jobs'[h] :
                      j.from = m /\ j.live => j \in jobs[h],
           RoundInv(n, round'[n], log', issued', jobs')
    PROVE  RoundsInv'
<1> SUFFICES ASSUME NEW m \in Nodes, m # n
             PROVE  RoundInv(m, round[m], log', issued', jobs')
  BY DEF RoundsInv
<1>1. /\ round[m] \in Round /\ round[m].events \subseteq issued
      /\ RoundInv(m, round[m], log, issued, jobs)
  BY RoundFacts
<1>2. round[m].phase = "sent" => round[m].peer \in Nodes
  BY <1>1 DEF Round, None
<1> QED BY <1>1, <1>2, RoundGrows

(* The jobs a step does not touch. *)
LEMMA OtherJobs ==
    ASSUME IInv, DeliveryInv, Grows(log, log', issued, issued'),
           \A h \in Nodes : \A j \in jobs'[h] :
               \/ \E i \in jobs[h] : i.events = j.events /\ i.held = j.held
               \/ InOrder(issued', j.events, j.held, log'[h] \cup j.events)
    PROVE  JobsInv'
<1> SUFFICES ASSUME NEW h \in Nodes, NEW j \in jobs[h]
             PROVE  InOrder(issued', j.events, j.held, log'[h] \cup j.events)
  BY DEF JobsInv
<1>1. /\ InOrder(issued, j.events, j.held, log[h] \cup j.events)
      /\ j.events \subseteq issued
  BY DEF DeliveryInv, JobsInv, IInv, AllIssued
<1>2. \A e \in issued : e \in log[h] \cup j.events => e \in log'[h] \cup j.events
  BY StampStays
<1> QED BY <1>1, <1>2, InOrderGrows

(* A caller that waits goes on waiting for its job. *)
LEMMA LiveSentKept ==
    ASSUME IInv, DeliveryInv, UNCHANGED jobs,
           \A m \in Nodes : round[m].phase = "sent" => round'[m] = round[m]
    PROVE  LiveSent(jobs', round')
<1> SUFFICES ASSUME NEW h \in Nodes, NEW j \in jobs[h], j.live
             PROVE  /\ round'[j.from].phase = "sent" /\ round'[j.from].peer = h
                    /\ \A i \in jobs[h] : i.live /\ i.from = j.from => i = j
  BY DEF LiveSent
<1>1. /\ round[j.from].phase = "sent" /\ round[j.from].peer = h
      /\ \A i \in jobs[h] : i.live /\ i.from = j.from => i = j
  BY DEF DeliveryInv, LiveSent
<1>2. j.from \in Nodes
  BY DEF IInv, TypeOK, Job
<1> QED BY <1>1, <1>2

LEMMA PulledDelivery ==
    ASSUME IInv, DeliveryInv, NEW n \in Nodes, ApplyPulled(n)
    PROVE  DeliveryInv' /\ (DeliversInOrder \/ UNCHANGED <<log, issued>>)
<1>0. /\ round[n] \in Round /\ round[n].events \subseteq issued /\ NoHole
      /\ AnswersHeld(round[n], log) /\ round[n].phase = "apply"
      /\ InOrder(issued, round[n].events, round[n].held, log[n] \cup round[n].events)
      /\ SinceHeld(n, round[n], log, issued)
      /\ UNCHANGED <<jobs, issued>>
  BY RoundFacts DEF RoundInv, ToApply, ApplyPulled, DeliveryInv
<1>1. PICK p \in round[n].events :
        LET ok == Accepts(n, p, keys[n], round[n].held)
        IN  /\ IsNext(round[n].events, p)
            /\ log' = IF ok THEN [log EXCEPT ![n] = Absorb(@, {p})] ELSE log
            /\ RoundBecomes(n, [round[n] EXCEPT
                   !.events = @ \ {p},
                   !.held = IF Holds(n, p, keys[n], round[n].held)
                            THEN @ \cup {p.origin} ELSE @])
  BY DEF ApplyPulled
<1> DEFINE held == IF Holds(n, p, keys[n], round[n].held)
                   THEN round[n].held \cup {p.origin} ELSE round[n].held
           left == round[n].events \ {p}
           r == [round[n] EXCEPT !.events = left, !.held = held]
<1>2. /\ NoHole' /\ (DeliversInOrder \/ UNCHANGED log)
      /\ Grows(log, log', issued, issued')
      /\ p \in log'[n] \/ p.act \in Malformed \/ p.origin \in held
      /\ InOrder(issued, left, held, log'[n] \cup left)
  BY <1>0, <1>1, AppliedDelivery
<1>3. RoundBecomes(n, r)
  BY <1>1
<1>4. held \in SUBSET Nodes /\ round[n].held \subseteq held
  BY <1>0 DEF Round, Event
<1> HIDE DEF held
<1>5. /\ r.phase = "apply" /\ r.events = left /\ r.held = held
      /\ r.asked = round[n].asked /\ r.since = round[n].since
      /\ r.peer = round[n].peer
  BY <1>0 DEF Round
<1> HIDE DEF r
<1>6. \A m \in Nodes : round'[m] = IF m = n THEN r ELSE round[m]
  BY <1>3 DEF RoundBecomes, IInv, TypeOK
<1>7. AnswersHeld(r, log')
  <2>1. AnswersHeld(round[n], log')
    BY <1>0, <1>2, AnswersGrow
  <2> QED BY <1>5, <2>1 DEF AnswersHeld
<1>8. SinceHeld(n, r, log', issued)
  <2> SUFFICES ASSUME NEW o \in Nodes, round[n].since[o] # MaxSeq
               PROVE  /\ Reached(issued, o, round[n].since[o])
                      /\ o \notin held => \A e \in issued :
                            e.origin = o /\ e.seq <= round[n].since[o]
                                /\ e.act \notin Malformed
                            => e \in log'[n] \cup left
    BY <1>5 DEF SinceHeld
  <2>1. /\ Reached(issued, o, round[n].since[o])
        /\ o \notin round[n].held => \A e \in issued :
              e.origin = o /\ e.seq <= round[n].since[o] /\ e.act \notin Malformed
              => e \in log[n] \cup round[n].events
    BY <1>0 DEF SinceHeld
  <2>2. \A e \in issued : e \in log[n] => e \in log'[n]
    BY <1>2, StampStays
  <2> QED BY <1>2, <1>4, <2>1, <2>2
<1>9. RoundInv(n, r, log', issued', jobs')
  BY <1>0, <1>2, <1>5, <1>7, <1>8 DEF RoundInv, Bare, ToSend, InFlight, ToApply
<1>10. RoundsInv'
  BY <1>0, <1>2, <1>6, <1>9, OtherRounds
<1>11. JobsInv'
  BY <1>0, <1>2, OtherJobs
<1>12. LiveSent(jobs', round')
  BY <1>0, <1>6, LiveSentKept
<1> QED BY <1>0, <1>2, <1>10, <1>11, <1>12 DEF DeliveryInv

LEMMA PushedDelivery ==
    ASSUME IInv, DeliveryInv, NEW h \in Nodes, ApplyPushed(h)
    PROVE  DeliveryInv' /\ (DeliversInOrder \/ UNCHANGED <<log, issued>>)
<1>1. PICK j \in jobs[h] : \E p \in j.events :
        LET held == IF Holds(h, p, j.allowed, j.held)
                    THEN j.held \cup {p.origin} ELSE j.held
            rest == [j EXCEPT !.events = @ \ {p}, !.held = held]
            ok == Accepts(h, p, j.allowed, j.held)
        IN  /\ IsNext(j.events, p)
            /\ log' = IF ok THEN [log EXCEPT ![h] = Absorb(@, {p})] ELSE log
            /\ jobs' = [jobs EXCEPT ![h] = (@ \ {j}) \cup
                   IF rest.events = {} /\ ~rest.live THEN {} ELSE {rest}]
  BY DEF ApplyPushed
<1>2. PICK p \in j.events :
        LET held == IF Holds(h, p, j.allowed, j.held)
                    THEN j.held \cup {p.origin} ELSE j.held
            rest == [j EXCEPT !.events = @ \ {p}, !.held = held]
            ok == Accepts(h, p, j.allowed, j.held)
        IN  /\ IsNext(j.events, p)
            /\ log' = IF ok THEN [log EXCEPT ![h] = Absorb(@, {p})] ELSE log
            /\ jobs' = [jobs EXCEPT ![h] = (@ \ {j}) \cup
                   IF rest.events = {} /\ ~rest.live THEN {} ELSE {rest}]
  BY <1>1
<1> DEFINE held == IF Holds(h, p, j.allowed, j.held)
                   THEN j.held \cup {p.origin} ELSE j.held
           left == j.events \ {p}
           rest == [j EXCEPT !.events = left, !.held = held]
           gone == IF rest.events = {} /\ ~rest.live THEN {} ELSE {rest}
           n == j.from
<1>3. /\ j \in Job /\ p \in Event /\ j.events \subseteq issued /\ NoHole
      /\ InOrder(issued, j.events, j.held, log[h] \cup j.events)
      /\ UNCHANGED <<round, issued>> /\ n \in Nodes
      /\ jobs \in [Nodes -> SUBSET Job]
  <2>1. UNCHANGED <<round, issued>>
    BY DEF ApplyPushed
  <2>2. j \in Job /\ p \in Event /\ n \in Nodes
    BY JobType DEF IInv, Job
  <2> QED BY <2>1, <2>2 DEF DeliveryInv, JobsInv, IInv, TypeOK, AllIssued
<1>4. /\ NoHole' /\ (DeliversInOrder \/ UNCHANGED log)
      /\ Grows(log, log', issued, issued')
      /\ p \in log'[h] \/ p.act \in Malformed \/ p.origin \in held
      /\ InOrder(issued, left, held, log'[h] \cup left)
  BY <1>2, <1>3, AppliedDelivery
<1>5. jobs' = [jobs EXCEPT ![h] = (jobs[h] \ {j}) \cup gone]
  BY <1>2
<1>6. held \in SUBSET Nodes /\ j.held \subseteq held
  BY <1>3 DEF Job, Event
<1> HIDE DEF held
<1>7. /\ rest.events = left /\ rest.held = held /\ rest.from = n
      /\ rest.live = j.live
  BY <1>3 DEF Job
<1>8. gone \subseteq {rest}
  OBVIOUS
<1> HIDE DEF rest, gone, left
<1>9. \A m \in Nodes : jobs'[m] = IF m = h THEN (jobs[h] \ {j}) \cup gone ELSE jobs[m]
  BY <1>3, <1>5
<1>10. RoundInv(n, round[n], log', issued', jobs')
  <2>0. /\ round[n] \in Round /\ round[n].events \subseteq issued
        /\ RoundInv(n, round[n], log, issued, jobs) /\ n \in Nodes
    BY <1>3, RoundFacts
  <2>1. CASE ~j.live
    <3>1. round[n].phase = "sent" =>
             \A i \in jobs'[round[n].peer] : i.from = n /\ i.live
                => i \in jobs[round[n].peer]
      <4>1. round[n].phase = "sent" => round[n].peer \in Nodes
        BY <2>0 DEF Round, None
      <4>2. \A m \in Nodes : \A i \in jobs'[m] : i \in jobs[m] \/ i = rest
        BY <1>8, <1>9
      <4> QED BY <1>7, <2>1, <4>1, <4>2
    <3> HIDE DEF n
    <3> QED BY <1>4, <2>0, <3>1, RoundGrows
  <2>2. CASE j.live
    <3>1. /\ round[n].phase = "sent" /\ round[n].peer = h
          /\ \A i \in jobs[h] : i.live /\ i.from = n => i = j
      BY <2>2 DEF DeliveryInv, LiveSent
    <3>2. InOrder(issued, round[n].events, j.held,
                  log[h] \cup round[n].events \cup j.events)
      BY <2>0, <2>2, <3>1 DEF RoundInv, InFlight
    <3>3. InOrder(issued, round[n].events, held,
                  log'[h] \cup round[n].events \cup left)
      <4>1. \A e \in issued : e \in log[h] \cup round[n].events \cup j.events =>
               \/ e \in log'[h] \cup round[n].events \cup left
               \/ e.act \in Malformed \/ e.origin \in held
        <5>1. \A e \in issued : e \in log[h] => e \in log'[h]
          BY <1>4, StampStays
        <5> QED BY <1>4, <5>1 DEF left
      <4> QED BY <1>6, <3>2, <4>1 DEF InOrder, Owed
    <3>4. \A i \in jobs'[h] : i.from = n /\ i.live => i = rest
      BY <1>8, <1>9, <3>1
    <3>5. InFlight(n, round[n], log', issued', jobs')
      BY <1>3, <1>7, <3>1, <3>3, <3>4 DEF InFlight
    <3>6. AnswersHeld(round[n], log')
      BY <1>4, <2>0, AnswersGrow DEF RoundInv
    <3> QED BY <3>1, <3>5, <3>6 DEF RoundInv, Bare, ToSend, ToApply, SinceHeld
  <2> QED BY <2>1, <2>2
<1>11. RoundsInv'
  <2>1. \A m \in Nodes : m # n =>
           /\ round'[m] = round[m]
           /\ \A k \in Nodes : \A i \in jobs'[k] :
                  i.from = m /\ i.live => i \in jobs[k]
    BY <1>3, <1>7, <1>8, <1>9
  <2> QED BY <1>3, <1>4, <1>10, <2>1, OtherRounds
<1>12. JobsInv'
  <2>1. \A k \in Nodes : \A i \in jobs'[k] :
           \/ \E g \in jobs[k] : g.events = i.events /\ g.held = i.held
           \/ InOrder(issued', i.events, i.held, log'[k] \cup i.events)
    BY <1>3, <1>4, <1>7, <1>8, <1>9
  <2> QED BY <1>4, <2>1, OtherJobs
<1>13. LiveSent(jobs', round')
  <2> SUFFICES ASSUME NEW k \in Nodes, NEW i \in jobs'[k], i.live
               PROVE  /\ round[i.from].phase = "sent" /\ round[i.from].peer = k
                      /\ \A g \in jobs'[k] : g.live /\ g.from = i.from => g = i
    BY <1>3 DEF LiveSent
  <2>1. \A q \in Nodes : \A g \in jobs[q] : g.live =>
          /\ round[g.from].phase = "sent" /\ round[g.from].peer = q
          /\ \A f \in jobs[q] : f.live /\ f.from = g.from => f = g
    BY DEF DeliveryInv, LiveSent
  <2>2. CASE k # h
    BY <1>9, <2>1, <2>2
  <2>3. CASE k = h /\ i = rest
    BY <1>7, <1>8, <1>9, <2>1, <2>3
  <2>4. CASE k = h /\ i \in jobs[h] \ {j}
    BY <1>7, <1>8, <1>9, <2>1, <2>4
  <2> QED BY <1>8, <1>9, <2>2, <2>3, <2>4
<1> QED BY <1>3, <1>4, <1>11, <1>12, <1>13 DEF DeliveryInv

(* ------------------------- batches come and go ------------------------- *)

LEMMA SameGrows ==
    ASSUME IInv, UNCHANGED <<log, issued>>
    PROVE  Grows(log, log', issued, issued')
BY DEF Grows, IInv, TypeOK

(* A batch is a prefix, in every stream, of what is left to send. *)
LEMMA BatchDelivery ==
    ASSUME IInv, DeliveryInv, NEW n \in Nodes, PushBatch(n)
    PROVE  DeliveryInv'
<1> DEFINE h == round[n].peer
<1>0. /\ round[n] \in Round /\ round[n].events \subseteq issued
      /\ AnswersHeld(round[n], log) /\ round[n].phase = "send" /\ h \in Nodes
      /\ InOrder(issued, round[n].events, {}, log[h] \cup round[n].events)
      /\ UNCHANGED <<log, issued>> /\ NoHole
      /\ Grows(log, log', issued, issued')
      /\ jobs \in [Nodes -> SUBSET Job]
  <2>1. /\ round[n] \in Round /\ round[n].events \subseteq issued
        /\ RoundInv(n, round[n], log, issued, jobs)
    BY RoundFacts
  <2>2. round[n].phase = "send" /\ UNCHANGED <<log, issued>>
    BY DEF PushBatch, disk
  <2>3. NoHole /\ jobs \in [Nodes -> SUBSET Job]
    BY DEF DeliveryInv, IInv, TypeOK
  <2> QED BY <2>1, <2>2, <2>3, SameGrows DEF RoundInv, ToSend, Round, None
<1>1. PICK batch \in SUBSET round[n].events :
        /\ IsPage(batch, round[n].events, BatchEvents)
        /\ jobs' = [jobs EXCEPT ![h] = @ \cup
               {[from |-> n, live |-> TRUE, events |-> batch, held |-> {},
                 allowed |-> granted[h] \cup {h}]}]
        /\ RoundBecomes(n, [round[n] EXCEPT
               !.phase = "sent", !.events = @ \ batch])
  BY DEF PushBatch
<1> DEFINE job == [from |-> n, live |-> TRUE, events |-> batch, held |-> {},
                   allowed |-> granted[h] \cup {h}]
           left == round[n].events \ batch
           r == [round[n] EXCEPT !.phase = "sent", !.events = left]
<1>2. jobs' = [jobs EXCEPT ![h] = jobs[h] \cup {job}] /\ RoundBecomes(n, r)
  BY <1>1
<1>3. /\ job.from = n /\ job.live = TRUE /\ job.events = batch /\ job.held = {}
  OBVIOUS
<1> HIDE DEF job
<1>4. /\ r.phase = "sent" /\ r.events = left /\ r.peer = h
      /\ r.asked = round[n].asked
  BY <1>0 DEF Round
<1> HIDE DEF r
<1>5. /\ \A m \in Nodes : round'[m] = IF m = n THEN r ELSE round[m]
      /\ \A m \in Nodes : jobs'[m] = IF m = h THEN jobs[h] \cup {job} ELSE jobs[m]
  BY <1>0, <1>2 DEF RoundBecomes, IInv, TypeOK
<1>6. \A m \in Nodes : \A i \in jobs[m] : i.live => i.from # n
  BY <1>0 DEF DeliveryInv, LiveSent
<1>7. InOrder(issued, batch, {}, log[h] \cup batch)
  BY <1>0, <1>1 DEF InOrder, Owed, IsPage
<1>8. InOrder(issued, left, {}, log[h] \cup left \cup batch)
  BY <1>0 DEF InOrder, Owed
<1>9. RoundInv(n, r, log', issued', jobs')
  <2>1. AnswersHeld(r, log)
    BY <1>0, <1>4 DEF AnswersHeld
  <2>2. InFlight(n, r, log, issued, jobs')
    <3> SUFFICES ASSUME NEW i \in jobs'[h], i.from = n, i.live
                 PROVE  InOrder(issued, left, i.held, log[h] \cup left \cup i.events)
      BY <1>4 DEF InFlight
    <3>1. i = job
      BY <1>0, <1>5, <1>6
    <3> QED BY <1>3, <1>8, <3>1
  <2> QED BY <1>0, <1>4, <2>1, <2>2
          DEF RoundInv, Bare, ToSend, ToApply, SinceHeld
<1>10. RoundsInv'
  <2>1. \A m \in Nodes : m # n =>
           /\ round'[m] = round[m]
           /\ \A k \in Nodes : \A i \in jobs'[k] :
                  i.from = m /\ i.live => i \in jobs[k]
    BY <1>3, <1>5
  <2>2. RoundInv(n, round'[n], log', issued', jobs')
    BY <1>5, <1>9
  <2> QED BY <1>0, <2>1, <2>2, OtherRounds
<1>11. JobsInv'
  <2>1. \A k \in Nodes : \A i \in jobs'[k] :
           \/ \E g \in jobs[k] : g.events = i.events /\ g.held = i.held
           \/ InOrder(issued', i.events, i.held, log'[k] \cup i.events)
    <3>1. InOrder(issued', job.events, job.held, log'[h] \cup job.events)
      BY <1>0, <1>3, <1>7
    <3>2. \A k \in Nodes : \A i \in jobs'[k] : i \in jobs[k] \/ (k = h /\ i = job)
      BY <1>5
    <3> HIDE DEF h
    <3> QED BY <3>1, <3>2
  <2> QED BY <1>0, <2>1, OtherJobs
<1>12. LiveSent(jobs', round')
  <2> SUFFICES ASSUME NEW k \in Nodes, NEW i \in jobs'[k], i.live
               PROVE  /\ round'[i.from].phase = "sent" /\ round'[i.from].peer = k
                      /\ \A g \in jobs'[k] : g.live /\ g.from = i.from => g = i
    BY DEF LiveSent
  <2>1. CASE i = job /\ k = h
    BY <1>3, <1>4, <1>5, <1>6, <2>1
  <2>2. CASE i \in jobs[k]
    <3>1. /\ round[i.from].phase = "sent" /\ round[i.from].peer = k
          /\ \A g \in jobs[k] : g.live /\ g.from = i.from => g = i
      BY <2>2 DEF DeliveryInv, LiveSent
    <3>2. i.from \in Nodes /\ i.from # n
      BY <1>0, <1>6, <2>2 DEF Job
    <3> QED BY <1>3, <1>5, <3>1, <3>2
  <2> QED BY <1>5, <2>1, <2>2
<1> QED BY <1>0, <1>10, <1>11, <1>12 DEF DeliveryInv, NoHole

(* A job that ends leaves no live one of its caller. *)
LEMMA ReplyDelivery ==
    ASSUME IInv, DeliveryInv, NEW n \in Nodes, PushReply(n)
    PROVE  DeliveryInv'
<1> DEFINE h == round[n].peer
<1>0. /\ round[n] \in Round /\ AnswersHeld(round[n], log)
      /\ InFlight(n, round[n], log, issued, jobs)
      /\ round[n].phase = "sent" /\ h \in Nodes /\ UNCHANGED <<log, issued>>
      /\ Grows(log, log', issued, issued')
      /\ jobs \in [Nodes -> SUBSET Job]
  <2>1. round[n] \in Round /\ RoundInv(n, round[n], log, issued, jobs)
    BY RoundFacts
  <2>2. round[n].phase = "sent" /\ UNCHANGED <<log, issued>>
    BY DEF PushReply, disk
  <2>3. jobs \in [Nodes -> SUBSET Job]
    BY DEF IInv, TypeOK
  <2> QED BY <2>1, <2>2, <2>3, SameGrows DEF RoundInv, Round, None
<1>1. PICK j \in jobs[h] :
        LET held == round[n].held \cup j.held
            events == {p \in round[n].events : p.origin \notin held}
        IN  /\ j.from = n /\ j.live /\ j.events = {}
            /\ jobs' = [jobs EXCEPT ![h] = @ \ {j}]
            /\ RoundBecomes(n,
                   IF events = {} THEN Leave(round[n])
                   ELSE [round[n] EXCEPT !.phase = "send", !.held = held,
                                         !.events = events])
  BY DEF PushReply
<1> DEFINE held == round[n].held \cup j.held
           events == {p \in round[n].events : p.origin \notin held}
           r == IF events = {} THEN Leave(round[n])
                ELSE [round[n] EXCEPT !.phase = "send", !.held = held,
                                      !.events = events]
<1>2. /\ j.from = n /\ j.live /\ j.events = {} /\ RoundBecomes(n, r)
      /\ jobs' = [jobs EXCEPT ![h] = jobs[h] \ {j}]
  BY <1>1
<1>3. InOrder(issued, events, {}, log[h] \cup events)
  <2>1. InOrder(issued, round[n].events, j.held,
                log[h] \cup round[n].events \cup j.events)
    BY <1>0, <1>2 DEF InFlight
  <2> QED BY <1>2, <2>1 DEF InOrder, Owed
<1>4. RoundInv(n, r, log', issued', jobs')
  <2>1. CASE events = {}
    BY <1>0, <2>1, LeaveQuiet
  <2>2. CASE events # {}
    <3> HIDE DEF events, held
    <3>1. /\ r.phase = "send" /\ r.events = events /\ r.peer = h
          /\ r.asked = round[n].asked
      BY <1>0, <2>2 DEF Round
    <3> HIDE DEF r
    <3>2. AnswersHeld(r, log)
      BY <1>0, <3>1 DEF AnswersHeld
    <3> QED BY <1>0, <1>3, <3>1, <3>2
            DEF RoundInv, Bare, ToSend, InFlight, ToApply, SinceHeld
  <2> QED BY <2>1, <2>2
<1> HIDE DEF r
<1>5. /\ \A m \in Nodes : round'[m] = IF m = n THEN r ELSE round[m]
      /\ \A m \in Nodes : jobs'[m] = IF m = h THEN jobs[h] \ {j} ELSE jobs[m]
  BY <1>0, <1>2 DEF RoundBecomes, IInv, TypeOK
<1>6. RoundsInv'
  <2>1. \A m \in Nodes : m # n =>
           /\ round'[m] = round[m]
           /\ \A k \in Nodes : \A i \in jobs'[k] :
                  i.from = m /\ i.live => i \in jobs[k]
    BY <1>5
  <2>2. RoundInv(n, round'[n], log', issued', jobs')
    BY <1>4, <1>5
  <2> QED BY <1>0, <2>1, <2>2, OtherRounds
<1>7. JobsInv'
  BY <1>0, <1>5, OtherJobs
<1>8. LiveSent(jobs', round')
  <2> SUFFICES ASSUME NEW k \in Nodes, NEW i \in jobs'[k], i.live
               PROVE  /\ round'[i.from].phase = "sent" /\ round'[i.from].peer = k
                      /\ \A g \in jobs'[k] : g.live /\ g.from = i.from => g = i
    BY DEF LiveSent
  <2>1. i \in jobs[k] /\ (k = h => i # j)
    BY <1>5
  <2>2. /\ round[i.from].phase = "sent" /\ round[i.from].peer = k
        /\ \A g \in jobs[k] : g.live /\ g.from = i.from => g = i
    BY <2>1 DEF DeliveryInv, LiveSent
  <2>3. i.from \in Nodes /\ i.from # n
    BY <1>0, <1>2, <2>1, <2>2 DEF Job
  <2> QED BY <1>5, <2>2, <2>3
<1> QED BY <1>0, <1>6, <1>7, <1>8 DEF DeliveryInv, NoHole

(* Orphaning keeps what a job has still to apply, and ends no other's. *)
LEMMA OrphanedJobs ==
    ASSUME NEW S, S \subseteq Job, NEW n
    PROVE  \A i \in Orphaned(S, n) :
              /\ \E g \in S : g.events = i.events /\ g.held = i.held
              /\ i.live => i \in S /\ i.from # n
BY DEF Orphaned, Job

LEMMA PushFailsDelivery ==
    ASSUME IInv, DeliveryInv, NEW n \in Nodes, PushFails(n)
    PROVE  DeliveryInv'
<1> DEFINE h == round[n].peer
           r == Leave(round[n])
<1>0. /\ round[n] \in Round /\ AnswersHeld(round[n], log)
      /\ round[n].phase \in {"send", "sent"} /\ h \in Nodes
      /\ UNCHANGED <<log, issued>>
      /\ Grows(log, log', issued, issued')
      /\ jobs \in [Nodes -> SUBSET Job]
  <2>1. round[n] \in Round /\ AnswersHeld(round[n], log)
    BY RoundFacts
  <2>2. round[n].phase \in {"send", "sent"} /\ UNCHANGED <<log, issued>>
    BY DEF PushFails, disk
  <2>3. jobs \in [Nodes -> SUBSET Job]
    BY DEF IInv, TypeOK
  <2> QED BY <2>1, <2>2, <2>3, SameGrows DEF Round, None
<1>1. RoundBecomes(n, r) /\ jobs' = [jobs EXCEPT ![h] = Orphaned(jobs[h], n)]
  BY DEF PushFails
<1>2. RoundInv(n, r, log', issued', jobs')
  BY <1>0, LeaveQuiet
<1> HIDE DEF r
<1>3. /\ \A m \in Nodes : round'[m] = IF m = n THEN r ELSE round[m]
      /\ \A m \in Nodes : jobs'[m] = IF m = h THEN Orphaned(jobs[h], n) ELSE jobs[m]
  BY <1>0, <1>1 DEF RoundBecomes, IInv, TypeOK
<1>4. \A m \in Nodes : \A i \in jobs'[m] :
         /\ \E g \in jobs[m] : g.events = i.events /\ g.held = i.held
         /\ i.live => i \in jobs[m] /\ (m = h => i.from # n)
  BY <1>0, <1>3, OrphanedJobs
<1>5. RoundsInv'
  <2>1. \A m \in Nodes : m # n =>
           /\ round'[m] = round[m]
           /\ \A k \in Nodes : \A i \in jobs'[k] :
                  i.from = m /\ i.live => i \in jobs[k]
    BY <1>3, <1>4
  <2>2. RoundInv(n, round'[n], log', issued', jobs')
    BY <1>2, <1>3
  <2> QED BY <1>0, <2>1, <2>2, OtherRounds
<1>6. JobsInv'
  BY <1>0, <1>4, OtherJobs
<1>7. LiveSent(jobs', round')
  <2> SUFFICES ASSUME NEW k \in Nodes, NEW i \in jobs'[k], i.live
               PROVE  /\ round'[i.from].phase = "sent" /\ round'[i.from].peer = k
                      /\ \A g \in jobs'[k] : g.live /\ g.from = i.from => g = i
    BY DEF LiveSent
  <2>1. i \in jobs[k] /\ (k = h => i.from # n)
    BY <1>4
  <2>2. /\ round[i.from].phase = "sent" /\ round[i.from].peer = k
        /\ \A g \in jobs[k] : g.live /\ g.from = i.from => g = i
    BY <2>1 DEF DeliveryInv, LiveSent
  <2>3. i.from \in Nodes /\ i.from # n
    BY <1>0, <2>1, <2>2 DEF Job
  <2> QED BY <1>3, <1>4, <2>2, <2>3
<1> QED BY <1>0, <1>5, <1>6, <1>7 DEF DeliveryInv, NoHole

(* A restart leaves its rounds and its calls unanswered, and loses nothing *)
(* a log holds.                                                            *)
LEMMA RestartDelivery ==
    ASSUME IInv, DeliveryInv, NEW n \in Nodes, Restart(n),
           UNCHANGED <<log, issued>>
    PROVE  DeliveryInv'
<1>0. /\ Grows(log, log', issued, issued')
      /\ jobs \in [Nodes -> SUBSET Job] /\ round \in [Nodes -> Round]
  BY SameGrows DEF IInv, TypeOK
<1>1. \A m \in Nodes :
         /\ jobs'[m] = IF m = n THEN {} ELSE Orphaned(jobs[m], n)
         /\ round'[m] = IF m = n THEN Idle
                        ELSE IF round[m].peer = n
                                /\ round[m].phase \in {"sent", "asked"}
                        THEN Leave(round[m]) ELSE round[m]
  BY DEF Restart
<1>2. \A m \in Nodes : \A i \in jobs'[m] :
         /\ m # n /\ \E g \in jobs[m] : g.events = i.events /\ g.held = i.held
         /\ i.live => i \in jobs[m] /\ i.from # n
  BY <1>0, <1>1, OrphanedJobs
<1>3. RoundsInv'
  <2> SUFFICES ASSUME NEW m \in Nodes
               PROVE  RoundInv(m, round'[m], log', issued', jobs')
    BY DEF RoundsInv
  <2>0. /\ round[m] \in Round /\ round[m].events \subseteq issued
        /\ RoundInv(m, round[m], log, issued, jobs)
        /\ AnswersHeld(round[m], log)
    BY RoundFacts
  <2>1. CASE m = n
    <3>1. RoundInv(m, Idle, log', issued', jobs')
      BY QuietRound DEF Idle, AnswersHeld
    <3> QED BY <1>1, <2>1, <3>1
  <2>2. CASE m # n /\ round'[m] = Leave(round[m])
    <3>1. RoundInv(m, Leave(round[m]), log', issued', jobs')
      BY <2>0, LeaveQuiet
    <3> QED BY <2>2, <3>1
  <2>3. CASE m # n /\ round'[m] = round[m]
    <3>1. round[m].phase = "sent" =>
             \A i \in jobs'[round[m].peer] :
                 i.from = m /\ i.live => i \in jobs[round[m].peer]
      <4>1. round[m].phase = "sent" => round[m].peer \in Nodes
        BY <2>0 DEF Round, None
      <4> QED BY <1>2, <4>1
    <3>2. RoundInv(m, round[m], log', issued', jobs')
      BY <1>0, <2>0, <3>1, RoundGrows
    <3> QED BY <2>3, <3>2
  <2> QED BY <1>1, <2>1, <2>2, <2>3
<1>4. JobsInv'
  BY <1>0, <1>2, OtherJobs
<1>5. LiveSent(jobs', round')
  <2> SUFFICES ASSUME NEW k \in Nodes, NEW i \in jobs'[k], i.live
               PROVE  /\ round'[i.from].phase = "sent" /\ round'[i.from].peer = k
                      /\ \A g \in jobs'[k] : g.live /\ g.from = i.from => g = i
    BY DEF LiveSent
  <2>1. i \in jobs[k] /\ i.from # n /\ k # n
    BY <1>2
  <2>2. /\ round[i.from].phase = "sent" /\ round[i.from].peer = k
        /\ \A g \in jobs[k] : g.live /\ g.from = i.from => g = i
    BY <2>1 DEF DeliveryInv, LiveSent
  <2>3. i.from \in Nodes
    BY <1>0, <2>1 DEF Job
  <2> QED BY <1>1, <1>2, <2>1, <2>2, <2>3
<1> QED BY <1>3, <1>4, <1>5 DEF DeliveryInv, NoHole

(* ------------------------------ every step ----------------------------- *)

(* Steps that leave rounds and jobs alone. *)
LEMMA StillDelivery ==
    ASSUME IInv, DeliveryInv, Grows(log, log', issued, issued'),
           UNCHANGED <<round, jobs>>, NoHole'
    PROVE  DeliveryInv'
<1>1. RoundsInv'
  <2> SUFFICES ASSUME NEW m \in Nodes
               PROVE  RoundInv(m, round[m], log', issued', jobs)
    BY DEF RoundsInv
  <2>1. /\ round[m] \in Round /\ round[m].events \subseteq issued
        /\ RoundInv(m, round[m], log, issued, jobs)
    BY RoundFacts
  <2> QED BY <2>1, RoundGrows
<1>2. JobsInv'
  BY OtherJobs
<1> QED BY <1>1, <1>2 DEF DeliveryInv

(* An unstamped attestation is no event of any stream. *)
LEMMA ObserveKeepsNoHole ==
    ASSUME IInv, NoHole, NEW n \in Nodes, NEW a \in Acts, Observe(n, a),
           Grows(log, log', issued, issued')
    PROVE  NoHole'
<1>1. /\ log' = [log EXCEPT ![n] = Absorb(log[n], {Unstamped(a)})]
      /\ UNCHANGED issued
  BY DEF Observe
<1>2. Events({Unstamped(a)}) = {}
  BY DEF Events, IsStamped, Unstamped
<1>3. Events(Absorb(log[n], {Unstamped(a)})) = Events(log[n])
  <2> DEFINE T == {Unstamped(a)}
  <2>1. Events(T) = {}
    BY <1>2
  <2> HIDE DEF T
  <2>2. Events(Absorb(log[n], T)) = Events(log[n]) \cup Events(T)
    BY AbsorbKeepsStamps
  <2>3. Events(Absorb(log[n], T)) = Events(log[n])
    BY <2>1, <2>2
  <2> QED BY <2>3 DEF T
<1>4. \A m \in Nodes : Events(log'[m]) = Events(log[m])
  BY <1>1, <1>3 DEF IInv, TypeOK
<1> SUFFICES ASSUME NEW m \in Nodes, NEW f \in Events(log[m]), NEW e \in issued,
                    e.origin = f.origin, e.seq < f.seq, e.act \notin Malformed
             PROVE  e \in log'[m]
  BY <1>1, <1>4 DEF NoHole
<1>5. e \in log[m]
  BY DEF NoHole
<1> QED BY <1>5, StampStays

(* A step leaves the promises of every round kept, and changes a log only  *)
(* by observing, by stamping or by a delivery in order.                    *)
LEMMA DeliveryStep ==
    ASSUME IInv, ActInv, DeliveryInv, Budget["restore"] = 0, [Next]_vars
    PROVE  /\ DeliveryInv'
           /\ \/ \E n \in Nodes, a \in Acts : Observe(n, a)
              \/ \E n, c \in Nodes : BackfillWrite(n, c)
              \/ DeliversInOrder
              \/ UNCHANGED <<log, issued>>
<1>0. Grows(log, log', issued, issued') /\ NoHole
  BY StepGrows DEF DeliveryInv
<1>1. CASE UNCHANGED vars
  <2>1. UNCHANGED <<log, issued, round, jobs>>
    BY <1>1 DEF vars, disk, process
  <2> QED BY <1>0, <2>1, StillDelivery DEF NoHole
<1>2. CASE Next
  <2>1. PICK n \in Nodes :
          \/ \E a \in Acts : Observe(n, a)
          \/ \E pulls \in BOOLEAN : PushStart(n, pulls)
          \/ PullStart(n)
          \/ RoundStep(n) \/ BackfillStep(n) \/ ApplyPushed(n)
          \/ Environment(n)
    BY <1>2 DEF Next
  <2>2. ASSUME NEW a \in Acts, Observe(n, a)
        PROVE  DeliveryInv'
    <3>1. UNCHANGED <<round, jobs>>
      BY <2>2 DEF Observe, process
    <3> QED BY <1>0, <2>2, <3>1, ObserveKeepsNoHole, StillDelivery
  <2>3. CASE \/ \E pulls \in BOOLEAN : PushStart(n, pulls)
             \/ PullStart(n)
    <3>1. UNCHANGED <<log, issued>>
      BY <2>3 DEF PushStart, PullStart, disk
    <3> QED BY <2>3, <3>1, AskDelivery
  <2>4. CASE RoundStep(n)
    <3>1. CASE ApplyPulled(n)
      BY <3>1, PulledDelivery
    <3>2. CASE ~ApplyPulled(n)
      <4>1. UNCHANGED <<log, issued>>
        BY <2>4, <3>2 DEF RoundStep, Advertise, AdvertiseFails, FloorSeq,
           Stamping, ExportDelta, PushBatch, PushReply, PushFails, PushEnd,
           PullFrom, PullAsk, PullServe, PullNext, PullFails, PullEnd, disk
      <4>2. DeliveryInv'
        BY <2>4, <3>2, AskDelivery, ExportDelivery, BatchDelivery, ReplyDelivery,
           PushFailsDelivery, PullFromDelivery, ServeDelivery,
           PullMovesDelivery DEF RoundStep
      <4> QED BY <4>1, <4>2
    <3> QED BY <3>1, <3>2
  <2>5. CASE BackfillStep(n)
    <3>1. PICK c \in Nodes :
            \/ BackfillNothing(n, c) \/ BackfillStart(n, c)
            \/ BackfillWrite(n, c) \/ SeqExhausted(n, c)
      BY <2>5 DEF BackfillStep
    <3>2. CASE BackfillNothing(n, c) \/ BackfillStart(n, c)
      <4>1. UNCHANGED <<log, issued, round, jobs>>
        BY <3>2 DEF BackfillNothing, BackfillStart, disk
      <4> QED BY <1>0, <4>1, StillDelivery DEF NoHole
    <3>3. CASE BackfillWrite(n, c)
      <4>1. UNCHANGED <<round, jobs>>
        BY <3>3 DEF BackfillWrite
      <4> QED BY <1>0, <3>3, <4>1, StampingKeepsNoHole, StillDelivery
    <3>4. CASE SeqExhausted(n, c)
      BY <3>4, ExhaustedDelivery DEF SeqExhausted, disk
    <3> QED BY <3>1, <3>2, <3>3, <3>4
  <2>6. CASE ApplyPushed(n)
    BY <2>6, PushedDelivery
  <2>7. CASE Environment(n)
    <3>1. CASE Restart(n) /\ UNCHANGED <<log, issued>>
      BY <3>1, RestartDelivery
    <3>2. CASE Backup(n) \/ \E o \in Nodes : Grant(n, o) \/ Revoke(n, o)
      <4>1. UNCHANGED <<log, issued, round, jobs>>
        BY <3>2 DEF Backup, Grant, Revoke, disk, process
      <4> QED BY <1>0, <4>1, StillDelivery DEF NoHole
    <3>3. CASE Restore(n)
      <4>1. spent["restore"] \in Nat
        BY DEF IInv, TypeOK, Faults
      <4> QED BY <3>3, <4>1 DEF Restore, Spend
    <3>4. CASE Crash(n) \/ Upgrade(n) \/ \E o \in Nodes : TrustOrigin(n, o)
      BY <3>1, <3>4 DEF Crash, Upgrade, TrustOrigin, disk
    <3> QED BY <2>7, <3>2, <3>3, <3>4 DEF Environment
  <2> QED BY <2>1, <2>2, <2>3, <2>4, <2>5, <2>6, <2>7
<1> QED BY <1>1, <1>2

LEMMA DeliveryInit == Init => DeliveryInv
<1> SUFFICES ASSUME Init PROVE DeliveryInv
  OBVIOUS
<1>1. NoHole
  BY DEF Init, NoHole
<1>2. RoundsInv
  <2>1. \A n \in Nodes : RoundInv(n, Idle, log, issued, jobs)
    BY QuietRound DEF Idle, AnswersHeld
  <2> QED BY <2>1 DEF Init, RoundsInv
<1>3. JobsInv /\ LiveSent(jobs, round)
  BY DEF Init, JobsInv, LiveSent
<1> QED BY <1>1, <1>2, <1>3 DEF DeliveryInv

LEMMA DeliveryInvariant ==
    ASSUME Budget["restore"] = 0
    PROVE  Spec => [](IInv /\ ActInv /\ DeliveryInv)
<1>1. Init => IInv /\ ActInv /\ DeliveryInv
  BY InvInit, ActInit, DeliveryInit
<1>2. IInv /\ ActInv /\ DeliveryInv /\ [Next]_vars
        => IInv' /\ ActInv' /\ DeliveryInv'
  BY InvStep, ActStep, DeliveryStep
<1> QED BY <1>1, <1>2, PTL DEF Spec

(* ----------------------------- the theorems ---------------------------- *)

(* No log has a hole in a stream: whatever a node holds, it holds all that *)
(* was written before it, the refused excepted; so no vector it advertises *)
(* or asks beyond claims what it has not, in every federation, through     *)
(* every crash, loss, held stream, batch and page (a restore aside).       *)
THEOREM StreamsHaveNoHoles ==
    ASSUME Budget["restore"] = 0
    PROVE  Spec => []NoHole
BY DeliveryInvariant, PTL DEF DeliveryInv

(* What the events of the logs are after one log absorbs an event. *)
LEMMA HeldAfter ==
    ASSUME IInv, NEW n \in Nodes, NEW p \in Event,
           log' = [log EXCEPT ![n] = Absorb(log[n], {p})]
    PROVE  [m \in Nodes |-> Events(log'[m])] =
           [[m \in Nodes |-> Events(log[m])] EXCEPT ![n] = Events(log[n]) \cup {p}]
<1>1. Events({p}) = {p}
  BY NoOriginAssumption DEF Events, IsStamped, Event
<1>2. Events(Absorb(log[n], {p})) = Events(log[n]) \cup {p}
  BY <1>1, AbsorbKeepsStamps
<1>3. \A m \in Nodes : Events(log'[m]) =
          IF m = n THEN Events(log[n]) \cup {p} ELSE Events(log[m])
  BY <1>2 DEF IInv, TypeOK
<1> QED BY <1>3

(* Rounds, calls, batches and backfills implement Streams: each step is a  *)
(* stamp past all others of its stream, the delivery of the next event     *)
(* owed, or invisible, in every federation whose stores are not restored.  *)
THEOREM RoundsImplementStreams ==
    ASSUME Budget["restore"] = 0
    PROVE  Spec => ImplementsStreams
<1>1. Init => Promise!Init
  <2> SUFFICES ASSUME Init PROVE Promise!Init
    OBVIOUS
  <2>1. \A m \in Nodes : Events(log[m]) = {}
    BY DEF Init, Events
  <2> QED BY <2>1 DEF Init, Promise!Init
<1>2. ASSUME IInv, ActInv, DeliveryInv, [Next]_vars
      PROVE  [Promise!Next]_(Promise!vars)
  <2>1. ASSUME NEW n \in Nodes, NEW a \in Acts, Observe(n, a)
        PROVE  UNCHANGED Promise!vars
    <3>1. /\ log' = [log EXCEPT ![n] = Absorb(log[n], {Unstamped(a)})]
          /\ UNCHANGED issued
      BY <2>1 DEF Observe
    <3>2. Events(Absorb(log[n], {Unstamped(a)})) = Events(log[n])
      <4> DEFINE T == {Unstamped(a)}
      <4>1. Events(T) = {}
        BY DEF Events, IsStamped, Unstamped
      <4> HIDE DEF T
      <4>2. Events(Absorb(log[n], T)) = Events(log[n])
        BY <4>1, AbsorbKeepsStamps
      <4> QED BY <4>2 DEF T
    <3>3. \A m \in Nodes : Events(log'[m]) = Events(log[m])
      BY <1>2, <3>1, <3>2 DEF IInv, TypeOK
    <3>4. [m \in Nodes |-> Events(log'[m])] = [m \in Nodes |-> Events(log[m])]
      BY <3>3
    <3> QED BY <3>1, <3>4 DEF Promise!vars
  <2>2. ASSUME NEW n \in Nodes, NEW c \in Nodes, BackfillWrite(n, c)
        PROVE  Promise!Next
    <3>1. PICK a \in stamping[n][c].todo :
            LET e == Stamped(a, n, stamping[n][c].next)
            IN  /\ log' = [log EXCEPT ![n] = Absorb(@, {e})]
                /\ issued' = issued \cup {e}
      BY <2>2 DEF BackfillWrite
    <3> DEFINE e == Stamped(a, n, stamping[n][c].next)
    <3>2. /\ log' = [log EXCEPT ![n] = Absorb(log[n], {e})]
          /\ issued' = issued \cup {e}
      BY <3>1
    <3>3. e.act = a /\ e.origin = n /\ e.seq = stamping[n][c].next
      BY DEF Stamped
    <3>4. e \in Event
      BY <1>2, PassStep DEF IInv
    <3>5. \A f \in issued : f.act # e.act
      BY <1>2, <3>3 DEF ActInv, PassFresh
    <3>6. \A f \in issued : f.origin = n => f.seq < e.seq
      <4>1. PassReserved(n, c)
        BY <1>2 DEF IInv, SeqInv
      <4> QED BY <3>3, <4>1 DEF PassReserved
    <3> HIDE DEF e
    <3>7. [m \in Nodes |-> Events(log'[m])] =
          [[m \in Nodes |-> Events(log[m])] EXCEPT ![n] = Events(log[n]) \cup {e}]
      BY <1>2, <3>2, <3>4, HeldAfter
    <3>8. Promise!Issue(e)
      BY <3>2, <3>3, <3>5, <3>6, <3>7 DEF Promise!Issue, Promise!Before
    <3> QED BY <3>4, <3>8 DEF Promise!Next, Promise!Event, Event
  <2>3. ASSUME DeliversInOrder
        PROVE  Promise!Next
    <3>1. PICK n \in Nodes, p \in issued :
            /\ log' = [log EXCEPT ![n] = Absorb(log[n], {p})]
            /\ UNCHANGED issued
            /\ \A e \in issued : Owed(e, p) => e \in log[n]
      BY <2>3 DEF DeliversInOrder
    <3>2. /\ issued \subseteq Event /\ p \in Event
          /\ \A e \in issued : e \in log[n] => e \in Events(log[n])
      BY <1>2, RoundFacts
    <3>3. [m \in Nodes |-> Events(log'[m])] =
          [[m \in Nodes |-> Events(log[m])] EXCEPT ![n] = Events(log[n]) \cup {p}]
      BY <1>2, <3>1, <3>2, HeldAfter
    <3>4. Promise!Deliver(n, p)
      BY <3>1, <3>2, <3>3 DEF Promise!Deliver, Promise!Before, Owed
    <3> QED BY <3>1, <3>4 DEF Promise!Next
  <2>4. CASE UNCHANGED <<log, issued>>
    BY <2>4 DEF Promise!vars
  <2> QED BY <1>2, <2>1, <2>2, <2>3, <2>4, DeliveryStep
<1> QED BY <1>1, <1>2, DeliveryInvariant, PTL DEF Spec, ImplementsStreams, Promise!Spec
===============================================================================
