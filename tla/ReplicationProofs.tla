--------------------------- MODULE ReplicationProofs ---------------------------
(* Replication holds its promises for every federation, not only the small *)
(* ones TLC explores: copies of a row merge as a join, logs only grow,     *)
(* hubs admit only whom they granted, and while no store is restored from  *)
(* a copy an act is stamped once and counted once.                         *)
EXTENDS Replication, Iteration, FiniteSetTheorems

(* ------------------------- merging rows ------------------------------- *)

(* Merging copies of a row is a join, for every set of acts and nodes: the *)
(* order and the number of arrivals change nothing, and no act and no      *)
(* stamp is lost on the way.                                               *)

(* A row that absorb has left: nothing unstamped beside its own stamp. *)
IsRow(S) == S = Enriched(S)

(* Enriching keeps every stamp, so it can be done at any time. *)
LEMMA EventsEnriched == \A S : Events(Enriched(S)) = Events(S)
BY DEF Events, Enriched, IsStamped

(* Absorb answers the same whichever copy arrives first (absorb sorts the  *)
(* union before it drops anything).                                        *)
THEOREM AbsorbCommutes == \A S, T : Absorb(S, T) = Absorb(T, S)
<1> TAKE S, T
<1>1. S \cup T = T \cup S
  OBVIOUS
<1> QED BY <1>1 DEF Absorb

(* A relay duplicate changes nothing. *)
THEOREM AbsorbIdempotent == \A S : IsRow(S) => Absorb(S, S) = S
<1> TAKE S
<1>1. S \cup S = S
  OBVIOUS
<1> QED BY <1>1 DEF Absorb, IsRow

(* Copies may be merged in any grouping: enriching part of a union first   *)
(* drops only what enriching all of it would drop.                         *)
THEOREM AbsorbAssociates ==
    \A S, T, U : Absorb(Absorb(S, T), U) = Absorb(S, Absorb(T, U))
<1> TAKE S, T, U
<1>1. \A X, Y : Enriched(Enriched(X) \cup Y) = Enriched(X \cup Y)
  <2> TAKE X, Y
  <2>1. Events(Enriched(X) \cup Y) = Events(X \cup Y)
    BY DEF Events, Enriched, IsStamped
  <2>2. ASSUME NEW p, ~IsStamped(p), p \in X \cup Y,
               \A e \in Events(X \cup Y) : e.act # p.act
        PROVE  p \in Enriched(X) \cup Y
    BY <2>2 DEF Events, Enriched
  <2>3. Enriched(X) \cup Y \subseteq X \cup Y
    BY DEF Enriched
  <2>4. ASSUME NEW p, IsStamped(p)
        PROVE  p \in Enriched(X) \cup Y <=> p \in X \cup Y
    BY <2>4 DEF Enriched
  <2> QED BY <2>1, <2>2, <2>3, <2>4 DEF Enriched
<1>2. Absorb(Absorb(S, T), U) = Enriched((S \cup T) \cup U)
  BY <1>1 DEF Absorb
<1>3. Absorb(S, Absorb(T, U)) = Enriched((T \cup U) \cup S)
  <2>1. S \cup Enriched(T \cup U) = Enriched(T \cup U) \cup S
    OBVIOUS
  <2> QED BY <1>1, <2>1 DEF Absorb
<1>4. (S \cup T) \cup U = (T \cup U) \cup S
  OBVIOUS
<1> QED BY <1>2, <1>3, <1>4

(* Absorbing a set of events keeps every stamp either copy had, and adds   *)
(* no other.                                                               *)
THEOREM AbsorbKeepsStamps ==
    \A S, T : Events(Absorb(S, T)) = Events(S) \cup Events(T)
BY EventsEnriched DEF Absorb, Events

(* No act of either copy is lost: what goes gives way to its own stamp. *)
THEOREM AbsorbKeepsActs ==
    \A S, T : \A p \in S \cup T : \E q \in Absorb(S, T) : q.act = p.act
<1> TAKE S, T
<1> TAKE p \in S \cup T
<1>1. CASE p \in Absorb(S, T)
  BY <1>1
<1>2. CASE p \notin Absorb(S, T)
  <2>1. PICK e \in Events(S \cup T) : e.act = p.act
    BY <1>2 DEF Absorb, Enriched
  <2>2. e \in Absorb(S, T)
    BY <2>1 DEF Absorb, Enriched, Events
  <2> QED BY <2>1, <2>2
<1> QED BY <1>1, <1>2

(* What is unstamped after absorbing was unstamped in one of the copies,   *)
(* and is an act none of them stamps.                                      *)
THEOREM AbsorbUnstamped ==
    \A S, T : UnstampedActs(Absorb(S, T)) \subseteq
        (UnstampedActs(S) \cup UnstampedActs(T))
            \ {e.act : e \in Events(S) \cup Events(T)}
<1> TAKE S, T
<1> SUFFICES ASSUME NEW p \in Absorb(S, T), ~IsStamped(p)
             PROVE  /\ p.act \in UnstampedActs(S) \cup UnstampedActs(T)
                    /\ \A e \in Events(S) \cup Events(T) : e.act # p.act
  BY DEF UnstampedActs, Events
<1>1. p \in S \cup T
  BY DEF Absorb, Enriched
<1> QED BY <1>1 DEF Absorb, Enriched, UnstampedActs, Events

(* ------------------------- sequence numbers ---------------------------- *)

(* A bounded set of seqs has a greatest one, which is what Highest is. *)
LEMMA HighestSpec ==
    ASSUME NEW S, S \subseteq 0 .. MaxSeq
    PROVE  /\ Highest(S) \in 0 .. MaxSeq
           /\ \A q \in S : q <= Highest(S)
           /\ \A v \in 0 .. MaxSeq : (\A q \in S : q <= v) => Highest(S) <= v
<1> DEFINE T == {u \in 0 .. MaxSeq : \A q \in S : q <= u}
<1>1. MaxSeq \in T
  BY MaxSeqAssumption
<1>2. T \in SUBSET Nat /\ T # {}
  BY <1>1
<1>3. \E u \in T : \A v \in T : u <= v
  <2> HIDE DEF T
  <2> QED BY <1>2, LeastOf
<1>4. PICK u \in T : \A v \in T : u <= v
  BY <1>3
<1>5. u \in 0 .. MaxSeq /\ (\A q \in S : q <= u)
         /\ \A v \in 0 .. MaxSeq : (\A q \in S : q <= v) => u <= v
  BY <1>4, MaxSeqAssumption
<1> QED BY <1>5 DEF Highest

LEMMA VectorType ==
    ASSUME NEW S, S \subseteq Attestation
    PROVE  VersionVector(S) \in Vector
<1> SUFFICES ASSUME NEW o \in Nodes
             PROVE  Highest({p.seq : p \in {e \in Events(S) : e.origin = o}})
                        \in 0 .. MaxSeq
  BY DEF VersionVector, Vector
<1>1. Events(S) \subseteq Event
  BY NoOriginAssumption DEF Events, Attestation, IsStamped, Unstamped, Event
<1>2. {p.seq : p \in {e \in Events(S) : e.origin = o}} \subseteq 0 .. MaxSeq
  BY <1>1, MaxSeqAssumption DEF Event
<1> QED BY <1>2, HighestSpec

(* ------------------------------- types --------------------------------- *)

LEMMA EventsType ==
    ASSUME NEW S, S \subseteq Attestation
    PROVE  Events(S) \subseteq Event /\ UnstampedActs(S) \subseteq Acts
BY NoOriginAssumption
   DEF Events, UnstampedActs, Attestation, IsStamped, Unstamped, Event

LEMMA AbsorbType ==
    ASSUME NEW S, S \subseteq Attestation, NEW T, T \subseteq Attestation
    PROVE  Absorb(S, T) \subseteq Attestation
BY DEF Absorb, Enriched

LEMMA NoVectorType == NoVector \in Vector
BY MaxSeqAssumption DEF NoVector, Vector

LEMMA IdleType == Idle \in Round
BY NoVectorType DEF Idle, Round, Phases, None

LEMMA LeaveType ==
    ASSUME NEW r \in Round
    PROVE  Leave(r) \in Round
BY NoVectorType DEF Leave, Round, Phases, None

LEMMA HubsType == \A n \in Nodes : Hubs(n) \subseteq Nodes
BY DEF Hubs

LEMMA AfterPushType ==
    ASSUME NEW r \in Round, NEW n \in Nodes
    PROVE  AfterPush(r, n) \in Round
BY IdleType, HubsType DEF AfterPush, Idle, Round, Phases

LEMMA OrphanedType ==
    ASSUME NEW S, S \subseteq Job, NEW n
    PROVE  Orphaned(S, n) \subseteq Job
BY DEF Orphaned, Job

LEMMA OrphanedEvents ==
    ASSUME NEW S \in SUBSET Job, NEW n, NEW I,
           \A j \in S : j.events \subseteq I
    PROVE  \A j \in Orphaned(S, n) : j.events \subseteq I
BY DEF Orphaned, Job

(* ---------------------- the inductive invariant ------------------------ *)

(* The mark is at or above every seq issued and every seq reserved, and a  *)
(* counter in memory at or above the mark.                                 *)
MarkCovers ==
    /\ \A e \in issued : e.seq <= mark[e.origin]
    /\ \A n \in Nodes : counter[n] # Unseeded => mark[n] <= counter[n]

(* The seqs of a running backfill are reserved and none is issued yet; the *)
(* lock lets one run at a time.                                            *)
PassReserved(n, c) ==
    stamping[n][c].todo # {} =>
        /\ stamping[n][c].next >= 1
        /\ stamping[n][c].next + Cardinality(stamping[n][c].todo) <= mark[n] + 1
        /\ \A e \in issued : e.origin = n => e.seq < stamping[n][c].next

OnePass(n) ==
    \A c, d \in Nodes :
        stamping[n][c].todo # {} /\ stamping[n][d].todo # {} => c = d

SeqInv ==
    /\ MarkCovers
    /\ \A n \in Nodes : OnePass(n) /\ \A c \in Nodes : PassReserved(n, c)

(* Everything stamped, in a log, a backup or on its way, was issued. *)
AllIssued ==
    /\ \A n \in Nodes :
        /\ Events(log[n]) \subseteq issued
        /\ Events(backup[n]) \subseteq issued
        /\ round[n].events \subseteq issued
        /\ \A j \in jobs[n] : j.events \subseteq issued

IssuedUnique ==
    \A e, f \in issued : e.origin = f.origin /\ e.seq = f.seq => e = f

IInv == TypeOK /\ SeqInv /\ IssuedUnique /\ AllIssued

(* --------------------------- facts of a state -------------------------- *)

LEMMA SeededType ==
    ASSUME TypeOK, MarkCovers, NEW n \in Nodes
    PROVE  Seeded(n) \in 0 .. MaxSeq /\ mark[n] <= Seeded(n)
<1>1. CASE counter[n] # Unseeded
  BY <1>1 DEF Seeded, TypeOK, MarkCovers
<1>2. CASE counter[n] = Unseeded
  <2>1. VersionVector(log[n])[n] \in 0 .. MaxSeq
    BY VectorType DEF TypeOK, Vector
  <2>2. {mark[n], VersionVector(log[n])[n]} \subseteq 0 .. MaxSeq
    BY <2>1 DEF TypeOK
  <2> QED BY <1>2, <2>2, HighestSpec DEF Seeded
<1> QED BY <1>1, <1>2

LEMMA FlooredType ==
    ASSUME TypeOK, MarkCovers, NEW n \in Nodes, NEW seen \in 0 .. MaxSeq
    PROVE  Floored(n, seen) \in 0 .. MaxSeq /\ mark[n] <= Floored(n, seen)
<1>1. Seeded(n) \in 0 .. MaxSeq /\ mark[n] <= Seeded(n)
  BY SeededType
<1>2. {Seeded(n), seen} \subseteq 0 .. MaxSeq
  BY <1>1
<1>3. Highest({Seeded(n), seen}) \in 0 .. MaxSeq
      /\ Seeded(n) <= Highest({Seeded(n), seen})
  BY <1>2, HighestSpec
<1>4. mark[n] \in 0 .. MaxSeq
  BY DEF TypeOK
<1> QED BY <1>1, <1>3, <1>4, MaxSeqAssumption DEF Floored

(* The unstamped acts of a log are finitely many. *)
LEMMA UnstampedFinite ==
    ASSUME TypeOK, NEW n \in Nodes
    PROVE  /\ UnstampedActs(log[n]) \in SUBSET Acts
           /\ IsFiniteSet(UnstampedActs(log[n]))
           /\ Cardinality(UnstampedActs(log[n])) \in Nat
<1>1. UnstampedActs(log[n]) \in SUBSET Acts
  BY EventsType DEF TypeOK
<1> QED BY <1>1, ActsAssumption, FS_Subset, FS_CardinalityType

(* The act of a running backfill that is next, and what it leaves. *)
LEMMA PassStep ==
    ASSUME TypeOK, SeqInv, NEW n \in Nodes, NEW c \in Nodes,
           NEW a \in stamping[n][c].todo
    PROVE  LET left == stamping[n][c].todo \ {a}
               next == stamping[n][c].next
           IN  /\ left \in SUBSET Acts
               /\ next \in 1 .. MaxSeq /\ next <= mark[n]
               /\ Stamped(a, n, next) \in Event
               /\ Cardinality(left) \in Nat
               /\ left # {} => next + 1 <= MaxSeq
               /\ next + 1 + Cardinality(left) <= mark[n] + 1
<1> DEFINE left == stamping[n][c].todo \ {a}
           next == stamping[n][c].next
<1>1. stamping[n][c] \in Pass /\ mark[n] \in 0 .. MaxSeq
  BY DEF TypeOK
<1>2. IsFiniteSet(stamping[n][c].todo)
  BY <1>1, ActsAssumption, FS_Subset DEF Pass
<1>3. /\ IsFiniteSet(left)
      /\ Cardinality(left) = Cardinality(stamping[n][c].todo) - 1
  BY <1>2, FS_RemoveElement
<1>4. /\ Cardinality(left) \in Nat
      /\ Cardinality(stamping[n][c].todo) \in Nat
      /\ left # {} => Cardinality(left) # 0
  BY <1>2, <1>3, FS_CardinalityType, FS_EmptySet
<1>5. PassReserved(n, c)
  BY DEF SeqInv
<1>6. /\ next \in Nat /\ next >= 1
      /\ next + Cardinality(stamping[n][c].todo) <= mark[n] + 1
  BY <1>1, <1>5 DEF Pass, PassReserved
<1>7. next \in 1 .. MaxSeq /\ next <= mark[n]
  BY <1>1, <1>3, <1>4, <1>6, MaxSeqAssumption
<1>8. Stamped(a, n, next) \in Event
  BY <1>1, <1>7 DEF Pass, Stamped, Event
<1>9. left # {} => next + 1 <= MaxSeq
  BY <1>1, <1>3, <1>4, <1>6, MaxSeqAssumption
<1> QED BY <1>1, <1>3, <1>4, <1>6, <1>7, <1>8, <1>9 DEF Pass

(* -------------------- types are kept, action by action ----------------- *)

LEMMA InitType == Init => TypeOK
<1> SUFFICES ASSUME Init PROVE TypeOK
  OBVIOUS
<1>1. NoPass \in Pass
  BY MaxSeqAssumption DEF NoPass, Pass
<1>2. round \in [Nodes -> Round]
  BY IdleType DEF Init
<1>3. keys \in [Nodes -> SUBSET Nodes] /\ granted \in [Nodes -> SUBSET Nodes]
      /\ old \in SUBSET Nodes /\ spent \in [Faults -> Nat]
  BY ConfigAssumption DEF Init
<1> QED BY <1>1, <1>2, <1>3, MaxSeqAssumption DEF Init, TypeOK

LEMMA RoundType ==
    ASSUME TypeOK, NEW n \in Nodes
    PROVE  /\ round[n] \in Round
           /\ log[n] \subseteq Attestation
           /\ VersionVector(log[n]) \in Vector
           /\ \A since : AttestationsSince(log[n], since) \subseteq Event
BY VectorType, EventsType DEF TypeOK, AttestationsSince

LEMMA ObserveType ==
    ASSUME TypeOK, NEW n \in Nodes, NEW a \in Acts, Observe(n, a)
    PROVE  TypeOK'
<1>1. {Unstamped(a)} \subseteq Attestation
  BY DEF Attestation
<1>2. Absorb(log[n], {Unstamped(a)}) \subseteq Attestation
  BY <1>1, AbsorbType DEF TypeOK
<1> QED BY <1>2 DEF Observe, TypeOK, process, settings

LEMMA BackfillType ==
    ASSUME TypeOK, SeqInv, NEW n \in Nodes, NEW c \in Nodes,
           \/ BackfillNothing(n, c) \/ BackfillStart(n, c)
           \/ BackfillWrite(n, c) \/ SeqExhausted(n, c)
    PROVE  TypeOK'
<1>0. /\ Seeded(n) \in 0 .. MaxSeq /\ mark[n] <= Seeded(n)
      /\ mark[n] \in 0 .. MaxSeq
  BY SeededType DEF SeqInv, TypeOK
<1>1. CASE BackfillNothing(n, c)
  BY <1>1 DEF BackfillNothing, TypeOK, disk, settings
<1>2. CASE BackfillStart(n, c)
  <2> DEFINE todo == UnstampedActs(log[n])
             reserved == Seeded(n) + Cardinality(todo)
  <2>1. todo \in SUBSET Acts /\ Cardinality(todo) \in Nat
    BY UnstampedFinite
  <2>2. reserved \in 0 .. MaxSeq
    BY <1>0, <1>2, <2>1, MaxSeqAssumption DEF BackfillStart
  <2>3. Highest({mark[n], reserved}) \in 0 .. MaxSeq
    <3>1. {mark[n], reserved} \subseteq 0 .. MaxSeq
      BY <1>0, <2>2
    <3> QED BY <3>1, HighestSpec
  <2>4. [todo |-> todo, next |-> Seeded(n) + 1] \in Pass
    BY <1>0, <2>1, MaxSeqAssumption DEF Pass
  <2>5. /\ mark' = [mark EXCEPT ![n] = Highest({mark[n], reserved})]
        /\ counter' = [counter EXCEPT ![n] = reserved]
        /\ stamping' = [stamping EXCEPT ![n][c] =
               [todo |-> todo, next |-> Seeded(n) + 1]]
        /\ asks' = [asks EXCEPT ![n] = asks[n] \ {c}]
        /\ UNCHANGED <<log, backup, jobs, round, settings, spent, issued>>
    BY <1>2 DEF BackfillStart
  <2> HIDE DEF todo, reserved
  <2> QED BY <2>2, <2>3, <2>4, <2>5 DEF TypeOK, settings
<1>3. CASE BackfillWrite(n, c)
  <2>1. PICK a \in stamping[n][c].todo :
          LET e == Stamped(a, n, stamping[n][c].next)
              left == stamping[n][c].todo \ {a}
          IN  /\ log' = [log EXCEPT ![n] = Absorb(@, {e})]
              /\ issued' = issued \cup {e}
              /\ stamping' = [stamping EXCEPT ![n][c] =
                   IF left = {} THEN NoPass
                   ELSE [todo |-> left, next |-> stamping[n][c].next + 1]]
              /\ UNCHANGED <<backup, mark, counter, asks, jobs, round,
                             settings, spent>>
    BY <1>3 DEF BackfillWrite
  <2> DEFINE next == stamping[n][c].next
             e == Stamped(a, n, next)
             left == stamping[n][c].todo \ {a}
             pass == IF left = {} THEN NoPass ELSE [todo |-> left, next |-> next + 1]
  <2>2. e \in Event /\ left \in SUBSET Acts /\ next \in 1 .. MaxSeq
        /\ (left # {} => next + 1 <= MaxSeq)
    BY PassStep
  <2>3. Absorb(log[n], {e}) \subseteq Attestation
    BY <2>2, AbsorbType DEF TypeOK, Attestation
  <2>4. pass \in Pass
    BY <2>2, MaxSeqAssumption DEF Pass, NoPass
  <2>5. /\ log' = [log EXCEPT ![n] = Absorb(log[n], {e})]
        /\ issued' = issued \cup {e}
        /\ stamping' = [stamping EXCEPT ![n][c] = pass]
        /\ UNCHANGED <<backup, mark, counter, asks, jobs, round,
                       settings, spent>>
    BY <2>1
  <2> HIDE DEF e, left, pass, next
  <2> QED BY <2>2, <2>3, <2>4, <2>5 DEF TypeOK, settings
<1>4. CASE SeqExhausted(n, c)
  <2>1. round' \in [Nodes -> Round]
    BY <1>4, LeaveType, AfterPushType DEF SeqExhausted, TypeOK, RoundBecomes
  <2> QED BY <1>0, <1>4, <2>1 DEF SeqExhausted, TypeOK, disk, settings
<1> QED BY <1>1, <1>2, <1>3, <1>4

LEMMA SpendType ==
    ASSUME TypeOK, NEW f \in Faults, Spend(f)
    PROVE  spent' \in [Faults -> Nat]
BY DEF Spend, TypeOK

(* A step of a round that changes nothing else. *)
LEMMA RoundOnlyType ==
    ASSUME TypeOK, NEW n \in Nodes, NEW r \in Round,
           RoundBecomes(n, r), spent' \in [Faults -> Nat],
           UNCHANGED <<disk, counter, stamping, asks, jobs, settings, issued>>
    PROVE  TypeOK'
BY DEF RoundBecomes, TypeOK, disk, settings

LEMMA AskType ==
    ASSUME TypeOK, MarkCovers, NEW n \in Nodes,
           \/ \E pulls \in BOOLEAN : PushStart(n, pulls)
           \/ PullStart(n)
           \/ \E h \in Nodes : Advertise(n, h) \/ AdvertiseFails(n, h)
           \/ FloorSeq(n) \/ Stamping(n)
    PROVE  TypeOK'
<1>0. round[n] \in Round /\ spent \in [Faults -> Nat]
  BY RoundType DEF TypeOK
<1>1. ASSUME NEW pulls \in BOOLEAN, PushStart(n, pulls)
      PROVE  TypeOK'
  <2>1. [Idle EXCEPT !.phase = "ask", !.todo = Hubs(n), !.pulls = pulls] \in Round
    BY IdleType, HubsType DEF Idle, Round, Phases
  <2> QED BY <1>0, <1>1, <2>1, RoundOnlyType DEF PushStart
<1>2. CASE PullStart(n)
  <2>1. [Idle EXCEPT !.phase = "pull", !.todo = Hubs(n)] \in Round
    BY IdleType, HubsType DEF Idle, Round, Phases
  <2> QED BY <1>0, <1>2, <2>1, RoundOnlyType DEF PullStart
<1>3. ASSUME NEW h \in Nodes, Advertise(n, h)
      PROVE  TypeOK'
  <2> DEFINE answer == [hub |-> h, vv |-> VersionVector(log[h])]
             r == [round[n] EXCEPT !.todo = @ \ {h}, !.asked = @ \cup {answer}]
  <2>1. answer \in [hub : Nodes, vv : Vector]
    BY RoundType
  <2>2. r \in Round
    <3> HIDE DEF answer
    <3> QED BY <1>0, <2>1 DEF Round
  <2>3. RoundBecomes(n, r)
        /\ UNCHANGED <<disk, counter, stamping, asks, jobs, settings, spent, issued>>
    BY <1>3 DEF Advertise
  <2> HIDE DEF r
  <2> QED BY <1>0, <2>2, <2>3, RoundOnlyType
<1>4. ASSUME NEW h \in Nodes, AdvertiseFails(n, h)
      PROVE  TypeOK'
  <2>1. [round[n] EXCEPT !.todo = @ \ {h}] \in Round
    BY <1>0 DEF Round
  <2>2. spent' \in [Faults -> Nat]
    BY <1>0, <1>4, SpendType DEF AdvertiseFails, Faults
  <2> QED BY <1>4, <2>1, <2>2, RoundOnlyType DEF AdvertiseFails
<1>5. CASE FloorSeq(n)
  <2> DEFINE seen == {r.vv[n] : r \in round[n].asked}
  <2>1. seen \subseteq 0 .. MaxSeq
    BY <1>0 DEF Round, Vector
  <2>2. Floored(n, Highest(seen)) \in 0 .. MaxSeq
    BY <2>1, HighestSpec, FlooredType
  <2>3. counter' \in [Nodes -> 0 .. MaxSeq \cup {Unseeded}]
    BY <1>5, <2>2 DEF FloorSeq, TypeOK
  <2>4. [round[n] EXCEPT !.phase = "stamp"] \in Round
    BY <1>0 DEF Round, Phases
  <2>5. round' \in [Nodes -> Round]
    BY <1>5, <2>4 DEF FloorSeq, TypeOK, RoundBecomes
  <2>6. asks' \in [Nodes -> SUBSET Nodes]
    BY <1>5 DEF FloorSeq, TypeOK
  <2>7. UNCHANGED <<disk, stamping, jobs, settings, spent, issued>>
    BY <1>5 DEF FloorSeq
  <2> HIDE DEF seen
  <2> QED BY <2>3, <2>5, <2>6, <2>7 DEF TypeOK, disk, settings
<1>6. CASE Stamping(n)
  <2>1. [round[n] EXCEPT !.phase = "push"] \in Round
    BY <1>0 DEF Round, Phases
  <2> QED BY <1>0, <1>6, <2>1, RoundOnlyType DEF Stamping
<1> QED BY <1>1, <1>2, <1>3, <1>4, <1>5, <1>6

(* A job that a hub runs, and what applying one of its events leaves. *)
LEMMA JobType ==
    ASSUME TypeOK, NEW h \in Nodes, NEW j \in jobs[h], NEW p \in j.events
    PROVE  /\ j \in Job /\ p \in Event
           /\ j.held \cup {p.origin} \subseteq Nodes
BY DEF TypeOK, Job, Event

(* What applying one event does to the log and the counter. *)
LEMMA AppliedType ==
    ASSUME TypeOK, MarkCovers, NEW n \in Nodes, NEW p \in Event,
           NEW ok, NEW mine,
           log' = IF ok THEN [log EXCEPT ![n] = Absorb(@, {p})] ELSE log,
           counter' = IF mine THEN [counter EXCEPT ![n] = Floored(n, p.seq)]
                      ELSE counter
    PROVE  /\ log' \in [Nodes -> SUBSET Attestation]
           /\ counter' \in [Nodes -> 0 .. MaxSeq \cup {Unseeded}]
<1>1. Absorb(log[n], {p}) \in SUBSET Attestation
  BY AbsorbType DEF TypeOK, Attestation
<1>2. Floored(n, p.seq) \in 0 .. MaxSeq
  BY FlooredType, MaxSeqAssumption DEF Event
<1> QED BY <1>1, <1>2 DEF TypeOK

LEMMA PushType ==
    ASSUME TypeOK, MarkCovers, NEW n \in Nodes,
           \/ ExportDelta(n) \/ PushBatch(n) \/ ApplyPushed(n)
           \/ PushReply(n) \/ PushFails(n) \/ PushEnd(n)
    PROVE  TypeOK'
<1>0. /\ round[n] \in Round /\ spent \in [Faults -> Nat]
      /\ jobs \in [Nodes -> SUBSET Job]
  BY RoundType DEF TypeOK
<1>1. CASE ExportDelta(n)
  <2>1. PICK r \in round[n].asked :
          LET surplus == AttestationsSince(log[n], r.vv)
          IN  RoundBecomes(n,
                IF surplus = {} THEN [round[n] EXCEPT !.asked = @ \ {r}]
                ELSE [round[n] EXCEPT !.asked = @ \ {r}, !.phase = "send",
                                      !.peer = r.hub, !.events = surplus])
    BY <1>1 DEF ExportDelta
  <2> DEFINE surplus == AttestationsSince(log[n], r.vv)
             next == IF surplus = {} THEN [round[n] EXCEPT !.asked = @ \ {r}]
                     ELSE [round[n] EXCEPT !.asked = @ \ {r}, !.phase = "send",
                                           !.peer = r.hub, !.events = surplus]
  <2>2. surplus \in SUBSET Event /\ r.hub \in Nodes
    BY <1>0, RoundType DEF Round
  <2>3. RoundBecomes(n, next)
    BY <2>1
  <2>4. next \in Round
    <3> HIDE DEF surplus
    <3> QED BY <1>0, <2>2, NoOriginAssumption DEF Round, Phases, None
  <2> HIDE DEF next
  <2> QED BY <1>0, <1>1, <2>3, <2>4, RoundOnlyType DEF ExportDelta
<1>2. CASE PushBatch(n)
  <2> DEFINE h == round[n].peer
  <2>1. PICK batch \in SUBSET round[n].events :
          /\ jobs' = [jobs EXCEPT ![h] = @ \cup
                 {[from |-> n, live |-> TRUE, events |-> batch, held |-> {},
                   allowed |-> granted[h] \cup {h}]}]
          /\ RoundBecomes(n, [round[n] EXCEPT
                 !.phase = "sent", !.events = @ \ batch])
    BY <1>2 DEF PushBatch
  <2>2. [round[n] EXCEPT !.phase = "sent", !.events = @ \ batch] \in Round
    BY <1>0, <1>2 DEF Round, Phases, PushBatch
  <2>3. round' \in [Nodes -> Round]
    BY <2>1, <2>2 DEF TypeOK, RoundBecomes
  <2>4. jobs' \in [Nodes -> SUBSET Job]
    <3>1. CASE h \in Nodes
      <4> DEFINE j == [from |-> n, live |-> TRUE, events |-> batch, held |-> {},
                       allowed |-> granted[h] \cup {h}]
      <4>1. granted[h] \cup {h} \in SUBSET Nodes
        BY <3>1 DEF TypeOK
      <4>2. j \in Job
        BY <1>0, <4>1 DEF Job, Round
      <4>3. jobs' = [jobs EXCEPT ![h] = jobs[h] \cup {j}]
        BY <2>1
      <4> HIDE DEF j, h
      <4> QED BY <1>0, <3>1, <4>2, <4>3
    <3>2. CASE h \notin Nodes
      <4> HIDE DEF h
      <4> QED BY <1>0, <2>1, <3>2
    <3> QED BY <3>1, <3>2
  <2> QED BY <1>2, <2>3, <2>4 DEF PushBatch, TypeOK, disk, settings
<1>3. CASE ApplyPushed(n)
  <2>1. PICK j \in jobs[n] : \E p \in j.events :
          LET held == IF Holds(n, p, j.allowed, j.held)
                      THEN j.held \cup {p.origin} ELSE j.held
              rest == [j EXCEPT !.events = @ \ {p}, !.held = held]
              ok == Accepts(n, p, j.allowed, j.held)
          IN  /\ log' = IF ok THEN [log EXCEPT ![n] = Absorb(@, {p})] ELSE log
              /\ counter' = IF ok /\ p.origin = n
                            THEN [counter EXCEPT ![n] = Floored(n, p.seq)]
                            ELSE counter
              /\ jobs' = [jobs EXCEPT ![n] = (@ \ {j}) \cup
                     IF rest.events = {} /\ ~rest.live THEN {} ELSE {rest}]
    BY <1>3 DEF ApplyPushed
  <2>0. PICK p \in j.events :
          LET held == IF Holds(n, p, j.allowed, j.held)
                      THEN j.held \cup {p.origin} ELSE j.held
              rest == [j EXCEPT !.events = @ \ {p}, !.held = held]
              ok == Accepts(n, p, j.allowed, j.held)
          IN  /\ log' = IF ok THEN [log EXCEPT ![n] = Absorb(@, {p})] ELSE log
              /\ counter' = IF ok /\ p.origin = n
                            THEN [counter EXCEPT ![n] = Floored(n, p.seq)]
                            ELSE counter
              /\ jobs' = [jobs EXCEPT ![n] = (@ \ {j}) \cup
                     IF rest.events = {} /\ ~rest.live THEN {} ELSE {rest}]
    BY <2>1
  <2> DEFINE held == IF Holds(n, p, j.allowed, j.held)
                     THEN j.held \cup {p.origin} ELSE j.held
             rest == [j EXCEPT !.events = @ \ {p}, !.held = held]
             left == IF rest.events = {} /\ ~rest.live THEN {} ELSE {rest}
  <2>2. j \in Job /\ p \in Event /\ held \in SUBSET Nodes
    BY JobType DEF Job
  <2>3. rest \in Job
    <3> HIDE DEF held
    <3> QED BY <2>2 DEF Job
  <2>4. jobs' \in [Nodes -> SUBSET Job]
    <3>1. jobs' = [jobs EXCEPT ![n] = (jobs[n] \ {j}) \cup left]
      BY <2>0
    <3>2. left \subseteq Job
      <4> HIDE DEF rest
      <4> QED BY <2>3
    <3> HIDE DEF left
    <3> QED BY <1>0, <3>1, <3>2
  <2>5. log' \in [Nodes -> SUBSET Attestation]
        /\ counter' \in [Nodes -> 0 .. MaxSeq \cup {Unseeded}]
    BY <2>0, <2>2, AppliedType
  <2> QED BY <1>3, <2>4, <2>5 DEF ApplyPushed, TypeOK, settings
<1>4. CASE PushReply(n)
  <2> DEFINE h == round[n].peer
  <2>1. PICK j \in jobs[h] :
          LET held == round[n].held \cup j.held
              events == {p \in round[n].events : p.origin \notin held}
          IN  /\ jobs' = [jobs EXCEPT ![h] = @ \ {j}]
              /\ RoundBecomes(n,
                     IF events = {} THEN Leave(round[n])
                     ELSE [round[n] EXCEPT !.phase = "send", !.held = held,
                                           !.events = events])
    BY <1>4 DEF PushReply
  <2>2. h \in Nodes
    BY <1>0, <1>4 DEF PushReply, Round, None
  <2>3. jobs' \in [Nodes -> SUBSET Job] /\ j \in Job
    BY <1>0, <2>1, <2>2
  <2> DEFINE held == round[n].held \cup j.held
             events == {p \in round[n].events : p.origin \notin held}
             next == IF events = {} THEN Leave(round[n])
                     ELSE [round[n] EXCEPT !.phase = "send", !.held = held,
                                           !.events = events]
  <2>4. held \in SUBSET Nodes /\ events \in SUBSET Event
    BY <1>0, <2>3 DEF Round, Job
  <2>5. next \in Round
    <3> HIDE DEF held, events
    <3> QED BY <1>0, <1>4, <2>4, LeaveType DEF Round, Phases, PushReply
  <2>6. RoundBecomes(n, next)
    BY <2>1
  <2>7. round' \in [Nodes -> Round]
    <3> HIDE DEF next
    <3> QED BY <2>5, <2>6 DEF TypeOK, RoundBecomes
  <2> QED BY <1>4, <2>3, <2>7 DEF PushReply, TypeOK, disk, settings
<1>5. CASE PushFails(n)
  <2> DEFINE h == round[n].peer
  <2>1. h \in Nodes
    BY <1>0, <1>5 DEF PushFails, Round, None
  <2>2. Orphaned(jobs[h], n) \in SUBSET Job
    BY <1>0, <2>1, OrphanedType
  <2>3. jobs' \in [Nodes -> SUBSET Job]
    BY <1>0, <1>5, <2>2 DEF PushFails
  <2>4. spent' \in [Faults -> Nat]
    BY <1>0, <1>5, SpendType DEF PushFails, Faults
  <2>5. round' \in [Nodes -> Round]
    BY <1>0, <1>5, LeaveType DEF PushFails, TypeOK, RoundBecomes
  <2> QED BY <1>5, <2>3, <2>4, <2>5 DEF PushFails, TypeOK, disk, settings
<1>6. CASE PushEnd(n)
  BY <1>0, <1>6, AfterPushType, RoundOnlyType DEF PushEnd
<1> QED BY <1>1, <1>2, <1>3, <1>4, <1>5, <1>6

LEMMA PullType ==
    ASSUME TypeOK, MarkCovers, NEW n \in Nodes,
           \/ \E h \in Nodes : PullFrom(n, h)
           \/ PullAsk(n) \/ PullServe(n) \/ ApplyPulled(n) \/ PullNext(n)
           \/ PullFails(n) \/ PullEnd(n)
    PROVE  TypeOK'
<1>0. /\ round[n] \in Round /\ spent \in [Faults -> Nat]
      /\ keys[n] \in SUBSET Nodes
  BY RoundType DEF TypeOK
<1>1. ASSUME NEW h \in Nodes, PullFrom(n, h)
      PROVE  TypeOK'
  <2> DEFINE since == VersionVector(log[n])
             r == [round[n] EXCEPT !.todo = @ \ {h}, !.phase = "fetch",
                                   !.peer = h, !.since = since]
  <2>1. since \in Vector
    BY RoundType
  <2>2. r \in Round
    <3> HIDE DEF since
    <3> QED BY <1>0, <2>1, NoOriginAssumption DEF Round, Phases, None
  <2>3. RoundBecomes(n, r)
    BY <1>1 DEF PullFrom
  <2> HIDE DEF r
  <2> QED BY <1>0, <1>1, <2>2, <2>3, RoundOnlyType DEF PullFrom
<1>2. CASE PullAsk(n)
  <2>1. [round[n] EXCEPT !.phase = "asked"] \in Round
    BY <1>0, <1>2 DEF Round, Phases, PullAsk
  <2>2. round' \in [Nodes -> Round]
    BY <1>2, <2>1 DEF PullAsk, TypeOK, RoundBecomes
  <2>3. asks' \in [Nodes -> SUBSET Nodes]
    BY <1>2 DEF PullAsk, TypeOK
  <2> QED BY <1>2, <2>2, <2>3 DEF PullAsk, TypeOK, disk, settings
<1>3. CASE PullServe(n)
  <2> DEFINE h == round[n].peer
             delta == AttestationsSince(log[h], round[n].since)
  <2>1. h \in Nodes
    BY <1>0, <1>3 DEF PullServe, Round, None
  <2>2. PICK page \in SUBSET delta :
          RoundBecomes(n,
             IF page = {} THEN Leave(round[n])
             ELSE [round[n] EXCEPT !.phase = "apply", !.events = page,
                      !.held = {}, !.more = page # delta,
                      !.since = Advanced(round[n].since, page)])
    BY <1>3 DEF PullServe
  <2>3. page \in SUBSET Event
    BY <2>1, RoundType
  <2>4. Advanced(round[n].since, page) \in Vector
    <3> SUFFICES ASSUME NEW o \in Nodes
                 PROVE  Highest({round[n].since[o]} \cup
                            {p.seq : p \in {q \in page : q.origin = o}})
                                \in 0 .. MaxSeq
      BY DEF Advanced, Vector
    <3>1. {round[n].since[o]} \cup
             {p.seq : p \in {q \in page : q.origin = o}} \subseteq 0 .. MaxSeq
      BY <1>0, <2>3, MaxSeqAssumption DEF Round, Vector, Event
    <3> QED BY <3>1, HighestSpec
  <2> DEFINE since == Advanced(round[n].since, page)
             more == page # delta
             r == IF page = {} THEN Leave(round[n])
                  ELSE [round[n] EXCEPT !.phase = "apply", !.events = page,
                           !.held = {}, !.more = more, !.since = since]
  <2>5. r \in Round
    <3>1. more \in BOOLEAN /\ since \in Vector
      BY <2>4
    <3> HIDE DEF since, more
    <3> QED BY <1>0, <1>3, <2>3, <3>1, LeaveType
            DEF Round, Phases, PullServe
  <2>6. RoundBecomes(n, r)
    BY <2>2
  <2> HIDE DEF r
  <2> QED BY <1>0, <1>3, <2>5, <2>6, RoundOnlyType DEF PullServe
<1>4. CASE ApplyPulled(n)
  <2>1. PICK p \in round[n].events :
          LET ok == Accepts(n, p, keys[n], round[n].held)
          IN  /\ round[n].phase = "apply"
              /\ log' = IF ok THEN [log EXCEPT ![n] = Absorb(@, {p})] ELSE log
              /\ counter' = IF ok /\ p.origin = n
                            THEN [counter EXCEPT ![n] = Floored(n, p.seq)]
                            ELSE counter
              /\ RoundBecomes(n, [round[n] EXCEPT
                     !.events = @ \ {p},
                     !.held = IF Holds(n, p, keys[n], round[n].held)
                              THEN @ \cup {p.origin} ELSE @])
    BY <1>4 DEF ApplyPulled
  <2>2. p \in Event
    BY <1>0 DEF Round
  <2>3. log' \in [Nodes -> SUBSET Attestation]
        /\ counter' \in [Nodes -> 0 .. MaxSeq \cup {Unseeded}]
    BY <2>1, <2>2, AppliedType
  <2> DEFINE held == IF Holds(n, p, keys[n], round[n].held)
                     THEN round[n].held \cup {p.origin} ELSE round[n].held
             r == [round[n] EXCEPT !.events = @ \ {p}, !.held = held]
  <2>4. held \in SUBSET Nodes
    BY <1>0, <2>2 DEF Round, Event
  <2>5. r \in Round
    <3> HIDE DEF held
    <3> QED BY <1>0, <2>4 DEF Round
  <2>6. RoundBecomes(n, r)
    BY <2>1
  <2>7. round' \in [Nodes -> Round]
    <3> HIDE DEF r
    <3> QED BY <2>5, <2>6 DEF TypeOK, RoundBecomes
  <2> QED BY <1>4, <2>3, <2>7 DEF ApplyPulled, TypeOK, settings
<1>5. CASE PullNext(n)
  <2> DEFINE claimed == [o \in Nodes |-> IF o \in round[n].held THEN MaxSeq
                                         ELSE round[n].since[o]]
             r == IF round[n].more
                  THEN [round[n] EXCEPT !.phase = "fetch", !.since = claimed,
                                        !.held = {}, !.more = FALSE]
                  ELSE Leave(round[n])
  <2>1. claimed \in Vector
    BY <1>0, MaxSeqAssumption DEF Round, Vector
  <2>2. r \in Round
    <3> HIDE DEF claimed
    <3> QED BY <1>0, <1>5, <2>1, LeaveType DEF Round, Phases, PullNext
  <2>3. RoundBecomes(n, r)
    BY <1>5 DEF PullNext
  <2> HIDE DEF r
  <2> QED BY <1>0, <1>5, <2>2, <2>3, RoundOnlyType DEF PullNext
<1>6. CASE PullFails(n)
  <2>1. spent' \in [Faults -> Nat]
    BY <1>0, <1>6, SpendType DEF PullFails, Faults
  <2> QED BY <1>0, <1>6, <2>1, LeaveType, RoundOnlyType DEF PullFails
<1>7. CASE PullEnd(n)
  BY <1>0, <1>7, IdleType, RoundOnlyType DEF PullEnd
<1> QED BY <1>1, <1>2, <1>3, <1>4, <1>5, <1>6, <1>7

(* What a restart leaves in memory. *)
LEMMA RestartType ==
    ASSUME TypeOK, NEW n \in Nodes, Restart(n)
    PROVE  /\ counter' \in [Nodes -> 0 .. MaxSeq \cup {Unseeded}]
           /\ stamping' \in [Nodes -> [Nodes -> Pass]]
           /\ asks' \in [Nodes -> SUBSET Nodes]
           /\ jobs' \in [Nodes -> SUBSET Job]
           /\ round' \in [Nodes -> Round]
<1>1. NoPass \in Pass
  BY MaxSeqAssumption DEF NoPass, Pass
<1>2. \A m \in Nodes : Orphaned(jobs[m], n) \in SUBSET Job
  BY OrphanedType DEF TypeOK
<1>3. \A m \in Nodes : Leave(round[m]) \in Round
  BY LeaveType DEF TypeOK
<1> QED BY <1>1, <1>2, <1>3, IdleType DEF Restart, TypeOK

LEMMA EnvironmentType ==
    ASSUME TypeOK, NEW n \in Nodes, Environment(n)
    PROVE  TypeOK'
<1>1. CASE Crash(n)
  <2>1. spent' \in [Faults -> Nat]
    BY <1>1, SpendType DEF Crash, Faults
  <2> QED BY <1>1, <2>1, RestartType DEF Crash, TypeOK, disk, settings
<1>2. CASE Backup(n)
  <2>1. spent' \in [Faults -> Nat]
    BY <1>2, SpendType DEF Backup, Faults
  <2> QED BY <1>2, <2>1 DEF Backup, TypeOK, process, settings
<1>3. CASE Restore(n)
  <2>1. spent' \in [Faults -> Nat]
    BY <1>3, SpendType DEF Restore, Faults
  <2> QED BY <1>3, <2>1, RestartType DEF Restore, TypeOK, settings
<1>4. CASE Upgrade(n)
  BY <1>4, RestartType DEF Upgrade, TypeOK, disk
<1>5. ASSUME NEW o \in Nodes, TrustOrigin(n, o)
      PROVE  TypeOK'
  BY <1>5, RestartType DEF TrustOrigin, TypeOK, disk
<1>6. ASSUME NEW o \in Nodes, Grant(n, o) \/ Revoke(n, o)
      PROVE  TypeOK'
  <2>1. spent' \in [Faults -> Nat]
    BY <1>6, SpendType DEF Grant, Revoke, Faults
  <2>2. granted' \in [Nodes -> SUBSET Nodes]
    <3>1. granted \in [Nodes -> SUBSET Nodes]
      BY DEF TypeOK
    <3> QED BY <1>6, <3>1 DEF Grant, Revoke
  <2>3. UNCHANGED <<disk, process, keys, old, issued>>
    BY <1>6 DEF Grant, Revoke
  <2> QED BY <2>1, <2>2, <2>3 DEF TypeOK, disk, process
<1>7. CASE \E o \in Nodes : TrustOrigin(n, o) \/ Grant(n, o) \/ Revoke(n, o)
  BY <1>5, <1>6, <1>7
<1> QED BY <1>1, <1>2, <1>3, <1>4, <1>7 DEF Environment

LEMMA TypeStep ==
    ASSUME TypeOK, SeqInv, [Next]_vars
    PROVE  TypeOK'
<1>1. CASE Next
  <2>1. PICK n \in Nodes :
          \/ \E a \in Acts : Observe(n, a)
          \/ \E pulls \in BOOLEAN : PushStart(n, pulls)
          \/ PullStart(n)
          \/ RoundStep(n) \/ BackfillStep(n) \/ ApplyPushed(n)
          \/ Environment(n)
    BY <1>1 DEF Next
  <2> QED BY <2>1, ObserveType, AskType, PushType, PullType, BackfillType,
             EnvironmentType DEF RoundStep, BackfillStep, SeqInv
<1>2. CASE UNCHANGED vars
  BY <1>2 DEF TypeOK, vars, disk, process, settings
<1> QED BY <1>1, <1>2

(* -------------- seqs stay reserved, events stay issued ----------------- *)

(* A step that reserves and stamps nothing, and leaves no counter in       *)
(* memory below the mark.                                                  *)
LEMMA NothingReserved ==
    ASSUME SeqInv, IssuedUnique, UNCHANGED <<mark, stamping, issued>>,
           \A m \in Nodes : \/ counter'[m] \in {counter[m], Unseeded}
                            \/ mark[m] <= counter'[m]
    PROVE  SeqInv' /\ IssuedUnique'
<1>1. MarkCovers'
  BY DEF SeqInv, MarkCovers
<1>2. \A m \in Nodes : OnePass(m)' /\ \A c \in Nodes : PassReserved(m, c)'
  BY DEF SeqInv, OnePass, PassReserved
<1>3. IssuedUnique'
  BY DEF IssuedUnique
<1> QED BY <1>1, <1>2, <1>3 DEF SeqInv

(* A step of a round that moves only events it already carried. *)
LEMMA RoundOnlyIssued ==
    ASSUME TypeOK, AllIssued, NEW n \in Nodes, NEW r, RoundBecomes(n, r),
           r.events \subseteq issued, UNCHANGED <<log, backup, jobs, issued>>
    PROVE  AllIssued'
<1>1. \A m \in Nodes : round'[m] = IF m = n THEN r ELSE round[m]
  BY DEF RoundBecomes, TypeOK
<1> QED BY <1>1 DEF AllIssued

(* A step of a round that applies or serves nothing. *)
LEMMA RoundOnlyKept ==
    ASSUME IInv, NEW n \in Nodes, NEW r, RoundBecomes(n, r),
           r.events \subseteq issued,
           UNCHANGED <<disk, counter, stamping, jobs, issued>>
    PROVE  SeqInv' /\ IssuedUnique' /\ AllIssued'
<1>1. UNCHANGED <<log, backup, mark>>
  BY DEF disk
<1> QED BY <1>1, NothingReserved, RoundOnlyIssued DEF IInv

LEMMA NoEvents ==
    ASSUME NEW r \in Round, NEW n \in Nodes
    PROVE  /\ Idle.events = {} /\ Leave(r).events = {}
           /\ AfterPush(r, n).events = {}
BY DEF Idle, Leave, AfterPush, Round

LEMMA RoundEvents ==
    ASSUME IInv, NEW n \in Nodes
    PROVE  round[n] \in Round /\ round[n].events \subseteq issued
BY DEF IInv, TypeOK, AllIssued

LEMMA AskKept ==
    ASSUME IInv, NEW n \in Nodes,
           \/ \E pulls \in BOOLEAN : PushStart(n, pulls)
           \/ PullStart(n)
           \/ \E h \in Nodes : Advertise(n, h) \/ AdvertiseFails(n, h)
           \/ FloorSeq(n) \/ Stamping(n)
    PROVE  SeqInv' /\ IssuedUnique' /\ AllIssued'
<1>0. round[n] \in Round /\ round[n].events \subseteq issued
  BY RoundEvents
<1>1. ASSUME NEW pulls \in BOOLEAN, PushStart(n, pulls)
      PROVE  SeqInv' /\ IssuedUnique' /\ AllIssued'
  <2>1. [Idle EXCEPT !.phase = "ask", !.todo = Hubs(n), !.pulls = pulls].events
            \subseteq issued
    BY DEF Idle
  <2> QED BY <1>1, <2>1, RoundOnlyKept DEF PushStart
<1>2. CASE PullStart(n)
  <2>1. [Idle EXCEPT !.phase = "pull", !.todo = Hubs(n)].events \subseteq issued
    BY DEF Idle
  <2> QED BY <1>2, <2>1, RoundOnlyKept DEF PullStart
<1>3. ASSUME NEW h \in Nodes, Advertise(n, h)
      PROVE  SeqInv' /\ IssuedUnique' /\ AllIssued'
  <2> DEFINE answer == [hub |-> h, vv |-> VersionVector(log[h])]
             r == [round[n] EXCEPT !.todo = @ \ {h}, !.asked = @ \cup {answer}]
  <2>1. r.events \subseteq issued
    BY <1>0 DEF Round
  <2>2. RoundBecomes(n, r) /\ UNCHANGED <<disk, counter, stamping, jobs, issued>>
    BY <1>3 DEF Advertise
  <2> HIDE DEF r
  <2> QED BY <2>1, <2>2, RoundOnlyKept
<1>4. ASSUME NEW h \in Nodes, AdvertiseFails(n, h)
      PROVE  SeqInv' /\ IssuedUnique' /\ AllIssued'
  <2>1. [round[n] EXCEPT !.todo = @ \ {h}].events \subseteq issued
    BY <1>0 DEF Round
  <2> QED BY <1>4, <2>1, RoundOnlyKept DEF AdvertiseFails
<1>5. CASE FloorSeq(n)
  <2> DEFINE seen == {r.vv[n] : r \in round[n].asked}
             r == [round[n] EXCEPT !.phase = "stamp"]
  <2>1. seen \subseteq 0 .. MaxSeq
    BY <1>0 DEF Round, Vector
  <2>2. mark[n] <= Floored(n, Highest(seen))
    BY <2>1, HighestSpec, FlooredType DEF IInv, SeqInv
  <2>3. counter' = IF seen = {} THEN counter
                   ELSE [counter EXCEPT ![n] = Floored(n, Highest(seen))]
    BY <1>5 DEF FloorSeq
  <2>4. \A m \in Nodes : counter'[m] = counter[m] \/ mark[m] <= counter'[m]
    <3> HIDE DEF seen
    <3> QED BY <2>2, <2>3 DEF IInv, TypeOK
  <2>5. UNCHANGED <<log, backup, mark, stamping, jobs, issued>>
        /\ RoundBecomes(n, r)
    BY <1>5 DEF FloorSeq, disk
  <2>6. r.events \subseteq issued
    BY <1>0 DEF Round
  <2> QED BY <2>4, <2>5, <2>6, NothingReserved, RoundOnlyIssued DEF IInv
<1>6. CASE Stamping(n)
  <2>1. [round[n] EXCEPT !.phase = "push"].events \subseteq issued
    BY <1>0 DEF Round
  <2> QED BY <1>6, <2>1, RoundOnlyKept DEF Stamping
<1> QED BY <1>1, <1>2, <1>3, <1>4, <1>5, <1>6

(* Absorbing events that were issued, and unstamped acts, brings a log no  *)
(* event that was not.                                                     *)
LEMMA AbsorbIssued ==
    ASSUME NEW S, NEW T, NEW I, Events(S) \subseteq I, Events(T) \subseteq I
    PROVE  Events(Absorb(S, T)) \subseteq I
BY AbsorbKeepsStamps

LEMMA ObserveKept ==
    ASSUME IInv, NEW n \in Nodes, NEW a \in Acts, Observe(n, a)
    PROVE  SeqInv' /\ IssuedUnique' /\ AllIssued'
<1>1. UNCHANGED <<backup, mark, counter, stamping, jobs, round, issued>>
  BY DEF Observe, process
<1>2. Events({Unstamped(a)}) = {}
  BY DEF Events, IsStamped, Unstamped
<1>3. \A m \in Nodes : Events(log'[m]) \subseteq issued
  <2>1. Events(Absorb(log[n], {Unstamped(a)})) \subseteq issued
    BY <1>2, AbsorbIssued DEF IInv, AllIssued
  <2> QED BY <2>1 DEF Observe, IInv, TypeOK, AllIssued
<1> QED BY <1>1, <1>3, NothingReserved DEF IInv, AllIssued

LEMMA BackfillKept ==
    ASSUME IInv, NEW n \in Nodes, NEW c \in Nodes,
           \/ BackfillNothing(n, c) \/ BackfillStart(n, c)
           \/ BackfillWrite(n, c) \/ SeqExhausted(n, c)
    PROVE  SeqInv' /\ IssuedUnique' /\ AllIssued'
<1>0. TypeOK /\ SeqInv /\ IssuedUnique /\ AllIssued /\ MarkCovers
  BY DEF IInv, SeqInv
<1>a. /\ Seeded(n) \in 0 .. MaxSeq /\ mark[n] <= Seeded(n)
      /\ mark[n] \in 0 .. MaxSeq
  BY <1>0, SeededType DEF TypeOK
<1>1. CASE BackfillNothing(n, c)
  <2>1. UNCHANGED <<log, backup, mark, counter, stamping, jobs, round, issued>>
    BY <1>1 DEF BackfillNothing, disk
  <2> QED BY <1>0, <2>1, NothingReserved DEF AllIssued
<1>2. CASE BackfillStart(n, c)
  <2> DEFINE todo == UnstampedActs(log[n])
             next == Seeded(n) + 1
             reserved == Seeded(n) + Cardinality(todo)
             pass == [todo |-> todo, next |-> next]
  <2>1. Cardinality(todo) \in Nat
    BY <1>0, UnstampedFinite
  <2>2. reserved \in 0 .. MaxSeq /\ mark[n] <= reserved
    BY <1>a, <1>2, <2>1, MaxSeqAssumption DEF BackfillStart
  <2>3. Highest({mark[n], reserved}) = reserved
    <3>1. {mark[n], reserved} \subseteq 0 .. MaxSeq
      BY <1>a, <2>2
    <3> HIDE DEF reserved
    <3>2. /\ Highest({mark[n], reserved}) \in 0 .. MaxSeq
          /\ reserved <= Highest({mark[n], reserved})
          /\ Highest({mark[n], reserved}) <= reserved
      BY <1>a, <2>2, <3>1, HighestSpec
    <3> QED BY <2>2, <3>2, MaxSeqAssumption
  <2>4. /\ mark' = [mark EXCEPT ![n] = reserved]
        /\ counter' = [counter EXCEPT ![n] = reserved]
        /\ stamping' = [stamping EXCEPT ![n][c] = pass]
        /\ LockFree(n)
        /\ UNCHANGED <<log, backup, jobs, round, issued>>
    BY <1>2, <2>3 DEF BackfillStart
  <2>5. next \in Nat /\ next >= 1 /\ next + Cardinality(todo) <= reserved + 1
    BY <1>a, <2>1, MaxSeqAssumption
  <2>6. \A e \in issued : e.origin = n => e.seq < next
    BY <1>0, <1>a, MaxSeqAssumption DEF MarkCovers, TypeOK, Event
  <2> HIDE DEF todo, next, reserved
  <2>7. MarkCovers'
    BY <1>0, <1>a, <2>2, <2>4, MaxSeqAssumption DEF MarkCovers, TypeOK, Event
  <2>8. \A m, d \in Nodes :
          stamping'[m][d] = IF m = n /\ d = c THEN pass ELSE stamping[m][d]
    BY <1>0, <2>4 DEF TypeOK
  <2>9. \A m \in Nodes : OnePass(m)'
    BY <1>0, <2>4, <2>8 DEF SeqInv, OnePass, LockFree
  <2>10. ASSUME NEW m \in Nodes, NEW d \in Nodes
         PROVE  PassReserved(m, d)'
    <3>1. CASE m = n /\ d = c
      BY <1>0, <2>4, <2>5, <2>6, <2>8, <3>1 DEF PassReserved, TypeOK
    <3>2. CASE m = n /\ d # c
      BY <2>4, <2>8, <3>2 DEF PassReserved, LockFree
    <3>3. CASE m # n
      BY <1>0, <2>4, <2>8, <3>3 DEF SeqInv, PassReserved, TypeOK
    <3> QED BY <3>1, <3>2, <3>3
  <2>11. IssuedUnique' /\ AllIssued'
    BY <1>0, <2>4 DEF IssuedUnique, AllIssued
  <2> QED BY <2>7, <2>9, <2>10, <2>11 DEF SeqInv
<1>3. CASE BackfillWrite(n, c)
  <2>1. PICK a \in stamping[n][c].todo :
          LET e == Stamped(a, n, stamping[n][c].next)
              left == stamping[n][c].todo \ {a}
          IN  /\ log' = [log EXCEPT ![n] = Absorb(@, {e})]
              /\ issued' = issued \cup {e}
              /\ stamping' = [stamping EXCEPT ![n][c] =
                   IF left = {} THEN NoPass
                   ELSE [todo |-> left, next |-> stamping[n][c].next + 1]]
              /\ UNCHANGED <<backup, mark, counter, jobs, round>>
    BY <1>3 DEF BackfillWrite
  <2> DEFINE next == stamping[n][c].next
             e == Stamped(a, n, next)
             left == stamping[n][c].todo \ {a}
             pass == IF left = {} THEN NoPass ELSE [todo |-> left, next |-> next + 1]
  <2>2. /\ next \in 1 .. MaxSeq /\ next <= mark[n]
        /\ Cardinality(left) \in Nat
        /\ next + 1 + Cardinality(left) <= mark[n] + 1
        /\ e \in Event
    BY <1>0, PassStep
  <2>3. \A f \in issued : f.origin = n => f.seq < next
    BY <1>0 DEF SeqInv, PassReserved
  <2>4. e.origin = n /\ e.seq = next
    BY DEF Stamped
  <2>5. /\ log' = [log EXCEPT ![n] = Absorb(log[n], {e})]
        /\ issued' = issued \cup {e}
        /\ stamping' = [stamping EXCEPT ![n][c] = pass]
        /\ UNCHANGED <<backup, mark, counter, jobs, round>>
    BY <2>1
  <2>6. \A m, d \in Nodes :
          stamping'[m][d] = IF m = n /\ d = c THEN pass ELSE stamping[m][d]
    <3> HIDE DEF pass
    <3> QED BY <1>0, <2>5 DEF TypeOK
  <2>7. pass.todo = left /\ (left # {} => pass.next = next + 1)
    BY DEF NoPass
  <2>8. stamping[n][c].todo # {}
    OBVIOUS
  <2> HIDE DEF e, left, pass, next
  <2>9. MarkCovers'
    BY <1>0, <2>2, <2>4, <2>5 DEF MarkCovers
  <2>10. \A m \in Nodes : OnePass(m)'
    BY <1>0, <2>6, <2>7, <2>8 DEF SeqInv, OnePass
  <2>11. ASSUME NEW m \in Nodes, NEW d \in Nodes
         PROVE  PassReserved(m, d)'
    <3>1. CASE m = n /\ d = c
      <4>1. \A f \in issued' : f.origin = n => f.seq < next + 1
        BY <1>0, <2>2, <2>3, <2>4, <2>5, MaxSeqAssumption DEF TypeOK, Event
      <4> QED BY <2>2, <2>5, <2>6, <2>7, <3>1, <4>1 DEF PassReserved
    <3>2. CASE m = n /\ d # c
      <4>1. stamping[n][d].todo = {}
        BY <1>0, <2>8, <3>2 DEF SeqInv, OnePass
      <4> QED BY <2>6, <3>2, <4>1 DEF PassReserved
    <3>3. CASE m # n
      BY <1>0, <2>4, <2>5, <2>6, <3>3 DEF SeqInv, PassReserved
    <3> QED BY <3>1, <3>2, <3>3
  <2>12. IssuedUnique'
    <3>1. \A f \in issued : f.origin = e.origin => f.seq # e.seq
      BY <1>0, <2>2, <2>3, <2>4 DEF TypeOK, Event
    <3> QED BY <1>0, <2>5, <3>1 DEF IssuedUnique
  <2>13. AllIssued'
    <3>1. Events(Absorb(log[n], {e})) \subseteq issued'
      <4>1. Events(log[n]) \subseteq issued' /\ Events({e}) \subseteq issued'
        BY <1>0, <2>5 DEF AllIssued, Events
      <4> QED BY <4>1, AbsorbIssued
    <3>2. \A m \in Nodes : Events(log'[m]) \subseteq issued'
      BY <1>0, <2>5, <3>1 DEF AllIssued, TypeOK
    <3> QED BY <1>0, <2>5, <3>2 DEF AllIssued
  <2> QED BY <2>9, <2>10, <2>11, <2>12, <2>13 DEF SeqInv
<1>4. CASE SeqExhausted(n, c)
  <2>1. UNCHANGED <<log, backup, mark, stamping, jobs, issued>>
    BY <1>4 DEF SeqExhausted, disk
  <2>2. \A m \in Nodes : counter'[m] = counter[m] \/ mark[m] <= counter'[m]
    BY <1>0, <1>a, <1>4 DEF SeqExhausted, TypeOK
  <2>3. PICK r : RoundBecomes(c, r) /\ r.events \subseteq issued
    BY <1>4, RoundEvents, NoEvents DEF SeqExhausted
  <2> QED BY <1>0, <2>1, <2>2, <2>3, NothingReserved, RoundOnlyIssued
<1> QED BY <1>1, <1>2, <1>3, <1>4

(* What applying one issued event does. *)
LEMMA AppliedKept ==
    ASSUME IInv, NEW n \in Nodes, NEW p \in issued, NEW ok, NEW mine,
           log' = IF ok THEN [log EXCEPT ![n] = Absorb(@, {p})] ELSE log,
           counter' = IF mine THEN [counter EXCEPT ![n] = Floored(n, p.seq)]
                      ELSE counter,
           UNCHANGED <<backup, mark, stamping, issued>>
    PROVE  /\ SeqInv' /\ IssuedUnique'
           /\ \A m \in Nodes : Events(log'[m]) \subseteq issued
<1>1. p \in Event
  BY DEF IInv, TypeOK
<1>2. mark[n] <= Floored(n, p.seq)
  BY <1>1, FlooredType, MaxSeqAssumption DEF IInv, SeqInv, Event
<1>3. \A m \in Nodes : counter'[m] = counter[m] \/ mark[m] <= counter'[m]
  BY <1>2 DEF IInv, TypeOK
<1>4. Events(Absorb(log[n], {p})) \subseteq issued
  <2>1. Events(log[n]) \subseteq issued /\ Events({p}) \subseteq issued
    BY DEF IInv, AllIssued, Events
  <2> QED BY <2>1, AbsorbIssued
<1>5. \A m \in Nodes : Events(log'[m]) \subseteq issued
  BY <1>4 DEF IInv, TypeOK, AllIssued
<1> QED BY <1>3, <1>5, NothingReserved DEF IInv

LEMMA PushKept ==
    ASSUME IInv, NEW n \in Nodes,
           \/ ExportDelta(n) \/ PushBatch(n) \/ ApplyPushed(n)
           \/ PushReply(n) \/ PushFails(n) \/ PushEnd(n)
    PROVE  SeqInv' /\ IssuedUnique' /\ AllIssued'
<1>0. /\ round[n] \in Round /\ round[n].events \subseteq issued
      /\ jobs \in [Nodes -> SUBSET Job] /\ round \in [Nodes -> Round]
  BY RoundEvents DEF IInv, TypeOK
<1>1. CASE ExportDelta(n)
  <2>1. PICK r \in round[n].asked :
          LET surplus == AttestationsSince(log[n], r.vv)
          IN  RoundBecomes(n,
                IF surplus = {} THEN [round[n] EXCEPT !.asked = @ \ {r}]
                ELSE [round[n] EXCEPT !.asked = @ \ {r}, !.phase = "send",
                                      !.peer = r.hub, !.events = surplus])
    BY <1>1 DEF ExportDelta
  <2> DEFINE surplus == AttestationsSince(log[n], r.vv)
             next == IF surplus = {} THEN [round[n] EXCEPT !.asked = @ \ {r}]
                     ELSE [round[n] EXCEPT !.asked = @ \ {r}, !.phase = "send",
                                           !.peer = r.hub, !.events = surplus]
  <2>2. surplus \subseteq issued
    BY DEF AttestationsSince, IInv, AllIssued
  <2>3. next.events \subseteq issued
    <3> HIDE DEF surplus
    <3> QED BY <1>0, <2>2 DEF Round
  <2>4. RoundBecomes(n, next)
    BY <2>1
  <2> HIDE DEF next
  <2> QED BY <1>1, <2>3, <2>4, RoundOnlyKept DEF ExportDelta
<1>2. CASE PushBatch(n)
  <2> DEFINE h == round[n].peer
  <2>0. h \in Nodes
    BY <1>0, <1>2 DEF PushBatch, Round, None
  <2>1. PICK batch \in SUBSET round[n].events :
          /\ jobs' = [jobs EXCEPT ![h] = @ \cup
                 {[from |-> n, live |-> TRUE, events |-> batch, held |-> {},
                   allowed |-> granted[h] \cup {h}]}]
          /\ RoundBecomes(n, [round[n] EXCEPT
                 !.phase = "sent", !.events = @ \ batch])
    BY <1>2 DEF PushBatch
  <2> DEFINE r == [round[n] EXCEPT !.phase = "sent", !.events = @ \ batch]
             job == [from |-> n, live |-> TRUE, events |-> batch, held |-> {},
                     allowed |-> granted[h] \cup {h}]
  <2>2. r.events \subseteq issued /\ job.events \subseteq issued
    BY <1>0 DEF Round
  <2>3. jobs' = [jobs EXCEPT ![h] = jobs[h] \cup {job}] /\ RoundBecomes(n, r)
    BY <2>1
  <2> HIDE DEF r, job, h
  <2>4. \A m \in Nodes : \A j \in jobs'[m] : j.events \subseteq issued
    BY <1>0, <2>0, <2>2, <2>3 DEF IInv, AllIssued
  <2>5. \A m \in Nodes : round'[m].events \subseteq issued
    BY <1>0, <2>2, <2>3 DEF RoundBecomes, IInv, AllIssued
  <2>6. UNCHANGED <<log, backup, mark, counter, stamping, issued>>
    BY <1>2 DEF PushBatch, disk
  <2> QED BY <2>4, <2>5, <2>6, NothingReserved DEF IInv, AllIssued
<1>3. CASE ApplyPushed(n)
  <2>1. PICK j \in jobs[n] : \E p \in j.events :
          LET held == IF Holds(n, p, j.allowed, j.held)
                      THEN j.held \cup {p.origin} ELSE j.held
              rest == [j EXCEPT !.events = @ \ {p}, !.held = held]
              ok == Accepts(n, p, j.allowed, j.held)
          IN  /\ log' = IF ok THEN [log EXCEPT ![n] = Absorb(@, {p})] ELSE log
              /\ counter' = IF ok /\ p.origin = n
                            THEN [counter EXCEPT ![n] = Floored(n, p.seq)]
                            ELSE counter
              /\ jobs' = [jobs EXCEPT ![n] = (@ \ {j}) \cup
                     IF rest.events = {} /\ ~rest.live THEN {} ELSE {rest}]
    BY <1>3 DEF ApplyPushed
  <2>2. PICK p \in j.events :
          LET held == IF Holds(n, p, j.allowed, j.held)
                      THEN j.held \cup {p.origin} ELSE j.held
              rest == [j EXCEPT !.events = @ \ {p}, !.held = held]
              ok == Accepts(n, p, j.allowed, j.held)
          IN  /\ log' = IF ok THEN [log EXCEPT ![n] = Absorb(@, {p})] ELSE log
              /\ counter' = IF ok /\ p.origin = n
                            THEN [counter EXCEPT ![n] = Floored(n, p.seq)]
                            ELSE counter
              /\ jobs' = [jobs EXCEPT ![n] = (@ \ {j}) \cup
                     IF rest.events = {} /\ ~rest.live THEN {} ELSE {rest}]
    BY <2>1
  <2> DEFINE held == IF Holds(n, p, j.allowed, j.held)
                     THEN j.held \cup {p.origin} ELSE j.held
             rest == [j EXCEPT !.events = @ \ {p}, !.held = held]
             left == IF rest.events = {} /\ ~rest.live THEN {} ELSE {rest}
  <2>3. j \in Job /\ j.events \subseteq issued /\ p \in issued
    BY <1>0 DEF IInv, AllIssued
  <2>4. rest.events \subseteq issued
    <3> HIDE DEF held
    <3> QED BY <2>3 DEF Job
  <2>5. jobs' = [jobs EXCEPT ![n] = (jobs[n] \ {j}) \cup left]
    BY <2>2
  <2>6. \A i \in left : i.events \subseteq issued
    <3> HIDE DEF rest
    <3> QED BY <2>4
  <2>7. UNCHANGED <<backup, mark, stamping, round, issued>>
    BY <1>3 DEF ApplyPushed
  <2>8. /\ SeqInv' /\ IssuedUnique'
        /\ \A m \in Nodes : Events(log'[m]) \subseteq issued
    BY <2>2, <2>3, <2>7, AppliedKept
  <2>9. \A m \in Nodes : \A i \in jobs'[m] : i.events \subseteq issued
    <3> HIDE DEF left
    <3> QED BY <1>0, <2>5, <2>6 DEF IInv, AllIssued
  <2> QED BY <2>7, <2>8, <2>9 DEF IInv, AllIssued
<1>4. CASE PushReply(n)
  <2> DEFINE h == round[n].peer
  <2>1. PICK j \in jobs[h] :
          LET held == round[n].held \cup j.held
              events == {p \in round[n].events : p.origin \notin held}
          IN  /\ jobs' = [jobs EXCEPT ![h] = @ \ {j}]
              /\ RoundBecomes(n,
                     IF events = {} THEN Leave(round[n])
                     ELSE [round[n] EXCEPT !.phase = "send", !.held = held,
                                           !.events = events])
    BY <1>4 DEF PushReply
  <2> DEFINE held == round[n].held \cup j.held
             events == {p \in round[n].events : p.origin \notin held}
             r == IF events = {} THEN Leave(round[n])
                  ELSE [round[n] EXCEPT !.phase = "send", !.held = held,
                                        !.events = events]
  <2>2. events \subseteq issued
    BY <1>0
  <2>3. r.events \subseteq issued
    <3> HIDE DEF held, events
    <3> QED BY <1>0, <2>2, NoEvents DEF Round
  <2>4. RoundBecomes(n, r) /\ jobs' = [jobs EXCEPT ![h] = jobs[h] \ {j}]
    BY <2>1
  <2> HIDE DEF r, h
  <2>5. \A m \in Nodes : \A i \in jobs'[m] : i.events \subseteq issued
    BY <1>0, <2>4 DEF IInv, AllIssued
  <2>6. \A m \in Nodes : round'[m].events \subseteq issued
    BY <1>0, <2>3, <2>4 DEF RoundBecomes, IInv, AllIssued
  <2>7. UNCHANGED <<log, backup, mark, counter, stamping, issued>>
    BY <1>4 DEF PushReply, disk
  <2> QED BY <2>5, <2>6, <2>7, NothingReserved DEF IInv, AllIssued
<1>5. CASE PushFails(n)
  <2> DEFINE h == round[n].peer
             r == Leave(round[n])
  <2>1. RoundBecomes(n, r) /\ jobs' = [jobs EXCEPT ![h] = Orphaned(jobs[h], n)]
    BY <1>5 DEF PushFails
  <2>2. h \in Nodes
    BY <1>0, <1>5 DEF PushFails, Round, None
  <2>3. \A i \in Orphaned(jobs[h], n) : i.events \subseteq issued
    BY <1>0, <2>2, OrphanedEvents DEF IInv, AllIssued
  <2>4. r.events \subseteq issued
    BY <1>0, NoEvents
  <2> HIDE DEF h, r
  <2>5. \A m \in Nodes : \A i \in jobs'[m] : i.events \subseteq issued
    BY <1>0, <2>1, <2>3 DEF IInv, AllIssued
  <2>6. \A m \in Nodes : round'[m].events \subseteq issued
    BY <1>0, <2>1, <2>4 DEF RoundBecomes, IInv, AllIssued
  <2>7. UNCHANGED <<log, backup, mark, counter, stamping, issued>>
    BY <1>5 DEF PushFails, disk
  <2> QED BY <2>5, <2>6, <2>7, NothingReserved DEF IInv, AllIssued
<1>6. CASE PushEnd(n)
  <2>1. AfterPush(round[n], n).events \subseteq issued
    BY <1>0, NoEvents
  <2> QED BY <1>6, <2>1, RoundOnlyKept DEF PushEnd
<1> QED BY <1>1, <1>2, <1>3, <1>4, <1>5, <1>6

LEMMA PullKept ==
    ASSUME IInv, NEW n \in Nodes,
           \/ \E h \in Nodes : PullFrom(n, h)
           \/ PullAsk(n) \/ PullServe(n) \/ ApplyPulled(n) \/ PullNext(n)
           \/ PullFails(n) \/ PullEnd(n)
    PROVE  SeqInv' /\ IssuedUnique' /\ AllIssued'
<1>0. round[n] \in Round /\ round[n].events \subseteq issued
  BY RoundEvents
<1>1. ASSUME NEW h \in Nodes, PullFrom(n, h)
      PROVE  SeqInv' /\ IssuedUnique' /\ AllIssued'
  <2> DEFINE since == VersionVector(log[n])
             r == [round[n] EXCEPT !.todo = @ \ {h}, !.phase = "fetch",
                                   !.peer = h, !.since = since]
  <2>1. r.events \subseteq issued
    BY <1>0 DEF Round
  <2>2. RoundBecomes(n, r) /\ UNCHANGED <<disk, counter, stamping, jobs, issued>>
    BY <1>1 DEF PullFrom
  <2> HIDE DEF r
  <2> QED BY <2>1, <2>2, RoundOnlyKept
<1>2. CASE PullAsk(n)
  <2>1. [round[n] EXCEPT !.phase = "asked"].events \subseteq issued
    BY <1>0 DEF Round
  <2> QED BY <1>2, <2>1, RoundOnlyKept DEF PullAsk
<1>3. CASE PullServe(n)
  <2> DEFINE h == round[n].peer
             delta == AttestationsSince(log[h], round[n].since)
  <2>1. h \in Nodes
    BY <1>0, <1>3 DEF PullServe, Round, None
  <2>2. PICK page \in SUBSET delta :
          RoundBecomes(n,
             IF page = {} THEN Leave(round[n])
             ELSE [round[n] EXCEPT !.phase = "apply", !.events = page,
                      !.held = {}, !.more = page # delta,
                      !.since = Advanced(round[n].since, page)])
    BY <1>3 DEF PullServe
  <2>3. page \subseteq issued
    BY <2>1 DEF AttestationsSince, IInv, AllIssued
  <2> DEFINE r == IF page = {} THEN Leave(round[n])
                  ELSE [round[n] EXCEPT !.phase = "apply", !.events = page,
                           !.held = {}, !.more = page # delta,
                           !.since = Advanced(round[n].since, page)]
  <2>4. r.events \subseteq issued
    BY <1>0, <2>3, NoEvents DEF Round
  <2>5. RoundBecomes(n, r) /\ UNCHANGED <<disk, counter, stamping, jobs, issued>>
    BY <1>3, <2>2 DEF PullServe
  <2> HIDE DEF r
  <2> QED BY <2>4, <2>5, RoundOnlyKept
<1>4. CASE ApplyPulled(n)
  <2>1. PICK p \in round[n].events :
          LET ok == Accepts(n, p, keys[n], round[n].held)
          IN  /\ log' = IF ok THEN [log EXCEPT ![n] = Absorb(@, {p})] ELSE log
              /\ counter' = IF ok /\ p.origin = n
                            THEN [counter EXCEPT ![n] = Floored(n, p.seq)]
                            ELSE counter
              /\ RoundBecomes(n, [round[n] EXCEPT
                     !.events = @ \ {p},
                     !.held = IF Holds(n, p, keys[n], round[n].held)
                              THEN @ \cup {p.origin} ELSE @])
    BY <1>4 DEF ApplyPulled
  <2>2. p \in issued /\ UNCHANGED <<backup, mark, stamping, jobs, issued>>
    BY <1>0, <1>4 DEF ApplyPulled
  <2>3. /\ SeqInv' /\ IssuedUnique'
        /\ \A m \in Nodes : Events(log'[m]) \subseteq issued
    BY <2>1, <2>2, AppliedKept
  <2> DEFINE held == IF Holds(n, p, keys[n], round[n].held)
                     THEN round[n].held \cup {p.origin} ELSE round[n].held
             r == [round[n] EXCEPT !.events = @ \ {p}, !.held = held]
  <2>4. r.events \subseteq issued /\ RoundBecomes(n, r)
    BY <1>0, <2>1 DEF Round
  <2> HIDE DEF r
  <2>5. \A m \in Nodes : round'[m].events \subseteq issued
    BY <2>4 DEF RoundBecomes, IInv, TypeOK, AllIssued
  <2> QED BY <2>2, <2>3, <2>5 DEF IInv, AllIssued
<1>5. CASE PullNext(n)
  <2> DEFINE claimed == [o \in Nodes |-> IF o \in round[n].held THEN MaxSeq
                                         ELSE round[n].since[o]]
             r == IF round[n].more
                  THEN [round[n] EXCEPT !.phase = "fetch", !.since = claimed,
                                        !.held = {}, !.more = FALSE]
                  ELSE Leave(round[n])
  <2>1. r.events \subseteq issued
    BY <1>0, NoEvents DEF Round
  <2>2. RoundBecomes(n, r) /\ UNCHANGED <<disk, counter, stamping, jobs, issued>>
    BY <1>5 DEF PullNext
  <2> HIDE DEF r
  <2> QED BY <2>1, <2>2, RoundOnlyKept
<1>6. CASE PullFails(n)
  <2>1. Leave(round[n]).events \subseteq issued
    BY <1>0, NoEvents
  <2> QED BY <1>6, <2>1, RoundOnlyKept DEF PullFails
<1>7. CASE PullEnd(n)
  <2>1. Idle.events \subseteq issued
    BY DEF Idle
  <2> QED BY <1>7, <2>1, RoundOnlyKept DEF PullEnd
<1> QED BY <1>1, <1>2, <1>3, <1>4, <1>5, <1>6, <1>7

(* A restart forgets the counter and the passes, and the events its round  *)
(* and its jobs carried.                                                   *)
LEMMA RestartKept ==
    ASSUME IInv, NEW n \in Nodes, Restart(n), UNCHANGED <<mark, issued>>,
           \A m \in Nodes : Events(log'[m]) \subseteq issued
                            /\ Events(backup'[m]) \subseteq issued
    PROVE  SeqInv' /\ IssuedUnique' /\ AllIssued'
<1>0. TypeOK /\ SeqInv /\ IssuedUnique /\ AllIssued
  BY DEF IInv
<1>1. \A m \in Nodes : /\ counter'[m] \in {counter[m], Unseeded}
                        /\ \A c \in Nodes : stamping'[m][c] \in {stamping[m][c], NoPass}
  BY <1>0 DEF Restart, TypeOK
<1>2. MarkCovers'
  BY <1>0, <1>1 DEF SeqInv, MarkCovers
<1>3. \A m \in Nodes : OnePass(m)'
  BY <1>0, <1>1 DEF SeqInv, OnePass, NoPass
<1>4. \A m, c \in Nodes : PassReserved(m, c)'
  BY <1>0, <1>1 DEF SeqInv, PassReserved, NoPass
<1>5. IssuedUnique'
  BY <1>0 DEF IssuedUnique
<1>6. \A m \in Nodes : round'[m].events \subseteq issued
  <2>1. \A m \in Nodes : /\ round[m] \in Round
                          /\ round[m].events \subseteq issued
    BY RoundEvents
  <2> QED BY <2>1, NoEvents DEF Restart
<1>7. \A m \in Nodes : \A j \in jobs'[m] : j.events \subseteq issued
  <2>1. \A m \in Nodes : \A j \in Orphaned(jobs[m], n) : j.events \subseteq issued
    BY <1>0, OrphanedEvents DEF TypeOK, AllIssued
  <2> QED BY <2>1 DEF Restart
<1> QED BY <1>2, <1>3, <1>4, <1>5, <1>6, <1>7 DEF SeqInv, AllIssued

LEMMA EnvironmentKept ==
    ASSUME IInv, NEW n \in Nodes, Environment(n)
    PROVE  SeqInv' /\ IssuedUnique' /\ AllIssued'
<1>0. \A m \in Nodes : Events(log[m]) \subseteq issued
                        /\ Events(backup[m]) \subseteq issued
  BY DEF IInv, AllIssued
<1>1. CASE Crash(n) \/ Upgrade(n)
  <2>1. Restart(n) /\ UNCHANGED <<log, backup, mark, issued>>
    BY <1>1 DEF Crash, Upgrade, disk
  <2> QED BY <1>0, <2>1, RestartKept
<1>2. CASE Backup(n)
  <2>1. UNCHANGED <<log, mark, counter, stamping, jobs, round, issued>>
    BY <1>2 DEF Backup, process
  <2>2. \A m \in Nodes : Events(backup'[m]) \subseteq issued
    BY <1>0, <1>2 DEF Backup, IInv, TypeOK
  <2> QED BY <2>1, <2>2, NothingReserved DEF IInv, AllIssued
<1>3. CASE Restore(n)
  <2>1. \A m \in Nodes : Events(log'[m]) \subseteq issued
    BY <1>0, <1>3 DEF Restore, IInv, TypeOK
  <2>2. Restart(n) /\ UNCHANGED <<backup, mark, issued>>
    BY <1>3 DEF Restore
  <2> QED BY <1>0, <2>1, <2>2, RestartKept
<1>4. ASSUME NEW o \in Nodes, TrustOrigin(n, o)
      PROVE  SeqInv' /\ IssuedUnique' /\ AllIssued'
  <2>1. Restart(n) /\ UNCHANGED <<log, backup, mark, issued>>
    BY <1>4 DEF TrustOrigin, disk
  <2> QED BY <1>0, <2>1, RestartKept
<1>5. ASSUME NEW o \in Nodes, Grant(n, o) \/ Revoke(n, o)
      PROVE  SeqInv' /\ IssuedUnique' /\ AllIssued'
  <2>1. UNCHANGED <<log, backup, mark, counter, stamping, jobs, round, issued>>
    BY <1>5 DEF Grant, Revoke, disk, process
  <2> QED BY <2>1, NothingReserved DEF IInv, AllIssued
<1> QED BY <1>1, <1>2, <1>3, <1>4, <1>5 DEF Environment

LEMMA InvStep ==
    ASSUME IInv, [Next]_vars
    PROVE  IInv'
<1>1. TypeOK'
  BY TypeStep DEF IInv
<1>2. CASE Next
  <2>1. PICK n \in Nodes :
          \/ \E a \in Acts : Observe(n, a)
          \/ \E pulls \in BOOLEAN : PushStart(n, pulls)
          \/ PullStart(n)
          \/ RoundStep(n) \/ BackfillStep(n) \/ ApplyPushed(n)
          \/ Environment(n)
    BY <1>2 DEF Next
  <2> QED BY <1>1, <2>1, ObserveKept, AskKept, PushKept, PullKept, BackfillKept,
             EnvironmentKept DEF RoundStep, BackfillStep, IInv
<1>3. CASE UNCHANGED vars
  <2>1. UNCHANGED <<log, backup, mark, counter, stamping, jobs, round, issued>>
    BY <1>3 DEF vars, disk, process
  <2> QED BY <1>1, <2>1, NothingReserved DEF IInv, AllIssued
<1> QED BY <1>2, <1>3

LEMMA InvInit == Init => IInv
<1> SUFFICES ASSUME Init PROVE IInv
  OBVIOUS
<1>1. TypeOK
  BY InitType
<1>2. SeqInv
  BY DEF Init, SeqInv, MarkCovers, OnePass, PassReserved, NoPass
<1>3. IssuedUnique
  BY DEF Init, IssuedUnique
<1>4. AllIssued
  BY DEF Init, AllIssued, Events, Idle
<1> QED BY <1>1, <1>2, <1>3, <1>4 DEF IInv

THEOREM Invariant == Spec => []IInv
BY InvInit, InvStep, PTL DEF Spec

(* ----------------------------- the theorems ---------------------------- *)

(* Every variable keeps its type; in particular no counter, mark or pass   *)
(* leaves 0 .. MaxSeq, and a round exchanging with a hub knows which.      *)
THEOREM TypeCorrect == Spec => []TypeOK
BY Invariant, PTL DEF IInv

(* A seq of a stream names one event, through any number of crashes,       *)
(* restarts, lost calls and restored stores, in any federation.            *)
THEOREM SeqsAreUnique == Spec => []SeqIssuedOnce
<1>1. IInv => SeqIssuedOnce
  BY DEF IInv, IssuedUnique, AllIssued, SeqIssuedOnce
<1> QED BY <1>1, Invariant, PTL
(* ------------------------------ logs grow ------------------------------ *)

(* The step brings an issued event to the log of some node. *)
Delivers ==
    \E n \in Nodes, p \in issued :
        /\ log' = [log EXCEPT ![n] = Absorb(@, {p})]
        /\ UNCHANGED <<stamping, issued>>

(* The step changes no log and stamps nothing; it may end backfills. *)
Silent ==
    /\ UNCHANGED <<log, issued>>
    /\ \A n, c \in Nodes : stamping'[n][c] \in {stamping[n][c], NoPass}

(* What a step can do to the logs and the stamps. *)
LEMMA StepKinds ==
    ASSUME IInv, [Next]_vars
    PROVE  \/ \E n \in Nodes, a \in Acts : Observe(n, a)
           \/ \E n, c \in Nodes : BackfillStart(n, c) \/ BackfillWrite(n, c)
           \/ \E n \in Nodes : Restore(n)
           \/ Delivers \/ Silent
<1>0. CASE UNCHANGED vars
  BY <1>0 DEF vars, disk, process, Silent
<1> SUFFICES ASSUME Next
             PROVE  \/ \E n \in Nodes, a \in Acts : Observe(n, a)
                    \/ \E n, c \in Nodes : BackfillStart(n, c) \/ BackfillWrite(n, c)
                    \/ \E n \in Nodes : Restore(n)
                    \/ Delivers \/ Silent
  BY <1>0
<1>1. PICK m \in Nodes :
          \/ \E a \in Acts : Observe(m, a)
          \/ \E pulls \in BOOLEAN : PushStart(m, pulls)
          \/ PullStart(m)
          \/ RoundStep(m) \/ BackfillStep(m) \/ ApplyPushed(m)
          \/ Environment(m)
  BY DEF Next
<1>2. CASE (\E pulls \in BOOLEAN : PushStart(m, pulls)) \/ PullStart(m)
  BY <1>2 DEF PushStart, PullStart, disk, Silent
<1>3. CASE ApplyPushed(m)
  <2>1. PICK j \in jobs[m] : \E p \in j.events :
           \/ log' = log
           \/ log' = [log EXCEPT ![m] = Absorb(log[m], {p})]
    BY <1>3 DEF ApplyPushed
  <2>2. j.events \subseteq issued /\ UNCHANGED <<stamping, issued>>
    BY <1>3 DEF ApplyPushed, IInv, AllIssued
  <2> QED BY <2>1, <2>2 DEF Delivers, Silent
<1>4. CASE RoundStep(m)
  <2>1. CASE ApplyPulled(m)
    <3>1. PICK p \in round[m].events :
             \/ log' = log
             \/ log' = [log EXCEPT ![m] = Absorb(log[m], {p})]
      BY <2>1 DEF ApplyPulled
    <3>2. round[m].events \subseteq issued /\ UNCHANGED <<stamping, issued>>
      BY <2>1, RoundEvents DEF ApplyPulled
    <3> QED BY <3>1, <3>2 DEF Delivers, Silent
  <2>2. CASE ~ApplyPulled(m)
    BY <1>4, <2>2 DEF RoundStep, Advertise, AdvertiseFails, FloorSeq, Stamping,
       ExportDelta, PushBatch, PushReply, PushFails, PushEnd, PullFrom,
       PullAsk, PullServe, PullNext, PullFails, PullEnd, disk, Silent
  <2> QED BY <2>1, <2>2
<1>5. CASE BackfillStep(m)
  BY <1>5 DEF BackfillStep, BackfillNothing, SeqExhausted, disk, Silent
<1>6. CASE Environment(m)
  <2>1. CASE Restart(m) /\ UNCHANGED <<log, issued>>
    <3>1. \A n, c \in Nodes : stamping'[n][c] \in {stamping[n][c], NoPass}
      BY <2>1 DEF Restart, IInv, TypeOK
    <3> QED BY <2>1, <3>1 DEF Silent
  <2>2. CASE \E o \in Nodes : Grant(m, o) \/ Revoke(m, o)
    BY <2>2 DEF Grant, Revoke, disk, process, Silent
  <2>3. CASE Backup(m)
    BY <2>3 DEF Backup, process, Silent
  <2>4. CASE \/ Crash(m) \/ Upgrade(m)
             \/ \E o \in Nodes : TrustOrigin(m, o)
    BY <2>1, <2>4 DEF Crash, Upgrade, TrustOrigin, disk
  <2> QED BY <1>6, <2>2, <2>3, <2>4 DEF Environment
<1> QED BY <1>1, <1>2, <1>3, <1>4, <1>5, <1>6

(* No act and no stamp a log holds is lost, whatever it absorbs in         *)
(* whatever order, and whatever crashes; only a restore takes one away.    *)
THEOREM LogsGrow == Spec => LogGrows
<1>1. ASSUME IInv, [Next]_vars
      PROVE  [\A n \in Nodes :
                log'[n] # log[n] /\ spent'["restore"] = spent["restore"]
                  => /\ Events(log[n]) \subseteq Events(log'[n])
                     /\ {p.act : p \in log[n]} \subseteq {p.act : p \in log'[n]}]_vars
  <2> SUFFICES ASSUME NEW n \in Nodes, log'[n] # log[n],
                      spent'["restore"] = spent["restore"]
               PROVE  /\ Events(log[n]) \subseteq Events(log'[n])
                      /\ {p.act : p \in log[n]} \subseteq {p.act : p \in log'[n]}
    OBVIOUS
  <2>1. \E T : log'[n] = Absorb(log[n], T)
    <3>1. log \in [Nodes -> SUBSET Attestation] /\ spent["restore"] \in Nat
      BY <1>1 DEF IInv, TypeOK, Faults
    <3>2. ASSUME NEW m \in Nodes, Restore(m)
          PROVE  FALSE
      <4>1. spent' = [spent EXCEPT !["restore"] = spent["restore"] + 1]
        BY <3>2 DEF Restore, Spend
      <4> QED BY <1>1, <3>1, <4>1 DEF IInv, TypeOK, Faults
    <3>3. CASE \E m \in Nodes, a \in Acts : Observe(m, a)
      BY <3>1, <3>3 DEF Observe
    <3>4. CASE \E m, c \in Nodes : BackfillWrite(m, c)
      <4>1. PICK m \in Nodes, c \in Nodes : BackfillWrite(m, c)
        BY <3>4
      <4>2. PICK T : log' = [log EXCEPT ![m] = Absorb(log[m], T)]
        BY <4>1 DEF BackfillWrite
      <4> QED BY <3>1, <4>2
    <3>5. CASE \E m, c \in Nodes : BackfillStart(m, c)
      BY <3>5 DEF BackfillStart
    <3>6. CASE Delivers
      BY <3>1, <3>6 DEF Delivers
    <3>7. CASE Silent
      BY <3>7 DEF Silent
    <3> QED BY <1>1, <3>2, <3>3, <3>4, <3>5, <3>6, <3>7, StepKinds
  <2>2. PICK T : log'[n] = Absorb(log[n], T)
    BY <2>1
  <2>3. Events(log[n]) \subseteq Events(log'[n])
    BY <2>2, AbsorbKeepsStamps
  <2>4. \A p \in log[n] : \E q \in log'[n] : q.act = p.act
    <3>1. \A p \in log[n] \cup T : \E q \in Absorb(log[n], T) : q.act = p.act
      BY AbsorbKeepsActs
    <3> QED BY <2>2, <3>1
  <2> QED BY <2>3, <2>4
<1> QED BY <1>1, Invariant, PTL DEF Spec, LogGrows

(* ------------------------- one act, one stamp -------------------------- *)

(* The unstamped are the node's own acts, and no row holds an act beside   *)
(* its stamp.                                                              *)
OwnActs ==
    \A n \in Nodes :
        /\ IsRow(log[n])
        /\ \A p \in log[n] : ~IsStamped(p) => Author[p.act] = n

(* A stamp is the author's, and the author's log still holds it. *)
StampsHeld ==
    \A e \in issued : Author[e.act] = e.origin /\ e \in log[e.origin]

(* A running backfill has taken only acts of its node that nobody stamped. *)
PassFresh ==
    \A n, c \in Nodes : \A a \in stamping[n][c].todo :
        Author[a] = n /\ \A e \in issued : e.act # a

ActInv == OwnActs /\ StampsHeld /\ PassFresh /\ OneActOneStamp

LEMMA EnrichedIsRow == \A S, T : IsRow(Absorb(S, T))
BY DEF IsRow, Absorb, Enriched, Events, IsStamped

(* No act of a node's log that it could stamp was stamped before. *)
LEMMA UnstampedFresh ==
    ASSUME ActInv, NEW n \in Nodes, NEW a \in UnstampedActs(log[n])
    PROVE  Author[a] = n /\ \A e \in issued : e.act # a
<1>1. PICK p \in log[n] : ~IsStamped(p) /\ p.act = a
  BY DEF UnstampedActs, Events
<1>2. Author[a] = n
  BY <1>1 DEF ActInv, OwnActs
<1>3. ASSUME NEW e \in issued, e.act = a
      PROVE  FALSE
  <2>1. e \in log[n] /\ e.origin = n
    BY <1>2, <1>3 DEF ActInv, StampsHeld
  <2>2. IsRow(log[n]) /\ p \in Enriched(log[n])
    BY DEF ActInv, OwnActs, IsRow
  <2>3. e \in Events(log[n])
    BY <2>1, NoOriginAssumption DEF Events, IsStamped
  <2> QED BY <1>1, <1>3, <2>2, <2>3 DEF Enriched
<1> QED BY <1>2, <1>3

(* Absorbing issued events, or one's own act, keeps what was said of rows. *)
LEMMA OwnActsKept ==
    ASSUME IInv, ActInv, NEW n \in Nodes, NEW T,
           \A p \in T : ~IsStamped(p) => Author[p.act] = n,
           log' = [log EXCEPT ![n] = Absorb(log[n], T)]
    PROVE  OwnActs' /\ \A m \in Nodes : Events(log[m]) \subseteq Events(log'[m])
<1>1. \A m \in Nodes : log'[m] = IF m = n THEN Absorb(log[n], T) ELSE log[m]
  BY DEF IInv, TypeOK
<1>2. IsRow(Absorb(log[n], T))
  BY EnrichedIsRow
<1>3. \A p \in Absorb(log[n], T) : p \in log[n] \cup T
  BY DEF Absorb, Enriched
<1>4. Events(log[n]) \subseteq Events(Absorb(log[n], T))
  BY AbsorbKeepsStamps
<1>5. OwnActs'
  BY <1>1, <1>2, <1>3 DEF ActInv, OwnActs
<1> QED BY <1>1, <1>4, <1>5

(* What is stamped stays in its author's log while logs only grow. *)
LEMMA StampsHeldKept ==
    ASSUME IInv, ActInv, NEW I, I \subseteq issued,
           \A m \in Nodes : Events(log[m]) \subseteq Events(log'[m])
    PROVE  \A e \in I : Author[e.act] = e.origin /\ e \in log'[e.origin]
<1> SUFFICES ASSUME NEW e \in I
             PROVE  Author[e.act] = e.origin /\ e \in log'[e.origin]
  OBVIOUS
<1>1. e \in Event /\ Author[e.act] = e.origin /\ e \in log[e.origin]
  BY DEF IInv, TypeOK, ActInv, StampsHeld
<1>2. e.origin \in Nodes /\ e \in Events(log[e.origin])
  BY <1>1, NoOriginAssumption DEF Event, Events, IsStamped
<1> QED BY <1>1, <1>2 DEF Events

LEMMA ActStep ==
    ASSUME IInv, ActInv, Budget["restore"] = 0, [Next]_vars
    PROVE  ActInv'
<1>0. log \in [Nodes -> SUBSET Attestation] /\ spent["restore"] \in Nat
  BY DEF IInv, TypeOK, Faults
<1>1. ASSUME NEW n \in Nodes, NEW a \in Acts, Observe(n, a)
      PROVE  ActInv'
  <2>1. /\ log' = [log EXCEPT ![n] = Absorb(log[n], {Unstamped(a)})]
        /\ Author[a] = n
        /\ UNCHANGED <<stamping, issued>>
    BY <1>1 DEF Observe, process
  <2>2. \A p \in {Unstamped(a)} : ~IsStamped(p) => Author[p.act] = n
    BY <2>1 DEF Unstamped
  <2>3. OwnActs' /\ \A m \in Nodes : Events(log[m]) \subseteq Events(log'[m])
    <3> DEFINE T == {Unstamped(a)}
    <3>1. /\ log' = [log EXCEPT ![n] = Absorb(log[n], T)]
          /\ \A p \in T : ~IsStamped(p) => Author[p.act] = n
      BY <2>1, <2>2
    <3> HIDE DEF T
    <3> QED BY <3>1, OwnActsKept
  <2>4. StampsHeld'
    BY <2>1, <2>3, StampsHeldKept DEF StampsHeld
  <2> QED BY <2>1, <2>3, <2>4 DEF ActInv, PassFresh, OneActOneStamp
<1>2. ASSUME NEW n \in Nodes, NEW c \in Nodes, BackfillStart(n, c)
      PROVE  ActInv'
  <2> DEFINE todo == UnstampedActs(log[n])
             pass == [todo |-> todo, next |-> Seeded(n) + 1]
  <2>1. stamping' = [stamping EXCEPT ![n][c] = pass] /\ UNCHANGED <<log, issued>>
    BY <1>2 DEF BackfillStart
  <2>2. \A a \in pass.todo : Author[a] = n /\ \A e \in issued : e.act # a
    BY UnstampedFresh
  <2> HIDE DEF pass
  <2>3. \A m, d \in Nodes :
          stamping'[m][d] = IF m = n /\ d = c THEN pass ELSE stamping[m][d]
    BY <2>1 DEF IInv, TypeOK
  <2>4. PassFresh'
    BY <2>1, <2>2, <2>3 DEF ActInv, PassFresh
  <2> QED BY <2>1, <2>4 DEF ActInv, OwnActs, StampsHeld, OneActOneStamp
<1>3. ASSUME NEW n \in Nodes, NEW c \in Nodes, BackfillWrite(n, c)
      PROVE  ActInv'
  <2>1. PICK a \in stamping[n][c].todo :
          LET e == Stamped(a, n, stamping[n][c].next)
              left == stamping[n][c].todo \ {a}
          IN  /\ log' = [log EXCEPT ![n] = Absorb(@, {e})]
              /\ issued' = issued \cup {e}
              /\ stamping' = [stamping EXCEPT ![n][c] =
                   IF left = {} THEN NoPass
                   ELSE [todo |-> left, next |-> stamping[n][c].next + 1]]
    BY <1>3 DEF BackfillWrite
  <2> DEFINE next == stamping[n][c].next
             e == Stamped(a, n, next)
             left == stamping[n][c].todo \ {a}
             pass == IF left = {} THEN NoPass ELSE [todo |-> left, next |-> next + 1]
  <2>2. /\ log' = [log EXCEPT ![n] = Absorb(log[n], {e})]
        /\ issued' = issued \cup {e}
        /\ stamping' = [stamping EXCEPT ![n][c] = pass]
    BY <2>1
  <2>3. e.act = a /\ e.origin = n /\ IsStamped(e)
    BY NoOriginAssumption DEF Stamped, IsStamped
  <2>4. pass.todo = left
    BY DEF NoPass
  <2>5. Author[a] = n /\ \A f \in issued : f.act # a
    BY DEF ActInv, PassFresh
  <2> HIDE DEF e, pass, next
  <2>6. OwnActs' /\ \A m \in Nodes : Events(log[m]) \subseteq Events(log'[m])
    <3> DEFINE T == {e}
    <3>1. /\ log' = [log EXCEPT ![n] = Absorb(log[n], T)]
          /\ \A p \in T : ~IsStamped(p) => Author[p.act] = n
      BY <2>2, <2>3
    <3> HIDE DEF T
    <3> QED BY <3>1, OwnActsKept
  <2>7. StampsHeld'
    <3>1. e \in log'[n]
      <4>1. e \in Absorb(log[n], {e})
        BY <2>3 DEF Absorb, Enriched
      <4> QED BY <1>0, <2>2, <4>1
    <3>2. \A f \in issued : Author[f.act] = f.origin /\ f \in log'[f.origin]
      BY <2>6, StampsHeldKept
    <3> QED BY <2>2, <2>3, <2>5, <3>1, <3>2 DEF StampsHeld
  <2>8. \A m, d \in Nodes :
          stamping'[m][d] = IF m = n /\ d = c THEN pass ELSE stamping[m][d]
    BY <2>2 DEF IInv, TypeOK
  <2>9. ASSUME NEW m \in Nodes, NEW d \in Nodes, NEW b \in stamping'[m][d].todo
        PROVE  Author[b] = m /\ \A f \in issued' : f.act # b
    <3>1. b \in stamping[m][d].todo /\ b # a
      <4>1. CASE m = n /\ d = c
        BY <2>4, <2>8, <2>9, <4>1
      <4>2. CASE m = n /\ d # c
        <5>1. stamping[n][d].todo = {}
          BY <4>2 DEF IInv, SeqInv, OnePass
        <5> QED BY <2>8, <2>9, <4>2, <5>1
      <4>3. CASE m # n
        <5>1. b \in stamping[m][d].todo /\ Author[b] = m
          BY <2>8, <2>9, <4>3 DEF ActInv, PassFresh
        <5> QED BY <2>5, <4>3, <5>1
      <4> QED BY <4>1, <4>2, <4>3
    <3>2. Author[b] = m /\ \A f \in issued : f.act # b
      BY <3>1 DEF ActInv, PassFresh
    <3> QED BY <2>2, <2>3, <3>1, <3>2
  <2>10. PassFresh'
    BY <2>9 DEF PassFresh
  <2>11. OneActOneStamp'
    BY <2>2, <2>3, <2>5 DEF ActInv, OneActOneStamp
  <2> QED BY <2>6, <2>7, <2>10, <2>11 DEF ActInv
<1>4. ASSUME NEW n \in Nodes, Restore(n)
      PROVE  FALSE
  BY <1>0, <1>4 DEF Restore, Spend
<1>5. CASE Delivers
  <2>1. PICK n \in Nodes, p \in issued :
          /\ log' = [log EXCEPT ![n] = Absorb(log[n], {p})]
          /\ UNCHANGED <<stamping, issued>>
    BY <1>5 DEF Delivers
  <2>2. IsStamped(p)
    BY NoOriginAssumption DEF IInv, TypeOK, Event, IsStamped
  <2>3. OwnActs' /\ \A m \in Nodes : Events(log[m]) \subseteq Events(log'[m])
    <3> DEFINE T == {p}
    <3>1. /\ log' = [log EXCEPT ![n] = Absorb(log[n], T)]
          /\ \A q \in T : ~IsStamped(q) => Author[q.act] = n
      BY <2>1, <2>2
    <3> HIDE DEF T
    <3> QED BY <3>1, OwnActsKept
  <2>4. StampsHeld'
    BY <2>1, <2>3, StampsHeldKept DEF StampsHeld
  <2> QED BY <2>1, <2>3, <2>4 DEF ActInv, PassFresh, OneActOneStamp
<1>6. CASE Silent
  <2>1. UNCHANGED <<log, issued>>
    BY <1>6 DEF Silent
  <2>2. PassFresh'
    BY <1>6 DEF Silent, NoPass, ActInv, PassFresh
  <2> QED BY <2>1, <2>2 DEF ActInv, OwnActs, StampsHeld, OneActOneStamp
<1> QED BY <1>1, <1>2, <1>3, <1>4, <1>5, <1>6, StepKinds

LEMMA ActInit == Init => ActInv
BY DEF Init, ActInv, OwnActs, StampsHeld, PassFresh, OneActOneStamp, IsRow,
       Enriched, NoPass

(* In any federation whose stores are not restored, one act gets one       *)
(* stamp: concurrent push and pull requests, crashes in the middle of a    *)
(* backfill and lost calls never stamp it again.                           *)
THEOREM ActsAreStampedOnce ==
    ASSUME Budget["restore"] = 0
    PROVE  Spec => []OneActOneStamp
<1>1. ActInv => OneActOneStamp
  BY DEF ActInv
<1>2. Spec => [](IInv /\ ActInv)
  BY Invariant, ActInit, ActStep, PTL DEF Spec
<1> QED BY <1>1, <1>2, PTL

(* Nor does any log then hold one act twice, stamped or not. *)
THEOREM NothingCountsTwice ==
    ASSUME Budget["restore"] = 0
    PROVE  Spec => []NoDoubleCount
<1>1. ASSUME IInv, ActInv, NEW n \in Nodes, NEW p \in log[n], NEW q \in log[n],
             p.act = q.act
      PROVE  p = q
  <2>1. log[n] \subseteq Attestation /\ Events(log[n]) \subseteq issued
    BY <1>1 DEF IInv, TypeOK, AllIssued
  <2>2. \A r \in log[n] : IsStamped(r) \/ \A e \in Events(log[n]) : e.act # r.act
    BY <1>1 DEF ActInv, OwnActs, IsRow, Enriched
  <2>3. CASE IsStamped(p) /\ IsStamped(q)
    <3>1. p \in issued /\ q \in issued
      BY <2>1, <2>3 DEF Events
    <3> QED BY <1>1, <3>1 DEF ActInv, OneActOneStamp
  <2>4. CASE ~IsStamped(p) /\ ~IsStamped(q)
    <3>1. \A r \in log[n] : ~IsStamped(r) => r = Unstamped(r.act)
      BY <2>1, NoOriginAssumption DEF Attestation, Event, IsStamped, Unstamped
    <3>2. p = Unstamped(p.act) /\ q = Unstamped(q.act)
      BY <2>4, <3>1
    <3> QED BY <1>1, <3>2
  <2> QED BY <1>1, <2>2, <2>3, <2>4 DEF Events
<1>2. IInv /\ ActInv => NoDoubleCount
  BY <1>1 DEF NoDoubleCount
<1>3. Spec => [](IInv /\ ActInv)
  BY Invariant, ActInit, ActStep, PTL DEF Spec
<1> QED BY <1>2, <1>3, PTL

(* ------------------------------ admission ------------------------------ *)

(* Allowlists are not widened: nobody edits one, or every spoke that links *)
(* to a hub is granted there at first.                                     *)
NoNewGrants ==
    Budget["edit"] = 0 \/ \A link \in Links : link[1] \in FirstGrants[link[2]]

Admitted(n) == FirstGrants[n] \cup {n}

OnlyAdmitted(S, n) == \A e \in Events(S) : e.origin \in Admitted(n)

GrantsKept ==
    \A h \in Nodes :
        /\ granted[h] \subseteq FirstGrants[h]
        /\ \A j \in jobs[h] : j.allowed \subseteq Admitted(h)

(* A hub that pulls from nobody starts no round: pushes and its own stamps *)
(* are all that reaches its log.                                           *)
HubKept(n) ==
    /\ round[n] = Idle
    /\ OnlyAdmitted(log[n], n) /\ OnlyAdmitted(backup[n], n)

AdmitInv == GrantsKept /\ \A n \in Nodes : Hubs(n) = {} => HubKept(n)

LEMMA OnlyAdmittedAbsorbs ==
    ASSUME NEW S, NEW T, NEW n, OnlyAdmitted(S, n), OnlyAdmitted(T, n)
    PROVE  OnlyAdmitted(Absorb(S, T), n)
<1>1. Events(Absorb(S, T)) = Events(S) \cup Events(T)
  BY AbsorbKeepsStamps
<1> QED BY <1>1 DEF OnlyAdmitted

LEMMA JobsAdmitted ==
    ASSUME NEW S \in SUBSET Job, NEW n, NEW A, \A j \in S : j.allowed \subseteq A
    PROVE  \A j \in Orphaned(S, n) : j.allowed \subseteq A
BY DEF Orphaned, Job

(* No grant and no job admits an origin the hub did not admit at first. *)
LEMMA GrantsStep ==
    ASSUME IInv, GrantsKept, NoNewGrants, [Next]_vars
    PROVE  GrantsKept'
<1>0. /\ jobs \in [Nodes -> SUBSET Job] /\ granted \in [Nodes -> SUBSET Nodes]
      /\ spent \in [Faults -> Nat] /\ round \in [Nodes -> Round]
  BY DEF IInv, TypeOK
<1>1. CASE UNCHANGED <<granted, jobs>>
  BY <1>1 DEF GrantsKept
<1>2. ASSUME NEW n \in Nodes, ApplyPushed(n)
      PROVE  GrantsKept'
  <2>1. PICK j \in jobs[n] : \E p \in j.events :
          LET held == IF Holds(n, p, j.allowed, j.held)
                      THEN j.held \cup {p.origin} ELSE j.held
              rest == [j EXCEPT !.events = @ \ {p}, !.held = held]
          IN  jobs' = [jobs EXCEPT ![n] = (@ \ {j}) \cup
                     IF rest.events = {} /\ ~rest.live THEN {} ELSE {rest}]
    BY <1>2 DEF ApplyPushed
  <2>2. PICK E, H : LET rest == [j EXCEPT !.events = E, !.held = H]
                    IN  jobs' = [jobs EXCEPT ![n] = (@ \ {j}) \cup
                          IF rest.events = {} /\ ~rest.live THEN {} ELSE {rest}]
    BY <2>1
  <2> DEFINE rest == [j EXCEPT !.events = E, !.held = H]
  <2>3. rest.allowed = j.allowed /\ \A i \in jobs'[n] : i \in jobs[n] \/ i = rest
    BY <1>0, <2>2 DEF Job
  <2> HIDE DEF rest
  <2>4. \A m \in Nodes : m # n => jobs'[m] = jobs[m]
    BY <1>0, <1>2 DEF ApplyPushed
  <2>5. granted' = granted
    BY <1>2 DEF ApplyPushed, settings
  <2> QED BY <2>3, <2>4, <2>5 DEF GrantsKept
<1>3. ASSUME NEW n \in Nodes, PushBatch(n)
      PROVE  GrantsKept'
  <2> DEFINE h == round[n].peer
  <2>1. PICK batch \in SUBSET round[n].events :
          jobs' = [jobs EXCEPT ![h] = @ \cup
              {[from |-> n, live |-> TRUE, events |-> batch, held |-> {},
                allowed |-> granted[h] \cup {h}]}]
    BY <1>3 DEF PushBatch
  <2>2. \A m \in Nodes : \A j \in jobs'[m] :
          j \in jobs[m] \/ (m = h /\ j.allowed = granted[h] \cup {h})
    BY <1>0, <2>1
  <2>3. granted' = granted
    BY <1>3 DEF PushBatch, settings
  <2> HIDE DEF h
  <2> QED BY <2>2, <2>3 DEF GrantsKept, Admitted
<1>4. ASSUME NEW n \in Nodes, PushReply(n) \/ PushFails(n)
      PROVE  GrantsKept'
  <2>1. granted' = granted
    BY <1>4 DEF PushReply, PushFails, settings
  <2>2. \/ \E h : \E j : jobs' = [jobs EXCEPT ![h] = jobs[h] \ {j}]
        \/ \E h : jobs' = [jobs EXCEPT ![h] = Orphaned(jobs[h], n)]
    BY <1>4 DEF PushReply, PushFails
  <2> QED BY <1>0, <2>1, <2>2, JobsAdmitted DEF GrantsKept
<1>5. ASSUME NEW n \in Nodes, Restart(n), UNCHANGED granted
      PROVE  GrantsKept'
  <2>1. \A m \in Nodes : jobs'[m] = {} \/ jobs'[m] = Orphaned(jobs[m], n)
    BY <1>5 DEF Restart
  <2> QED BY <1>0, <1>5, <2>1, JobsAdmitted DEF GrantsKept
<1>6. ASSUME NEW h \in Nodes, NEW n \in Nodes, Grant(h, n)
      PROVE  GrantsKept'
  <2>1. <<n, h>> \in Links /\ spent["edit"] < Budget["edit"]
    BY <1>6 DEF Grant, Hubs, Spend
  <2>2. n \in FirstGrants[h]
    BY <1>0, <2>1 DEF NoNewGrants, Faults
  <2>3. granted' = [granted EXCEPT ![h] = granted[h] \cup {n}] /\ jobs' = jobs
    BY <1>6 DEF Grant, process
  <2> QED BY <1>0, <2>2, <2>3 DEF GrantsKept
<1>7. ASSUME NEW h \in Nodes, NEW n \in Nodes, Revoke(h, n)
      PROVE  GrantsKept'
  <2>1. granted' = [granted EXCEPT ![h] = granted[h] \ {n}] /\ jobs' = jobs
    BY <1>7 DEF Revoke, process
  <2> QED BY <1>0, <2>1 DEF GrantsKept
<1>8. CASE Next
  <2>1. PICK n \in Nodes :
          \/ \E a \in Acts : Observe(n, a)
          \/ \E pulls \in BOOLEAN : PushStart(n, pulls)
          \/ PullStart(n)
          \/ RoundStep(n) \/ BackfillStep(n) \/ ApplyPushed(n)
          \/ Environment(n)
    BY <1>8 DEF Next
  <2>2. CASE \/ \E a \in Acts : Observe(n, a)
             \/ \E pulls \in BOOLEAN : PushStart(n, pulls)
             \/ PullStart(n)
    BY <1>1, <2>2 DEF Observe, PushStart, PullStart, process, settings
  <2>3. CASE RoundStep(n)
    BY <1>1, <1>3, <1>4, <2>3 DEF RoundStep, Advertise, AdvertiseFails, FloorSeq,
       Stamping, ExportDelta, PushEnd, PullFrom, PullAsk, PullServe, ApplyPulled,
       PullNext, PullFails, PullEnd, settings
  <2>4. CASE BackfillStep(n)
    BY <1>1, <2>4 DEF BackfillStep, BackfillNothing, BackfillStart, BackfillWrite,
       SeqExhausted, settings
  <2>5. CASE Environment(n)
    BY <1>1, <1>5, <1>6, <1>7, <2>5 DEF Environment, Crash, Backup, Restore,
       Upgrade, TrustOrigin, settings, process
  <2> QED BY <1>2, <2>1, <2>2, <2>3, <2>4, <2>5
<1> QED BY <1>1, <1>8 DEF vars, process, settings

(* A node without hubs takes no step of a round, and no step of another    *)
(* node or of a backfill gives it one.                                     *)
LEMMA HubStaysIdle ==
    ASSUME IInv, NEW n \in Nodes, Hubs(n) = {}, round[n] = Idle, [Next]_vars
    PROVE  round'[n] = Idle
<1>0. round \in [Nodes -> Round] /\ Leave(Idle) # Idle
  BY DEF IInv, TypeOK, Leave, Idle
<1>1. Idle.phase = "idle" /\ Idle.peer = None /\ Idle.events = {}
  BY DEF Idle
<1>2. CASE round' = round
  BY <1>2
<1>3. ASSUME NEW m \in Nodes, m # n, NEW r, RoundBecomes(m, r)
      PROVE  round'[n] = Idle
  BY <1>0, <1>3 DEF RoundBecomes
<1>4. ASSUME NEW m \in Nodes, Restart(m)
      PROVE  round'[n] = Idle
  BY <1>1, <1>4 DEF Restart
<1>5. ASSUME NEW m \in Nodes, NEW c \in Nodes, SeqExhausted(m, c)
      PROVE  round'[n] = Idle
  <2>1. CASE c = n
    BY <1>0, <1>1, <1>5, <2>1 DEF SeqExhausted, RoundBecomes
  <2>2. CASE c # n
    BY <1>3, <1>5, <2>2 DEF SeqExhausted
  <2> QED BY <2>1, <2>2
<1>6. CASE Next
  <2>1. PICK m \in Nodes :
          \/ \E a \in Acts : Observe(m, a)
          \/ \E pulls \in BOOLEAN : PushStart(m, pulls)
          \/ PullStart(m)
          \/ RoundStep(m) \/ BackfillStep(m) \/ ApplyPushed(m)
          \/ Environment(m)
    BY <1>6 DEF Next
  <2>2. CASE (\E a \in Acts : Observe(m, a)) \/ ApplyPushed(m)
    BY <1>2, <2>2 DEF Observe, ApplyPushed, process
  <2>3. CASE (\E pulls \in BOOLEAN : PushStart(m, pulls)) \/ PullStart(m)
    BY <1>3, <2>3 DEF PushStart, PullStart
  <2>4. CASE RoundStep(m)
    <3>1. m # n
      BY <1>1, <2>4 DEF RoundStep, Advertise, AdvertiseFails, FloorSeq,
         Stamping, ExportDelta, PushBatch, PushReply, PushFails, PushEnd, PullFrom,
         PullAsk, PullServe, ApplyPulled, PullNext, PullFails, PullEnd
    <3>2. \E r : RoundBecomes(m, r)
      BY <2>4 DEF RoundStep, Advertise, AdvertiseFails, FloorSeq,
         Stamping, ExportDelta, PushBatch, PushReply, PushFails, PushEnd, PullFrom,
         PullAsk, PullServe, ApplyPulled, PullNext, PullFails, PullEnd
    <3> QED BY <1>3, <3>1, <3>2
  <2>5. CASE BackfillStep(m)
    BY <1>2, <1>5, <2>5 DEF BackfillStep, BackfillNothing, BackfillStart,
       BackfillWrite
  <2>6. CASE Environment(m)
    BY <1>2, <1>4, <2>6 DEF Environment, Crash, Backup, Restore, Upgrade,
       TrustOrigin, Grant, Revoke, process
  <2> QED BY <2>1, <2>2, <2>3, <2>4, <2>5, <2>6
<1> QED BY <1>2, <1>6 DEF vars, process

(* What a hub that pulls from nobody absorbs: its own acts and stamps, and *)
(* events a job admits.                                                    *)
LEMMA HubStep ==
    ASSUME IInv, GrantsKept, NEW n \in Nodes, Hubs(n) = {}, HubKept(n), [Next]_vars
    PROVE  HubKept(n)'
<1>0. /\ log \in [Nodes -> SUBSET Attestation]
      /\ backup \in [Nodes -> SUBSET Attestation]
      /\ jobs \in [Nodes -> SUBSET Job]
  BY DEF IInv, TypeOK
<1>1. round'[n] = Idle
  BY HubStaysIdle DEF HubKept
<1>2. CASE UNCHANGED <<log, backup>>
  BY <1>1, <1>2 DEF HubKept
<1>3. ASSUME NEW m \in Nodes, NEW T, OnlyAdmitted(T, m),
             log' = [log EXCEPT ![m] = Absorb(log[m], T)], UNCHANGED backup
      PROVE  HubKept(n)'
  <2>1. log'[n] = IF m = n THEN Absorb(log[n], T) ELSE log[n]
    BY <1>0, <1>3
  <2>2. OnlyAdmitted(log'[n], n)
    BY <1>3, <2>1, OnlyAdmittedAbsorbs DEF HubKept
  <2> QED BY <1>1, <1>3, <2>2 DEF HubKept
<1>4. ASSUME NEW m \in Nodes, NEW a \in Acts, Observe(m, a)
      PROVE  HubKept(n)'
  <2>1. Events({Unstamped(a)}) = {}
    BY DEF Events, IsStamped, Unstamped
  <2>2. OnlyAdmitted({Unstamped(a)}, m)
    BY <2>1 DEF OnlyAdmitted
  <2> QED BY <1>3, <1>4, <2>2 DEF Observe
<1>5. ASSUME NEW m \in Nodes, NEW c \in Nodes, BackfillWrite(m, c)
      PROVE  HubKept(n)'
  <2>1. PICK a : /\ log' = [log EXCEPT ![m] =
                        Absorb(log[m], {Stamped(a, m, stamping[m][c].next)})]
                 /\ UNCHANGED backup
    BY <1>5 DEF BackfillWrite
  <2>2. OnlyAdmitted({Stamped(a, m, stamping[m][c].next)}, m)
    BY DEF OnlyAdmitted, Admitted, Events, Stamped
  <2> QED BY <1>3, <2>1, <2>2
<1>6. ASSUME NEW m \in Nodes, ApplyPushed(m)
      PROVE  HubKept(n)'
  <2>1. PICK j \in jobs[m] : \E p \in j.events :
          /\ log' = IF Accepts(m, p, j.allowed, j.held)
                    THEN [log EXCEPT ![m] = Absorb(log[m], {p})] ELSE log
          /\ UNCHANGED backup
    BY <1>6 DEF ApplyPushed
  <2>2. PICK p \in j.events :
          /\ log' = IF Accepts(m, p, j.allowed, j.held)
                    THEN [log EXCEPT ![m] = Absorb(log[m], {p})] ELSE log
          /\ UNCHANGED backup
    BY <2>1
  <2>3. CASE Accepts(m, p, j.allowed, j.held)
    <3>1. p.origin \in Admitted(m)
      BY <2>3 DEF Accepts, Holds, GrantsKept
    <3>2. OnlyAdmitted({p}, m)
      BY <3>1 DEF OnlyAdmitted, Events
    <3> QED BY <1>3, <2>2, <2>3, <3>2
  <2>4. CASE ~Accepts(m, p, j.allowed, j.held)
    BY <1>2, <2>2, <2>4
  <2> QED BY <2>3, <2>4
<1>7. ASSUME NEW m \in Nodes, ApplyPulled(m)
      PROVE  HubKept(n)'
  <2>1. m # n
    BY <1>7 DEF HubKept, ApplyPulled, Idle
  <2>2. log'[n] = log[n] /\ backup' = backup
    BY <1>0, <1>7, <2>1 DEF ApplyPulled
  <2> QED BY <1>1, <2>2 DEF HubKept
<1>8. ASSUME NEW m \in Nodes, Backup(m) \/ Restore(m)
      PROVE  HubKept(n)'
  <2>1. log'[n] \in {log[n], backup[n]} /\ backup'[n] \in {log[n], backup[n]}
    BY <1>0, <1>8 DEF Backup, Restore
  <2> QED BY <1>1, <2>1 DEF HubKept
<1>9. CASE Next
  <2>1. PICK m \in Nodes :
          \/ \E a \in Acts : Observe(m, a)
          \/ \E pulls \in BOOLEAN : PushStart(m, pulls)
          \/ PullStart(m)
          \/ RoundStep(m) \/ BackfillStep(m) \/ ApplyPushed(m)
          \/ Environment(m)
    BY <1>9 DEF Next
  <2>2. CASE (\E pulls \in BOOLEAN : PushStart(m, pulls)) \/ PullStart(m)
    BY <1>2, <2>2 DEF PushStart, PullStart, disk
  <2>3. CASE RoundStep(m)
    BY <1>2, <1>7, <2>3 DEF RoundStep, Advertise, AdvertiseFails, FloorSeq,
       Stamping, ExportDelta, PushBatch, PushReply, PushFails, PushEnd, PullFrom,
       PullAsk, PullServe, PullNext, PullFails, PullEnd, disk
  <2>4. CASE BackfillStep(m)
    BY <1>2, <1>5, <2>4 DEF BackfillStep, BackfillNothing, BackfillStart,
       SeqExhausted, disk
  <2>5. CASE Environment(m)
    BY <1>2, <1>8, <2>5 DEF Environment, Crash, Upgrade, TrustOrigin, Grant,
       Revoke, disk
  <2> QED BY <1>4, <1>6, <2>1, <2>2, <2>3, <2>4, <2>5
<1> QED BY <1>2, <1>9 DEF vars, disk

(* A hub that pulls from nobody holds only streams of nodes it granted the *)
(* workspace to, and its own, whoever pushes them in whatever batches, and *)
(* whatever crashes, restores and revocations come between (as long as     *)
(* allowlists are not widened).                                            *)
THEOREM HubsAdmitOnlyGrantees ==
    ASSUME NoNewGrants
    PROVE  Spec => []Admission
<1>1. Init => AdmitInv
  <2> SUFFICES ASSUME Init PROVE AdmitInv
    OBVIOUS
  <2>1. GrantsKept
    BY DEF Init, GrantsKept
  <2>2. \A n \in Nodes : HubKept(n)
    BY DEF Init, HubKept, OnlyAdmitted, Events
  <2> QED BY <2>1, <2>2 DEF AdmitInv
<1>2. IInv /\ AdmitInv /\ [Next]_vars => AdmitInv'
  <2> SUFFICES ASSUME IInv, AdmitInv, [Next]_vars
               PROVE  AdmitInv'
    OBVIOUS
  <2>1. GrantsKept'
    BY GrantsStep DEF AdmitInv
  <2>2. \A n \in Nodes : Hubs(n) = {} => HubKept(n)'
    BY HubStep DEF AdmitInv
  <2> QED BY <2>1, <2>2 DEF AdmitInv, Hubs
<1>3. AdmitInv => Admission
  BY DEF AdmitInv, HubKept, OnlyAdmitted, Admitted, Admission
<1> QED BY <1>1, <1>2, <1>3, Invariant, PTL DEF Spec
===============================================================================
