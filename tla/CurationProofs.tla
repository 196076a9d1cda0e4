----------------------------- MODULE CurationProofs -----------------------------
(* Curation keeps its promises for every workspace, whatever is asked,     *)
(* decided and arrives.                                                    *)
EXTENDS Curation, Iteration, FiniteSetTheorems

(* ------------------------------ logs grow ------------------------------ *)

Within(L, M) ==
    /\ L.said \subseteq M.said /\ L.opened \subseteq M.opened
    /\ L.merges \subseteq M.merges
    /\ L.rejected \subseteq M.rejected /\ L.withdrawn \subseteq M.withdrawn

LEMMA NothingIsLog ==
    /\ Nothing \in Log
    /\ Nothing.said = {} /\ Nothing.opened = {} /\ Nothing.merges = {}
    /\ Nothing.rejected = {} /\ Nothing.withdrawn = {}
BY DEF Nothing, Log

(* A join is a log that holds both, and no more. *)
LEMMA JoinFields ==
    ASSUME NEW L \in Log, NEW M \in Log
    PROVE  /\ Join(L, M) \in Log
           /\ Join(L, M).said = L.said \cup M.said
           /\ Join(L, M).opened = L.opened \cup M.opened
           /\ Join(L, M).merges = L.merges \cup M.merges
           /\ Join(L, M).rejected = L.rejected \cup M.rejected
           /\ Join(L, M).withdrawn = L.withdrawn \cup M.withdrawn
           /\ Within(L, Join(L, M))
           /\ Within(M, Join(L, M))
<1> DEFINE Fields == {"said", "opened", "merges", "rejected", "withdrawn"}
           J == Join(L, M)
<1>1. DOMAIN L = Fields
  BY DEF Log
<1>2. /\ J.said = L.said \cup M.said
      /\ J.opened = L.opened \cup M.opened
      /\ J.merges = L.merges \cup M.merges
      /\ J.rejected = L.rejected \cup M.rejected
      /\ J.withdrawn = L.withdrawn \cup M.withdrawn
  BY <1>1 DEF Join
<1>3. J = [f \in Fields |-> J[f]]
  BY <1>1 DEF Join
<1>4. [f \in Fields |-> J[f]] =
        [said |-> J.said, opened |-> J.opened, merges |-> J.merges,
         rejected |-> J.rejected, withdrawn |-> J.withdrawn]
  BY DEF Fields
<1>5. /\ L.said \cup M.said \subseteq Claims \X (Unverified .. HostSigned)
      /\ L.opened \cup M.opened \subseteq Proposals
      /\ L.merges \cup M.merges \subseteq Merge
      /\ L.rejected \cup M.rejected \subseteq Proposals
      /\ L.withdrawn \cup M.withdrawn \subseteq Proposals
  BY DEF Log
<1>6. J \in Log
  BY <1>2, <1>3, <1>4, <1>5 DEF Log
<1> QED BY <1>2, <1>6 DEF Within

(* A log of one line. *)
Line(said, opened, merges, rejected, withdrawn) ==
    [said |-> said, opened |-> opened, merges |-> merges, rejected |-> rejected,
     withdrawn |-> withdrawn]

LEMMA WithField ==
    ASSUME NEW L \in Log, L = Nothing
    PROVE  /\ \A X \in SUBSET (Claims \X (Unverified .. HostSigned)) :
                [L EXCEPT !.said = X] = Line(X, {}, {}, {}, {})
           /\ \A X \in SUBSET Proposals :
                /\ [L EXCEPT !.opened = X] = Line({}, X, {}, {}, {})
                /\ [L EXCEPT !.rejected = X] = Line({}, {}, {}, X, {})
                /\ [L EXCEPT !.withdrawn = X] = Line({}, {}, {}, {}, X)
           /\ \A X \in SUBSET Merge :
                [L EXCEPT !.merges = X] = Line({}, {}, X, {}, {})
<1>1. L.said = {} /\ L.opened = {} /\ L.merges = {} /\ L.rejected = {} /\ L.withdrawn = {}
  BY NothingIsLog
<1>2. \A X \in SUBSET (Claims \X (Unverified .. HostSigned)) :
        [L EXCEPT !.said = X] = Line(X, {}, {}, {}, {})
  <2> DEFINE S == SUBSET (Claims \X (Unverified .. HostSigned))
  <2>1. L \in [said : S, opened : SUBSET Proposals, merges : SUBSET Merge,
               rejected : SUBSET Proposals, withdrawn : SUBSET Proposals]
    BY DEF Log
  <2> HIDE DEF S
  <2>2. \A X \in S : [L EXCEPT !.said = X] = Line(X, {}, {}, {}, {})
    BY <1>1, <2>1 DEF Line
  <2> QED BY <2>2 DEF S
<1>3. \A X \in SUBSET Proposals : [L EXCEPT !.opened = X] = Line({}, X, {}, {}, {})
  BY <1>1 DEF Log, Line
<1>4. \A X \in SUBSET Proposals : [L EXCEPT !.rejected = X] = Line({}, {}, {}, X, {})
  BY <1>1 DEF Log, Line
<1>5. \A X \in SUBSET Proposals : [L EXCEPT !.withdrawn = X] = Line({}, {}, {}, {}, X)
  BY <1>1 DEF Log, Line
<1>6. \A X \in SUBSET Merge : [L EXCEPT !.merges = X] = Line({}, {}, X, {}, {})
  BY <1>1 DEF Log, Line
<1> QED BY <1>2, <1>3, <1>4, <1>5, <1>6

LEMMA Lines ==
    /\ \A c \in Claims, t \in Unverified .. HostSigned :
        /\ Said(c, t) = Line({<<c, t>>}, {}, {}, {}, {})
        /\ Said(c, t) \in Log
    /\ \A p \in Proposals :
        /\ Opened(p) = Line({}, {p}, {}, {}, {}) /\ Opened(p) \in Log
        /\ Rejected(p) = Line({}, {}, {}, {p}, {}) /\ Rejected(p) \in Log
        /\ Withdrawn(p) = Line({}, {}, {}, {}, {p}) /\ Withdrawn(p) \in Log
    /\ \A p \in Proposals, s \in Surfaces, at \in Nat :
        /\ Cast(p, s, at) = Line({}, {}, {[proposal |-> p, surface |-> s, at |-> at]}, {}, {})
        /\ Cast(p, s, at) \in Log
<1> DEFINE L == Nothing
<1>0. /\ L = Nothing /\ L \in Log
      /\ \A c, t : Said(c, t) = [L EXCEPT !.said = {<<c, t>>}]
      /\ \A p : /\ Opened(p) = [L EXCEPT !.opened = {p}]
                /\ Rejected(p) = [L EXCEPT !.rejected = {p}]
                /\ Withdrawn(p) = [L EXCEPT !.withdrawn = {p}]
      /\ \A p, s, at : Cast(p, s, at) =
            [L EXCEPT !.merges = {[proposal |-> p, surface |-> s, at |-> at]}]
  BY NothingIsLog DEF Said, Opened, Rejected, Withdrawn, Cast
<1> HIDE DEF L
<1>1. ASSUME NEW c \in Claims, NEW t \in Unverified .. HostSigned
      PROVE  /\ Said(c, t) = Line({<<c, t>>}, {}, {}, {}, {})
             /\ Said(c, t) \in Log
  <2>1. {<<c, t>>} \in SUBSET (Claims \X (Unverified .. HostSigned))
    OBVIOUS
  <2>2. Said(c, t) = Line({<<c, t>>}, {}, {}, {}, {})
    BY <1>0, <2>1, WithField
  <2> QED
    <3> DEFINE X == {<<c, t>>}
    <3> HIDE DEF X
    <3>1. X \in SUBSET (Claims \X (Unverified .. HostSigned)) /\ Said(c, t) = Line(X, {}, {}, {}, {})
      BY <2>1, <2>2 DEF X
    <3>2. Said(c, t) \in Log
      BY <3>1 DEF Line, Log
    <3> QED BY <2>2, <3>2
<1>2. ASSUME NEW p \in Proposals
      PROVE  /\ Opened(p) = Line({}, {p}, {}, {}, {}) /\ Opened(p) \in Log
             /\ Rejected(p) = Line({}, {}, {}, {p}, {}) /\ Rejected(p) \in Log
             /\ Withdrawn(p) = Line({}, {}, {}, {}, {p}) /\ Withdrawn(p) \in Log
  <2>1. /\ Opened(p) = Line({}, {p}, {}, {}, {})
        /\ Rejected(p) = Line({}, {}, {}, {p}, {})
        /\ Withdrawn(p) = Line({}, {}, {}, {}, {p})
    <3>1. {p} \in SUBSET Proposals
      OBVIOUS
    <3> DEFINE X == {p}
    <3>2. X \in SUBSET Proposals /\ Opened(p) = [L EXCEPT !.opened = X]
      BY <1>0, <3>1
    <3>3. Rejected(p) = [L EXCEPT !.rejected = X] /\ Withdrawn(p) = [L EXCEPT !.withdrawn = X]
      BY <1>0
    <3> HIDE DEF X
    <3>4. /\ Opened(p) = Line({}, X, {}, {}, {})
          /\ Rejected(p) = Line({}, {}, {}, X, {})
          /\ Withdrawn(p) = Line({}, {}, {}, {}, X)
      BY <1>0, <3>2, <3>3, WithField
    <3> QED BY <3>4 DEF X
  <2>2. \A X \in SUBSET Proposals :
          /\ Line({}, X, {}, {}, {}) \in Log
          /\ Line({}, {}, {}, X, {}) \in Log
          /\ Line({}, {}, {}, {}, X) \in Log
    BY DEF Line, Log
  <2> QED BY <2>1, <2>2
<1>3. ASSUME NEW p \in Proposals, NEW s \in Surfaces, NEW at \in Nat
      PROVE  /\ Cast(p, s, at) =
                    Line({}, {}, {[proposal |-> p, surface |-> s, at |-> at]}, {}, {})
             /\ Cast(p, s, at) \in Log
  <2> DEFINE m == [proposal |-> p, surface |-> s, at |-> at]
  <2>1. m \in Merge
    BY DEF Merge
  <2>2. Cast(p, s, at) = [Nothing EXCEPT !.merges = {m}]
    BY DEF Cast
  <2> HIDE DEF m
  <2>3. Cast(p, s, at) = Line({}, {}, {m}, {}, {})
    BY <2>1, <2>2, WithField, NothingIsLog
  <2>4. Cast(p, s, at) \in Log
    BY <2>1, <2>3 DEF Line, Log
  <2> QED BY <2>3, <2>4 DEF m
<1> QED BY <1>1, <1>2, <1>3

LEMMA WithinReads ==
    ASSUME NEW L \in Log, NEW M \in Log, Within(L, M)
    PROVE  /\ Held(L) \subseteq Held(M)
           /\ Asserted(L) \subseteq Asserted(M)
           /\ Decided(L) \subseteq Decided(M)
           /\ \A p \in Proposals : /\ MergesOf(L, p) \subseteq MergesOf(M, p)
                                   /\ MergeCast(L, p) => MergeCast(M, p)
                                   /\ Passes(L, p) => Passes(M, p)
<1>1. Held(L) \subseteq Held(M)
  BY DEF Within, Held
<1>2. Asserted(L) \subseteq Asserted(M)
  BY <1>1 DEF Asserted
<1>3. \A p \in Proposals : /\ MergesOf(L, p) \subseteq MergesOf(M, p)
                           /\ MergeCast(L, p) => MergeCast(M, p)
  BY DEF Within, MergesOf, MergeCast
<1>4. Decided(L) \subseteq Decided(M)
  BY <1>3 DEF Within, Decided, Log
<1>5. \A p \in Proposals : Passes(L, p) => Passes(M, p)
  BY <1>1, <1>2, <1>4 DEF Passes
<1> QED BY <1>1, <1>2, <1>3, <1>4, <1>5

LEMMA MergedMeans ==
    ASSUME NEW L \in Log
    PROVE  /\ Merged(L) = {p \in L.opened : MergeCast(L, p) /\ Passes(L, p)}
           /\ Merged(L) \subseteq Proposals
           /\ \A p \in Proposals : State(L, p) = "open" <=>
                ~MergeCast(L, p) /\ p \notin L.withdrawn /\ p \notin L.rejected
BY DEF Merged, State, Log

LEMMA MergedGrows ==
    ASSUME NEW L \in Log, NEW M \in Log, Within(L, M)
    PROVE  /\ Merged(L) \subseteq Merged(M)
           /\ \A p \in Proposals : State(L, p) # "open" => State(M, p) # "open"
BY WithinReads, MergedMeans DEF Within

(* ----------------------- where the calls in flight are ------------------- *)

Calls == [at : {"out", "settling", "found", "reviewing"},
          proposal : Proposals \cup {None}, decision : Decisions \cup {None}, time : Nat]

(* The types of everything but the rows, and what a call in flight has     *)
(* seen: its proposal is in the log, and a merge's checks have passed,     *)
(* which no growth of the log takes back.                                  *)
Shape ==
    /\ log \in Log /\ mine \in Log /\ Within(mine, log)
    /\ owed \in BOOLEAN /\ clock \in Nat /\ agenda \in Agendas
    /\ call \in [Callers -> Calls]
    /\ \A c \in Callers : call[c].at # "out" => call[c].proposal \in log.opened
    /\ \A c \in Callers : call[c].at = "reviewing" =>
        /\ call[c].decision \in Decisions
        /\ call[c].decision = "merge" =>
            /\ HasCommitEffect(Ask[call[c].proposal].kind)
            /\ Passes(log, call[c].proposal)

LEMMA IdleIs == Idle \in Calls /\ Idle.at = "out"
BY DEF Idle, Calls

LEMMA WriteGrows ==
    ASSUME log \in Log, mine \in Log, Within(mine, log),
           NEW L \in Log, NEW T, Write(L, T)
    PROVE  /\ log' \in Log /\ mine' \in Log
           /\ Within(log, log') /\ Within(mine, mine') /\ Within(mine', log')
           /\ Within(L, log') /\ Within(L, mine')
<1>1. /\ log' \in Log /\ mine' \in Log
      /\ Within(log, log') /\ Within(L, log') /\ Within(mine, mine') /\ Within(L, mine')
  BY JoinFields DEF Write
<1>2. Within(mine', log')
  BY JoinFields DEF Write, Within
<1> QED BY <1>1, <1>2

(* A call that stays where it is keeps what it has seen. *)
LEMMA SeenStays ==
    ASSUME Shape, log' \in Log, Within(log, log'),
           NEW c \in Callers, call'[c] = call[c]
    PROVE  /\ call'[c].at # "out" => call'[c].proposal \in log'.opened
           /\ call'[c].at = "reviewing" =>
                /\ call'[c].decision \in Decisions
                /\ call'[c].decision = "merge" =>
                    /\ HasCommitEffect(Ask[call'[c].proposal].kind)
                    /\ Passes(log', call'[c].proposal)
<1>1. log.opened \subseteq log'.opened /\ log.opened \subseteq Proposals
  BY DEF Shape, Within, Log
<1>2. call[c].at # "out" => call[c].proposal \in log'.opened /\ call[c].proposal \in Proposals
  BY <1>1 DEF Shape
<1>3. \A p \in Proposals : Passes(log, p) => Passes(log', p)
  BY WithinReads DEF Shape
<1> QED BY <1>2, <1>3 DEF Shape

LEMMA VerdictIsLog ==
    ASSUME Shape, NEW c \in Callers, call[c].at = "reviewing"
    PROVE  /\ Verdict(c) \in Log
           /\ call[c].proposal \in Proposals
           /\ call[c].decision = "merge" => MergesOf(Verdict(c), call[c].proposal) # {}
<1>1. call[c].proposal \in Proposals
  BY DEF Shape, Log
<1>2. call[c].time \in Nat /\ SurfaceOf[c] \in Surfaces
  BY CurationAssumption DEF Shape, Calls
<1>3. Verdict(c) \in Log
  BY <1>1, <1>2, Lines DEF Verdict
<1>4. ASSUME call[c].decision = "merge"
      PROVE  MergesOf(Verdict(c), call[c].proposal) # {}
  <2> DEFINE m == [proposal |-> call[c].proposal, surface |-> SurfaceOf[c], at |-> call[c].time]
  <2>1. Verdict(c) = Cast(call[c].proposal, SurfaceOf[c], call[c].time)
    BY <1>4 DEF Verdict
  <2>2. m.proposal = call[c].proposal
    OBVIOUS
  <2>3. m \in Verdict(c).merges
    BY <2>1, <1>1, <1>2, Lines DEF Line
  <2> QED BY <2>2, <2>3 DEF MergesOf
<1> QED BY <1>1, <1>3, <1>4

LEMMA ShapeInit == Init => Shape
<1> SUFFICES ASSUME Init PROVE Shape
  OBVIOUS
<1>1. Within(mine, log)
  BY DEF Init, Within
<1>2. call \in [Callers -> Calls]
  BY IdleIs DEF Init
<1>3. \A c \in Callers : call[c].at = "out"
  BY IdleIs DEF Init
<1> QED BY NothingIsLog, <1>1, <1>2, <1>3 DEF Init, Shape

Grows == /\ Within(log, log') /\ Within(mine, mine')
         /\ log' \in Log /\ mine' \in Log

LEMMA OthersStay ==
    ASSUME Shape, Grows, Within(mine', log'), owed' \in BOOLEAN, clock' \in Nat,
           agenda' = agenda, NEW c \in Callers, NEW r \in Calls,
           call' = [call EXCEPT ![c] = r],
           r.at # "out" => r.proposal \in log'.opened,
           r.at = "reviewing" =>
                /\ r.decision \in Decisions
                /\ r.decision = "merge" =>
                    HasCommitEffect(Ask[r.proposal].kind) /\ Passes(log', r.proposal)
    PROVE  Shape'
<1>1. call' \in [Callers -> Calls] /\ call'[c] = r
  BY DEF Shape
<1>2. \A d \in Callers : d # c => call'[d] = call[d]
  BY DEF Shape
<1>3. \A d \in Callers : /\ call'[d].at # "out" => call'[d].proposal \in log'.opened
                         /\ call'[d].at = "reviewing" =>
                            /\ call'[d].decision \in Decisions
                            /\ call'[d].decision = "merge" =>
                                /\ HasCommitEffect(Ask[call'[d].proposal].kind)
                                /\ Passes(log', call'[d].proposal)
  <2> TAKE d \in Callers
  <2>1. CASE d = c
    BY <2>1, <1>1
  <2>2. CASE d # c
    BY <2>2, <1>2, SeenStays DEF Grows
  <2> QED BY <2>1, <2>2
<1> QED BY <1>1, <1>3 DEF Shape, Grows

(* ... and when every call stays where it is. *)
LEMMA AllStay ==
    ASSUME Shape, Grows, Within(mine', log'), owed' \in BOOLEAN, clock' = clock,
           agenda' = agenda, call' = call
    PROVE  Shape'
<1>1. \A d \in Callers : /\ call'[d].at # "out" => call'[d].proposal \in log'.opened
                         /\ call'[d].at = "reviewing" =>
                            /\ call'[d].decision \in Decisions
                            /\ call'[d].decision = "merge" =>
                                /\ HasCommitEffect(Ask[call'[d].proposal].kind)
                                /\ Passes(log', call'[d].proposal)
  BY SeenStays DEF Grows
<1> QED BY <1>1 DEF Shape, Grows

LEMMA Still ==
    ASSUME Shape, log' = log, mine' = mine
    PROVE  Grows /\ Within(mine', log')
BY DEF Shape, Grows, Within

LEMMA Written ==
    ASSUME Shape, NEW L \in Log, NEW T, Write(L, T)
    PROVE  Grows /\ Within(mine', log') /\ Within(L, log') /\ Within(L, mine')
BY WriteGrows DEF Shape, Grows

LEMMA ShapeStep ==
    ASSUME Shape, [Next]_vars
    PROVE  Shape' /\ Grows
<1>1. ASSUME NEW c \in Claims, Observe(c)
      PROVE  Shape' /\ Grows
  <2>0. AgentExtracted \in Unverified .. HostSigned
    BY DEF AgentExtracted, Unverified, HostSigned
  <2>1. Said(c, AgentExtracted) \in Log
    BY <2>0, Lines
  <2>2. Grows /\ Within(mine', log')
    BY <1>1, <2>1, Written DEF Observe
  <2> QED BY <1>1, <2>2, AllStay DEF Observe, Shape
<1>2. ASSUME NEW L \in agenda.elsewhere, SyncAppend(L)
      PROVE  Shape' /\ Grows
  <2>1. L \in Log
    BY CurationAssumption DEF Shape
  <2>2. Grows /\ Within(mine', log')
    BY <1>2, <2>1, JoinFields DEF SyncAppend, Shape, Grows, Within
  <2> QED BY <1>2, <2>2, AllStay DEF SyncAppend, Shape
<1>3. ASSUME Reproject
      PROVE  Shape' /\ Grows
  <2>1. Grows /\ Within(mine', log')
    BY <1>3, Still DEF Reproject
  <2> QED BY <1>3, <2>1, AllStay DEF Reproject
<1>4. ASSUME NEW p \in Proposals, Propose(p)
      PROVE  Shape' /\ Grows
  <2>1. Grows /\ Within(mine', log')
    BY <1>4, Lines, Written DEF Propose
  <2> QED BY <1>4, <2>1, AllStay DEF Propose, Shape
<1>5. ASSUME NEW p \in Proposals, ProposeAnew(p)
      PROVE  Shape' /\ Grows
  <2>1. PICK q \in Askings(p) : AskAnew(p, q)
    BY <1>5 DEF ProposeAnew
  <2>2. Grows /\ Within(mine', log')
    BY <2>1, Lines, Written DEF AskAnew, Askings
  <2> QED BY <1>5, <2>2, AllStay DEF ProposeAnew, Shape
<1>6. ASSUME NEW c \in Callers, NEW p \in Proposals, Settle(c, p)
      PROVE  Shape' /\ Grows
  <2>0. PICK q \in Askings(p) :
          /\ \/ AskAnew(p, q)
             \/ q \in log.opened /\ UNCHANGED <<log, mine, rows>>
          /\ \/ call' = [call EXCEPT ![c] =
                    [at |-> "settling", proposal |-> q, decision |-> None, time |-> 0]]
             \/ call' = [call EXCEPT ![c] =
                    [at |-> "found", proposal |-> q, decision |-> None, time |-> 0]]
    BY <1>6 DEF Settle
  <2>1. PICK at \in {"settling", "found"} :
          call' = [call EXCEPT ![c] =
            [at |-> at, proposal |-> q, decision |-> None, time |-> 0]]
    BY <2>0
  <2> DEFINE r == [at |-> at, proposal |-> q, decision |-> None, time |-> 0]
  <2>2. r \in Calls /\ r.at = at /\ r.proposal = q
    BY DEF Askings, Calls
  <2> HIDE DEF r
  <2>3. Grows /\ Within(mine', log') /\ q \in log'.opened
    <3>1. CASE AskAnew(p, q)
      <4>1. q \in Proposals
        BY DEF Askings
      <4>2. q \in Opened(q).opened /\ Opened(q) \in Log
        BY <4>1, Lines DEF Line
      <4>3. Grows /\ Within(mine', log') /\ Within(Opened(q), log')
        BY <3>1, <4>2, Written DEF AskAnew
      <4> QED BY <4>2, <4>3 DEF Within
    <3>2. CASE q \in log.opened /\ UNCHANGED <<log, mine, rows>>
      BY <3>2, Still
    <3> QED BY <2>0, <3>1, <3>2
  <2>4. call' = [call EXCEPT ![c] = r]
    BY <2>1 DEF r
  <2>5. UNCHANGED <<owed, clock, agenda>>
    BY <1>6 DEF Settle
  <2>6. r.at # "reviewing"
    BY <2>2
  <2>7. owed' \in BOOLEAN /\ clock' \in Nat
    BY <2>5 DEF Shape
  <2> QED BY <2>2, <2>3, <2>4, <2>5, <2>6, <2>7, OthersStay
<1>7. ASSUME NEW c \in Callers, NEW p \in Proposals, NEW d \in Decisions, ReviewStart(c, p, d)
      PROVE  Shape' /\ Grows
  <2> DEFINE r == [at |-> "reviewing", proposal |-> p, decision |-> d, time |-> clock']
  <2>1. clock' \in Nat /\ owed' \in BOOLEAN
    BY <1>7 DEF ReviewStart, Shape
  <2>2. r \in Calls /\ r.at = "reviewing" /\ r.proposal = p /\ r.decision = d
    BY <2>1 DEF Calls
  <2>3. call' = [call EXCEPT ![c] = r]
    BY <1>7 DEF ReviewStart
  <2> HIDE DEF r
  <2>4. Grows /\ Within(mine', log')
    BY <1>7, Still DEF ReviewStart
  <2>5. p \in log'.opened /\ (d = "merge" => HasCommitEffect(Ask[p].kind) /\ Passes(log', p))
    BY <1>7 DEF ReviewStart
  <2>6. agenda' = agenda
    BY <1>7 DEF ReviewStart
  <2> QED BY <2>1, <2>2, <2>3, <2>4, <2>5, <2>6, OthersStay
<1>8. ASSUME NEW c \in Callers, Answered(c)
      PROVE  Shape' /\ Grows
  <2>1. Grows /\ Within(mine', log')
    BY <1>8, Still DEF Answered
  <2>2. call' = [call EXCEPT ![c] = Idle] /\ UNCHANGED <<owed, clock, agenda>>
    BY <1>8 DEF Answered
  <2>3. owed' \in BOOLEAN /\ clock' \in Nat
    BY <2>2 DEF Shape
  <2> QED BY <2>1, <2>2, <2>3, IdleIs, OthersStay
<1>9. ASSUME NEW c \in Callers, ReviewCommit(c)
      PROVE  Shape' /\ Grows
  <2>1. Grows /\ Within(mine', log')
    BY <1>9, VerdictIsLog, Written DEF ReviewCommit
  <2>2. call' = [call EXCEPT ![c] = Idle] /\ UNCHANGED <<owed, clock, agenda>>
    BY <1>9 DEF ReviewCommit
  <2>3. owed' \in BOOLEAN /\ clock' \in Nat
    BY <2>2 DEF Shape
  <2> QED BY <2>1, <2>2, <2>3, IdleIs, OthersStay
<1>10. ASSUME UNCHANGED vars
       PROVE  Shape' /\ Grows
  <2>1. Grows /\ Within(mine', log')
    BY <1>10, Still DEF vars
  <2> QED BY <1>10, <2>1, AllStay DEF vars, Shape
<1> QED BY <1>1, <1>2, <1>3, <1>4, <1>5, <1>6, <1>7, <1>8, <1>9, <1>10 DEF Next

LEMMA ShapeHolds == Spec => []Shape
BY ShapeInit, ShapeStep, PTL DEF Spec

(* --------------------------- merges are final -------------------------- *)

(* No verdict, withdrawal or evidence that comes later, from here or from  *)
(* a peer, takes a merge back: every action only adds to the log, and what *)
(* makes a proposal merged is only ever added to (Engine::proposal_states).*)
THEOREM MergesAreFinal == Spec => MergedIsFinal
<1>1. ASSUME Shape, [Next]_vars
      PROVE  Merged(log) \subseteq Merged(log')
  BY <1>1, ShapeStep, MergedGrows DEF Grows, Shape
<1>2. Shape /\ [Next]_vars => [Merged(log) \subseteq Merged(log')]_vars
  BY <1>1
<1> QED BY <1>2, ShapeHolds, PTL DEF Spec, MergedIsFinal

(* ------------------------ a local merge commits ------------------------ *)

(* A call that was reviewing and is out has cast its verdict. *)
LEMMA OutByCommit ==
    ASSUME Shape, [Next]_vars, NEW c \in Callers,
           call[c].at = "reviewing", call'[c].at = "out"
    PROVE  ReviewCommit(c)
<1>1. call \in [Callers -> Calls]
  BY DEF Shape
<1>2. ASSUME call' = call
      PROVE  FALSE
  BY <1>2
<1>3. ASSUME NEW d \in Callers, NEW r, call' = [call EXCEPT ![d] = r],
             d = c => r.at # "out" \/ call[c].at # "reviewing"
      PROVE  FALSE
  BY <1>1, <1>3
<1>4. ASSUME NEW d \in Callers, NEW p \in Proposals, Settle(d, p)
      PROVE  FALSE
  <2>1. call[d].at = "out"
    BY <1>4 DEF Settle
  <2>2. d # c
    BY <2>1
  <2>3. PICK r : call' = [call EXCEPT ![d] = r]
    BY <1>4 DEF Settle
  <2> QED BY <1>3, <2>2, <2>3
<1>5. ASSUME NEW d \in Callers, NEW p \in Proposals, NEW e \in Decisions, ReviewStart(d, p, e)
      PROVE  FALSE
  <2> DEFINE r == [at |-> "reviewing", proposal |-> p, decision |-> e, time |-> clock']
  <2>1. call' = [call EXCEPT ![d] = r] /\ r.at # "out"
    BY <1>5 DEF ReviewStart
  <2> HIDE DEF r
  <2> QED BY <1>3, <2>1
<1>6. ASSUME NEW d \in Callers, Answered(d)
      PROVE  FALSE
  <2>1. call' = [call EXCEPT ![d] = Idle] /\ call[d].at # "reviewing"
    BY <1>6 DEF Answered
  <2> QED BY <1>3, <2>1
<1>7. ASSUME NEW d \in Callers, ReviewCommit(d)
      PROVE  d = c
  <2>1. call' = [call EXCEPT ![d] = Idle]
    BY <1>7 DEF ReviewCommit
  <2> QED BY <1>3, <2>1
<1>8. ~UNCHANGED vars /\ (\A d \in Claims : ~Observe(d))
      /\ (\A L \in agenda.elsewhere : ~SyncAppend(L)) /\ ~Reproject
      /\ (\A p \in Proposals : ~Propose(p) /\ ~ProposeAnew(p))
  BY <1>2 DEF vars, Observe, SyncAppend, Reproject, Propose, ProposeAnew
<1> QED BY <1>4, <1>5, <1>6, <1>7, <1>8 DEF Next

(* A merge whose checks passed before the guard was taken commits under    *)
(* it, although the log has grown in between: what the checks read is only *)
(* ever added to (Engine::review_proposal and its verdict).                *)
THEOREM AcceptedMergesCommit == Spec => LocalMergeCommits
<1>1. ASSUME Shape, [Next]_vars, NEW c \in Callers,
             call[c].at = "reviewing", call'[c].at = "out", call[c].decision = "merge"
      PROVE  call[c].proposal \in Merged(log')
  <2> DEFINE p == call[c].proposal
  <2>1. Shape' /\ Grows
    BY <1>1, ShapeStep
  <2>2. ReviewCommit(c)
    BY <1>1, OutByCommit
  <2>3. Verdict(c) \in Log /\ p \in Proposals /\ MergesOf(Verdict(c), p) # {}
    BY <1>1, VerdictIsLog
  <2>4. Within(Verdict(c), log')
    BY <1>1, <2>2, <2>3, Written DEF ReviewCommit
  <2>5. MergesOf(log', p) # {}
    BY <2>1, <2>3, <2>4, WithinReads DEF Grows
  <2>6. p \in log'.opened /\ HasCommitEffect(Ask[p].kind) /\ Passes(log', p)
    BY <1>1, <2>1, <2>3, WithinReads DEF Shape, Grows, Within
  <2> QED BY <2>1, <2>5, <2>6, MergedMeans DEF MergeCast, Grows
<1>2. Shape /\ [Next]_vars =>
        [\A c \in Callers :
            call[c].at = "reviewing" /\ call'[c].at = "out" /\ call[c].decision = "merge"
                => call[c].proposal \in Merged(log')]_vars
  BY <1>1
<1> QED BY <1>2, ShapeHolds, PTL DEF Spec, LocalMergeCommits

(* ------------------------- nothing waits twice ------------------------- *)

(* What a repeat this node came to repeats has been decided. *)
RepeatsWait ==
    \A p \in Proposals : Again[p] \in mine.opened \ agenda.asks => State(log, p) # "open"

(* What a walk down the repeats lands on repeats what no longer holds. *)
LEMMA RepeatOpened ==
    ASSUME Shape, NEW p0 \in Proposals, NEW q \in Proposals, q # p0, AskAnew(p0, q),
           NEW p \in Proposals, Again[p] = q
    PROVE  State(log, p) # "open"
<1>1. PICK S \in SUBSET {r \in log.opened : ~StillHolds(log, r)} : \E r \in S : Again[r] = q
  BY DEF AskAnew, Lands
<1>2. PICK r \in S : Again[r] = q
  BY <1>1
<1>3. r \in Proposals /\ ~StillHolds(log, r)
  BY <1>1 DEF Shape, Log
<1>4. r = p
  <2>1. Again[p] # None
    BY FoldAssumption
  <2> QED BY <2>1, <1>2, <1>3, CurationAssumption
<1> QED BY <1>3, <1>4 DEF StillHolds

LEMMA RepeatsWaitStep ==
    ASSUME Shape, RepeatsWait, [Next]_vars
    PROVE  RepeatsWait'
<1>0. Shape' /\ Grows
  BY ShapeStep
<1>1. \A p \in Proposals : State(log, p) # "open" => State(log', p) # "open"
  BY <1>0, MergedGrows DEF Shape, Grows
<1>2. agenda' = agenda
  BY DEF Next, vars, Observe, SyncAppend, Reproject, Propose, ProposeAnew, Settle,
     ReviewStart, Answered, ReviewCommit
<1> SUFFICES ASSUME NEW p \in Proposals, Again[p] \in mine'.opened, Again[p] \notin agenda.asks,
                    Again[p] \notin mine.opened
             PROVE  State(log, p) # "open"
  BY <1>1, <1>2 DEF RepeatsWait
<1> DEFINE q == Again[p]
<1>3. \A L \in Log : \A T : Write(L, T) => q \in L.opened
  BY JoinFields DEF Write, Shape
<1>4. ASSUME NEW c \in Claims, Observe(c)
      PROVE  FALSE
  <2>1. AgentExtracted \in Unverified .. HostSigned
    BY DEF AgentExtracted, Unverified, HostSigned
  <2>2. Said(c, AgentExtracted) \in Log /\ Said(c, AgentExtracted).opened = {}
    BY <2>1, Lines DEF Line
  <2> QED BY <1>3, <1>4, <2>2 DEF Observe
<1>5. ASSUME NEW p0 \in Proposals, Propose(p0)
      PROVE  FALSE
  <2>1. q = p0
    BY <1>3, <1>5, Lines DEF Propose, Line
  <2> QED BY <1>5, <2>1 DEF Propose
<1>6. ASSUME NEW p0 \in agenda.asks, NEW a \in Askings(p0), AskAnew(p0, a)
      PROVE  State(log, p) # "open"
  <2>1. p0 \in Proposals /\ a \in Proposals
    BY CurationAssumption DEF Shape, Askings
  <2>2. q = a
    BY <1>3, <1>6, <2>1, Lines DEF AskAnew, Line
  <2> QED BY <1>6, <2>1, <2>2, RepeatOpened
<1>7. ASSUME NEW c \in Callers, ReviewCommit(c)
      PROVE  FALSE
  <2>1. Verdict(c) \in Log /\ call[c].proposal \in Proposals
    BY <1>7, VerdictIsLog DEF ReviewCommit
  <2>2. call[c].time \in Nat /\ SurfaceOf[c] \in Surfaces
    BY CurationAssumption DEF Shape, Calls
  <2>3. Verdict(c).opened = {}
    BY <2>1, <2>2, Lines DEF Verdict, Line
  <2> QED BY <1>3, <1>7, <2>1, <2>3 DEF ReviewCommit
<1>8. ASSUME mine' = mine
      PROVE  FALSE
  BY <1>8
<1>9. ASSUME NEW c \in Callers, NEW p0 \in Proposals, Settle(c, p0)
      PROVE  State(log, p) # "open"
  <2>1. p0 \in agenda.asks
    BY <1>9 DEF Settle
  <2>2. PICK a \in Askings(p0) : AskAnew(p0, a) \/ UNCHANGED <<log, mine, rows>>
    BY <1>9 DEF Settle
  <2> QED BY <2>1, <2>2, <1>6, <1>8
<1>10. ASSUME NEW p0 \in Proposals, ProposeAnew(p0)
       PROVE  State(log, p) # "open"
  BY <1>6, <1>10 DEF ProposeAnew
<1> QED
  BY <1>4, <1>5, <1>7, <1>8, <1>9, <1>10
  DEF Next, vars, SyncAppend, Reproject, ReviewStart, Answered

(* However consoles, agents and peers take turns, a repeat this node comes *)
(* to never waits beside what it repeats: it is opened only of what no     *)
(* longer holds, and that has been decided (Engine::propose_marked).  Of a *)
(* peer's repeat it says nothing, nor of one an agent or a person asked.   *)
THEOREM NoRoundWaitsBesideItsRepeat == Spec => []AskedOnce
<1>1. Init => RepeatsWait
  BY NothingIsLog DEF Init, RepeatsWait
<1>2. Shape /\ RepeatsWait /\ [Next]_vars => RepeatsWait'
  BY RepeatsWaitStep
<1>3. Shape /\ RepeatsWait => AskedOnce
  BY DEF Shape, Log, RepeatsWait, AskedOnce
<1> QED BY <1>1, <1>2, <1>3, ShapeHolds, PTL DEF Spec

(* --------------------------- rows and the log -------------------------- *)

(* A claim's tier is read off its base, the gate acts on it and their      *)
(* merges, and off nothing else.                                           *)
LEMMA TierReads ==
    ASSUME NEW L, NEW M, NEW c, Base(L, c) = Base(M, c), Events(L, c) = Events(M, c),
           \A p \in Events(L, c) : MergesOf(L, p) = MergesOf(M, p)
    PROVE  Tier(L, c) = Tier(M, c)
<1>1. \A p \in Events(L, c) : Grant(L, p) = Grant(M, p) /\ Rep(L, p) = Rep(M, p)
  BY DEF Grant, Rep
<1>2. [p \in Events(L, c) |-> Grant(L, p)] = [p \in Events(M, c) |-> Grant(M, p)]
  BY <1>1
<1>3. [p \in Events(L, c) |-> Rep(L, p)] = [p \in Events(M, c) |-> Rep(M, p)]
  BY <1>1
<1> QED BY <1>2, <1>3 DEF Tier

LEMMA RowReads ==
    ASSUME NEW L \in Log, NEW M \in Log, Within(L, M), NEW e,
           \A c \in Held(M) : e \in Names[c] =>
                /\ c \in Held(L) /\ Base(L, c) = Base(M, c) /\ Events(L, c) = Events(M, c)
                /\ \A p \in Events(L, c) : MergesOf(L, p) = MergesOf(M, p)
    PROVE  Row(M, e) = Row(L, e)
<1>1. {x \in Held(L) : e \in Names[x]} = {x \in Held(M) : e \in Names[x]}
  BY WithinReads
<1>2. \A c \in {x \in Held(M) : e \in Names[x]} : Tier(L, c) = Tier(M, c)
  BY TierReads
<1> QED BY <1>1, <1>2 DEF Row

LEMMA EventsAre ==
    ASSUME NEW L \in Log, NEW c
    PROVE  Events(L, c) =
             {p \in L.opened : /\ Ask[p].kind \in GateKinds /\ c \in Ask[p].targets
                               /\ MergesOf(L, p) # {} /\ Ask[p].targets \subseteq Held(L)
                               /\ Ask[p].targets # {} /\ Ask[p].tier # None}
<1>1. \A p \in L.opened : Ask[p].kind \in GateKinds =>
        /\ HasCommitEffect(Ask[p].kind)
        /\ Passes(L, p) <=> /\ Ask[p].targets \subseteq Held(L)
                            /\ Ask[p].targets # {} /\ Ask[p].tier # None
  BY DEF GateKinds, HasCommitEffect, Passes
<1> QED BY <1>1, MergedMeans DEF Events, MergeCast

(* A gate act with a merge of this node has passed its checks. *)
MineHavePassed ==
    \A p \in Proposals : Ask[p].kind \in GateKinds /\ MergesOf(mine, p) # {} =>
        p \in log.opened /\ Passes(log, p)

(* What one line changes of the log. *)
LEMMA OneLine ==
    ASSUME NEW L \in Log, NEW M \in Log, NEW N \in Log, M = Join(L, N)
    PROVE  /\ \A p : MergesOf(M, p) = MergesOf(L, p) \cup MergesOf(N, p)
           /\ Held(M) = Held(L) \cup Held(N)
           /\ \A c : c \notin Held(N) => Base(M, c) = Base(L, c)
<1>1. M.said = L.said \cup N.said /\ M.merges = L.merges \cup N.merges
  BY JoinFields
<1>2. ASSUME NEW c, c \notin Held(N)
      PROVE  Base(M, c) = Base(L, c)
  <2>1. {x \in M.said : x[1] = c} = {x \in L.said : x[1] = c}
    BY <1>1, <1>2 DEF Held
  <2> QED BY <2>1 DEF Base
<1> QED BY <1>1, <1>2 DEF MergesOf, Held

LEMMA ObserveKeepsRows ==
    ASSUME Shape, MineHavePassed, NEW k \in Claims, Observe(k), NEW e \in Entities,
           e \notin Names[k], rows[e] = Row(log, e)
    PROVE  rows'[e] = Row(log', e) \/ CompletedHere(e)'
<1>1. AgentExtracted \in Unverified .. HostSigned
  BY DEF AgentExtracted, Unverified, HostSigned
<1> DEFINE N == Said(k, AgentExtracted)
<1>2. /\ N \in Log /\ N.said = {<<k, AgentExtracted>>} /\ N.opened = {} /\ N.merges = {}
  BY <1>1, Lines DEF Line
<1> HIDE DEF N
<1>3. Write(N, Names[k])
  BY DEF Observe, N
<1>4. /\ log' = Join(log, N) /\ mine' = Join(mine, N) /\ rows'[e] = rows[e]
      /\ log' \in Log /\ mine' \in Log /\ Within(log, log')
  BY <1>2, <1>3, Written DEF Write, Grows
<1>5. Held(N) = {k} /\ \A p : MergesOf(N, p) = {}
  BY <1>2 DEF Held, MergesOf
<1>6. /\ \A p : MergesOf(log', p) = MergesOf(log, p)
      /\ \A p : MergesOf(mine', p) = MergesOf(mine, p)
      /\ Held(log') = Held(log) \cup {k} /\ k \in Held(mine')
      /\ \A c : c # k => Base(log', c) = Base(log, c)
  <2>1. log \in Log /\ mine \in Log
    BY DEF Shape
  <2>2. /\ \A p : MergesOf(log', p) = MergesOf(log, p) \cup MergesOf(N, p)
        /\ Held(log') = Held(log) \cup Held(N)
        /\ \A c : c \notin Held(N) => Base(log', c) = Base(log, c)
    BY <2>1, <1>2, <1>4, OneLine
  <2>3. /\ \A p : MergesOf(mine', p) = MergesOf(mine, p) \cup MergesOf(N, p)
        /\ Held(mine') = Held(mine) \cup Held(N)
    BY <2>1, <1>2, <1>4, OneLine
  <2> QED BY <2>2, <2>3, <1>5
<1>7. log'.opened = log.opened
  <2>1. log'.opened = log.opened \cup N.opened
    BY <1>2, <1>4, JoinFields DEF Shape
  <2> QED BY <2>1, <1>2
<1>8. CASE \E c \in Held(log') : e \in Names[c] /\ Events(log', c) # Events(log, c)
  <2>1. PICK c \in Held(log') : e \in Names[c] /\ Events(log', c) # Events(log, c)
    BY <1>8
  <2>2. PICK p \in Events(log', c) : p \notin Events(log, c)
    <3>1. Events(log, c) \subseteq Events(log', c)
      BY <1>4, MergedGrows DEF Events, Shape
    <3> QED BY <2>1, <3>1
  <2>3. /\ p \in log'.opened /\ Ask[p].kind \in GateKinds /\ c \in Ask[p].targets
        /\ MergesOf(log, p) # {} /\ Ask[p].targets # {} /\ Ask[p].tier # None
        /\ Ask[p].targets \subseteq Held(log')
    BY <2>2, <1>4, <1>6, EventsAre
  <2>4. ~(Ask[p].targets \subseteq Held(log))
    BY <2>2, <2>3, <1>7, EventsAre DEF Shape
  <2>5. k \in Ask[p].targets
    BY <2>3, <2>4, <1>6
  <2>6. p \in Proposals /\ MergesOf(mine', p) = {}
    <3>1. p \in Proposals
      BY <2>3, <1>4 DEF Log
    <3>2. ~Passes(log, p)
      BY <2>3, <2>4 DEF Passes
    <3> QED BY <3>1, <3>2, <2>3, <1>6 DEF MineHavePassed
  <2>7. p \in Merged(log')
    BY <2>2 DEF Events
  <2> QED BY <2>1, <2>3, <2>5, <2>6, <2>7, <1>6 DEF CompletedHere
<1>9. CASE \A c \in Held(log') : e \in Names[c] => Events(log', c) = Events(log, c)
  <2>1. \A c \in Held(log') : e \in Names[c] => c # k /\ c \in Held(log)
    BY <1>6
  <2>2. Row(log', e) = Row(log, e)
    BY <2>1, <1>4, <1>6, <1>9, RowReads DEF Shape
  <2> QED BY <2>2, <1>4
<1> QED BY <1>8, <1>9

LEMMA OpeningKeepsRows ==
    ASSUME Shape, MineHavePassed, NEW q \in Proposals, q \notin log.opened,
           Write(Opened(q), {}), NEW e \in Entities, rows[e] = Row(log, e)
    PROVE  rows'[e] = Row(log', e) \/ CompletedHere(e)'
<1> DEFINE N == Opened(q)
<1>2. /\ N \in Log /\ N.said = {} /\ N.opened = {q} /\ N.merges = {}
  BY Lines DEF Line
<1> HIDE DEF N
<1>3. Write(N, {})
  BY DEF N
<1>4. /\ log' = Join(log, N) /\ mine' = Join(mine, N) /\ rows'[e] = rows[e]
      /\ log' \in Log /\ mine' \in Log /\ Within(log, log')
  BY <1>2, <1>3, Written DEF Write, Grows
<1>5. Held(N) = {} /\ \A p : MergesOf(N, p) = {}
  BY <1>2 DEF Held, MergesOf
<1>6. /\ \A p : MergesOf(log', p) = MergesOf(log, p)
      /\ \A p : MergesOf(mine', p) = MergesOf(mine, p)
      /\ Held(log') = Held(log)
      /\ \A c : Base(log', c) = Base(log, c)
  <2>1. log \in Log /\ mine \in Log
    BY DEF Shape
  <2>2. /\ \A p : MergesOf(log', p) = MergesOf(log, p) \cup MergesOf(N, p)
        /\ Held(log') = Held(log) \cup Held(N)
        /\ \A c : c \notin Held(N) => Base(log', c) = Base(log, c)
    BY <2>1, <1>2, <1>4, OneLine
  <2>3. \A p : MergesOf(mine', p) = MergesOf(mine, p) \cup MergesOf(N, p)
    BY <2>1, <1>2, <1>4, OneLine
  <2> QED BY <2>2, <2>3, <1>5
<1>7. log'.opened = log.opened \cup {q} /\ q \in mine'.opened
  BY <1>2, <1>4, JoinFields DEF Shape
<1>8. CASE \E c \in Held(log') : e \in Names[c] /\ Events(log', c) # Events(log, c)
  <2>1. PICK c \in Held(log') : e \in Names[c] /\ Events(log', c) # Events(log, c)
    BY <1>8
  <2>2. PICK p \in Events(log', c) : p \notin Events(log, c)
    <3>1. Events(log, c) \subseteq Events(log', c)
      BY <1>4, MergedGrows DEF Events, Shape
    <3> QED BY <2>1, <3>1
  <2>3. /\ p \in log'.opened /\ Ask[p].kind \in GateKinds /\ c \in Ask[p].targets
        /\ MergesOf(log, p) # {} /\ Ask[p].targets # {} /\ Ask[p].tier # None
        /\ Ask[p].targets \subseteq Held(log)
    BY <2>2, <1>4, <1>6, EventsAre
  <2>4. p = q
    BY <2>2, <2>3, <1>7, EventsAre DEF Shape
  <2>5. MergesOf(mine', p) = {}
    BY <2>3, <2>4, <1>6 DEF MineHavePassed
  <2>6. p \in Merged(log')
    BY <2>2 DEF Events
  <2> QED BY <2>1, <2>3, <2>4, <2>5, <2>6, <1>7 DEF CompletedHere
<1>9. CASE \A c \in Held(log') : e \in Names[c] => Events(log', c) = Events(log, c)
  <2>1. Row(log', e) = Row(log, e)
    BY <1>4, <1>6, <1>9, RowReads DEF Shape
  <2> QED BY <2>1, <1>4
<1> QED BY <1>8, <1>9

(* What a verdict adds to the log. *)
LEMMA VerdictAdds ==
    ASSUME Shape, NEW k \in Callers, ReviewCommit(k)
    PROVE  LET N == Verdict(k)
               p == call[k].proposal
           IN  /\ N \in Log /\ N.opened = {} /\ Held(N) = {}
               /\ \A q : q # p \/ call[k].decision # "merge" => MergesOf(N, q) = {}
               /\ log' = Join(log, N) /\ mine' = Join(mine, N)
               /\ \A q : MergesOf(log', q) = MergesOf(log, q) \cup MergesOf(N, q)
               /\ \A q : MergesOf(mine', q) = MergesOf(mine, q) \cup MergesOf(N, q)
               /\ Held(log') = Held(log) /\ log'.opened = log.opened
               /\ \A c : Base(log', c) = Base(log, c)
               /\ log \in Log /\ mine \in Log /\ log' \in Log /\ mine' \in Log
               /\ Within(log, log') /\ Within(mine, mine')
<1> DEFINE N == Verdict(k)
           p == call[k].proposal
<1>1. N \in Log /\ p \in Proposals /\ log \in Log /\ mine \in Log
  BY VerdictIsLog DEF ReviewCommit, Shape
<1>2. call[k].time \in Nat /\ SurfaceOf[k] \in Surfaces
  BY CurationAssumption DEF Shape, Calls
<1>3. /\ N.opened = {} /\ N.said = {}
      /\ \A m \in N.merges : m.proposal = p /\ call[k].decision = "merge"
  <2>1. CASE call[k].decision = "merge"
    <3> DEFINE m == [proposal |-> p, surface |-> SurfaceOf[k], at |-> call[k].time]
    <3>1. N = Line({}, {}, {m}, {}, {})
      BY <2>1, <1>1, <1>2, Lines DEF Verdict
    <3>2. m.proposal = p
      OBVIOUS
    <3> HIDE DEF m, N
    <3> QED BY <2>1, <3>1, <3>2 DEF Line
  <2>2. CASE call[k].decision = "reject"
    BY <2>2, <1>1, Lines DEF Verdict, Line
  <2>3. CASE call[k].decision \notin {"merge", "reject"}
    BY <2>3, <1>1, Lines DEF Verdict, Line
  <2> QED BY <2>1, <2>2, <2>3
<1>4. /\ Held(N) = {}
      /\ \A q : q # p \/ call[k].decision # "merge" => MergesOf(N, q) = {}
  BY <1>3 DEF Held, MergesOf
<1>5. log' = Join(log, N) /\ mine' = Join(mine, N)
  BY DEF ReviewCommit, Write
<1> HIDE DEF N, p
<1>6. /\ log' \in Log /\ mine' \in Log /\ Within(log, log') /\ Within(mine, mine')
      /\ log'.opened = log.opened \cup N.opened
  BY <1>1, <1>5, JoinFields
<1>7. /\ \A q : MergesOf(log', q) = MergesOf(log, q) \cup MergesOf(N, q)
      /\ Held(log') = Held(log) \cup Held(N)
      /\ \A c : c \notin Held(N) => Base(log', c) = Base(log, c)
  BY <1>1, <1>5, <1>6, OneLine
<1>8. \A q : MergesOf(mine', q) = MergesOf(mine, q) \cup MergesOf(N, q)
  BY <1>1, <1>5, <1>6, OneLine
<1> QED BY <1>1, <1>3, <1>4, <1>5, <1>6, <1>7, <1>8 DEF N, p

LEMMA CommitKeepsRows ==
    ASSUME Shape, NEW k \in Callers, ReviewCommit(k), NEW e \in Entities,
           rows[e] = Row(log, e)
    PROVE  rows'[e] = Row(log', e)
<1> DEFINE N == Verdict(k)
           p == call[k].proposal
           moves == call[k].decision = "merge" /\ Ask[p].kind \in GateKinds
           touched == IF moves THEN UNION {Names[t] : t \in Ask[p].targets \cap Held(log)}
                      ELSE {}
<1>1. rows'[e] = IF e \in touched THEN Row(log', e) ELSE rows[e]
  BY DEF ReviewCommit, Write
<1>2. CASE e \in touched
  BY <1>1, <1>2
<1>3. CASE e \notin touched
  <2>1. /\ \A q : MergesOf(log', q) = MergesOf(log, q) \cup MergesOf(N, q)
        /\ \A q : q # p \/ call[k].decision # "merge" => MergesOf(N, q) = {}
        /\ Held(log') = Held(log) /\ log'.opened = log.opened
        /\ \A c : Base(log', c) = Base(log, c)
        /\ log \in Log /\ log' \in Log /\ Within(log, log')
    BY VerdictAdds
  <2>2. ASSUME NEW c \in Held(log'), e \in Names[c]
        PROVE  /\ c \in Held(log) /\ Base(log, c) = Base(log', c)
               /\ Events(log, c) = Events(log', c)
               /\ \A q \in Events(log, c) : MergesOf(log, q) = MergesOf(log', q)
    <3>1. ~(moves /\ c \in Ask[p].targets)
      BY <1>3, <2>1, <2>2
    <3>2. \A q : Ask[q].kind \in GateKinds /\ c \in Ask[q].targets =>
                MergesOf(log, q) = MergesOf(log', q)
      BY <2>1, <3>1
    <3>3. Events(log, c) = Events(log', c)
      <4> HIDE DEF N, p
      <4>1. Events(log, c) =
             {q \in log.opened : /\ Ask[q].kind \in GateKinds /\ c \in Ask[q].targets
                                 /\ MergesOf(log, q) # {} /\ Ask[q].targets \subseteq Held(log)
                                 /\ Ask[q].targets # {} /\ Ask[q].tier # None}
        BY <2>1, EventsAre
      <4>2. Events(log', c) =
             {q \in log'.opened : /\ Ask[q].kind \in GateKinds /\ c \in Ask[q].targets
                                  /\ MergesOf(log', q) # {} /\ Ask[q].targets \subseteq Held(log')
                                  /\ Ask[q].targets # {} /\ Ask[q].tier # None}
        BY <2>1, EventsAre
      <4> QED BY <4>1, <4>2, <3>2, <2>1
    <3> QED BY <2>1, <3>2, <3>3 DEF Events
  <2>3. Row(log', e) = Row(log, e)
    BY <2>1, <2>2, RowReads
  <2> QED BY <1>1, <1>3, <2>3
<1> QED BY <1>2, <1>3

(* A row a write here completed stays so, until this node's own merge of   *)
(* the act folds it.                                                       *)
LEMMA CompletedStays ==
    ASSUME Shape, Grows, NEW e, NEW p \in Merged(log), Ask[p].kind \in GateKinds,
           MergesOf(mine, p) = {}, \E t \in Ask[p].targets : e \in Names[t],
           \/ p \in mine.opened
           \/ \E t \in Ask[p].targets \cap Held(mine) : e \notin Names[t],
           MergesOf(mine', p) = {}
    PROVE  CompletedHere(e)'
<1>1. p \in Merged(log')
  BY MergedGrows DEF Shape, Grows
<1>2. mine.opened \subseteq mine'.opened /\ Held(mine) \subseteq Held(mine')
  BY WithinReads DEF Shape, Grows, Within
<1> QED BY <1>1, <1>2 DEF CompletedHere

LEMMA CompletedByOthers ==
    ASSUME Shape, Grows, NEW e, CompletedHere(e),
           \A p : MergesOf(mine', p) = MergesOf(mine, p)
    PROVE  CompletedHere(e)'
BY CompletedStays DEF CompletedHere

LEMMA CompletedOrFolded ==
    ASSUME Shape, NEW k \in Callers, ReviewCommit(k), NEW e \in Entities, CompletedHere(e)
    PROVE  CompletedHere(e)' \/ rows'[e] = Row(log', e)
<1>1. PICK p \in Merged(log) :
        /\ Ask[p].kind \in GateKinds /\ MergesOf(mine, p) = {}
        /\ \E t \in Ask[p].targets : e \in Names[t]
        /\ \/ p \in mine.opened
           \/ \E t \in Ask[p].targets \cap Held(mine) : e \notin Names[t]
  BY DEF CompletedHere
<1>2. /\ \A q : MergesOf(mine', q) = MergesOf(mine, q) \cup MergesOf(Verdict(k), q)
      /\ \A q : q # call[k].proposal \/ call[k].decision # "merge" =>
            MergesOf(Verdict(k), q) = {}
      /\ log \in Log /\ Grows
  BY VerdictAdds DEF Grows
<1>3. CASE MergesOf(mine', p) = {}
  BY <1>1, <1>2, <1>3, CompletedStays
<1>4. CASE MergesOf(mine', p) # {}
  <2>1. p = call[k].proposal /\ call[k].decision = "merge"
    BY <1>1, <1>2, <1>4
  <2>2. Ask[p].targets \subseteq Held(log)
    BY <1>1, <1>2, MergedMeans DEF Passes
  <2>3. e \in UNION {Names[t] : t \in Ask[p].targets \cap Held(log)}
    BY <1>1, <2>2
  <2> QED BY <1>1, <2>1, <2>3 DEF ReviewCommit, Write
<1> QED BY <1>3, <1>4

LEMMA NoMergeWritten ==
    ASSUME Shape, NEW N \in Log, N.merges = {}, NEW T, Write(N, T)
    PROVE  \A p : MergesOf(mine', p) = MergesOf(mine, p)
<1>1. mine'.merges = mine.merges
  <2>1. mine'.merges = mine.merges \cup N.merges
    BY JoinFields DEF Write, Shape
  <2> QED BY <2>1
<1> QED BY <1>1 DEF MergesOf

LEMMA PassedStays ==
    ASSUME Shape, MineHavePassed, Grows, \A p : MergesOf(mine', p) = MergesOf(mine, p)
    PROVE  MineHavePassed'
<1>1. \A p \in Proposals : Passes(log, p) => Passes(log', p)
  BY WithinReads DEF Shape, Grows
<1>2. log.opened \subseteq log'.opened
  BY DEF Grows, Within
<1> QED BY <1>1, <1>2 DEF MineHavePassed

RowsInv == MineHavePassed /\ RowsFollowTheLog

LEMMA AskAnewKeepsRows ==
    ASSUME Shape, RowsInv, NEW q \in Proposals, q \notin log.opened,
           Write(Opened(q), {}), owed' = owed
    PROVE  RowsInv'
<1>1. Opened(q) \in Log /\ Opened(q).merges = {}
  BY Lines DEF Line
<1>2. Grows
  BY <1>1, Written
<1>3. \A p : MergesOf(mine', p) = MergesOf(mine, p)
  BY <1>1, NoMergeWritten
<1>4. MineHavePassed'
  BY <1>2, <1>3, PassedStays DEF RowsInv
<1>5. \A e \in Entities : rows'[e] = Row(log', e) \/ owed' \/ CompletedHere(e)'
  BY <1>2, <1>3, OpeningKeepsRows, CompletedByOthers DEF RowsInv, RowsFollowTheLog
<1> QED BY <1>4, <1>5 DEF RowsInv, RowsFollowTheLog

LEMMA RowsSame ==
    ASSUME Shape, RowsInv, log' = log, mine' = mine, rows' = rows, owed' = owed
    PROVE  RowsInv'
BY DEF RowsInv, MineHavePassed, RowsFollowTheLog, CompletedHere

LEMMA RowsInvStep ==
    ASSUME Shape, RowsInv, [Next]_vars
    PROVE  RowsInv'
<1>0. Grows
  BY ShapeStep
<1>1. ASSUME NEW c \in Claims, Observe(c)
      PROVE  RowsInv'
  <2>0. AgentExtracted \in Unverified .. HostSigned
    BY DEF AgentExtracted, Unverified, HostSigned
  <2>1. Said(c, AgentExtracted) \in Log /\ Said(c, AgentExtracted).merges = {}
    BY <2>0, Lines DEF Line
  <2>2. \A p : MergesOf(mine', p) = MergesOf(mine, p)
    BY <1>1, <2>1, NoMergeWritten DEF Observe
  <2>3. MineHavePassed'
    BY <1>0, <2>2, PassedStays DEF RowsInv
  <2>4. ASSUME NEW e \in Entities
        PROVE  rows'[e] = Row(log', e) \/ owed' \/ CompletedHere(e)'
    <3>1. CASE e \in Names[c]
      BY <1>1, <3>1 DEF Observe, Write
    <3>2. CASE e \notin Names[c] /\ rows[e] = Row(log, e)
      BY <1>1, <3>2, ObserveKeepsRows DEF RowsInv
    <3>3. CASE owed \/ CompletedHere(e)
      BY <1>0, <1>1, <2>2, <3>3, CompletedByOthers DEF Observe
    <3> QED BY <3>1, <3>2, <3>3 DEF RowsInv, RowsFollowTheLog
  <2> QED BY <2>3, <2>4 DEF RowsInv, RowsFollowTheLog
<1>2. ASSUME NEW L \in agenda.elsewhere, SyncAppend(L)
      PROVE  RowsInv'
  <2>1. MineHavePassed'
    BY <1>0, <1>2, PassedStays DEF RowsInv, SyncAppend
  <2> QED BY <1>2, <2>1 DEF SyncAppend, RowsInv, RowsFollowTheLog
<1>3. ASSUME Reproject
      PROVE  RowsInv'
  <2>1. MineHavePassed'
    BY <1>0, <1>3, PassedStays DEF RowsInv, Reproject
  <2> QED BY <1>3, <2>1 DEF Reproject, RowsInv, RowsFollowTheLog
<1>4. ASSUME NEW p \in Proposals, Propose(p)
      PROVE  RowsInv'
  BY <1>4, AskAnewKeepsRows DEF Propose
<1>5. ASSUME NEW p \in Proposals, ProposeAnew(p)
      PROVE  RowsInv'
  <2>1. PICK q \in Proposals : AskAnew(p, q) /\ owed' = owed
    BY <1>5 DEF ProposeAnew, Askings
  <2> QED BY <2>1, AskAnewKeepsRows DEF AskAnew
<1>6. ASSUME NEW c \in Callers, NEW p \in Proposals, Settle(c, p)
      PROVE  RowsInv'
  <2>1. PICK q \in Askings(p) : AskAnew(p, q) \/ UNCHANGED <<log, mine, rows>>
    BY <1>6 DEF Settle
  <2>2. owed' = owed /\ q \in Proposals
    BY <1>6 DEF Settle, Askings
  <2> QED BY <2>1, <2>2, AskAnewKeepsRows, RowsSame DEF AskAnew
<1>7. ASSUME NEW c \in Callers, NEW p \in Proposals, NEW d \in Decisions, ReviewStart(c, p, d)
      PROVE  RowsInv'
  BY <1>7, RowsSame DEF ReviewStart
<1>8. ASSUME NEW c \in Callers, Answered(c)
      PROVE  RowsInv'
  BY <1>8, RowsSame DEF Answered
<1>9. ASSUME NEW c \in Callers, ReviewCommit(c)
      PROVE  RowsInv'
  <2>1. ASSUME NEW e \in Entities
        PROVE  rows'[e] = Row(log', e) \/ owed' \/ CompletedHere(e)'
    <3>1. CASE rows[e] = Row(log, e)
      BY <1>9, <3>1, CommitKeepsRows
    <3>2. CASE owed
      BY <1>9, <3>2 DEF ReviewCommit
    <3>3. CASE CompletedHere(e)
      BY <1>9, <3>3, CompletedOrFolded
    <3> QED BY <3>1, <3>2, <3>3 DEF RowsInv, RowsFollowTheLog
  <2>2. ASSUME NEW p \in Proposals, Ask[p].kind \in GateKinds, MergesOf(mine', p) # {}
        PROVE  p \in log'.opened /\ Passes(log', p)
    <3>1. p \in log.opened /\ Passes(log, p)
      <4>1. CASE MergesOf(mine, p) # {}
        BY <2>2, <4>1 DEF RowsInv, MineHavePassed
      <4>2. CASE MergesOf(mine, p) = {}
        <5>1. p = call[c].proposal /\ call[c].decision = "merge"
          BY <1>9, <2>2, <4>2, VerdictAdds
        <5> QED BY <1>9, <5>1 DEF ReviewCommit, Shape
      <4> QED BY <4>1, <4>2
    <3> QED BY <3>1, <1>0, WithinReads DEF Shape, Grows, Within
  <2> QED BY <2>1, <2>2 DEF RowsInv, RowsFollowTheLog, MineHavePassed
<1>10. ASSUME UNCHANGED vars
       PROVE  RowsInv'
  BY <1>10, RowsSame DEF vars
<1> QED BY <1>1, <1>2, <1>3, <1>4, <1>5, <1>6, <1>7, <1>8, <1>9, <1>10 DEF Next

(* A row of the graph that is not what the log folds to is owed, whatever  *)
(* was written here or arrived - but for a peer's gate act a local write   *)
(* completes: Engine::observe and Engine::review_proposal fold just the    *)
(* rows their line touches, and these are all that it moves.               *)
THEOREM RowsAreOwedOrFolded == Spec => []RowsFollowTheLog
<1>1. Init => RowsInv
  BY NothingIsLog DEF Init, RowsInv, MineHavePassed, MergesOf, RowsFollowTheLog
<1>2. Shape /\ RowsInv /\ [Next]_vars => RowsInv'
  BY RowsInvStep
<1>3. RowsInv => RowsFollowTheLog
  BY DEF RowsInv
<1> QED BY <1>1, <1>2, <1>3, ShapeHolds, PTL DEF Spec

(* ------------------------------ iteration ------------------------------ *)

LEMMA HopsAre ==
    ASSUME NEW f, NEW e
    PROVE  /\ Hops(f, e)[0] = e
           /\ \A n \in Nat : Hops(f, e)[n + 1] = Step(f, Hops(f, e)[n])
<1> DEFINE X == DOMAIN f \cup {f[d] : d \in DOMAIN f} \cup {e}
           s == [x \in X |-> Step(f, x)]
           hop == CHOOSE hop : hop = [n \in Nat |-> IF n = 0 THEN e ELSE Step(f, hop[n - 1])]
<1>1. s \in [X -> X] /\ e \in X
  BY DEF Step
<1>2. PICK h \in [Nat -> X] : h[0] = e /\ \A n \in Nat : h[n + 1] = s[h[n]]
  <2> HIDE DEF X, s
  <2> QED BY <1>1, IteratesExist
<1>3. h = [n \in Nat |-> IF n = 0 THEN e ELSE Step(f, h[n - 1])]
  <2>1. ASSUME NEW n \in Nat
        PROVE  h[n] = IF n = 0 THEN e ELSE Step(f, h[n - 1])
    <3>1. CASE n = 0
      BY <1>2, <3>1
    <3>2. CASE n # 0
      <4>1. n - 1 \in Nat /\ n = (n - 1) + 1
        BY <3>2
      <4>2. h[n] = s[h[n - 1]] /\ h[n - 1] \in X
        BY <1>2, <4>1
      <4> QED BY <3>2, <4>2
    <3> QED BY <3>1, <3>2
  <2> QED BY <2>1, <1>2
<1>4. hop = [n \in Nat |-> IF n = 0 THEN e ELSE Step(f, hop[n - 1])]
  BY <1>3
<1>5. Hops(f, e) = hop
  BY DEF Hops
<1> HIDE DEF hop
<1>6. hop[0] = e
  BY <1>4
<1>7. ASSUME NEW n \in Nat
      PROVE  hop[n + 1] = Step(f, hop[n])
  <2>1. n + 1 \in Nat /\ n + 1 # 0 /\ (n + 1) - 1 = n
    OBVIOUS
  <2>2. hop[n + 1] = IF n + 1 = 0 THEN e ELSE Step(f, hop[(n + 1) - 1])
    BY <1>4, <2>1
  <2> QED BY <2>1, <2>2
<1> QED BY <1>5, <1>6, <1>7

(* What is reached again is gone round from there. *)
LEMMA HopsMeet ==
    ASSUME NEW f, NEW e, NEW d, NEW i \in Nat, NEW j \in Nat, Hops(f, e)[i] = Hops(f, d)[j]
    PROVE  \A k \in Nat : Hops(f, e)[i + k] = Hops(f, d)[j + k]
<1> DEFINE S == {k \in Nat : Hops(f, e)[i + k] = Hops(f, d)[j + k]}
<1>1. S \in SUBSET Nat /\ 0 \in S
  OBVIOUS
<1>2. ASSUME NEW k \in S
      PROVE  k + 1 \in S
  <2>1. i + k \in Nat /\ j + k \in Nat /\ i + (k + 1) = (i + k) + 1 /\ j + (k + 1) = (j + k) + 1
    OBVIOUS
  <2>2. /\ Hops(f, e)[i + (k + 1)] = Step(f, Hops(f, e)[i + k])
        /\ Hops(f, d)[j + (k + 1)] = Step(f, Hops(f, d)[j + k])
    BY <2>1, HopsAre
  <2> QED BY <2>2
<1> HIDE DEF S
<1>3. S = Nat
  BY <1>1, <1>2, Counting
<1> QED BY <1>3 DEF S

(* A chain that has left the map stays where it is. *)
LEMMA HopsStay ==
    ASSUME NEW f, NEW e, NEW i \in Nat, Hops(f, e)[i] \notin DOMAIN f
    PROVE  \A k \in Nat : Hops(f, e)[i + k] = Hops(f, e)[i]
<1>1. Hops(f, e)[i + 1] = Hops(f, e)[i]
  BY HopsAre DEF Step
<1> DEFINE S == {k \in Nat : Hops(f, e)[i + k] = Hops(f, e)[i]}
<1>2. S \in SUBSET Nat /\ 0 \in S
  OBVIOUS
<1>3. ASSUME NEW k \in S
      PROVE  k + 1 \in S
  <2>1. i + k \in Nat /\ i + (k + 1) = (i + k) + 1
    OBVIOUS
  <2>2. Hops(f, e)[i + (k + 1)] = Step(f, Hops(f, e)[i + k])
    BY <2>1, HopsAre
  <2> QED BY <2>2 DEF Step
<1> HIDE DEF S
<1>4. S = Nat
  BY <1>2, <1>3, Counting
<1> QED BY <1>4 DEF S

(* As many hops as there are edges, and one, end a chain or are on a ring. *)
LEMMA ChainsEnd ==
    ASSUME NEW f, IsFiniteSet(DOMAIN f), NEW e,
           Hops(f, e)[Cardinality(DOMAIN f) + 1] \in DOMAIN f
    PROVE  LET x == Hops(f, e)[Cardinality(DOMAIN f) + 1] IN x \in Orbit(f, x)
<1> DEFINE D == DOMAIN f
           N == Cardinality(D)
           h == Hops(f, e)
           x == h[N + 1]
<1>1. N \in Nat
  BY FS_CardinalityType
<1>2. ASSUME NEW i \in 0 .. N
      PROVE  h[i] \in D
  <2> SUFFICES ASSUME h[i] \notin D PROVE FALSE
    OBVIOUS
  <2>1. i \in Nat /\ N + 1 - i \in Nat /\ i + (N + 1 - i) = N + 1
    BY <1>1
  <2>2. h[N + 1] = h[i]
    BY <2>1, HopsStay
  <2> QED BY <2>2
<1>3. PICK i \in 0 .. N, j \in 0 .. N : i # j /\ h[i] = h[j]
  <2> DEFINE S == 0 .. N
             g == [i \in S |-> h[i]]
  <2>1. IsFiniteSet(S) /\ Cardinality(D) < Cardinality(S)
    BY <1>1, FS_Interval
  <2>2. g \in [S -> D]
    BY <1>2
  <2>3. IsFiniteSet(D)
    OBVIOUS
  <2> HIDE DEF D, h
  <2>4. \E a, b \in S : a # b /\ g[a] = g[b]
    <3> HIDE DEF S, g, N
    <3> QED BY <2>1, <2>2, <2>3, FS_PigeonHole
  <2> QED BY <2>4
<1>4. ASSUME NEW a \in 0 .. N, NEW b \in 0 .. N, a < b, h[a] = h[b]
      PROVE  x \in Orbit(f, x)
  <2>1. /\ a \in Nat /\ b \in Nat /\ N + 1 - a \in Nat /\ a + (N + 1 - a) = N + 1
        /\ b + (N + 1 - a) = (N + 1) + (b - a) /\ b - a \in 1 .. N + 1 /\ b - a \in Nat
    BY <1>1, <1>4
  <2>2. h[a + (N + 1 - a)] = h[b + (N + 1 - a)]
    <3> DEFINE k == N + 1 - a
    <3>1. k \in Nat
      BY <2>1
    <3> HIDE DEF k
    <3>2. \A m \in Nat : Hops(f, e)[a + m] = Hops(f, e)[b + m]
      BY <2>1, <1>4, HopsMeet
    <3>3. h[a + k] = h[b + k]
      BY <3>1, <3>2
    <3> QED BY <3>3 DEF k
  <2>3. Hops(f, x)[0] = h[N + 1] /\ N + 1 \in Nat
    BY <1>1, HopsAre
  <2>4. Hops(f, x)[0 + (b - a)] = h[(N + 1) + (b - a)]
    <3> DEFINE j1 == N + 1
    <3>1. j1 \in Nat /\ 0 \in Nat /\ Hops(f, x)[0] = Hops(f, e)[j1]
      BY <2>3
    <3> HIDE DEF N, x, j1
    <3>2. \A m \in Nat : Hops(f, x)[0 + m] = Hops(f, e)[j1 + m]
      BY <3>1, HopsMeet
    <3>3. Hops(f, x)[0 + (b - a)] = Hops(f, e)[j1 + (b - a)]
      BY <2>1, <3>2
    <3> QED BY <3>3 DEF j1
  <2>5. Hops(f, x)[b - a] = x
    BY <2>1, <2>2, <2>4
  <2> QED BY <2>1, <2>5 DEF Orbit
<1>5. i < j \/ j < i
  BY <1>3
<1> QED BY <1>3, <1>4, <1>5

(* The map ends every chain: where an entity forwards to forwards nowhere, *)
(* unless its chain runs into a ring, and then the ring is one the report  *)
(* shows (canonical::forwarding_map and its cycles).                       *)
THEOREM ForwardingLeadsToAnEnd == Spec => []ForwardingEnds
<1>1. ForwardingEnds
  <2> DEFINE g == Edges(log, {})
             f == Forwarding(log)
  <2>1. IsFiniteSet(DOMAIN g)
    <3>1. DOMAIN g \subseteq Entities
      BY DEF Edges
    <3> QED BY <3>1, FoldAssumption, FS_Subset
  <2>2. DOMAIN f = DOMAIN g /\ \A e \in DOMAIN g : f[e] = Hops(g, e)[Cardinality(DOMAIN g) + 1]
    BY DEF Forwarding, ForwardingLess, Resolved
  <2>3. ASSUME NEW e \in DOMAIN f, f[e] \in DOMAIN f
        PROVE  \E C \in Cycles(log) : f[e] \in C
    <3> HIDE DEF f, g
    <3>1. f[e] \in DOMAIN g /\ f[e] = Hops(g, e)[Cardinality(DOMAIN g) + 1]
      BY <2>2, <2>3
    <3>2. f[e] \in Orbit(g, f[e])
      BY <2>1, <3>1, ChainsEnd
    <3>3. Orbit(g, f[e]) \in Cycles(log)
      BY <3>1, <3>2 DEF Cycles, g
    <3> QED BY <3>2, <3>3
  <2> QED BY <2>3 DEF ForwardingEnds
<1> QED BY <1>1, PTL

(* --------------------------- folds over a set -------------------------- *)

(* What holds of no act, and of any acts when it holds of all but one of   *)
(* them, holds of every finite set of acts.                                *)
LEMMA OneByOne ==
    ASSUME NEW D, IsFiniteSet(D), NEW G, {} \in G,
           \A S \in SUBSET D : S # {} => \E p \in S : S \ {p} \in G => S \in G
    PROVE  \A S \in SUBSET D : S \in G
<1> DEFINE T == {n \in Nat : \A S \in SUBSET D : Cardinality(S) = n => S \in G}
<1>1. 0 \in T
  <2>1. \A S \in SUBSET D : Cardinality(S) = 0 => S = {}
    BY FS_Subset, FS_EmptySet
  <2> QED BY <2>1
<1>2. ASSUME NEW n \in T
      PROVE  n + 1 \in T
  <2> SUFFICES ASSUME NEW S \in SUBSET D, Cardinality(S) = n + 1
               PROVE  S \in G
    OBVIOUS
  <2>1. IsFiniteSet(S) /\ S # {}
    BY FS_Subset, FS_EmptySet
  <2>2. PICK p \in S : S \ {p} \in G => S \in G
    BY <2>1
  <2>3. Cardinality(S \ {p}) = Cardinality(S) - 1
    BY <2>1, FS_RemoveElement
  <2>4. n \in Nat /\ S \ {p} \in SUBSET D
    OBVIOUS
  <2>5. Cardinality(S \ {p}) = n
    BY <2>3, <2>4
  <2> QED BY <2>2, <2>4, <2>5
<1>3. T \in SUBSET Nat
  OBVIOUS
<1>4. T = Nat
  <2> HIDE DEF T
  <2> QED BY <1>1, <1>2, <1>3, Counting
<1>5. ASSUME NEW S \in SUBSET D
      PROVE  S \in G
  <2>1. Cardinality(S) \in Nat
    BY FS_Subset, FS_CardinalityType
  <2> QED BY <1>4, <2>1
<1> QED BY <1>5

IsLast(S, at, p) == p \in S /\ \A q \in S \ {p} : Earlier(at, q, p)

(* Of finitely many acts one is the last. *)
LEMMA LastIs ==
    ASSUME NEW D \in SUBSET Nat, IsFiniteSet(D), NEW at, \A p \in D : at[p] \in Nat
    PROVE  \A S \in SUBSET D : S # {} => IsLast(S, at, Last(S, at))
<1> DEFINE G == {S \in SUBSET D : S = {} \/ \E p : IsLast(S, at, p)}
<1>1. ASSUME NEW S \in SUBSET D, S # {}
      PROVE  \E p \in S : S \ {p} \in G => S \in G
  <2>1. PICK p \in S : TRUE
    BY <1>1
  <2>2. ASSUME S \ {p} = {}
        PROVE  IsLast(S, at, p)
    BY <2>2 DEF IsLast
  <2>3. ASSUME NEW q, IsLast(S \ {p}, at, q)
        PROVE  \E r : IsLast(S, at, r)
    <3>1. p \in Nat /\ q \in Nat /\ at[p] \in Nat /\ at[q] \in Nat /\ p # q /\ q \in S
      BY <2>3 DEF IsLast
    <3>2. CASE Earlier(at, p, q)
      BY <2>3, <3>1, <3>2 DEF IsLast
    <3>3. CASE Earlier(at, q, p)
      <4>1. ASSUME NEW r \in S \ {p}, r # q
            PROVE  Earlier(at, r, p)
        BY <2>3, <3>1, <3>3, <4>1 DEF IsLast, Earlier
      <4> QED BY <4>1, <3>3 DEF IsLast
    <3>4. Earlier(at, p, q) \/ Earlier(at, q, p)
      BY <3>1 DEF Earlier
    <3> QED BY <3>2, <3>3, <3>4
  <2> QED BY <2>1, <2>2, <2>3
<1>2. \A S \in SUBSET D : S \in G
  <2>1. {} \in G
    OBVIOUS
  <2> HIDE DEF G
  <2> QED BY <1>1, <2>1, OneByOne
<1>3. ASSUME NEW S \in SUBSET D, S # {}
      PROVE  IsLast(S, at, Last(S, at))
  <2>1. PICK p : IsLast(S, at, p)
    BY <1>2, <1>3
  <2>2. \E q \in S : \A r \in S \ {q} : Earlier(at, r, q)
    BY <2>1 DEF IsLast
  <2> QED BY <2>2 DEF Last, IsLast
<1> QED BY <1>3

(* The fold of gate acts is a fold. *)
FoldOf(after, D, base, grant, at) ==
    /\ after[{}] = base
    /\ \A S \in SUBSET D : S # {} =>
        after[S] = Moved(Ask[Last(S, at)].kind, after[S \ {Last(S, at)}], grant[Last(S, at)])

LEMMA ActsFold ==
    ASSUME NEW D \in SUBSET Nat, IsFiniteSet(D), NEW at, DOMAIN at = D,
           \A p \in D : at[p] \in Nat, NEW grant, NEW base
    PROVE  \E after : /\ AfterActs(base, grant, at) = after[D]
                      /\ FoldOf(after, D, base, grant, at)
<1> DEFINE Next1(g, S) == IF S = {} THEN base
                          ELSE Moved(Ask[Last(S, at)].kind, g[S \ {Last(S, at)}],
                                     grant[Last(S, at)])
           Upto(n) == {S \in SUBSET D : Cardinality(S) <= n}
           T == {n \in Nat : \E g : g = [S \in Upto(n) |-> Next1(g, S)]}
<1>0. \A S \in SUBSET D : IsFiniteSet(S) /\ Cardinality(S) \in Nat
  BY FS_Subset, FS_CardinalityType
<1>1. \A S \in SUBSET D : S # {} =>
        /\ Last(S, at) \in S /\ S \ {Last(S, at)} \in SUBSET D
        /\ Cardinality(S \ {Last(S, at)}) = Cardinality(S) - 1
  <2> SUFFICES ASSUME NEW S \in SUBSET D, S # {}
               PROVE  /\ Last(S, at) \in S /\ S \ {Last(S, at)} \in SUBSET D
                      /\ Cardinality(S \ {Last(S, at)}) = Cardinality(S) - 1
    OBVIOUS
  <2>1. IsLast(S, at, Last(S, at))
    BY LastIs
  <2>2. Last(S, at) \in S
    BY <2>1 DEF IsLast
  <2>3. Cardinality(S \ {Last(S, at)}) = Cardinality(S) - 1
    BY <1>0, <2>2, FS_RemoveElement
  <2> QED BY <2>2, <2>3
<1>2. 0 \in T
  <2>1. \A S \in Upto(0) : S = {}
    BY <1>0, FS_EmptySet
  <2> DEFINE g == [S \in Upto(0) |-> base]
  <2>2. g = [S \in Upto(0) |-> Next1(g, S)]
    BY <2>1
  <2> HIDE DEF g, Upto, Next1
  <2> QED BY <2>2
<1>3. ASSUME NEW n \in T
      PROVE  n + 1 \in T
  <2>1. PICK g : g = [S \in Upto(n) |-> Next1(g, S)]
    OBVIOUS
  <2> DEFINE g1 == [S \in Upto(n + 1) |-> IF S \in Upto(n) THEN g[S] ELSE Next1(g, S)]
  <2>2. ASSUME NEW S \in Upto(n + 1)
        PROVE  g1[S] = Next1(g1, S)
    <3>1. CASE S = {}
      BY <2>1, <3>1, <2>2
    <3>2. CASE S # {}
      <4> DEFINE R == S \ {Last(S, at)}
      <4>1. R \in Upto(n) /\ R \in Upto(n + 1)
        BY <1>0, <1>1, <3>2
      <4>2. g1[R] = g[R]
        BY <4>1
      <4>3. Next1(g1, S) = Next1(g, S)
        BY <4>2, <3>2
      <4>4. g1[S] = Next1(g, S)
        <5> HIDE DEF Next1
        <5> QED BY <2>1, <2>2
      <4> QED BY <4>3, <4>4
    <3> QED BY <3>1, <3>2
  <2>3. g1 = [S \in Upto(n + 1) |-> Next1(g1, S)]
    <3> HIDE DEF Next1
    <3> QED BY <2>2
  <2> HIDE DEF g1, Upto, Next1
  <2> QED BY <2>3
<1>4. T = Nat
  <2>1. T \in SUBSET Nat
    OBVIOUS
  <2> HIDE DEF T
  <2> QED BY <1>2, <1>3, <2>1, Counting
<1>5. Upto(Cardinality(D)) = SUBSET D
  BY <1>0, FS_Subset
<1>6. \E g : g = [S \in SUBSET D |-> Next1(g, S)]
  <2>1. Cardinality(D) \in T
    BY <1>0, <1>4
  <2>2. \E g : g = [S \in Upto(Cardinality(D)) |-> Next1(g, S)]
    <3> HIDE DEF Upto, Next1
    <3> QED BY <2>1
  <2> HIDE DEF Upto, Next1
  <2> QED BY <2>2, <1>5
<1> DEFINE after == CHOOSE after : after =
               [S \in SUBSET DOMAIN at |->
                   IF S = {} THEN base
                   ELSE LET p == Last(S, at)
                        IN  Moved(Ask[p].kind, after[S \ {p}], grant[p])]
<1>7. after = [S \in SUBSET D |-> Next1(after, S)]
  BY <1>6
<1>8. AfterActs(base, grant, at) = after[D]
  BY DEF AfterActs
<1> HIDE DEF after
<1>9. after[{}] = base
  BY <1>7
<1>10. \A S \in SUBSET D : S # {} =>
        after[S] = Moved(Ask[Last(S, at)].kind, after[S \ {Last(S, at)}], grant[Last(S, at)])
  BY <1>7
<1> QED BY <1>8, <1>9, <1>10 DEF FoldOf

(* -------------------------------- tiers -------------------------------- *)

LEMMA MaxOfTiers ==
    ASSUME NEW S \in SUBSET Tiers, S # {}
    PROVE  Max(S) \in S /\ \A t \in S : t <= Max(S)
<1>1. \E x \in S : \A y \in S : x >= y
  <2>1. \A x \in S : x = 0 \/ x = 1 \/ x = 2 \/ x = 3
    BY DEF Tiers, Unverified, HumanConfirmed
  <2> QED BY <2>1
<1> DEFINE x == CHOOSE x \in S : \A y \in S : x >= y
<1>2. x \in S /\ \A y \in S : x >= y
  BY <1>1
<1>3. Max(S) = x
  BY DEF Max
<1> HIDE DEF x
<1>4. \A t \in S : t \in Int
  BY DEF Tiers, Unverified, HumanConfirmed
<1> QED BY <1>2, <1>3, <1>4

LEMMA RepIs ==
    ASSUME NEW L \in Log, NEW p, MergesOf(L, p) # {}
    PROVE  Rep(L, p) \in {m.at : m \in MergesOf(L, p)} /\ Rep(L, p) \in Nat
<1> DEFINE S == {m.at : m \in MergesOf(L, p)}
<1>1. S \in SUBSET Nat /\ S # {}
  BY DEF MergesOf, Log, Merge
<1>2. Rep(L, p) = Min(S)
  BY DEF Rep
<1> HIDE DEF S
<1>3. \E n \in S : \A m \in S : n <= m
  BY <1>1, LeastOf
<1>4. Min(S) \in S
  BY <1>3 DEF Min
<1> QED BY <1>1, <1>2, <1>4 DEF S

LEMMA BaseIs ==
    ASSUME NEW L \in Log, NEW c \in Held(L)
    PROVE  Base(L, c) \in Unverified .. HostSigned
<1> DEFINE S == {s[2] : s \in {x \in L.said : x[1] = c}}
<1>1. \A x \in L.said : x[2] \in Unverified .. HostSigned
  BY DEF Log
<1>2. S \in SUBSET Tiers /\ S \in SUBSET (Unverified .. HostSigned)
  BY <1>1 DEF Tiers, Unverified, HumanConfirmed, HostSigned
<1>3. S # {}
  BY DEF Held
<1>4. Base(L, c) = Max(S)
  BY DEF Base
<1> HIDE DEF S
<1> QED BY <1>2, <1>3, <1>4, MaxOfTiers

(* What a merged act grants: a promotion more than host signed only by a   *)
(* verdict cast at a console.                                              *)
LEMMA GrantIs ==
    ASSUME NEW L \in Log, NEW p \in Proposals, Ask[p].tier # None, MergesOf(L, p) # {}
    PROVE  /\ Grant(L, p) \in Tiers
           /\ Grant(L, p) = HumanConfirmed /\ Ask[p].kind # "claim_demotion" =>
                \E m \in MergesOf(L, p) : m.surface = "console"
<1>1. Ask[p].tier \in Tiers
  BY FoldAssumption
<1> DEFINE S == {Ceiling(m.surface) : m \in MergesOf(L, p)}
<1>2. S \in SUBSET {HostSigned, HumanConfirmed} /\ S # {}
  BY DEF Ceiling
<1>3. Max(S) \in S
  <2>1. S \in SUBSET Tiers
    BY <1>2 DEF Tiers, Unverified, HumanConfirmed, HostSigned
  <2> HIDE DEF S
  <2> QED BY <1>2, <2>1, MaxOfTiers
<1>4. Grant(L, p) = IF Ask[p].kind = "claim_demotion" THEN Ask[p].tier
                    ELSE Least(Ask[p].tier, Max(S))
  BY DEF Grant
<1>5. HumanConfirmed \in S => \E m \in MergesOf(L, p) : m.surface = "console"
  BY DEF Ceiling, HumanConfirmed, HostSigned
<1> HIDE DEF S
<1>6. Max(S) \in {2, 3} /\ (Max(S) = 3 => HumanConfirmed \in S)
  BY <1>2, <1>3 DEF HumanConfirmed, HostSigned
<1> DEFINE t == Ask[p].tier
           m == Max(S)
<1>7. t \in 0 .. 3
  BY <1>1 DEF Tiers, Unverified, HumanConfirmed
<1> HIDE DEF t, m
<1>8. Least(t, m) \in 0 .. 3 /\ (Least(t, m) = 3 => m = 3)
  BY <1>6, <1>7 DEF Least, m
<1> QED BY <1>4, <1>5, <1>6, <1>7, <1>8 DEF t, m, Tiers, Unverified, HumanConfirmed

LEMMA MovedIs ==
    ASSUME NEW k, NEW a \in Tiers, NEW b \in Tiers
    PROVE  /\ Moved(k, a, b) \in Tiers
           /\ Moved(k, a, b) = HumanConfirmed =>
                a = HumanConfirmed \/ (k = "claim_promotion" /\ b = HumanConfirmed)
BY DEF Moved, Most, Least, Tiers, Unverified, HumanConfirmed

(* The fold a tier is read off. *)
LEMMA TierFold ==
    ASSUME NEW L \in Log, NEW c \in Held(L)
    PROVE  LET D == Events(L, c)
               grant == [p \in D |-> Grant(L, p)]
               at == [p \in D |-> Rep(L, p)]
           IN  /\ D \in SUBSET Nat /\ D \in SUBSET Proposals /\ IsFiniteSet(D)
               /\ \A p \in D : /\ Ask[p].kind \in GateKinds /\ MergesOf(L, p) # {}
                               /\ grant[p] = Grant(L, p) /\ at[p] = Rep(L, p)
                               /\ grant[p] \in Tiers /\ at[p] \in Nat
               /\ \A S \in SUBSET D : S # {} => IsLast(S, at, Last(S, at))
               /\ \E after : /\ Tier(L, c) = after[D]
                             /\ FoldOf(after, D, Base(L, c), grant, at)
<1> DEFINE D == Events(L, c)
           grant == [p \in D |-> Grant(L, p)]
           at == [p \in D |-> Rep(L, p)]
<1>1. /\ D \in SUBSET Proposals
      /\ \A p \in D : Ask[p].kind \in GateKinds /\ MergesOf(L, p) # {} /\ Ask[p].tier # None
  BY EventsAre DEF Log
<1>2. D \in SUBSET Nat /\ IsFiniteSet(D)
  BY <1>1, FoldAssumption, FS_Subset
<1>3. \A p \in D : Grant(L, p) \in Tiers /\ Rep(L, p) \in Nat
  BY <1>1, GrantIs, RepIs
<1>4. DOMAIN at = D /\ \A p \in D : at[p] = Rep(L, p) /\ grant[p] = Grant(L, p)
  OBVIOUS
<1>5. Tier(L, c) = AfterActs(Base(L, c), grant, at)
  BY DEF Tier
<1> HIDE DEF D, grant, at
<1>6. \A p \in D : at[p] \in Nat
  BY <1>3, <1>4
<1>7. \A S \in SUBSET D : S # {} => IsLast(S, at, Last(S, at))
  BY <1>2, <1>6, LastIs
<1>8. \E after : /\ AfterActs(Base(L, c), grant, at) = after[D]
                 /\ FoldOf(after, D, Base(L, c), grant, at)
  BY <1>2, <1>4, <1>6, ActsFold
<1> QED BY <1>1, <1>2, <1>3, <1>4, <1>5, <1>6, <1>7, <1>8 DEF D, grant, at

(* Where a claim is left, and that nobody but a person leaves it highest.  *)
LEMMA TierIs ==
    ASSUME NEW L \in Log, NEW c \in Held(L)
    PROVE  /\ Tier(L, c) \in Tiers
           /\ Tier(L, c) = HumanConfirmed =>
                \E p \in Events(L, c) : Ask[p].kind = "claim_promotion"
                                        /\ Grant(L, p) = HumanConfirmed
<1> DEFINE D == Events(L, c)
           grant == [p \in D |-> Grant(L, p)]
           at == [p \in D |-> Rep(L, p)]
           base == Base(L, c)
<1>1. /\ IsFiniteSet(D)
      /\ \A p \in D : grant[p] = Grant(L, p) /\ grant[p] \in Tiers
      /\ \A S \in SUBSET D : S # {} => IsLast(S, at, Last(S, at))
  BY TierFold
<1>2. PICK after : Tier(L, c) = after[D] /\ FoldOf(after, D, base, grant, at)
  BY TierFold
<1>3. base \in Tiers /\ base # HumanConfirmed
  BY BaseIs DEF Tiers, Unverified, HostSigned, HumanConfirmed
<1> HIDE DEF D, grant, at, base
<1> DEFINE G == {S \in SUBSET D :
                    /\ after[S] \in Tiers
                    /\ after[S] = HumanConfirmed =>
                        \E p \in S : Ask[p].kind = "claim_promotion" /\ grant[p] = HumanConfirmed}
<1>4. {} \in G
  BY <1>2, <1>3 DEF FoldOf
<1>5. ASSUME NEW S \in SUBSET D, S # {}
      PROVE  \E p \in S : S \ {p} \in G => S \in G
  <2> DEFINE p == Last(S, at)
  <2>1. p \in S /\ p \in D /\ grant[p] \in Tiers
    BY <1>1, <1>5 DEF IsLast
  <2>2. after[S] = Moved(Ask[p].kind, after[S \ {p}], grant[p])
    BY <1>2, <1>5 DEF FoldOf
  <2> HIDE DEF p
  <2>3. ASSUME S \ {p} \in G
        PROVE  S \in G
    BY <2>1, <2>2, <2>3, MovedIs
  <2> QED BY <2>1, <2>3
<1>6. D \in G
  <2> HIDE DEF G
  <2> QED BY <1>1, <1>4, <1>5, OneByOne
<1>7. /\ after[D] \in Tiers
      /\ after[D] = HumanConfirmed =>
            \E p \in D : Ask[p].kind = "claim_promotion" /\ grant[p] = HumanConfirmed
  BY <1>6
<1> QED BY <1>1, <1>2, <1>7 DEF D

(* The values of the state. *)
THEOREM TypeCorrect == Spec => []TypeOK
<1> DEFINE RowOK(r) == /\ DOMAIN r \subseteq Claims
                       /\ \A c \in DOMAIN r : r[c] \in Tiers
           RowsOK == DOMAIN rows = Entities /\ \A e \in Entities : RowOK(rows[e])
<1>1. \A L \in Log : \A e : RowOK(Row(L, e))
  BY TierIs DEF Row, Held, Log
<1>2. Init => RowsOK
  <2>1. Nothing \in Log
    BY NothingIsLog
  <2> HIDE DEF RowOK
  <2> QED BY <1>1, <2>1 DEF Init
<1>3. ASSUME Shape, RowsOK, [Next]_vars
      PROVE  RowsOK'
  <2>1. log' \in Log /\ log \in Log
    BY <1>3, ShapeStep DEF Grows, Shape
  <2>2. \/ rows' = rows
        \/ \E T : rows' = [e \in Entities |-> IF e \in T THEN Row(log', e) ELSE rows[e]]
        \/ rows' = [e \in Entities |-> Row(log, e)]
    <3> DEFINE Kept == \/ rows' = rows
                       \/ \E T : rows' = [e \in Entities |->
                                            IF e \in T THEN Row(log', e) ELSE rows[e]]
    <3>1. \A L, T : Write(L, T) => Kept
      BY DEF Write
    <3>2. \A p, q \in Proposals : AskAnew(p, q) => Kept
      BY <3>1 DEF AskAnew
    <3> HIDE DEF Kept
    <3>3. rows' = rows => Kept
      BY DEF Kept
    <3>4. \A c \in Callers, p \in Proposals : Settle(c, p) => Kept
      BY <3>2, <3>3 DEF Settle, Askings
    <3>5. \A p \in Proposals : Propose(p) \/ ProposeAnew(p) => Kept
      BY <3>1, <3>2 DEF Propose, ProposeAnew, Askings
    <3>6. \A c \in Callers : ReviewCommit(c) => Kept
      BY <3>1 DEF ReviewCommit
    <3>7. \A c \in Callers : Answered(c) \/ (\E p \in Proposals, d \in Decisions : ReviewStart(c, p, d))
            => Kept
      BY <3>3 DEF Answered, ReviewStart
    <3>8. (\E c \in Claims : Observe(c)) \/ (\E L \in agenda.elsewhere : SyncAppend(L))
            \/ UNCHANGED vars => Kept
      BY <3>1, <3>3 DEF Observe, SyncAppend, vars
    <3>9. Reproject => rows' = [e \in Entities |-> Row(log, e)]
      BY DEF Reproject
    <3>10. Kept \/ Reproject
      BY <1>3, <3>4, <3>5, <3>6, <3>7, <3>8 DEF Next
    <3> QED BY <3>9, <3>10 DEF Kept
  <2> HIDE DEF RowOK
  <2> QED BY <2>1, <2>2, <1>1, <1>3
<1>4. Shape /\ RowsOK => TypeOK
  BY DEF Shape, Calls, TypeOK
<1> HIDE DEF RowsOK
<1> QED BY <1>2, <1>3, <1>4, ShapeHolds, PTL DEF Spec

(* Human confirmed is a person's: whatever agents and peers merge, a claim *)
(* stands there only on a verdict cast at a console (Engine::gate_fold,    *)
(* Engine::gate_grants).                                                   *)
THEOREM OnlyAPersonConfirms == Spec => []ConfirmedByAPerson
<1>1. Shape => ConfirmedByAPerson
  <2> SUFFICES ASSUME Shape, NEW c \in Held(log), Tier(log, c) = HumanConfirmed
               PROVE  \E p \in Events(log, c) :
                        /\ Ask[p].kind = "claim_promotion"
                        /\ \E m \in MergesOf(log, p) : m.surface = "console"
    BY DEF ConfirmedByAPerson
  <2>1. log \in Log
    BY DEF Shape
  <2>2. PICK p \in Events(log, c) : /\ Ask[p].kind = "claim_promotion"
                                    /\ Grant(log, p) = HumanConfirmed
    BY <2>1, TierIs
  <2>3. p \in Proposals /\ Ask[p].tier # None /\ MergesOf(log, p) # {}
    BY <2>1, EventsAre DEF Log
  <2> QED BY <2>1, <2>2, <2>3, GrantIs
<1> QED BY <1>1, ShapeHolds, PTL

(* ---------------------- verdicts later than the rest ------------------- *)

LEMMA MaxOfNumbers ==
    ASSUME NEW D \in SUBSET Nat, IsFiniteSet(D), D # {}
    PROVE  Max(D) \in D /\ \A y \in D : y <= Max(D)
<1> DEFINE G == {S \in SUBSET D : S = {} \/ \E x \in S : \A y \in S : x >= y}
<1>1. ASSUME NEW S \in SUBSET D, S # {}
      PROVE  \E p \in S : S \ {p} \in G => S \in G
  <2>1. PICK p \in S : TRUE
    BY <1>1
  <2>2. ASSUME S \ {p} = {}
        PROVE  S \in G
    <3>1. \A y \in S : p >= y
      BY <2>2
    <3> QED BY <3>1
  <2>3. ASSUME NEW x \in S \ {p}, \A y \in S \ {p} : x >= y
        PROVE  S \in G
    <3>1. x \in Nat /\ p \in Nat /\ \A y \in S : y \in Nat
      OBVIOUS
    <3>2. CASE p >= x
      <4>1. \A y \in S : p >= y
        BY <2>3, <3>1, <3>2
      <4> QED BY <4>1
    <3>3. CASE x >= p
      <4>1. \A y \in S : x >= y
        BY <2>3, <3>1, <3>3
      <4> QED BY <4>1
    <3> QED BY <3>1, <3>2, <3>3
  <2> QED BY <2>1, <2>2, <2>3
<1>2. \A S \in SUBSET D : S \in G
  <2>1. {} \in G
    OBVIOUS
  <2> HIDE DEF G
  <2> QED BY <1>1, <2>1, OneByOne
<1>3. \E x \in D : \A y \in D : x >= y
  BY <1>2
<1> DEFINE x == CHOOSE x \in D : \A y \in D : x >= y
<1>4. x \in D /\ \A y \in D : x >= y
  BY <1>3
<1>5. Max(D) = x
  BY DEF Max
<1> HIDE DEF x
<1> QED BY <1>4, <1>5

Finite == IsFiniteSet(log.merges)

LEMMA FiniteStep ==
    ASSUME Shape, Finite, [Next]_vars
    PROVE  Finite'
<1>1. \A N \in Log : \A T : IsFiniteSet(N.merges) /\ Write(N, T) => Finite'
  <2> SUFFICES ASSUME NEW N \in Log, NEW T, IsFiniteSet(N.merges), Write(N, T)
               PROVE  Finite'
    OBVIOUS
  <2>1. log'.merges = log.merges \cup N.merges
    BY JoinFields DEF Write, Shape
  <2> QED BY <2>1, FS_Union DEF Finite
<1>2. ASSUME NEW c \in Claims, Observe(c)
      PROVE  Finite'
  <2>1. AgentExtracted \in Unverified .. HostSigned
    BY DEF AgentExtracted, Unverified, HostSigned
  <2>2. Said(c, AgentExtracted) \in Log /\ Said(c, AgentExtracted).merges = {}
    BY <2>1, Lines DEF Line
  <2> QED BY <1>1, <1>2, <2>2, FS_EmptySet DEF Observe
<1>3. ASSUME NEW L \in agenda.elsewhere, SyncAppend(L)
      PROVE  Finite'
  <2>1. L \in Log /\ IsFiniteSet(L.merges)
    BY CurationAssumption DEF Shape
  <2>2. log'.merges = log.merges \cup L.merges
    BY <1>3, <2>1, JoinFields DEF SyncAppend, Shape
  <2> QED BY <2>1, <2>2, FS_Union DEF Finite
<1>4. ASSUME NEW q \in Proposals, Write(Opened(q), {})
      PROVE  Finite'
  <2>1. Opened(q) \in Log /\ Opened(q).merges = {}
    BY Lines DEF Line
  <2> QED BY <1>1, <1>4, <2>1, FS_EmptySet
<1>5. \A p, q \in Proposals : AskAnew(p, q) => Finite'
  BY <1>4 DEF AskAnew
<1>6. ASSUME NEW c \in Callers, ReviewCommit(c)
      PROVE  Finite'
  <2>1. call[c].proposal \in Proposals /\ Verdict(c) \in Log
    BY <1>6, VerdictIsLog DEF ReviewCommit
  <2>2. call[c].time \in Nat /\ SurfaceOf[c] \in Surfaces
    BY CurationAssumption DEF Shape, Calls
  <2>3. IsFiniteSet(Verdict(c).merges)
    <3> DEFINE m == [proposal |-> call[c].proposal, surface |-> SurfaceOf[c], at |-> call[c].time]
    <3> HIDE DEF m
    <3>1. Verdict(c).merges \in {{}, {m}}
      <4>1. CASE call[c].decision = "merge"
        <5>1. Verdict(c) = Line({}, {}, {m}, {}, {})
          BY <4>1, <2>1, <2>2, Lines DEF Verdict, m
        <5> QED BY <5>1 DEF Line
      <4>2. CASE call[c].decision = "reject"
        <5>1. Verdict(c) = Line({}, {}, {}, {call[c].proposal}, {})
          BY <4>2, <2>1, Lines DEF Verdict
        <5> QED BY <5>1 DEF Line
      <4>3. CASE call[c].decision \notin {"merge", "reject"}
        <5>1. Verdict(c) = Line({}, {}, {}, {}, {call[c].proposal})
          BY <4>3, <2>1, Lines DEF Verdict
        <5> QED BY <5>1 DEF Line
      <4> QED BY <4>1, <4>2, <4>3
    <3>2. IsFiniteSet({m})
      BY FS_Singleton
    <3>3. IsFiniteSet({})
      BY FS_EmptySet
    <3> QED BY <3>1, <3>2, <3>3
  <2> QED BY <1>1, <1>6, <2>1, <2>3 DEF ReviewCommit
<1>7. log' = log => Finite'
  BY DEF Finite
<1>8. \A c \in Callers, p \in Proposals : Settle(c, p) => Finite'
  BY <1>5, <1>7 DEF Settle, Askings
<1>9. \A p \in Proposals : Propose(p) \/ ProposeAnew(p) => Finite'
  BY <1>4, <1>5 DEF Propose, ProposeAnew, Askings
<1>10. \A c \in Callers : Answered(c) \/ (\E p \in Proposals, d \in Decisions : ReviewStart(c, p, d))
         => Finite'
  BY <1>7 DEF Answered, ReviewStart
<1> HIDE DEF Finite
<1> QED BY <1>2, <1>3, <1>6, <1>7, <1>8, <1>9, <1>10 DEF Next, Reproject, vars

LEMMA FiniteHolds == Spec => []Finite
<1>1. Init => Finite
  BY NothingIsLog, FS_EmptySet DEF Init, Finite
<1> QED BY <1>1, FiniteStep, ShapeHolds, PTL DEF Spec

(* The log with a verdict later than every other. *)
LEMMA LaterIs ==
    ASSUME NEW L \in Log, IsFiniteSet(L.merges), NEW p \in Proposals
    PROVE  LET M == Later(L, p)
               t == 1 + Max({m.at : m \in L.merges} \cup {0})
               v == [proposal |-> p, surface |-> "console", at |-> t]
           IN  /\ M \in Log /\ Within(L, M) /\ t \in Nat
               /\ M.opened = L.opened /\ Held(M) = Held(L) /\ Asserted(M) = Asserted(L)
               /\ \A c : Base(M, c) = Base(L, c)
               /\ \A q : q # p => MergesOf(M, q) = MergesOf(L, q)
               /\ MergesOf(M, p) = MergesOf(L, p) \cup {v}
               /\ \A m \in L.merges : m.at < t
<1> DEFINE T == {m.at : m \in L.merges} \cup {0}
           t == 1 + Max(T)
           v == [proposal |-> p, surface |-> "console", at |-> t]
           N == Cast(p, "console", t)
           M == Join(L, N)
<1>1. T \in SUBSET Nat /\ T # {}
  BY DEF Log, Merge
<1>2. IsFiniteSet(T)
  <2> DEFINE A == {m.at : m \in L.merges}
             f == [m \in L.merges |-> m.at]
  <2>1. f \in Surjection(L.merges, A)
    BY DEF Surjection
  <2>2. IsFiniteSet(A)
    <3> HIDE DEF A, f
    <3> QED BY <2>1, FS_Surjection
  <2>3. IsFiniteSet({0})
    BY FS_Singleton
  <2> HIDE DEF A
  <2>4. IsFiniteSet(A \cup {0})
    BY <2>2, <2>3, FS_Union
  <2> QED BY <2>4 DEF A
<1>3. t \in Nat /\ \A y \in T : y < t
  <2> HIDE DEF T
  <2> DEFINE x == Max(T)
  <2>1. x \in T /\ \A y \in T : y <= x
    BY <1>1, <1>2, MaxOfNumbers
  <2> HIDE DEF x
  <2>2. x \in Nat /\ \A y \in T : y \in Nat
    BY <2>1, <1>1
  <2>3. 1 + x \in Nat /\ \A y \in T : y < 1 + x
    BY <2>1, <2>2
  <2> QED BY <2>3 DEF x
<1>4. \A m \in L.merges : m.at < t
  BY <1>3
<1> HIDE DEF T
<1>5. N = Line({}, {}, {v}, {}, {}) /\ N \in Log
  BY <1>3, Lines DEF Surfaces
<1>6. v.proposal = p
  OBVIOUS
<1> HIDE DEF t, v, N
<1>7. Held(N) = {} /\ N.opened = {} /\ MergesOf(N, p) = {v} /\ \A q : q # p => MergesOf(N, q) = {}
  BY <1>5, <1>6 DEF Held, MergesOf, Line
<1>8. M \in Log /\ Within(L, M) /\ M.opened = L.opened \cup N.opened
  BY <1>5, JoinFields
<1> HIDE DEF M
<1>9. /\ \A q : MergesOf(M, q) = MergesOf(L, q) \cup MergesOf(N, q)
      /\ Held(M) = Held(L) \cup Held(N)
      /\ \A c : c \notin Held(N) => Base(M, c) = Base(L, c)
  BY <1>5, <1>8, OneLine DEF M
<1>10. Later(L, p) = M
  BY DEF Later, M, N, t, T
<1> QED BY <1>3, <1>4, <1>7, <1>8, <1>9, <1>10 DEF t, v, T, Asserted

LEMMA LastUnique ==
    ASSUME NEW S \in SUBSET Nat, NEW at, \A q \in S : at[q] \in Nat,
           NEW p, NEW r, IsLast(S, at, p), IsLast(S, at, r)
    PROVE  p = r
<1> SUFFICES ASSUME p # r PROVE FALSE
  OBVIOUS
<1>1. /\ p \in Nat /\ r \in Nat /\ at[p] \in Nat /\ at[r] \in Nat
      /\ Earlier(at, p, r) /\ Earlier(at, r, p)
  BY DEF IsLast
<1> QED BY <1>1 DEF Earlier

(* Folds that agree on the acts of a set agree on what it leaves. *)
LEMMA FoldsAgree ==
    ASSUME NEW D \in SUBSET Nat, IsFiniteSet(D), NEW D1 \in SUBSET D, NEW base,
           NEW at, NEW at1, NEW grant, NEW grant1,
           \A p \in D : at[p] \in Nat, \A p \in D1 : at1[p] = at[p] /\ grant1[p] = grant[p],
           NEW after, FoldOf(after, D, base, grant, at),
           NEW after1, FoldOf(after1, D1, base, grant1, at1)
    PROVE  after[D1] = after1[D1]
<1> DEFINE G == {S \in SUBSET D1 : after[S] = after1[S]}
<1>1. IsFiniteSet(D1) /\ D1 \in SUBSET Nat
  BY FS_Subset
<1>2. {} \in G
  BY DEF FoldOf
<1>3. ASSUME NEW S \in SUBSET D1, S # {}
      PROVE  \E p \in S : S \ {p} \in G => S \in G
  <2>1. IsLast(S, at, Last(S, at))
    BY <1>3, LastIs
  <2>2. IsLast(S, at1, Last(S, at1))
    BY <1>1, <1>3, LastIs
  <2> DEFINE p == Last(S, at)
  <2>3. Last(S, at1) = p
    <3>1. IsLast(S, at, Last(S, at1))
      BY <2>2 DEF IsLast, Earlier
    <3>2. S \in SUBSET Nat /\ \A q \in S : at[q] \in Nat
      OBVIOUS
    <3> QED BY <3>1, <3>2, <2>1, LastUnique
  <2>4. p \in S /\ S \in SUBSET D
    BY <2>1 DEF IsLast
  <2>5. after[S] = Moved(Ask[p].kind, after[S \ {p}], grant[p])
    BY <1>3, <2>4 DEF FoldOf
  <2>6. after1[S] = Moved(Ask[p].kind, after1[S \ {p}], grant1[p])
    BY <1>3, <2>3 DEF FoldOf
  <2> HIDE DEF p
  <2>7. S \ {p} \in G => S \in G
    BY <2>4, <2>5, <2>6
  <2> QED BY <2>4, <2>7
<1>4. D1 \in G
  <2> HIDE DEF G
  <2> QED BY <1>1, <1>2, <1>3, OneByOne
<1> QED BY <1>4

(* An act whose verdict is the last on a claim is what it is left by. *)
LEMMA LastActStands ==
    ASSUME NEW M \in Log, NEW c \in Held(M), NEW p \in Events(M, c),
           \A q \in Events(M, c) \ {p} : Before(M, q, p)
    PROVE  /\ p \in Proposals /\ Grant(M, p) \in Tiers
           /\ \E a \in Tiers : Tier(M, c) = Moved(Ask[p].kind, a, Grant(M, p))
           /\ \A L \in Log : c \in Held(L) /\ Base(L, c) = Base(M, c)
                /\ Events(L, c) = Events(M, c) \ {p}
                /\ (\A q \in Events(L, c) : MergesOf(L, q) = MergesOf(M, q))
                => Tier(M, c) = Moved(Ask[p].kind, Tier(L, c), Grant(M, p))
<1> DEFINE D == Events(M, c)
           grant == [q \in D |-> Grant(M, q)]
           at == [q \in D |-> Rep(M, q)]
           base == Base(M, c)
<1>1. /\ D \in SUBSET Nat /\ D \in SUBSET Proposals /\ IsFiniteSet(D)
      /\ \A q \in D : /\ grant[q] = Grant(M, q) /\ at[q] = Rep(M, q)
                      /\ grant[q] \in Tiers /\ at[q] \in Nat
      /\ \A S \in SUBSET D : S # {} => IsLast(S, at, Last(S, at))
  BY TierFold
<1>2. PICK after : Tier(M, c) = after[D] /\ FoldOf(after, D, base, grant, at)
  BY TierFold
<1>3. base \in Tiers
  BY BaseIs DEF Tiers, Unverified, HostSigned, HumanConfirmed
<1>4. \A q \in D \ {p} : Before(M, q, p)
  OBVIOUS
<1>5. p \in D
  OBVIOUS
<1> HIDE DEF D, grant, at, base
<1>6. IsLast(D, at, p)
  <2>1. ASSUME NEW q \in D \ {p}
        PROVE  Earlier(at, q, p)
    <3>1. Earlier([r \in {q, p} |-> Rep(M, r)], q, p)
      BY <1>4 DEF Before
    <3> QED BY <3>1, <1>1, <1>5 DEF Earlier
  <2> QED BY <1>5, <2>1 DEF IsLast
<1>7. Last(D, at) = p
  <2>1. IsLast(D, at, Last(D, at))
    BY <1>1, <1>5
  <2> QED BY <1>1, <1>6, <2>1, LastUnique
<1>8. Tier(M, c) = Moved(Ask[p].kind, after[D \ {p}], grant[p])
  BY <1>2, <1>5, <1>7 DEF FoldOf
<1>9. \A S \in SUBSET D : after[S] \in Tiers
  <2> DEFINE G == {S \in SUBSET D : after[S] \in Tiers}
  <2>1. {} \in G
    BY <1>2, <1>3 DEF FoldOf
  <2>2. ASSUME NEW S \in SUBSET D, S # {}
        PROVE  \E r \in S : S \ {r} \in G => S \in G
    <3> DEFINE r == Last(S, at)
    <3>1. r \in S /\ r \in D /\ grant[r] \in Tiers
      BY <1>1, <2>2 DEF IsLast
    <3>2. after[S] = Moved(Ask[r].kind, after[S \ {r}], grant[r])
      BY <1>2, <2>2 DEF FoldOf
    <3> HIDE DEF r
    <3>3. S \ {r} \in G => S \in G
      BY <3>1, <3>2, MovedIs
    <3> QED BY <3>1, <3>3
  <2>3. \A S \in SUBSET D : S \in G
    <3> HIDE DEF G
    <3> QED BY <1>1, <2>1, <2>2, OneByOne
  <2> QED BY <2>3
<1>10. ASSUME NEW L \in Log, c \in Held(L), Base(L, c) = base, Events(L, c) = D \ {p},
              \A q \in Events(L, c) : MergesOf(L, q) = MergesOf(M, q)
       PROVE  Tier(L, c) = after[D \ {p}]
  <2> DEFINE D1 == Events(L, c)
             grant1 == [q \in D1 |-> Grant(L, q)]
             at1 == [q \in D1 |-> Rep(L, q)]
  <2>1. \A q \in D1 : grant1[q] = grant[q] /\ at1[q] = at[q]
    BY <1>1, <1>10 DEF Grant, Rep
  <2>2. PICK after1 : Tier(L, c) = after1[D1] /\ FoldOf(after1, D1, base, grant1, at1)
    BY <1>10, TierFold
  <2>3. D1 \in SUBSET D /\ D1 = D \ {p}
    BY <1>10
  <2> HIDE DEF D1, grant1, at1
  <2>4. after[D1] = after1[D1]
    BY <1>1, <1>2, <2>1, <2>2, <2>3, FoldsAgree
  <2> QED BY <2>2, <2>3, <2>4
<1>11. grant[p] = Grant(M, p) /\ Grant(M, p) \in Tiers /\ p \in Proposals
  BY <1>1, <1>5
<1> QED BY <1>8, <1>9, <1>10, <1>11 DEF D, base

LEMMA ConsoleGrants ==
    ASSUME NEW L \in Log, NEW p \in Proposals, Ask[p].tier # None,
           \E m \in MergesOf(L, p) : m.surface = "console"
    PROVE  Grant(L, p) = Ask[p].tier
<1> DEFINE S == {Ceiling(m.surface) : m \in MergesOf(L, p)}
           t == Ask[p].tier
<1>1. t \in Tiers
  BY FoldAssumption
<1>2. S \in SUBSET Tiers /\ HumanConfirmed \in S
  BY DEF Ceiling, Tiers, Unverified, HumanConfirmed, HostSigned
<1>3. Grant(L, p) = IF Ask[p].kind = "claim_demotion" THEN t ELSE Least(t, Max(S))
  BY DEF Grant
<1> HIDE DEF S, t
<1>4. Max(S) \in Tiers /\ HumanConfirmed <= Max(S)
  BY <1>2, MaxOfTiers
<1>5. Least(t, Max(S)) = t
  <2> DEFINE m == Max(S)
  <2>1. m \in Tiers /\ HumanConfirmed <= m
    BY <1>4
  <2> HIDE DEF m
  <2>2. Least(t, m) = t
    BY <2>1, <1>1 DEF Least, Tiers, Unverified, HumanConfirmed
  <2> QED BY <2>2 DEF m
<1> QED BY <1>3, <1>5 DEF t

(* A question accepted now, later than every verdict in the log, is the    *)
(* last on its claims.                                                     *)
LEMMA LaterActs ==
    ASSUME NEW L \in Log, IsFiniteSet(L.merges), NEW p \in L.opened,
           Ask[p].kind \in GateKinds, Passes(L, p), MergesOf(L, p) = {},
           NEW c \in Ask[p].targets
    PROVE  /\ Tier(L, c) \in Tiers /\ Ask[p].tier \in Tiers
           /\ Tier(Later(L, p), c) = Moved(Ask[p].kind, Tier(L, c), Ask[p].tier)
<1> DEFINE M == Later(L, p)
           t == 1 + Max({m.at : m \in L.merges} \cup {0})
           v == [proposal |-> p, surface |-> "console", at |-> t]
<1>1. p \in Proposals /\ Ask[p].tier # None /\ Ask[p].tier \in Tiers /\ c \in Held(L)
      /\ Ask[p].targets \subseteq Held(L) /\ Ask[p].targets # {}
  BY FoldAssumption DEF Log, Passes
<1>2. /\ M \in Log /\ Within(L, M) /\ t \in Nat
      /\ M.opened = L.opened /\ Held(M) = Held(L)
      /\ \A d : Base(M, d) = Base(L, d)
      /\ \A q : q # p => MergesOf(M, q) = MergesOf(L, q)
      /\ MergesOf(M, p) = {v}
      /\ \A m \in L.merges : m.at < t
  BY <1>1, LaterIs
<1>3. v.at = t /\ v.surface = "console"
  OBVIOUS
<1> HIDE DEF M, t, v
<1>4. Events(L, c) = Events(M, c) \ {p} /\ p \in Events(M, c) /\ p \notin Events(L, c)
  <2>1. Events(L, c) =
             {q \in L.opened : /\ Ask[q].kind \in GateKinds /\ c \in Ask[q].targets
                               /\ MergesOf(L, q) # {} /\ Ask[q].targets \subseteq Held(L)
                               /\ Ask[q].targets # {} /\ Ask[q].tier # None}
    BY EventsAre
  <2>2. Events(M, c) =
             {q \in M.opened : /\ Ask[q].kind \in GateKinds /\ c \in Ask[q].targets
                               /\ MergesOf(M, q) # {} /\ Ask[q].targets \subseteq Held(M)
                               /\ Ask[q].targets # {} /\ Ask[q].tier # None}
    BY <1>2, EventsAre
  <2> QED BY <2>1, <2>2, <1>1, <1>2
<1>5. ASSUME NEW q \in Events(M, c) \ {p}
      PROVE  Before(M, q, p)
  <2>1. q \in Events(L, c) /\ MergesOf(L, q) # {} /\ MergesOf(M, q) = MergesOf(L, q)
    BY <1>2, <1>4, EventsAre
  <2>2. Rep(M, q) \in {m.at : m \in MergesOf(L, q)} /\ Rep(M, q) \in Nat
    BY <1>2, <2>1, RepIs
  <2>3. Rep(M, q) < t
    BY <1>2, <2>2 DEF MergesOf
  <2>4. Rep(M, p) = t
    <3>1. Rep(M, p) \in {m.at : m \in MergesOf(M, p)}
      BY <1>2, RepIs
    <3> QED BY <3>1, <1>2, <1>3
  <2> QED BY <2>3, <2>4 DEF Before, Earlier
<1>6. c \in Held(M)
  BY <1>1, <1>2
<1>7. \A q \in Events(L, c) : MergesOf(L, q) = MergesOf(M, q)
  BY <1>2, <1>4
<1>8. Tier(M, c) = Moved(Ask[p].kind, Tier(L, c), Grant(M, p))
  BY <1>1, <1>2, <1>4, <1>5, <1>6, <1>7, LastActStands
<1>9. Grant(M, p) = Ask[p].tier
  BY <1>1, <1>2, <1>3, ConsoleGrants
<1>10. Tier(L, c) \in Tiers
  BY <1>1, TierIs
<1> QED BY <1>1, <1>8, <1>9, <1>10 DEF M

LEMMA MovedTwice ==
    ASSUME NEW k, NEW a \in Tiers, NEW b \in Tiers
    PROVE  Moved(k, Moved(k, a, b), b) = Moved(k, a, b)
BY DEF Moved, Most, Least, Tiers, Unverified, HumanConfirmed

LEMMA ConsoleCaps ==
    ASSUME NEW b \in Tiers
    PROVE  Least(b, Ceiling("console")) = b
BY DEF Least, Ceiling, Tiers, Unverified, HumanConfirmed

LEMMA OpenIsUncast ==
    ASSUME NEW L \in Log, NEW p \in Proposals, HasCommitEffect(Ask[p].kind), State(L, p) = "open"
    PROVE  MergesOf(L, p) = {}
BY MergedMeans DEF MergeCast

(* ---------------------------- settling twice --------------------------- *)

(* A merged gate act that still holds is the last on each claim it moves.  *)
LEMMA HoldingActs ==
    ASSUME NEW L \in Log, IsFiniteSet(L.merges), NEW p \in L.opened,
           Ask[p].kind \in GateKinds, State(L, p) = "merged", StillHolds(L, p),
           NEW c \in Ask[p].targets
    PROVE  Moved(Ask[p].kind, Tier(Later(L, p), c), Ask[p].tier) = Tier(Later(L, p), c)
<1> DEFINE M == Later(L, p)
           t == 1 + Max({m.at : m \in L.merges} \cup {0})
           v == [proposal |-> p, surface |-> "console", at |-> t]
<1>1. p \in Proposals /\ p \in Merged(L) /\ MergesOf(L, p) # {} /\ Passes(L, p)
  BY MergedMeans DEF Merged, Log, MergeCast
<1>2. Ask[p].tier # None /\ Ask[p].tier \in Tiers /\ c \in Held(L)
      /\ Ask[p].targets \subseteq Held(L) /\ Ask[p].targets # {}
  BY <1>1, FoldAssumption DEF Passes
<1>3. /\ M \in Log /\ Within(L, M) /\ t \in Nat
      /\ M.opened = L.opened /\ Held(M) = Held(L)
      /\ \A q : q # p => MergesOf(M, q) = MergesOf(L, q)
      /\ MergesOf(M, p) = MergesOf(L, p) \cup {v}
      /\ \A m \in L.merges : m.at < t
  BY <1>1, LaterIs
<1>4. v.at = t /\ v.surface = "console"
  OBVIOUS
<1> HIDE DEF M, t, v
<1>5. Events(M, c) = Events(L, c) /\ p \in Events(L, c)
  <2>1. Events(L, c) =
             {q \in L.opened : /\ Ask[q].kind \in GateKinds /\ c \in Ask[q].targets
                               /\ MergesOf(L, q) # {} /\ Ask[q].targets \subseteq Held(L)
                               /\ Ask[q].targets # {} /\ Ask[q].tier # None}
    BY EventsAre
  <2>2. Events(M, c) =
             {q \in M.opened : /\ Ask[q].kind \in GateKinds /\ c \in Ask[q].targets
                               /\ MergesOf(M, q) # {} /\ Ask[q].targets \subseteq Held(M)
                               /\ Ask[q].targets # {} /\ Ask[q].tier # None}
    BY <1>3, EventsAre
  <2>3. \A q : MergesOf(M, q) # {} <=> MergesOf(L, q) # {}
    BY <1>1, <1>3
  <2> QED BY <2>1, <2>2, <2>3, <1>1, <1>2, <1>3
<1>6. Rep(M, p) = Rep(L, p)
  <2> DEFINE S == {m.at : m \in MergesOf(L, p)}
             T == {m.at : m \in MergesOf(M, p)}
  <2>1. S \in SUBSET Nat /\ S # {} /\ T = S \cup {t}
    BY <1>1, <1>3, <1>4 DEF MergesOf, Log, Merge
  <2>2. \A n \in S : n < t
    BY <1>3 DEF MergesOf
  <2>3. Rep(M, p) = Min(T) /\ Rep(L, p) = Min(S)
    BY DEF Rep
  <2> HIDE DEF S, T
  <2>4. PICK n \in S : \A k \in S : n <= k
    BY <2>1, LeastOf
  <2>5. \A x \in S : (\A k \in S : x <= k) => x = n
    BY <2>1, <2>4
  <2>6. \A x \in T : (\A k \in T : x <= k) => x = n
    BY <2>1, <2>2, <2>4, <1>3
  <2>7. n \in T /\ \A k \in T : n <= k
    BY <2>1, <2>2, <2>4, <1>3
  <2>8. Min(S) = n
    BY <2>4, <2>5 DEF Min
  <2>9. Min(T) = n
    BY <2>6, <2>7 DEF Min
  <2> QED BY <2>3, <2>8, <2>9
<1>7. ASSUME NEW q \in Events(M, c) \ {p}
      PROVE  Before(M, q, p)
  <2>1. q \in Events(L, c) /\ ~Before(L, p, q) /\ MergesOf(M, q) = MergesOf(L, q)
    BY <1>1, <1>3, <1>5 DEF StillHolds, GateKinds
  <2>2. MergesOf(L, q) # {} /\ q \in Nat /\ p \in Nat /\ q # p
    BY <2>1, <1>1, EventsAre, FoldAssumption DEF Log
  <2>3. Rep(L, q) \in Nat /\ Rep(L, p) \in Nat /\ Rep(M, q) = Rep(L, q)
    BY <2>1, <2>2, <1>1, RepIs DEF Rep
  <2> QED BY <2>1, <2>2, <2>3, <1>6 DEF Before, Earlier
<1>8. PICK a \in Tiers : Tier(M, c) = Moved(Ask[p].kind, a, Grant(M, p))
  <2>1. c \in Held(M) /\ p \in Events(M, c)
    BY <1>2, <1>3, <1>5
  <2> QED BY <1>3, <1>7, <2>1, LastActStands
<1>9. Grant(M, p) = Ask[p].tier
  BY <1>1, <1>2, <1>3, <1>4, ConsoleGrants
<1>10. Moved(Ask[p].kind, Tier(M, c), Ask[p].tier) = Tier(M, c)
  BY <1>2, <1>8, <1>9, MovedTwice
<1> QED BY <1>10 DEF M

LEMMA InBySettle ==
    ASSUME Shape, [Next]_vars, NEW c \in Callers,
           call[c].at = "out", call'[c].at \in {"settling", "found"}
    PROVE  \E p \in Proposals : Settle(c, p)
<1>1. call \in [Callers -> Calls]
  BY DEF Shape
<1>2. ASSUME call' = call
      PROVE  FALSE
  BY <1>2
<1>3. ASSUME NEW d \in Callers, NEW r, call' = [call EXCEPT ![d] = r],
             d = c => r.at \notin {"settling", "found"}
      PROVE  FALSE
  BY <1>1, <1>3
<1>4. ASSUME NEW d \in Callers, NEW p \in Proposals, Settle(d, p)
      PROVE  d = c
  <2>1. PICK r : call' = [call EXCEPT ![d] = r]
    BY <1>4 DEF Settle
  <2> QED BY <1>3, <2>1
<1>5. ASSUME NEW d \in Callers, NEW p \in Proposals, NEW e \in Decisions, ReviewStart(d, p, e)
      PROVE  FALSE
  <2> DEFINE r == [at |-> "reviewing", proposal |-> p, decision |-> e, time |-> clock']
  <2>1. call' = [call EXCEPT ![d] = r] /\ r.at = "reviewing"
    BY <1>5 DEF ReviewStart
  <2> HIDE DEF r
  <2> QED BY <1>3, <2>1
<1>6. ASSUME NEW d \in Callers, Answered(d) \/ ReviewCommit(d)
      PROVE  FALSE
  <2>1. call' = [call EXCEPT ![d] = Idle]
    BY <1>6 DEF Answered, ReviewCommit
  <2> QED BY <1>3, <2>1, IdleIs
<1>7. ~UNCHANGED vars /\ (\A d \in Claims : ~Observe(d))
      /\ (\A L \in agenda.elsewhere : ~SyncAppend(L)) /\ ~Reproject
      /\ (\A p \in Proposals : ~Propose(p) /\ ~ProposeAnew(p))
  BY <1>2 DEF vars, Observe, SyncAppend, Reproject, Propose, ProposeAnew
<1> QED BY <1>4, <1>5, <1>6, <1>7 DEF Next

(* Confirm, Undo, Confirm: what a settle lands on is not superseded, so    *)
(* its verdict leaves every claim as it asks (Engine::propose_marked and   *)
(* Engine::still_holds, under one guard).                                  *)
THEOREM SettlesTakeEffect == Spec => SettleTakesEffect
<1>1. ASSUME Shape, Finite, [Next]_vars, NEW c \in Callers,
             call[c].at = "out", call'[c].at \in {"settling", "found"},
             Passes(Later(log', call'[c].proposal), call'[c].proposal),
             \/ call'[c].proposal \in log.opened
             \/ MergesOf(log, call'[c].proposal) = {},
             NEW t \in Ask[call'[c].proposal].targets
      PROVE  Moved(Ask[call'[c].proposal].kind,
                   Tier(Later(log', call'[c].proposal), t), Ask[call'[c].proposal].tier)
             = Tier(Later(log', call'[c].proposal), t)
  <2> DEFINE q == call'[c].proposal
             M == Later(log', q)
  <2>0. Shape' /\ Grows /\ Finite'
    BY <1>1, ShapeStep, FiniteStep
  <2>1. PICK p \in Proposals : Settle(c, p)
    BY <1>1, InBySettle
  <2>2. PICK r \in Askings(p) :
          /\ \/ AskAnew(p, r)
             \/ State(log, r) = "open" /\ r \in log.opened /\ log' = log
             \/ State(log, r) = "merged" /\ Lands(p, r) /\ r \in log.opened /\ log' = log
          /\ \/ call' = [call EXCEPT ![c] =
                    [at |-> "settling", proposal |-> r, decision |-> None, time |-> 0]]
             \/ call' = [call EXCEPT ![c] =
                    [at |-> "found", proposal |-> r, decision |-> None, time |-> 0]]
    BY <2>1 DEF Settle
  <2>3. q = r
    <3>1. call \in [Callers -> Calls]
      BY <1>1 DEF Shape
    <3>2. ASSUME NEW at, call' = [call EXCEPT ![c] =
                    [at |-> at, proposal |-> r, decision |-> None, time |-> 0]]
          PROVE  call'[c].proposal = r
      BY <3>1, <3>2
    <3> QED BY <2>2, <3>2
  <2>4. q \in Proposals /\ Ask[q].kind \in GateKinds
    BY <2>1, <2>3 DEF Settle, Askings
  <2> HIDE DEF q
  <2>5. log' \in Log /\ log \in Log /\ IsFiniteSet(log'.merges) /\ HasCommitEffect(Ask[q].kind)
    <3>1. HasCommitEffect(Ask[q].kind)
      BY <2>4 DEF GateKinds, HasCommitEffect
    <3> QED BY <2>0, <1>1, <3>1 DEF Grows, Shape, Finite
  <2>6. Passes(log', q)
    <3>1. Held(M) = Held(log')
      BY <2>4, <2>5, LaterIs
    <3>2. Passes(M, q)
      BY <1>1 DEF q
    <3> QED BY <3>1, <3>2, <2>4 DEF Passes, GateKinds
  <2>7. ASSUME q \in log'.opened, MergesOf(log', q) = {}
        PROVE  Moved(Ask[q].kind, Tier(M, t), Ask[q].tier) = Tier(M, t)
    <3>1. t \in Ask[q].targets
      BY DEF q
    <3>2. /\ Tier(log', t) \in Tiers /\ Ask[q].tier \in Tiers
          /\ Tier(M, t) = Moved(Ask[q].kind, Tier(log', t), Ask[q].tier)
      BY <2>4, <2>5, <2>6, <2>7, <3>1, LaterActs
    <3> QED BY <3>2, MovedTwice
  <2>8. CASE AskAnew(p, r)
    <3>1. q \notin log.opened /\ Write(Opened(q), {})
      BY <2>8, <2>3 DEF AskAnew
    <3>2. MergesOf(log, q) = {}
      BY <3>1, <1>1 DEF q
    <3>3. Opened(q) \in Log /\ Opened(q).merges = {} /\ q \in Opened(q).opened
      BY <2>4, Lines DEF Line
    <3>4. log'.merges = log.merges \cup Opened(q).merges
          /\ log'.opened = log.opened \cup Opened(q).opened
      BY <3>1, <3>3, <2>5, JoinFields DEF Write
    <3>5. q \in log'.opened /\ MergesOf(log', q) = {}
      BY <3>2, <3>3, <3>4 DEF MergesOf
    <3> QED BY <3>5, <2>7 DEF q
  <2>9. CASE State(log, r) = "open" /\ r \in log.opened /\ log' = log
    <3>1. q \in log'.opened /\ MergesOf(log', q) = {}
      BY <2>9, <2>3, <2>4, <2>5, OpenIsUncast
    <3> QED BY <3>1, <2>7 DEF q
  <2>10. CASE State(log, r) = "merged" /\ Lands(p, r) /\ r \in log.opened /\ log' = log
    <3>1. StillHolds(log, q) /\ q \in log.opened /\ State(log, q) = "merged" /\ t \in Ask[q].targets
      BY <2>10, <2>3 DEF Lands, q
    <3>2. IsFiniteSet(log.merges)
      BY <2>5, <2>10
    <3>3. Moved(Ask[q].kind, Tier(Later(log, q), t), Ask[q].tier) = Tier(Later(log, q), t)
      BY <3>1, <3>2, <2>4, <2>5, HoldingActs
    <3> QED BY <3>3, <2>10 DEF q
  <2> QED BY <2>2, <2>8, <2>9, <2>10
<1>2. Shape /\ Finite /\ [Next]_vars =>
        [\A c \in Callers : call[c].at = "out" /\ call'[c].at \in {"settling", "found"} =>
            LET p == call'[c].proposal
                L == Later(log', p)
            IN  Passes(L, p) /\ (p \in log.opened \/ MergesOf(log, p) = {}) =>
                    \A t \in Ask[p].targets :
                        Moved(Ask[p].kind, Tier(L, t), Ask[p].tier) = Tier(L, t)]_vars
  BY <1>1
<1> QED BY <1>2, ShapeHolds, FiniteHolds, PTL DEF Spec, SettleTakesEffect

(* ------------------------- a diff is its effect ------------------------ *)

(* A verdict merges the one it is on, and nothing else - but for a split   *)
(* that waits on it.                                                       *)
LEMMA LaterMerges ==
    ASSUME NEW L \in Log, IsFiniteSet(L.merges), NEW p \in L.opened,
           HasCommitEffect(Ask[p].kind), Passes(L, p), MergesOf(L, p) = {},
           Ask[p].kind = "entity_merge" =>
                \A q \in L.opened :
                    Ask[q].kind = "entity_split" /\ p \in Ask[q].targets => ~MergeCast(L, q)
    PROVE  Merged(Later(L, p)) = Merged(L) \cup {p} /\ p \notin Merged(L)
<1> DEFINE M == Later(L, p)
<1>1. /\ M \in Log /\ Within(L, M) /\ p \in Proposals
      /\ M.opened = L.opened /\ Held(M) = Held(L) /\ Asserted(M) = Asserted(L)
      /\ \A q : q # p => MergesOf(M, q) = MergesOf(L, q)
      /\ MergesOf(M, p) # {}
  <2>1. p \in Proposals
    BY DEF Log
  <2> QED BY <2>1, LaterIs
<1> HIDE DEF M
<1>2. p \in Merged(M)
  <2>1. MergeCast(M, p) /\ Passes(M, p)
    BY <1>1, WithinReads DEF MergeCast
  <2> QED BY <2>1, <1>1, MergedMeans
<1>3. ASSUME NEW q \in Merged(M), q # p
      PROVE  q \in Merged(L)
  <2>1. q \in L.opened /\ q \in Proposals /\ MergeCast(L, q) /\ Passes(M, q)
    BY <1>1, <1>3, MergedMeans DEF MergeCast, Log
  <2>2. Ask[q].kind = "entity_split" => Ask[q].targets \subseteq Decided(L)
    <3> SUFFICES ASSUME Ask[q].kind = "entity_split", NEW d \in Ask[q].targets
                 PROVE  d \in Decided(L)
      OBVIOUS
    <3>1. d \in Decided(M)
      BY <2>1 DEF Passes
    <3>2. d \in L.opened /\ Ask[d].kind = "entity_merge" /\ MergeCast(M, d)
      BY <3>1, <1>1 DEF Decided
    <3>3. d # p
      BY <2>1, <3>2
    <3>4. MergeCast(L, d)
      BY <1>1, <3>2, <3>3 DEF MergeCast
    <3> QED BY <3>2, <3>4 DEF Decided
  <2>3. Passes(L, q)
    BY <2>1, <2>2, <1>1 DEF Passes
  <2> QED BY <2>1, <2>3, MergedMeans
<1>4. Merged(L) \subseteq Merged(M)
  BY <1>1, MergedGrows
<1>5. p \notin Merged(L)
  BY MergedMeans DEF MergeCast
<1> QED BY <1>2, <1>3, <1>4, <1>5 DEF M

LEMMA SplitDiff ==
    ASSUME NEW L \in Log, IsFiniteSet(L.merges), NEW p \in L.opened,
           Ask[p].kind = "entity_split", State(L, p) = "open", Passes(L, p)
    PROVE  SplitPreview(L, p) = Forwarding(Later(L, p))
<1> DEFINE M == Later(L, p)
<1>1. Merged(M) = Merged(L) \cup {p}
  <2>1. HasCommitEffect(Ask[p].kind) /\ p \in Proposals
    BY DEF HasCommitEffect, Log
  <2>2. MergesOf(L, p) = {}
    BY <2>1, OpenIsUncast
  <2> QED BY <2>1, <2>2, LaterMerges
<1> HIDE DEF M
<1>2. Reversed(M) = Reversed(L) \cup Ask[p].targets
  BY <1>1 DEF Reversed
<1>3. Live(M, {}) = Live(L, Ask[p].targets)
  BY <1>1, <1>2 DEF Live
<1>4. Edges(M, {}) = Edges(L, Ask[p].targets)
  BY <1>3 DEF Edges
<1> QED BY <1>4 DEF SplitPreview, Forwarding, ForwardingLess, M

(* Chains of a map that is grown by edges off its chains run as before. *)
LEMMA ChainsKept ==
    ASSUME NEW f, NEW g, IsFiniteSet(DOMAIN f), IsFiniteSet(DOMAIN g),
           DOMAIN f \subseteq DOMAIN g, \A d \in DOMAIN f : g[d] = f[d],
           NEW e \in DOMAIN f, Hops(f, e)[Cardinality(DOMAIN f) + 1] \notin DOMAIN g
    PROVE  Hops(g, e)[Cardinality(DOMAIN g) + 1] = Hops(f, e)[Cardinality(DOMAIN f) + 1]
<1> DEFINE N == Cardinality(DOMAIN f)
           K == Cardinality(DOMAIN g)
           x == Hops(f, e)[N + 1]
<1>1. N \in Nat /\ K \in Nat /\ N <= K
  BY FS_CardinalityType, FS_Subset
<1> HIDE DEF N, K
<1>2. ASSUME NEW n \in Nat, n <= N + 1, Hops(f, e)[n] \notin DOMAIN f
      PROVE  Hops(f, e)[n] = x
  <2>1. N + 1 - n \in Nat /\ n + (N + 1 - n) = N + 1
    BY <1>1, <1>2
  <2> DEFINE k == N + 1 - n
  <2>2. k \in Nat /\ n + k = N + 1
    BY <2>1
  <2> HIDE DEF k
  <2>3. Hops(f, e)[n + k] = Hops(f, e)[n]
    BY <2>2, <1>2, HopsStay
  <2> QED BY <2>2, <2>3
<1>3. x \notin DOMAIN g
  BY DEF N
<1> HIDE DEF x
<1> DEFINE S == {n \in Nat : n <= N + 1 => Hops(g, e)[n] = Hops(f, e)[n]}
<1>4. S = Nat
  <2>1. S \in SUBSET Nat /\ 0 \in S
    BY HopsAre
  <2>2. ASSUME NEW n \in S
        PROVE  n + 1 \in S
    <3> SUFFICES ASSUME n + 1 <= N + 1 PROVE Hops(g, e)[n + 1] = Hops(f, e)[n + 1]
      OBVIOUS
    <3>1. n \in Nat /\ n <= N + 1
      BY <1>1
    <3>2. Hops(g, e)[n] = Hops(f, e)[n]
      BY <3>1
    <3>3. Step(g, Hops(f, e)[n]) = Step(f, Hops(f, e)[n])
      BY <3>1, <1>2, <1>3 DEF Step
    <3> QED BY <3>1, <3>2, <3>3, HopsAre
  <2> HIDE DEF S
  <2> QED BY <2>1, <2>2, Counting
<1>5. N + 1 \in Nat /\ Hops(g, e)[N + 1] = x
  <2>1. N + 1 \in S
    BY <1>1, <1>4
  <2> QED BY <2>1, <1>1 DEF x
<1> DEFINE k == K - N
           n1 == N + 1
<1>6. k \in Nat /\ n1 + k = K + 1 /\ n1 \in Nat /\ Hops(g, e)[n1] \notin DOMAIN g
  BY <1>1, <1>3, <1>5
<1> HIDE DEF k
<1>7. Hops(g, e)[n1 + k] = Hops(g, e)[n1]
  <2> HIDE DEF n1
  <2> QED BY <1>6, HopsStay
<1> QED BY <1>5, <1>6, <1>7 DEF x, K, N

LEMMA MaxOfOne ==
    ASSUME NEW p \in Nat
    PROVE  Max({p}) = p
BY DEF Max

LEMMA MergeDiff ==
    ASSUME NEW L \in Log, IsFiniteSet(L.merges), NEW p \in L.opened,
           Ask[p].kind = "entity_merge", State(L, p) = "open", Passes(L, p), Apart(L, p)
    PROVE  MergePreview(L, p) = Forwarding(Later(L, p))
<1> DEFINE M == Later(L, p)
           g == Edges(L, {})
           g1 == Edges(M, {})
           into == Ask[p].into
           folded == Ask[p].targets \ {into}
           by(t) == {q \in Live(L, {}) : t \in Ask[q].targets \ {Ask[q].into}}
           by1(t) == {q \in Live(M, {}) : t \in Ask[q].targets \ {Ask[q].into}}
<1>1. /\ p \in Proposals /\ p \in Nat /\ Ask[p].targets \subseteq Entities
      /\ into \in Ask[p].targets /\ HasCommitEffect(Ask[p].kind)
  BY FoldAssumption DEF Log, Passes, GateKinds, HasCommitEffect
<1>2. \A q \in L.opened :
        Ask[q].kind = "entity_split" /\ p \in Ask[q].targets => ~MergeCast(L, q)
  BY DEF Apart
<1>3. Merged(M) = Merged(L) \cup {p} /\ p \notin Merged(L)
  BY <1>1, <1>2, OpenIsUncast, LaterMerges
<1>4. Live(M, {}) = Live(L, {}) \cup {p}
  <2>1. Reversed(M) = Reversed(L)
    BY <1>3 DEF Reversed
  <2>2. p \notin Reversed(L)
    BY <1>2, MergedMeans DEF Reversed
  <2> QED BY <1>3, <2>1, <2>2 DEF Live
<1>5. /\ g = [t \in {e \in Entities : by(e) # {}} |-> Ask[Max(by(t))].into]
      /\ g1 = [t \in {e \in Entities : by1(e) # {}} |-> Ask[Max(by1(t))].into]
  BY DEF Edges
<1>6. /\ DOMAIN Forwarding(L) = DOMAIN g
      /\ \A e \in DOMAIN g : Forwarding(L)[e] = Hops(g, e)[Cardinality(DOMAIN g) + 1]
      /\ Forwarding(M) =
            [e \in DOMAIN g1 |-> Hops(g1, e)[Cardinality(DOMAIN g1) + 1]]
      /\ Forwarding(L) = [e \in DOMAIN g |-> Forwarding(L)[e]]
  BY DEF Forwarding, ForwardingLess, Resolved
<1>7. /\ Ask[p].targets \cap DOMAIN g = {} /\ Cycles(L) = {}
      /\ \A e \in DOMAIN g : Forwarding(L)[e] \notin folded
  BY <1>6 DEF Apart
<1>8. /\ \A t : t \notin folded => by1(t) = by(t)
      /\ \A t \in folded : by1(t) = by(t) \cup {p}
  BY <1>4
<1>9. /\ DOMAIN g1 = DOMAIN g \cup folded
      /\ \A t \in DOMAIN g : g1[t] = g[t]
      /\ \A t \in folded : g1[t] = into
  <2>0. DOMAIN g = {e \in Entities : by(e) # {}} /\ DOMAIN g1 = {e \in Entities : by1(e) # {}}
    BY <1>5
  <2>1. \A t \in folded : by(t) = {} /\ by1(t) = {p} /\ t \in Entities
    BY <2>0, <1>1, <1>7, <1>8
  <2>2. DOMAIN g1 = DOMAIN g \cup folded
    <3> HIDE DEF by, by1
    <3> QED BY <2>0, <2>1, <1>8
  <2>3. \A t \in DOMAIN g : t \notin folded /\ t \in DOMAIN g1
    BY <1>7, <2>2
  <2>4. \A t \in DOMAIN g : g1[t] = g[t]
    <3> HIDE DEF by, by1
    <3> QED BY <2>0, <2>3, <1>5, <1>8
  <2>5. \A t \in folded : g1[t] = into
    <3> SUFFICES ASSUME NEW t \in folded PROVE g1[t] = into
      OBVIOUS
    <3>1. t \in {e \in Entities : by1(e) # {}}
      BY <2>0, <2>2
    <3>2. g1[t] = Ask[Max(by1(t))].into
      <4> HIDE DEF by, by1
      <4> QED BY <1>5, <3>1
    <3>3. Max(by1(t)) = p
      BY <2>1, <1>1, MaxOfOne
    <3> QED BY <3>2, <3>3
  <2> QED BY <2>2, <2>4, <2>5
<1>10. IsFiniteSet(DOMAIN g) /\ IsFiniteSet(DOMAIN g1)
  <2>1. DOMAIN g \subseteq Entities /\ DOMAIN g1 \subseteq Entities
    BY <1>5
  <2> QED BY <2>1, FoldAssumption, FS_Subset
<1>11. Cycles(L) = {Orbit(g, e) : e \in {x \in DOMAIN g : x \in Orbit(g, x)}}
  BY DEF Cycles
<1> DEFINE K == Cardinality(DOMAIN g1)
<1>12. K \in Nat
  BY <1>10, FS_CardinalityType
<1>13. M = Later(L, p)
  OBVIOUS
<1> HIDE DEF M, g, g1, by, by1, K
<1>14. ASSUME NEW t \in folded
       PROVE  Hops(g1, t)[K + 1] = into
  <2>1. Hops(g1, t)[0] = t /\ Hops(g1, t)[0 + 1] = Step(g1, Hops(g1, t)[0])
    BY HopsAre
  <2>2. Hops(g1, t)[1] = into
    BY <2>1, <1>9 DEF Step
  <2>3. into \notin DOMAIN g1
    BY <1>1, <1>7, <1>9
  <2>4. Hops(g1, t)[1 + K] = Hops(g1, t)[1]
    BY <2>2, <2>3, <1>12, HopsStay
  <2>5. 1 + K = K + 1
    BY <1>12
  <2> QED BY <2>2, <2>4, <2>5
<1>15. ASSUME NEW e \in DOMAIN g
       PROVE  Hops(g1, e)[K + 1] = Forwarding(L)[e]
  <2> DEFINE x == Hops(g, e)[Cardinality(DOMAIN g) + 1]
  <2>1. x \notin DOMAIN g
    <3>1. x \in DOMAIN g => x \in Orbit(g, x)
      BY <1>10, ChainsEnd
    <3> HIDE DEF x
    <3> QED BY <3>1, <1>7, <1>11
  <2>2. x = Forwarding(L)[e]
    BY <1>6
  <2>3. x \notin DOMAIN g1
    BY <2>1, <2>2, <1>7, <1>9
  <2>4. Hops(g1, e)[K + 1] = x
    BY <2>3, <1>9, <1>10, ChainsKept DEF K
  <2> QED BY <2>2, <2>4
<1>16. MergePreview(L, p) =
         [e \in DOMAIN g \cup folded |-> IF e \in folded THEN into ELSE Forwarding(L)[e]]
  BY <1>6 DEF MergePreview
<1>17. Forwarding(M) = [e \in DOMAIN g \cup folded |-> Hops(g1, e)[K + 1]]
  BY <1>6, <1>9 DEF K
<1>18. MergePreview(L, p) = Forwarding(M)
  <2>1. \A e \in DOMAIN g \cup folded :
          Hops(g1, e)[K + 1] = IF e \in folded THEN into ELSE Forwarding(L)[e]
    BY <1>14, <1>15
  <2> HIDE DEF folded, into
  <2> QED BY <2>1, <1>16, <1>17
<1> QED BY <1>13, <1>18

(* The diff a reviewer reads before a verdict is what the verdict does,    *)
(* for every log: proposal_diff::diff against Engine::gate_fold and        *)
(* canonical::forwarding_map.                                              *)
THEOREM DiffsAreEffects == Spec => []DiffIsEffect
<1>1. ASSUME Shape, Finite, NEW p \in log.opened, State(log, p) = "open", Passes(log, p)
      PROVE  /\ Ask[p].kind \in GateKinds => \A c \in Ask[p].targets :
                GatePreview(log, p, c) = Tier(Later(log, p), c)
             /\ Ask[p].kind = "entity_split" => SplitPreview(log, p) = Forwarding(Later(log, p))
             /\ Ask[p].kind = "entity_merge" /\ Apart(log, p) =>
                    MergePreview(log, p) = Forwarding(Later(log, p))
  <2>1. log \in Log /\ IsFiniteSet(log.merges) /\ p \in Proposals
    BY <1>1 DEF Shape, Finite, Log
  <2>2. ASSUME Ask[p].kind \in GateKinds, NEW c \in Ask[p].targets
        PROVE  GatePreview(log, p, c) = Tier(Later(log, p), c)
    <3>1. MergesOf(log, p) = {}
      <4>1. HasCommitEffect(Ask[p].kind)
        BY <2>2 DEF GateKinds, HasCommitEffect
      <4> QED BY <4>1, <1>1, <2>1, OpenIsUncast
    <3>2. /\ Tier(Later(log, p), c) = Moved(Ask[p].kind, Tier(log, c), Ask[p].tier)
          /\ Ask[p].tier \in Tiers
      BY <1>1, <2>1, <2>2, <3>1, LaterActs
    <3>3. Least(Ask[p].tier, Ceiling("console")) = Ask[p].tier
      BY <3>2, ConsoleCaps
    <3> QED BY <3>2, <3>3 DEF GatePreview
  <2>3. Ask[p].kind = "entity_split" => SplitPreview(log, p) = Forwarding(Later(log, p))
    BY <1>1, <2>1, SplitDiff
  <2>4. Ask[p].kind = "entity_merge" /\ Apart(log, p) =>
            MergePreview(log, p) = Forwarding(Later(log, p))
    BY <1>1, <2>1, MergeDiff
  <2> QED BY <2>2, <2>3, <2>4
<1>2. Shape /\ Finite => DiffIsEffect
  BY <1>1 DEF DiffIsEffect
<1> QED BY <1>2, ShapeHolds, FiniteHolds, PTL
===============================================================================
