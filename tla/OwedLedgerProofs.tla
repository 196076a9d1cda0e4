--------------------------- MODULE OwedLedgerProofs ---------------------------
(* The projection ledger holds its promises for any observations, rows and *)
(* callers, and any number of crashes and failing store calls.             *)
EXTENDS OwedLedger, TLAPS

(* ---------------------- the inductive invariant ------------------------ *)

(* One section at a time, and none in a process that is not running; a     *)
(* process that runs has a store with the ledger.                          *)
GuardHeld ==
    /\ \A c \in Callers : section[c].at # "out" => guard = c
    /\ mode = "closed" => guard = None
    /\ mode # "closed" => ledger

(* The graph shows only what the log says. *)
GraphFromLog == \A r \in Rows : graph[r] \subseteq Fold(log, r)

(* The rows S of a fold show what the graph shows and what log L says. *)
Between(rows, L, S) ==
    \A r \in S : graph[r] \subseteq rows[r] /\ rows[r] \subseteq Fold(L, r)

(* The rows S of a fold show every attestation of o. *)
Shown(rows, o, S) ==
    \A r \in About[o] \cap S, a \in log[o] : <<o, a>> \in rows[r]

(* An observe is about to commit rows no older than the graph's, with its  *)
(* own attestation in them.                                                *)
ObserveInv(c) ==
    LET s == section[c]
    IN  s.at = "folded" =>
            /\ s.obs \in Obs /\ s.att \in Atts
            /\ Between(s.rows, Append1(log, s.obs, s.att), About[s.obs])
            /\ \A r \in About[s.obs] : <<s.obs, s.att>> \in s.rows[r]

(* A reproject's rows are no older than the graph's, and the entries it    *)
(* will clear are shown in full, except those appended to since.           *)
ReprojectInv(c) ==
    LET s == section[c]
    IN  /\ s.at = "entities" =>
            /\ Between(s.rows, log, Entities)
            /\ \A o \in s.owed \ overtaken : Shown(s.rows, o, Entities)
        /\ s.at = "relations" =>
            /\ Between(s.rows, log, Rows)
            /\ \A o \in s.owed \ overtaken : Shown(s.rows, o, Rows)
        /\ s.at = "put" =>
            \A o \in s.owed \ overtaken : Current(log, graph, o)

IInv ==
    /\ TypeOK /\ GuardHeld /\ GraphFromLog /\ LagIsOwed
    /\ \A c \in Callers : ObserveInv(c) /\ ReprojectInv(c)

(* ------------------------------- types --------------------------------- *)

Section == [at : Sections, obs : Obs \cup {None}, att : Atts \cup {None},
            owed : SUBSET Obs, rows : [Rows -> SUBSET Pairs]]

LEMMA OutType == Out \in Section
BY DEF Out, Section, Sections, NoRows

LEMMA FoldType ==
    \A L, r : Fold(L, r) \in SUBSET Pairs
BY DEF Fold, Pairs

LEMMA Append1Type ==
    ASSUME NEW L \in [Obs -> SUBSET Atts], NEW o \in Obs, NEW a \in Atts
    PROVE  /\ Append1(L, o, a) \in [Obs -> SUBSET Atts]
           /\ \A x \in Obs : Append1(L, o, a)[x] =
                                IF x = o THEN L[o] \cup {a} ELSE L[x]
BY DEF Append1

(* A fold of a log that says more shows more. *)
LEMMA FoldMonotone ==
    ASSUME NEW L, NEW M, \A o \in Obs : L[o] \subseteq M[o]
    PROVE  \A r : Fold(L, r) \subseteq Fold(M, r)
BY DEF Fold

LEMMA Append1Fold ==
    ASSUME NEW L \in [Obs -> SUBSET Atts], NEW o \in Obs, NEW a \in Atts
    PROVE  /\ \A r : Fold(L, r) \subseteq Fold(Append1(L, o, a), r)
           /\ \A r : r \in About[o] => <<o, a>> \in Fold(Append1(L, o, a), r)
<1>1. \A x \in Obs : Append1(L, o, a)[x] = IF x = o THEN L[o] \cup {a} ELSE L[x]
  BY Append1Type
<1>2. \A x \in Obs : L[x] \subseteq Append1(L, o, a)[x]
  BY <1>1
<1>3. a \in Append1(L, o, a)[o]
  BY <1>1
<1> QED BY <1>2, <1>3, FoldMonotone DEF Fold

LEMMA InitInv == Init => IInv
<1> SUFFICES ASSUME Init PROVE IInv
  OBVIOUS
<1>1. section = [c \in Callers |-> Out] /\ Out \in Section
  BY OutType DEF Init
<1>2. log \in [Obs -> SUBSET Atts] /\ GraphFromLog
      /\ graph \in [Rows -> SUBSET Pairs]
  <2>1. CASE log = [o \in Obs |-> {}] /\ graph = NoRows
    BY <2>1 DEF GraphFromLog, NoRows
  <2>2. CASE \E o \in Obs, a \in Atts :
              /\ log = Append1([x \in Obs |-> {}], o, a)
              /\ graph \in {[r \in Rows |-> IF r \in S THEN Fold(log, r) ELSE {}] :
                                S \in SUBSET Rows}
    <3> DEFINE empty == [x \in Obs |-> {}]
    <3>1. empty \in [Obs -> SUBSET Atts]
      OBVIOUS
    <3>2. log \in [Obs -> SUBSET Atts]
      <4>1. PICK o \in Obs, a \in Atts : log = Append1(empty, o, a)
        BY <2>2
      <4> HIDE DEF empty
      <4> QED BY <3>1, <4>1, Append1Type
    <3>3. PICK S \in SUBSET Rows :
             graph = [r \in Rows |-> IF r \in S THEN Fold(log, r) ELSE {}]
      BY <2>2
    <3> QED BY <3>2, <3>3, FoldType DEF GraphFromLog
  <2> QED BY <2>1, <2>2 DEF Init
<1>3. TypeOK
  BY <1>1, <1>2, OwedAssumption DEF Init, TypeOK, Section
<1>4. GuardHeld
  BY <1>1 DEF Init, GuardHeld, Out
<1>5. LagIsOwed
  <2> SUFFICES ASSUME ledger, NEW o \in Obs PROVE Current(log, graph, o)
    BY DEF LagIsOwed
  <2>1. log = [x \in Obs |-> {}]
    BY DEF Init
  <2> QED BY <2>1 DEF Current
<1>6. \A c \in Callers : ObserveInv(c) /\ ReprojectInv(c)
  BY <1>1 DEF ObserveInv, ReprojectInv, Out
<1> QED BY <1>2, <1>3, <1>4, <1>5, <1>6 DEF IInv

(* --------------------------- action by action -------------------------- *)

(* A step that leaves log, graph and owed alone and moves one section. *)
LEMMA SectionStep ==
    ASSUME IInv, NEW c \in Callers, NEW s \in Section,
           section' = [section EXCEPT ![c] = s],
           guard' \in {c, None}, guard \in {c, None},
           s.at # "out" => guard' = c,
           mode # "closed",
           UNCHANGED <<log, graph, owed, ledger, mode, overtaken>>,
           crashes' \in Nat, failures' \in Nat,
           ObserveInv(c)', ReprojectInv(c)'
    PROVE  IInv'
<1>1. section \in [Callers -> Section]
  BY DEF IInv, TypeOK, Section
<1>2. \A d \in Callers : section'[d] = IF d = c THEN s ELSE section[d]
  BY <1>1
<1>3. TypeOK'
  <2>1. section' \in [Callers -> Section]
    BY <1>1
  <2> QED BY <2>1 DEF IInv, TypeOK, Section
<1>4. GuardHeld'
  BY <1>2, OwedAssumption DEF IInv, GuardHeld
<1>5. GraphFromLog' /\ LagIsOwed'
  BY DEF IInv, GraphFromLog, LagIsOwed
<1>6. \A d \in Callers : ObserveInv(d)' /\ ReprojectInv(d)'
  BY <1>2 DEF IInv, ObserveInv, ReprojectInv, Between, Shown
<1> QED BY <1>3, <1>4, <1>5, <1>6 DEF IInv

LEMMA SectionFacts ==
    ASSUME IInv, NEW c \in Callers
    PROVE  /\ section[c] \in Section /\ log \in [Obs -> SUBSET Atts]
           /\ section[c].at # "out" => guard = c /\ mode # "closed"
           /\ ObserveInv(c) /\ ReprojectInv(c)
           /\ crashes \in Nat /\ failures \in Nat
           /\ section \in [Callers -> Section]
BY OwedAssumption DEF IInv, TypeOK, GuardHeld, Section

LEMMA ObserveFoldStep ==
    ASSUME IInv, NEW c \in Callers, NEW o \in Obs, NEW a \in Atts,
           ObserveFold(c, o, a)
    PROVE  IInv'
<1> DEFINE rows == [r \in Rows |-> IF r \in About[o]
                        THEN Fold(Append1(log, o, a), r) ELSE {}]
           s == [Out EXCEPT !.at = "folded", !.obs = o, !.att = a, !.rows = rows]
<1>0. log \in [Obs -> SUBSET Atts] /\ About[o] \subseteq Rows
  BY OwedAssumption DEF IInv, TypeOK
<1>1. rows \in [Rows -> SUBSET Pairs]
  BY FoldType
<1>2. /\ s \in Section /\ s.at = "folded" /\ s.obs = o /\ s.att = a
      /\ s.rows = rows
  <2> HIDE DEF rows
  <2> QED BY <1>1 DEF Out, Section, Sections
<1>3. section' = [section EXCEPT ![c] = s] /\ guard' = c /\ guard = None
      /\ mode # "closed"
      /\ UNCHANGED <<log, graph, owed, ledger, mode, overtaken, crashes, failures>>
  BY DEF ObserveFold, disk
<1>4. /\ Between(rows, Append1(log, o, a), About[o])
      /\ \A r \in About[o] : <<o, a>> \in rows[r]
  BY <1>0, Append1Fold DEF Between, IInv, GraphFromLog
<1> HIDE DEF rows, s
<1>5. section'[c] = s
  BY <1>3, SectionFacts
<1>6. ObserveInv(c)' /\ ReprojectInv(c)'
  BY <1>2, <1>3, <1>4, <1>5 DEF ObserveInv, ReprojectInv, Between
<1> QED BY <1>2, <1>3, <1>6, SectionStep, SectionFacts

LEMMA ReadOwedStep ==
    ASSUME IInv, NEW c \in Callers, ReadOwed(c)
    PROVE  IInv'
<1> DEFINE s == [Out EXCEPT !.at = "owed", !.owed = owed]
<1>1. s \in Section /\ s.at = "owed"
  BY OutType DEF Out, Section, Sections, IInv, TypeOK
<1>2. section' = [section EXCEPT ![c] = s] /\ guard' = c /\ guard = None
      /\ mode # "closed"
      /\ UNCHANGED <<log, graph, owed, ledger, mode, overtaken, crashes, failures>>
  BY DEF ReadOwed, disk
<1> HIDE DEF s
<1>3. section'[c] = s
  BY <1>2, SectionFacts
<1>4. ObserveInv(c)' /\ ReprojectInv(c)'
  BY <1>1, <1>3 DEF ObserveInv, ReprojectInv
<1> QED BY <1>1, <1>2, <1>4, SectionStep, SectionFacts

LEMMA FoldEntitiesStep ==
    ASSUME IInv, NEW c \in Callers, FoldEntities(c)
    PROVE  IInv'
<1> DEFINE rows == [r \in Rows |-> IF r \in Entities THEN Fold(log, r) ELSE {}]
           s == [section[c] EXCEPT !.at = "entities", !.rows = rows]
<1>0. section[c] \in Section /\ section[c].at = "owed" /\ guard = c
      /\ mode # "closed"
  BY SectionFacts DEF FoldEntities
<1>1. rows \in [Rows -> SUBSET Pairs]
  BY FoldType
<1>2. /\ s \in Section /\ s.at = "entities" /\ s.rows = rows
      /\ s.owed = section[c].owed
  <2> HIDE DEF rows
  <2> QED BY <1>0, <1>1 DEF Section, Sections
<1>3. section' = [section EXCEPT ![c] = s]
      /\ UNCHANGED <<log, graph, owed, ledger, mode, overtaken, crashes, failures>>
      /\ guard' = guard
  BY DEF FoldEntities, disk
<1>4. /\ Between(rows, log, Entities)
      /\ \A o \in Obs : Shown(rows, o, Entities)
  <2>1. \A r \in Entities : rows[r] = Fold(log, r) /\ graph[r] \subseteq Fold(log, r)
    BY DEF Rows, IInv, GraphFromLog
  <2>2. \A r, o : o \in Obs /\ r \in About[o]
            => \A a \in log[o] : <<o, a>> \in Fold(log, r)
    BY DEF IInv, TypeOK, Fold
  <2> HIDE DEF rows
  <2> QED BY <2>1, <2>2 DEF Between, Shown
<1> HIDE DEF rows, s
<1>5. section'[c] = s
  BY <1>3, SectionFacts
<1>6. ObserveInv(c)' /\ ReprojectInv(c)'
  BY <1>0, <1>2, <1>3, <1>4, <1>5 DEF ObserveInv, ReprojectInv, Between, Shown, Section
<1> QED BY <1>0, <1>2, <1>3, <1>6, SectionStep, SectionFacts

LEMMA FoldRelationsStep ==
    ASSUME IInv, NEW c \in Callers, FoldRelations(c)
    PROVE  IInv'
<1> DEFINE rows == [r \in Rows |-> IF r \in Relations THEN Fold(log, r)
                                   ELSE section[c].rows[r]]
           s == [section[c] EXCEPT !.at = "relations", !.rows = rows]
<1>0. /\ section[c] \in Section /\ section[c].at = "entities" /\ guard = c
      /\ mode # "closed"
      /\ Between(section[c].rows, log, Entities)
      /\ \A o \in section[c].owed \ overtaken : Shown(section[c].rows, o, Entities)
  BY SectionFacts DEF FoldRelations, ReprojectInv
<1>1. rows \in [Rows -> SUBSET Pairs]
  BY <1>0, FoldType DEF Section
<1>2. /\ s \in Section /\ s.at = "relations" /\ s.rows = rows
      /\ s.owed = section[c].owed
  <2> HIDE DEF rows
  <2> QED BY <1>0, <1>1 DEF Section, Sections
<1>3. section' = [section EXCEPT ![c] = s]
      /\ UNCHANGED <<log, graph, owed, ledger, mode, overtaken, crashes, failures>>
      /\ guard' = guard
  BY DEF FoldRelations, disk
<1>4. /\ Between(rows, log, Rows)
      /\ \A o \in section[c].owed \ overtaken : Shown(rows, o, Rows)
  <2>1. \A r \in Rows : \/ rows[r] = Fold(log, r) /\ graph[r] \subseteq Fold(log, r)
                        \/ r \in Entities /\ rows[r] = section[c].rows[r]
    BY DEF Rows, IInv, GraphFromLog
  <2>2. \A r, o : o \in Obs /\ r \in About[o]
            => \A a \in log[o] : <<o, a>> \in Fold(log, r)
    BY DEF IInv, TypeOK, Fold
  <2>3. section[c].owed \subseteq Obs
    BY <1>0 DEF Section
  <2> HIDE DEF rows
  <2> QED BY <1>0, <2>1, <2>2, <2>3 DEF Between, Shown
<1> HIDE DEF rows, s
<1>5. section'[c] = s
  BY <1>3, SectionFacts
<1>6. ObserveInv(c)' /\ ReprojectInv(c)'
  BY <1>0, <1>2, <1>3, <1>4, <1>5 DEF ObserveInv, ReprojectInv, Between, Shown
<1> QED BY <1>0, <1>2, <1>3, <1>6, SectionStep, SectionFacts

(* An observation the graph showed in full is still shown in full, once    *)
(* rows of one of its attestations are written that are no older.          *)
LEMMA CurrentKept ==
    ASSUME NEW o \in Obs, Current(log, graph, o), log'[o] = log[o],
           \A r \in About[o] : graph[r] \subseteq graph'[r]
    PROVE  Current(log', graph', o)
BY DEF Current

LEMMA CommitStep ==
    ASSUME IInv, NEW c \in Callers, CommitProjected(c)
    PROVE  IInv'
<1> DEFINE s == section[c]
<1>0. /\ s \in Section /\ s.at = "folded" /\ guard = c /\ mode # "closed"
      /\ s.obs \in Obs /\ s.att \in Atts
      /\ Between(s.rows, Append1(log, s.obs, s.att), About[s.obs])
      /\ \A r \in About[s.obs] : <<s.obs, s.att>> \in s.rows[r]
  BY SectionFacts DEF CommitProjected, ObserveInv
<1>1. /\ log' = Append1(log, s.obs, s.att)
      /\ graph' = [r \in Rows |-> IF r \in About[s.obs] THEN s.rows[r] ELSE graph[r]]
      /\ guard' = None
      /\ section' = [section EXCEPT ![c] = Out]
      /\ UNCHANGED <<owed, ledger, mode, crashes, failures, overtaken>>
  BY DEF CommitProjected
<1>2. /\ log \in [Obs -> SUBSET Atts]
      /\ section \in [Callers -> Section] /\ Out \in Section
      /\ graph \in [Rows -> SUBSET Pairs]
  BY SectionFacts, OutType DEF IInv, TypeOK
<1>3. \A o \in Obs : log'[o] = IF o = s.obs THEN log[o] \cup {s.att} ELSE log[o]
  <2> HIDE DEF s
  <2> QED BY <1>0, <1>1, <1>2 DEF Append1
<1>4. \A d \in Callers : section'[d].at = "out"
  BY <1>0, <1>1, <1>2, SectionFacts DEF Out
<1>5. TypeOK'
  <2>1. log' \in [Obs -> SUBSET Atts]
    BY <1>0, <1>1, <1>2, Append1Type
  <2>2. graph' \in [Rows -> SUBSET Pairs]
    BY <1>0, <1>1, <1>2 DEF Section
  <2>3. section' \in [Callers -> Section]
    BY <1>1, <1>2
  <2> QED BY <1>1, <2>1, <2>2, <2>3 DEF IInv, TypeOK, Section
<1>6. GuardHeld'
  BY <1>1, <1>4 DEF IInv, GuardHeld
<1>7. GraphFromLog'
  <2>1. \A r \in Rows : graph[r] \subseteq Fold(log', r)
    BY <1>0, <1>1, <1>2, Append1Fold DEF IInv, GraphFromLog
  <2> QED BY <1>0, <1>1, <2>1 DEF GraphFromLog, Between
<1>8. LagIsOwed'
  <2> SUFFICES ASSUME NEW o \in Obs, o \notin owed, o \notin overtaken
               PROVE  Current(log', graph', o)
    BY <1>1 DEF LagIsOwed
  <2>1. Current(log, graph, o) /\ About[o] \subseteq Rows
    BY <1>0, OwedAssumption DEF IInv, LagIsOwed, GuardHeld
  <2>2. \A r \in Rows : graph[r] \subseteq graph'[r]
    BY <1>0, <1>1 DEF Between
  <2>3. CASE o = s.obs
    <3> SUFFICES ASSUME NEW r \in About[o], NEW a \in log'[o]
                 PROVE  <<o, a>> \in graph'[r]
      BY DEF Current
    <3>1. CASE a \in log[o]
      BY <2>1, <2>2, <3>1 DEF Current
    <3>2. CASE a = s.att
      BY <1>0, <1>1, <2>1, <2>3, <3>2
    <3> QED BY <1>3, <2>3, <3>1, <3>2
  <2>4. CASE o # s.obs
    BY <1>3, <2>1, <2>2, <2>4 DEF Current
  <2> QED BY <2>3, <2>4
<1>9. \A d \in Callers : ObserveInv(d)' /\ ReprojectInv(d)'
  BY <1>4 DEF ObserveInv, ReprojectInv
<1> QED BY <1>5, <1>6, <1>7, <1>8, <1>9 DEF IInv

LEMMA AddObservationStep ==
    ASSUME IInv, NEW o \in Obs, NEW a \in Atts, AddObservation(o, a)
    PROVE  IInv'
<1>1. /\ log' = Append1(log, o, a) /\ owed' = owed \cup {o}
      /\ overtaken' = IF \E c \in Callers : o \in section[c].owed
                      THEN overtaken \cup {o} ELSE overtaken
      /\ UNCHANGED <<graph, ledger, mode, guard, section, crashes, failures>>
  BY DEF AddObservation
<1>2. log \in [Obs -> SUBSET Atts]
  BY DEF IInv, TypeOK
<1>3. /\ log' \in [Obs -> SUBSET Atts]
      /\ \A x \in Obs : log'[x] = IF x = o THEN log[o] \cup {a} ELSE log[x]
  BY <1>1, <1>2 DEF Append1
<1>a. \A r : Fold(log, r) \subseteq Fold(log', r)
  BY <1>1, <1>2, Append1Fold
<1>4. TypeOK'
  BY <1>1, <1>3 DEF IInv, TypeOK
<1>5. GuardHeld' /\ GraphFromLog'
  BY <1>1, <1>a DEF IInv, GuardHeld, GraphFromLog
<1>6. LagIsOwed'
  BY <1>1, <1>3 DEF IInv, LagIsOwed, Current
<1>7. ASSUME NEW c \in Callers
      PROVE  ObserveInv(c)'
  <2> DEFINE s == section[c]
  <2> SUFFICES ASSUME s.at = "folded"
               PROVE  /\ s.obs \in Obs /\ s.att \in Atts
                      /\ Between(s.rows, Append1(log', s.obs, s.att), About[s.obs])
                      /\ \A r \in About[s.obs] : <<s.obs, s.att>> \in s.rows[r]
    BY <1>1 DEF ObserveInv, Between
  <2>1. /\ s.obs \in Obs /\ s.att \in Atts
        /\ Between(s.rows, Append1(log, s.obs, s.att), About[s.obs])
        /\ \A r \in About[s.obs] : <<s.obs, s.att>> \in s.rows[r]
    BY DEF IInv, ObserveInv
  <2>2. \A x \in Obs :
          Append1(log, s.obs, s.att)[x] \subseteq Append1(log', s.obs, s.att)[x]
    <3> HIDE DEF s
    <3>1. \A x \in Obs : /\ Append1(log, s.obs, s.att)[x] =
                              IF x = s.obs THEN log[x] \cup {s.att} ELSE log[x]
                         /\ Append1(log', s.obs, s.att)[x] =
                              IF x = s.obs THEN log'[x] \cup {s.att} ELSE log'[x]
      BY <1>2, <1>3, <2>1 DEF Append1
    <3> QED BY <1>3, <3>1
  <2>3. \A r : Fold(Append1(log, s.obs, s.att), r)
                 \subseteq Fold(Append1(log', s.obs, s.att), r)
    BY <2>2, FoldMonotone
  <2> QED BY <2>1, <2>3 DEF Between
<1>8. ASSUME NEW c \in Callers
      PROVE  ReprojectInv(c)'
  <2>1. \A x \in section[c].owed \ overtaken' :
           x \in section[c].owed \ overtaken /\ x \in Obs /\ log'[x] = log[x]
    BY <1>1, <1>3, SectionFacts DEF Section
  <2>2. ReprojectInv(c)
    BY DEF IInv
  <2> QED BY <1>1, <1>a, <2>1, <2>2 DEF ReprojectInv, Between, Shown, Current
<1> QED BY <1>4, <1>5, <1>6, <1>7, <1>8 DEF IInv

LEMMA PutProjectionStep ==
    ASSUME IInv, NEW c \in Callers, PutProjection(c)
    PROVE  IInv'
<1> DEFINE rows == section[c].rows
           s == [section[c] EXCEPT !.at = "put"]
<1>0. /\ section[c] \in Section /\ section[c].at = "relations" /\ guard = c
      /\ mode # "closed"
      /\ Between(rows, log, Rows)
      /\ \A o \in section[c].owed \ overtaken : Shown(rows, o, Rows)
      /\ section \in [Callers -> Section]
  BY SectionFacts DEF PutProjection, ReprojectInv
<1>1. /\ s \in Section /\ s.at = "put" /\ s.owed = section[c].owed
      /\ rows \in [Rows -> SUBSET Pairs]
  BY <1>0 DEF Section, Sections
<1>2. /\ graph' = rows
      /\ section' = [section EXCEPT ![c] = s]
      /\ overtaken' = {o \in overtaken : ~Current(log, graph', o)}
      /\ UNCHANGED <<log, owed, ledger, mode, guard, crashes, failures>>
  BY DEF PutProjection
<1> HIDE DEF rows, s
<1>3. \A d \in Callers : section'[d] = IF d = c THEN s ELSE section[d]
  BY <1>0, <1>2
<1>4. \A r \in Rows : graph[r] \subseteq graph'[r] /\ graph'[r] \subseteq Fold(log, r)
  BY <1>0, <1>2 DEF Between
<1>5. \A o \in Obs : Current(log, graph, o) => Current(log, graph', o)
  BY <1>4, OwedAssumption DEF Current
<1>6. TypeOK'
  <2>1. section' \in [Callers -> Section]
    BY <1>0, <1>1, <1>2
  <2> QED BY <1>1, <1>2, <2>1 DEF IInv, TypeOK, Section
<1>7. GuardHeld'
  BY <1>0, <1>2, <1>3 DEF IInv, GuardHeld
<1>8. GraphFromLog'
  BY <1>2, <1>4 DEF GraphFromLog
<1>9. LagIsOwed'
  BY <1>2, <1>5 DEF IInv, LagIsOwed, TypeOK
<1>10. \A o \in section[c].owed \ overtaken' : Current(log, graph', o)
  <2> SUFFICES ASSUME NEW o \in section[c].owed, o \notin overtaken'
               PROVE  Current(log, graph', o)
    OBVIOUS
  <2>1. o \in Obs /\ About[o] \subseteq Rows
    BY <1>0, OwedAssumption DEF Section
  <2>2. CASE o \in overtaken
    BY <1>2, <2>2
  <2>3. CASE o \notin overtaken
    BY <1>0, <1>2, <2>1, <2>3 DEF Shown, Current
  <2> QED BY <2>2, <2>3
<1>11. ASSUME NEW d \in Callers
       PROVE  ObserveInv(d)' /\ ReprojectInv(d)'
  <2>1. CASE d = c
    BY <1>1, <1>2, <1>3, <1>10, <2>1 DEF ObserveInv, ReprojectInv
  <2>2. CASE d # c
    <3>1. section'[d].at = "out"
      BY <1>0, <1>3, <2>2 DEF IInv, GuardHeld
    <3> QED BY <3>1 DEF ObserveInv, ReprojectInv
  <2> QED BY <2>1, <2>2
<1> QED BY <1>6, <1>7, <1>8, <1>9, <1>11 DEF IInv

LEMMA ClearOwedStep ==
    ASSUME IInv, NEW c \in Callers, ClearOwed(c)
    PROVE  IInv'
<1>0. /\ section[c] \in Section /\ section[c].at = "put" /\ guard = c
      /\ \A o \in section[c].owed \ overtaken : Current(log, graph, o)
      /\ section \in [Callers -> Section] /\ Out \in Section
  BY SectionFacts, OutType DEF ClearOwed, ReprojectInv
<1>1. /\ owed' = owed \ section[c].owed
      /\ guard' = None
      /\ section' = [section EXCEPT ![c] = Out]
      /\ UNCHANGED <<log, graph, ledger, mode, crashes, failures, overtaken>>
  BY DEF ClearOwed
<1>2. \A d \in Callers : section'[d].at = "out"
  BY <1>0, <1>1 DEF IInv, GuardHeld, Out
<1>3. TypeOK'
  <2>1. section' \in [Callers -> Section]
    BY <1>0, <1>1
  <2> QED BY <1>1, <2>1 DEF IInv, TypeOK, Section
<1>4. GuardHeld' /\ GraphFromLog'
  BY <1>1, <1>2 DEF IInv, GuardHeld, GraphFromLog
<1>5. LagIsOwed'
  BY <1>0, <1>1 DEF IInv, LagIsOwed
<1>6. \A d \in Callers : ObserveInv(d)' /\ ReprojectInv(d)'
  BY <1>2 DEF ObserveInv, ReprojectInv
<1> QED BY <1>3, <1>4, <1>5, <1>6 DEF IInv

(* A failure or a crash ends sections and changes nothing on disk. *)
LEMMA EndStep ==
    ASSUME IInv, (\E c \in Callers : StoreFails(c)) \/ Crash
    PROVE  IInv'
<1>0. section \in [Callers -> Section] /\ Out \in Section
  BY OutType DEF IInv, TypeOK, Section
<1>1. CASE Crash
  <2>1. \A d \in Callers : section'[d].at = "out"
    BY <1>1 DEF Crash, Out
  <2>2. TypeOK'
    BY <1>0, <1>1 DEF Crash, disk, IInv, TypeOK, Section
  <2>3. GuardHeld' /\ GraphFromLog' /\ LagIsOwed'
    BY <1>1, <2>1 DEF Crash, disk, IInv, GuardHeld, GraphFromLog, LagIsOwed
  <2> QED BY <2>1, <2>2, <2>3 DEF IInv, ObserveInv, ReprojectInv
<1>2. ASSUME NEW c \in Callers, StoreFails(c)
      PROVE  IInv'
  <2>1. guard = c /\ \A d \in Callers : d # c => section[d].at = "out"
    BY <1>2, SectionFacts DEF StoreFails
  <2>2. section' = [section EXCEPT ![c] = Out] /\ Out.at = "out"
    BY <1>2 DEF StoreFails, Out
  <2>3. \A d \in Callers : section'[d].at = "out"
    BY <1>0, <2>1, <2>2
  <2>4. TypeOK'
    <3>1. section' \in [Callers -> Section]
      BY <1>0, <2>2
    <3>2. failures' \in Nat /\ mode' \in {"closed", "opening", "serving"}
      BY <1>2 DEF StoreFails, IInv, TypeOK
    <3> QED BY <1>2, <3>1, <3>2 DEF StoreFails, disk, IInv, TypeOK, Section
  <2>5. GuardHeld' /\ GraphFromLog' /\ LagIsOwed'
    BY <1>2, <2>3 DEF StoreFails, disk, IInv, GuardHeld, GraphFromLog, LagIsOwed
  <2> QED BY <2>3, <2>4, <2>5 DEF IInv, ObserveInv, ReprojectInv
<1> QED BY <1>1, <1>2

LEMMA OpenStep ==
    ASSUME IInv, Open \/ Serve
    PROVE  IInv'
<1>1. UNCHANGED <<log, graph, guard, section, crashes, failures, overtaken>>
      /\ ledger' = TRUE /\ mode' \in {"opening", "serving"} /\ owed' \in SUBSET Obs
      /\ owed \subseteq owed'
  BY DEF Open, Serve, disk, IInv, TypeOK, GuardHeld
<1>2. TypeOK'
  BY <1>1 DEF IInv, TypeOK
<1>3. GuardHeld' /\ GraphFromLog'
  BY <1>1 DEF IInv, GuardHeld, GraphFromLog
<1>4. LagIsOwed'
  <2>1. CASE ledger
    BY <1>1, <2>1 DEF IInv, LagIsOwed
  <2>2. CASE ~ledger
    <3>1. owed' = owed \cup {o \in Obs : log[o] # {}}
      BY <2>2 DEF Open, Serve, IInv, GuardHeld
    <3> QED BY <1>1, <3>1 DEF LagIsOwed, Current
  <2> QED BY <2>1, <2>2
<1>5. \A d \in Callers : ObserveInv(d)' /\ ReprojectInv(d)'
  BY <1>1 DEF IInv, ObserveInv, ReprojectInv, Between, Shown, Current
<1> QED BY <1>2, <1>3, <1>4, <1>5 DEF IInv

LEMMA InvStep ==
    ASSUME IInv, [Next]_vars
    PROVE  IInv'
<1>1. CASE UNCHANGED vars
  BY <1>1 DEF vars, disk, IInv, TypeOK, GuardHeld, GraphFromLog, LagIsOwed,
     ObserveInv, ReprojectInv, Between, Shown, Current
<1>2. CASE Next
  BY <1>2, ObserveFoldStep, CommitStep, AddObservationStep, ReadOwedStep,
     FoldEntitiesStep, FoldRelationsStep, PutProjectionStep, ClearOwedStep,
     EndStep, OpenStep DEF Next, Reproject
<1> QED BY <1>1, <1>2

THEOREM Invariant == Spec => []IInv
BY InitInv, InvStep, PTL DEF Spec

(* Every variable keeps its type. *)
THEOREM TypeCorrect == Spec => []TypeOK
BY Invariant, PTL DEF IInv

(* What the graph does not show of the log is owed, at every instant and   *)
(* after any crash or failed store call, an overtaken entry apart.         *)
THEOREM TheLagIsOwed == Spec => []LagIsOwed
BY Invariant, PTL DEF IInv

(* No committed projection is older than the one it replaces. *)
THEOREM TheGraphAdvances == Spec => GraphNeverGoesBack
<1>1. ASSUME IInv, [Next]_vars
      PROVE  [\A r \in Rows : graph[r] \subseteq graph'[r]]_vars
  <2> SUFFICES ASSUME NEW r \in Rows, graph'[r] # graph[r]
               PROVE  graph[r] \subseteq graph'[r]
    BY DEF vars, disk
  <2>1. PICK c \in Callers : CommitProjected(c) \/ PutProjection(c)
    BY <1>1 DEF Next, Reproject, ObserveFold, AddObservation, ReadOwed,
       FoldEntities, FoldRelations, ClearOwed, StoreFails, Crash, Open, Serve,
       vars, disk
  <2>2. ObserveInv(c) /\ ReprojectInv(c)
    BY <1>1 DEF IInv
  <2> QED BY <2>1, <2>2 DEF CommitProjected, PutProjection, ObserveInv,
             ReprojectInv, Between
<1> QED BY <1>1, Invariant, PTL DEF Spec, GraphNeverGoesBack

(* A process that begins to serve has a graph that shows everything its    *)
(* log holds, whatever an earlier process or release left behind.          *)
THEOREM TheServedIsCurrent == Spec => ServesCurrent
<1>1. ASSUME IInv, [Next]_vars
      PROVE  [mode = "opening" /\ mode' = "serving" =>
                 \A o \in Obs \ overtaken : Current(log, graph, o)]_vars
  <2> SUFFICES ASSUME mode = "opening", mode' = "serving"
               PROVE  \A o \in Obs \ overtaken : Current(log, graph, o)
    OBVIOUS
  <2>1. owed = {} /\ ledger
    BY <1>1 DEF Next, Reproject, ObserveFold, CommitProjected, AddObservation,
       ReadOwed, FoldEntities, FoldRelations, PutProjection, ClearOwed,
       StoreFails, Crash, Open, Serve, vars, disk, IInv, GuardHeld
  <2> QED BY <1>1, <2>1 DEF IInv, LagIsOwed
<1> QED BY <1>1, Invariant, PTL DEF Spec, ServesCurrent
===============================================================================
