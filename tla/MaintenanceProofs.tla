-------------------------- MODULE MaintenanceProofs ---------------------------
(***************************************************************************)
(* Re-keys, migrations, the daemon's writes and the backfill of vectors    *)
(* keep their promises for any texts, acts and claims, whatever is said,   *)
(* synced, stamped and merged while a command is stopped and run again.    *)
(*                                                                         *)
(* Each promise has an invariant of its own.  VectorInv and ServedInv say  *)
(* of every moment what is promised while serving.  JobInv is what a run   *)
(* of a command has seen to, SaidInv where an act may be found, ClaimsInv  *)
(* what a row holds of one claim; they need no more than the shapes of     *)
(* what they read, which MShape gives; with the shapes of the other parts  *)
(* that is the machine's TypeOK.                                           *)
(***************************************************************************)
EXTENDS MachineProofs, Iteration

(* ----------------------------- the vectors ---------------------------- *)

ProcShape == proc \in {"down", "serving", "tool"}

LEMMA ProcStep == ProcShape /\ [Next]_vars => ProcShape'
BY DEF ProcShape, Next, vars, Serve, Declines, Stop, Resets, ToolDone, ToolStops, Tool,
       TakesStore, LeavesStore

LEMMA ProcInvariant == Spec => []ProcShape
<1>1. Init => ProcShape
  BY DEF Init, ProcShape
<1> QED BY <1>1, ProcStep, PTL DEF Spec

(* Every vector is of the text its entity has now, and of the model the    *)
(* store records; and a process embeds with that model or with none, with  *)
(* one whenever a backfill is writing.                                     *)
Fits(es, by) ==
    /\ DOMAIN es = Spaces
    /\ \A s \in Spaces :
          /\ es[s] = [rows |-> es[s].rows, vector |-> es[s].vector]
          /\ es[s].vector # None => by # None /\ es[s].vector = Embedded(TextOf(es[s].rows), by)

VectorInv ==
    /\ Fits(entity, recorded)
    /\ embedder \in {None, recorded} /\ (proc = "down" => embedder = None)
    /\ embedding.at = "writing" => Serving /\ embedder # None

(* A projection keeps a vector where the text is what it was, and makes    *)
(* one with the model of the process otherwise, or none.                   *)
LEMMA ProjectFits ==
    ASSUME Fits(entity, recorded), NEW spaces, NEW by, Project(spaces, by),
           by # None => recorded' = by, recorded # None => recorded' = recorded
    PROVE  Fits(entity, recorded)'
<1>1. PICK works \in {FALSE, model /\ by # None} :
          entity' = [s \in Spaces |->
            LET text == TextOf(Rows(s)')
            IN  IF s \in spaces /\ Rows(s)' # {}
                THEN [rows |-> Rows(s)', vector |-> Vector(s, text, IF works THEN Embedded(text, by) ELSE None)]
                ELSE entity[s]]
  BY DEF Project
<1>2. works => by # None
  OBVIOUS
<1>3. DOMAIN entity' = Spaces
  BY <1>1
<1>4. ASSUME NEW s \in Spaces
      PROVE  /\ entity'[s] = [rows |-> entity'[s].rows, vector |-> entity'[s].vector]
             /\ entity'[s].vector # None =>
                    recorded' # None /\ entity'[s].vector = Embedded(TextOf(entity'[s].rows), recorded')
  <2>0. /\ entity[s] = [rows |-> entity[s].rows, vector |-> entity[s].vector]
        /\ entity[s].vector # None =>
              recorded # None /\ entity[s].vector = Embedded(TextOf(entity[s].rows), recorded)
    BY DEF Fits
  <2>1. CASE s \in spaces /\ Rows(s)' # {}
    <3> DEFINE rows == Rows(s)'
               text == TextOf(rows)
               fresh == IF works THEN Embedded(text, by) ELSE None
               vector == Vector(s, text, fresh)
    <3>1. entity'[s] = [rows |-> rows, vector |-> vector]
      BY <1>1, <2>1
    <3>2. fresh # None => recorded' # None /\ fresh = Embedded(text, recorded')
      BY <1>2
    <3>3. text = TextOf(rows)
      OBVIOUS
    <3> HIDE DEF rows, text, fresh
    <3>4. vector # None => recorded' # None /\ vector = Embedded(text, recorded')
      BY <2>0, <3>2 DEF Vector
    <3> HIDE DEF vector
    <3> QED BY <3>1, <3>3, <3>4
  <2>2. CASE ~(s \in spaces /\ Rows(s)' # {})
    <3>1. entity'[s] = entity[s]
      BY <1>1, <2>2
    <3> QED BY <2>0, <3>1
  <2> QED BY <2>1, <2>2
<1> QED BY <1>3, <1>4 DEF Fits

LEMMA OpenedFits ==
    ASSUME VectorInv, NEW m, Opened(m)
    PROVE  Fits(entity, recorded)' /\ embedder' \in {None, recorded'}
<1>1. Project(owed, m) /\ Opens(m) /\ recorded' = (IF m = None THEN recorded ELSE m) /\ embedder' = m
  BY DEF Opened
<1>2. (m # None => recorded' = m) /\ (recorded # None => recorded' = recorded)
  BY <1>1 DEF Opens
<1> QED BY <1>1, <1>2, ProjectFits DEF VectorInv

(* A backfill writes a vector under the guard, of the text it read there.  *)
LEMMA WriteFits ==
    ASSUME VectorInv, NEW s \in Spaces, BackfillWrite(s), UNCHANGED <<proc, recorded>>
    PROVE  VectorInv'
<1>1. /\ embedding.at = "writing" /\ embedder # None /\ embedder = recorded /\ Serving
      /\ UNCHANGED <<embedder, recorded>>
  BY DEF VectorInv, BackfillWrite, index
<1>2. Fits(entity, recorded)'
  <2>1. CASE entity[s].vector = None /\ TextOf(entity[s].rows) = embedding.texts[s]
    <3> DEFINE vector == Embedded(embedding.texts[s], embedder)
               new == [rows |-> entity[s].rows, vector |-> vector]
    <3>1. entity' = [entity EXCEPT ![s].vector = vector]
      BY <2>1 DEF BackfillWrite
    <3>2. vector = Embedded(TextOf(entity[s].rows), recorded)
      BY <1>1, <2>1
    <3> HIDE DEF vector
    <3>3. [entity[s] EXCEPT !.vector = vector] = new
      <4>1. entity[s] = [rows |-> entity[s].rows, vector |-> entity[s].vector]
        BY DEF VectorInv, Fits
      <4> QED BY <4>1
    <3>4. entity' = [entity EXCEPT ![s] = new]
      BY <3>1, <3>3
    <3>5. new.rows = entity[s].rows /\ new.vector = vector /\ new = [rows |-> new.rows, vector |-> new.vector]
      OBVIOUS
    <3> HIDE DEF new
    <3> QED BY <1>1, <3>2, <3>4, <3>5 DEF VectorInv, Fits
  <2>2. CASE ~(entity[s].vector = None /\ TextOf(entity[s].rows) = embedding.texts[s])
    <3>1. entity' = entity
      BY <2>2 DEF BackfillWrite
    <3> QED BY <1>1, <3>1 DEF VectorInv
  <2> QED BY <2>1, <2>2
<1>3. Serving'
  BY <1>1 DEF Serving
<1> QED BY <1>1, <1>2, <1>3 DEF VectorInv

LEMMA ResetFits ==
    ASSUME VectorInv, DInv, ProcShape, MReset, ~Held, proc' = proc
    PROVE  VectorInv'
<1>1. embedder = None
  BY DEF VectorInv, DInv, HolderInv, Holding, Held, ProcShape, Serving
<1>2. ASSUME NEW s \in Spaces
      PROVE  entity'[s].vector = None /\ entity'[s] = [rows |-> entity'[s].rows, vector |-> entity'[s].vector]
  <2>1. entity'[s] = [entity[s] EXCEPT !.vector = None]
    BY DEF MReset
  <2>2. entity[s] = [rows |-> entity[s].rows, vector |-> entity[s].vector]
    BY DEF VectorInv, Fits
  <2>3. entity'[s] = [rows |-> entity[s].rows, vector |-> None]
    BY <2>1, <2>2
  <2> QED BY <2>3
<1>3. Fits(entity, recorded)'
  BY <1>2 DEF Fits, MReset
<1> QED BY <1>1, <1>3 DEF VectorInv, MReset, Serving

LEMMA VectorStep == VectorInv /\ DInv /\ ProcShape /\ [Next]_vars => VectorInv'
<1> SUFFICES ASSUME VectorInv, DInv, ProcShape, [Next]_vars PROVE VectorInv'
  OBVIOUS
<1>1. ASSUME NEW d \in Daemons, Serve(d) PROVE VectorInv'
  <2>1. Opened(agenda.embeds[d]) /\ embedding' = [NotEmbedding EXCEPT !.at = "waiting"] /\ proc' = "serving"
    BY <1>1 DEF Serve, ServeOpens, TakesStore
  <2>2. embedding'.at = "waiting"
    BY <2>1 DEF NotEmbedding
  <2> QED BY <2>1, <2>2, OpenedFits DEF VectorInv
<1>2. ASSUME NEW does \in {"rekey", "migrate"}, Tool(does) PROVE VectorInv'
  <2>1. Opened(agenda.embeds["tool"]) /\ embedding' = NotEmbedding /\ proc' = "tool"
    BY <1>2 DEF Tool, ToolOpens, TakesStore
  <2>2. embedding'.at = "off"
    BY <2>1 DEF NotEmbedding
  <2> QED BY <2>1, <2>2, OpenedFits DEF VectorInv
<1>3. CASE ToolDone
  <2>1. embedder' = None /\ UNCHANGED <<embedding, recorded>> /\ proc = "tool"
    BY <1>3 DEF ToolDone, ToolEnds, LeavesStore
  <2>2. Fits(entity, recorded)'
    <3>1. CASE UNCHANGED entity
      BY <2>1, <3>1 DEF VectorInv
    <3>2. CASE \E target : Project({target}, embedder)
      BY <2>1, <3>2, ProjectFits DEF VectorInv
    <3> QED BY <1>3, <3>1, <3>2 DEF ToolDone, ToolEnds, LeavesStore
  <2>3. embedding.at # "writing"
    BY <2>1 DEF VectorInv, Serving
  <2> QED BY <2>1, <2>2, <2>3 DEF VectorInv
<1>4. CASE ToolStops \/ \E d \in Daemons : Stop(d)
  <2>1. MStop
    BY <1>4 DEF ToolStops, Stop, LeavesStore
  <2> QED BY <2>1 DEF MStop, VectorInv, NotEmbedding
<1>5. CASE \E d \in Doers : Resets(d)
  <2>1. CASE UNCHANGED <<proc, mvars>>
    BY <2>1 DEF VectorInv, mvars, index, Serving
  <2>2. CASE MReset /\ ~Held /\ proc' = proc
    BY <2>2, ResetFits
  <2> QED BY <1>5, <2>1, <2>2 DEF Resets
<1>6. CASE MNext /\ proc' = proc
  <2>1. ASSUME NEW s, Project({s}, embedder), UNCHANGED <<embedding, index>> PROVE VectorInv'
    <3>1. Fits(entity, recorded)'
      BY <2>1, ProjectFits DEF VectorInv, index
    <3> QED BY <1>6, <2>1, <3>1 DEF VectorInv, index, Serving
  <2>2. ASSUME UNCHANGED <<entity, embedding, embedder, recorded>> PROVE VectorInv'
    BY <1>6, <2>2 DEF VectorInv, Serving
  <2>3. CASE \/ \E id \in Ids, a \in Acts : Observe(id, a)
             \/ \E g \in agenda.gates : Gate(g[1], g[2], g[3])
             \/ \E s \in Spaces : Reproject(s)
    BY <2>1, <2>3 DEF Observe, Gate, Reproject
  <2>4. CASE \/ \E x \in agenda.elsewhere : SyncAppend(x[1], x[2])
             \/ \E s \in Spaces : Stamp(s)
             \/ \E id \in Ids : ToolCopies(id)
             \/ \E key \in job.carry : ToolCarries(key)
             \/ ModelComes
    BY <2>2, <2>4 DEF SyncAppend, Stamp, ToolCopies, ToolCarries, ModelComes, index
  <2>5. CASE BackfillFails
    BY <1>6, <2>5 DEF BackfillFails, VectorInv, NotEmbedding, index
  <2>6. CASE BackfillScan
    BY <1>6, <2>6 DEF BackfillScan, VectorInv, index, Serving
  <2>7. ASSUME NEW s \in Spaces, BackfillWrite(s) PROVE VectorInv'
    BY <1>6, <2>7, WriteFits DEF BackfillWrite, index
  <2> QED BY <1>6, <2>3, <2>4, <2>5, <2>6, <2>7 DEF MNext
<1>7. CASE UNCHANGED <<proc, mvars>>
  BY <1>7 DEF VectorInv, mvars, index, Serving
<1> QED BY <1>1, <1>2, <1>3, <1>4, <1>5, <1>6, <1>7 DEF Next, vars, Declines

LEMMA VectorInvariant == Spec => []VectorInv
<1>1. Init => VectorInv
  <2> SUFFICES ASSUME Init PROVE VectorInv
    OBVIOUS
  <2>1. Fits(entity, recorded)
    BY DEF Init, MInit, Fits
  <2> QED BY <2>1 DEF Init, MInit, VectorInv, NotEmbedding
<1> QED BY <1>1, VectorStep, ProcInvariant, LifecycleInvariant, PTL DEF Spec

(* An entity's vector is of its text and of the model the store records:   *)
(* a backfill that had read an older text finds another one under the      *)
(* guard and leaves it, a projection makes a vector anew where the text    *)
(* moves, and a reset finds nobody that embeds.                            *)
THEOREM NoVectorIsStale == Spec => []VectorsFit
<1>1. VectorInv => VectorsFit
  BY DEF VectorInv, Fits, VectorsFit
<1> QED BY <1>1, VectorInvariant, PTL

(* ------------------------------ the folds ----------------------------- *)

GateActs == [kind : GateKinds, grant : Tiers]
Best(hs) == Max({Evaluated(p) : p \in hs})

(* The tier after each number of gate acts, from a first one. *)
After(first, gs) ==
    LET after[n \in Nat] == IF n = 0 THEN first ELSE Moved(gs[n].kind, after[n - 1], gs[n].grant)
    IN  after

LEMMA AfterIs ==
    ASSUME NEW first, NEW gs
    PROVE  /\ After(first, gs)[0] = first
           /\ \A n \in Nat : After(first, gs)[n + 1]
                = Moved(gs[n + 1].kind, After(first, gs)[n], gs[n + 1].grant)
<1> DEFINE X == {first} \cup {gs[n].grant : n \in Nat}
           s == [n \in Nat |-> [x \in X |-> Moved(gs[n + 1].kind, x, gs[n + 1].grant)]]
           after == CHOOSE after : after =
               [n \in Nat |-> IF n = 0 THEN first ELSE Moved(gs[n].kind, after[n - 1], gs[n].grant)]
<1>1. s \in Steps(X) /\ first \in X
  <2>1. ASSUME NEW n \in Nat, NEW x \in X PROVE Moved(gs[n + 1].kind, x, gs[n + 1].grant) \in X
    BY DEF Moved, Least, Most
  <2>2. first \in X
    OBVIOUS
  <2> HIDE DEF X
  <2> QED BY <2>1, <2>2 DEF Steps
<1>2. \A n \in Nat, x \in X : s[n][x] = Moved(gs[n + 1].kind, x, gs[n + 1].grant)
  OBVIOUS
<1>3. PICK h \in [Nat -> X] : h[0] = first /\ \A n \in Nat : h[n + 1] = s[n][h[n]]
  <2> HIDE DEF X, s
  <2> QED BY <1>1, RecursionExists
<1>4. h = [n \in Nat |-> IF n = 0 THEN first ELSE Moved(gs[n].kind, h[n - 1], gs[n].grant)]
  <2>1. ASSUME NEW n \in Nat
        PROVE  h[n] = IF n = 0 THEN first ELSE Moved(gs[n].kind, h[n - 1], gs[n].grant)
    <3>1. CASE n = 0
      BY <1>3, <3>1
    <3>2. CASE n # 0
      <4>1. n - 1 \in Nat /\ n = (n - 1) + 1 /\ h[n - 1] \in X
        BY <3>2
      <4>2. h[n] = s[n - 1][h[n - 1]]
        BY <1>3, <4>1
      <4>3. s[n - 1][h[n - 1]] = Moved(gs[n].kind, h[n - 1], gs[n].grant)
        BY <1>2, <4>1
      <4> QED BY <3>2, <4>2, <4>3
    <3> QED BY <3>1, <3>2
  <2> HIDE DEF X
  <2> QED BY <2>1
<1>5. after = [n \in Nat |-> IF n = 0 THEN first ELSE Moved(gs[n].kind, after[n - 1], gs[n].grant)]
  BY <1>4
<1>6. After(first, gs) = after
  BY DEF After
<1> HIDE DEF after, X, s
<1>7. after[0] = first
  BY <1>5
<1>8. ASSUME NEW n \in Nat PROVE after[n + 1] = Moved(gs[n + 1].kind, after[n], gs[n + 1].grant)
  <2>1. n + 1 \in Nat /\ n + 1 # 0 /\ (n + 1) - 1 = n
    OBVIOUS
  <2>2. after[n + 1] = IF n + 1 = 0 THEN first ELSE Moved(gs[n + 1].kind, after[(n + 1) - 1], gs[n + 1].grant)
    BY <1>5, <2>1
  <2> QED BY <2>1, <2>2
<1> QED BY <1>6, <1>7, <1>8

LEMMA TierAfter == \A id : Tier(id) = After(Best(held[id]), gates[id])[Len(gates[id])]
BY DEF Tier, After, Best

LEMMA TierAfterNext == \A id : Tier(id)' = After(Best(held'[id]), gates'[id])[Len(gates'[id])]
BY DEF Tier, After, Best

LEMMA CopyIs ==
    ASSUME NEW p \in Att!Attestation
    PROVE  p.act \in Bases /\ p.act.act \in Acts /\ p.act.tier \in Tiers /\ Evaluated(p) \in Tiers
<1>1. p.act \in Bases
  BY DEF Att!Attestation, Att!Event, Att!Unstamped
<1>2. p.act.act \in Acts /\ p.act.tier \in Tiers
  BY <1>1 DEF Bases
<1> QED BY <1>1, <1>2 DEF Evaluated, Tiers, Least, HostSigned, Unverified, HumanConfirmed

LEMMA BestIs ==
    ASSUME NEW hs \in SUBSET Att!Attestation, hs # {}
    PROVE  /\ Best(hs) \in Tiers /\ \E p \in hs : Best(hs) = Evaluated(p)
           /\ \A p \in hs : Evaluated(p) <= Best(hs)
<1> DEFINE T == {Evaluated(p) : p \in hs}
<1>1. T \subseteq 0 .. 3 /\ T # {}
  BY CopyIs DEF Tiers, Unverified, HumanConfirmed
<1>2. \E x \in T : \A y \in T : x >= y
  <2> HIDE DEF T
  <2>1. CASE 3 \in T
    BY <1>1, <2>1
  <2>2. CASE 3 \notin T /\ 2 \in T
    BY <1>1, <2>2
  <2>3. CASE 3 \notin T /\ 2 \notin T /\ 1 \in T
    BY <1>1, <2>3
  <2>4. CASE 3 \notin T /\ 2 \notin T /\ 1 \notin T
    <3>1. \A y \in T : y = 0
      BY <1>1, <2>4
    <3>2. 0 \in T
      BY <1>1, <3>1
    <3> QED BY <3>1, <3>2
  <2> QED BY <2>1, <2>2, <2>3, <2>4
<1>3. Best(hs) = Max(T)
  BY DEF Best
<1>4. Max(T) \in T /\ \A y \in T : Max(T) >= y
  <2> HIDE DEF T
  <2> QED BY <1>2 DEF Max
<1>5. \A y \in T : y <= Max(T)
  <2> HIDE DEF T
  <2> QED BY <1>1, <1>4
<1>6. Best(hs) \in T /\ \A y \in T : y <= Best(hs)
  BY <1>3, <1>4, <1>5
<1>7. Best(hs) \in Tiers
  <2> HIDE DEF T
  <2> QED BY <1>1, <1>6 DEF Tiers, Unverified, HumanConfirmed
<1> QED BY <1>6, <1>7

LEMMA AfterType ==
    ASSUME NEW first \in Tiers, NEW gs \in Seq(GateActs)
    PROVE  After(first, gs)[Len(gs)] \in Tiers
<1> DEFINE T == {n \in Nat : n <= Len(gs) => After(first, gs)[n] \in Tiers}
<1>1. T \in SUBSET Nat /\ 0 \in T
  BY AfterIs
<1>2. ASSUME NEW n \in T PROVE n + 1 \in T
  <2> SUFFICES ASSUME n + 1 <= Len(gs) PROVE After(first, gs)[n + 1] \in Tiers
    OBVIOUS
  <2>1. n \in Nat /\ n <= Len(gs) /\ n + 1 \in 1 .. Len(gs) /\ Len(gs) \in Nat
    OBVIOUS
  <2>2. gs[n + 1] \in GateActs /\ After(first, gs)[n] \in Tiers
    BY <2>1
  <2>3. gs[n + 1].grant \in Tiers
    BY <2>2 DEF GateActs
  <2>4. After(first, gs)[n + 1] = Moved(gs[n + 1].kind, After(first, gs)[n], gs[n + 1].grant)
    BY <2>1, AfterIs
  <2> QED BY <2>2, <2>3, <2>4 DEF Moved, Least, Most
<1>3. T = Nat
  <2> HIDE DEF T
  <2> QED BY <1>1, <1>2, Counting
<1>4. Len(gs) \in Nat /\ Len(gs) \in T
  BY <1>3
<1> QED BY <1>4

(* ------------------------- rows, jobs and ledgers --------------------- *)

JobRec ==
    [does : {"nothing", "rekey", "migrate"}, todo : SUBSET Ids, carry : SUBSET (Ids \X Bases),
     wrote : BOOLEAN]

MShape ==
    /\ held \in [Ids -> SUBSET Att!Attestation] /\ derived \in [Ids -> SUBSET Ids]
    /\ gates \in [Ids -> Seq(GateActs)]
    /\ apps \subseteq Ids \X Bases /\ owed \subseteq Spaces /\ model \in BOOLEAN
    /\ job \in JobRec /\ embedding.at \in {"off", "waiting", "writing"}
    /\ embedding = [at |-> embedding.at, texts |-> embedding.texts]

LEMMA SuccessorIs ==
    ASSUME NEW does, NEW id \in Ids
    PROVE  /\ Successor(does, id) \in Ids /\ Successor(does, id).text = id.text
           /\ ~Successor(does, id).legacy
           /\ Successor(does, id).space = IF does = "rekey" THEN "to" ELSE id.space
<1> DEFINE space == IF does = "rekey" THEN "to" ELSE id.space
           no == FALSE
           heir == [text |-> id.text, space |-> space, legacy |-> no]
           one == [id EXCEPT !.legacy = no]
           two == [one EXCEPT !.space = IF does = "rekey" THEN "to" ELSE @]
<1>1. space \in Spaces
  BY DEF Ids, Spaces
<1>2. Successor(does, id) = two
  BY DEF Successor
<1>3. no \in BOOLEAN /\ ~no
  OBVIOUS
<1> HIDE DEF no
<1>4. one = [text |-> id.text, space |-> id.space, legacy |-> no]
  BY DEF Ids
<1> HIDE DEF one
<1>5. two = heir
  BY <1>4
<1>6. heir \in Ids /\ heir.text = id.text /\ heir.legacy = no /\ heir.space = space
  <2> HIDE DEF space
  <2> QED BY <1>1, <1>3 DEF Ids
<1> HIDE DEF two, heir
<1> QED BY <1>2, <1>3, <1>5, <1>6

LEMMA SourcesIs == \A does : Sources(does) \subseteq {id \in Ids : held[id] # {} /\ id.space = "from"}
BY DEF Sources, Live

LEMMA AbsorbIs == \A S, T : Att!Absorb(S, T) \subseteq S \cup T
BY DEF Att!Absorb, Att!Enriched

LEMMA UnstampedIs ==
    ASSUME NEW b \in Bases
    PROVE  /\ Att!Unstamped(b) \in Att!Attestation /\ Att!Unstamped(b).act = b
           /\ ~Att!IsStamped(Att!Unstamped(b))
BY DEF Att!Unstamped, Att!Attestation, Att!IsStamped

(* What an attestation is re-created as. *)
LEMMA RecreatedIs ==
    ASSUME MShape, NEW id \in Ids, NEW p \in held[id]
    PROVE  /\ Recreated(id, p) \in Att!Attestation /\ Recreated(id, p).act \in Bases
           /\ Recreated(id, p).act.act = p.act.act /\ ~Att!IsStamped(Recreated(id, p))
<1> DEFINE tier == IF gates[id] = <<>> THEN Evaluated(p) ELSE Least(Evaluated(p), Tier(id))
           b == [act |-> p.act.act, tier |-> tier]
<1>1. p \in Att!Attestation /\ held[id] \in SUBSET Att!Attestation /\ gates[id] \in Seq(GateActs)
  BY DEF MShape
<1>2. Tier(id) \in Tiers
  BY <1>1, BestIs, AfterType, TierAfter
<1>3. tier \in Tiers
  BY <1>1, <1>2, CopyIs DEF Least
<1> HIDE DEF tier
<1>4. b \in Bases /\ b.act = p.act.act
  BY <1>1, <1>3, CopyIs DEF Bases
<1>5. Recreated(id, p) = Att!Unstamped(b)
  BY DEF Recreated, tier
<1> HIDE DEF b
<1> QED BY <1>4, <1>5, UnstampedIs

LEMMA CarriedIs ==
    ASSUME MShape, NEW id \in Ids, NEW heir \in Ids
    PROVE  CarriedApps(id, heir) \subseteq {heir} \X Bases
<1> SUFFICES ASSUME NEW x \in CarriedApps(id, heir) PROVE x \in {heir} \X Bases
  OBVIOUS
<1>1. PICK p \in held[id] : x = <<heir, Recreated(id, p).act>>
  BY DEF CarriedApps
<1>2. Recreated(id, p).act \in Bases
  BY RecreatedIs
<1> QED BY <1>1, <1>2

LEMMA NoJobIs == NoJob \in JobRec /\ NoJob.todo = {} /\ NoJob.carry = {} /\ NoJob.does = "nothing"
BY DEF NoJob, JobRec

LEMMA ObserveShape == ASSUME MShape, NEW id \in Ids, NEW a \in Acts, Observe(id, a) PROVE MShape'
<1> DEFINE b == [act |-> a, tier |-> AgentExtracted]
           new == Att!Absorb(held[id], {Att!Unstamped(b)})
<1>1. b \in Bases
  BY DEF Bases, AgentExtracted, Tiers, Unverified, HumanConfirmed
<1> HIDE DEF b
<1>2. new \in SUBSET Att!Attestation
  BY <1>1, AbsorbIs, UnstampedIs DEF MShape
<1>3. held' = [held EXCEPT ![id] = new]
  BY DEF Observe, Row, b
<1> HIDE DEF new
<1>4. held' \in [Ids -> SUBSET Att!Attestation]
  BY <1>2, <1>3 DEF MShape
<1> QED BY <1>4 DEF MShape, Observe, index

LEMMA SyncShape ==
    ASSUME MShape, agenda \in Agendas, NEW x \in agenda.elsewhere, SyncAppend(x[1], x[2])
    PROVE  MShape'
<1>1. x[1] \in Ids /\ x[2] \in Att!Attestation
  BY MaintenanceAssumption
<1> DEFINE new == Att!Absorb(held[x[1]], {x[2]})
<1>2. new \in SUBSET Att!Attestation
  BY <1>1, AbsorbIs DEF MShape
<1>3. held' = [held EXCEPT ![x[1]] = new]
  BY DEF SyncAppend, Row
<1> HIDE DEF new
<1>4. held' \in [Ids -> SUBSET Att!Attestation]
  BY <1>2, <1>3 DEF MShape
<1>5. owed' \subseteq Spaces
  BY <1>1 DEF MShape, SyncAppend, Ids
<1> QED BY <1>4, <1>5 DEF MShape, SyncAppend, index

LEMMA StampedIs ==
    ASSUME NEW p \in Att!Attestation
    PROVE  /\ Att!Stamped(p.act, "here", 1) \in Att!Attestation
           /\ Att!Stamped(p.act, "here", 1).act = p.act
           /\ Att!IsStamped(Att!Stamped(p.act, "here", 1))
<1>1. p.act \in Bases
  BY CopyIs
<1> QED BY <1>1, MaintenanceAssumption DEF Att!Stamped, Att!Attestation, Att!Event, Att!IsStamped, Signers

LEMMA StampShape == ASSUME MShape, NEW s \in Spaces, Stamp(s) PROVE MShape'
<1>1. ASSUME NEW id \in Ids PROVE held'[id] \subseteq Att!Attestation
  <2> DEFINE own == {p \in held[id] : ~Att!IsStamped(p)}
             stamped == {Att!Stamped(p.act, "here", 1) : p \in own}
  <2>1. held'[id] = held[id] \/ held'[id] = Att!Absorb(held[id], stamped)
    BY DEF Stamp
  <2>2. held[id] \subseteq Att!Attestation /\ stamped \subseteq Att!Attestation
    BY StampedIs DEF MShape
  <2> HIDE DEF stamped
  <2> QED BY <2>1, <2>2, AbsorbIs
<1>2. held' \in [Ids -> SUBSET Att!Attestation]
  <2>1. held' = [id \in Ids |-> held'[id]]
    BY DEF Stamp
  <2> QED BY <1>1, <2>1
<1> QED BY <1>2 DEF MShape, Stamp, index

LEMMA GateShape ==
    ASSUME MShape, agenda \in Agendas, NEW g \in agenda.gates, Gate(g[1], g[2], g[3])
    PROVE  MShape'
<1> DEFINE new == [kind |-> g[2], grant |-> g[3]]
<1>1. g[1] \in Ids /\ g[2] \in GateKinds /\ g[3] \in Tiers
  BY MaintenanceAssumption
<1>2. new \in GateActs
  BY <1>1 DEF GateActs
<1>3. gates' = [gates EXCEPT ![g[1]] = Append(@, new)]
  BY DEF Gate
<1> HIDE DEF new
<1>4. gates' \in [Ids -> Seq(GateActs)]
  BY <1>1, <1>2, <1>3 DEF MShape
<1> QED BY <1>4 DEF MShape, Gate, index

LEMMA JobSet ==
    ASSUME NEW f \in JobRec, NEW id, NEW wrote \in BOOLEAN, NEW carry \in SUBSET (Ids \X Bases),
           job' = [f EXCEPT !.todo = @ \ {id}, !.wrote = @ \/ wrote, !.carry = carry]
    PROVE  /\ job' \in JobRec /\ job'.does = f.does /\ job'.todo = f.todo \ {id} /\ job'.carry = carry
<1> DEFINE new == [does |-> f.does, todo |-> f.todo \ {id}, carry |-> carry, wrote |-> f.wrote \/ wrote]
<1>1. job' = new
  BY DEF JobRec
<1>2. new \in JobRec
  BY DEF JobRec
<1>3. new.does = f.does /\ new.todo = f.todo \ {id} /\ new.carry = carry
  OBVIOUS
<1> HIDE DEF new
<1> QED BY <1>1, <1>2, <1>3

LEMMA CarrySet ==
    ASSUME NEW f \in JobRec, NEW key, job' = [f EXCEPT !.carry = @ \ {key}]
    PROVE  /\ job' \in JobRec /\ job'.does = f.does /\ job'.todo = f.todo /\ job'.carry = f.carry \ {key}
<1> DEFINE new == [does |-> f.does, todo |-> f.todo, carry |-> f.carry \ {key}, wrote |-> f.wrote]
<1>1. job' = new
  BY DEF JobRec
<1>2. new \in JobRec
  BY DEF JobRec
<1>3. new.does = f.does /\ new.todo = f.todo /\ new.carry = f.carry \ {key}
  OBVIOUS
<1> HIDE DEF new
<1> QED BY <1>1, <1>2, <1>3

(* What re-creating a row does, by its fields. *)
LEMMA CopiesIs ==
    ASSUME MShape, NEW id \in Ids, ToolCopies(id), NEW heir, heir = Successor(job.does, id)
    PROVE  /\ heir \in Ids /\ id \in job.todo /\ job.carry = {} /\ proc = "tool"
           /\ job' \in JobRec /\ job'.does = job.does /\ job'.todo = job.todo \ {id}
           /\ job'.carry = CarriedApps(id, heir)
           /\ \/ UNCHANGED <<held, derived, owed>>
              \/ /\ held' = [held EXCEPT ![heir] =
                                Att!Absorb(@, {Recreated(id, p) : p \in held[id]})]
                 /\ derived' = [derived EXCEPT ![heir] = @ \cup derived[id] \cup {id}]
                 /\ owed' = owed \cup {heir.space}
           /\ UNCHANGED <<gates, apps, entity, embedding, index>>
<1>0. heir \in Ids
  BY SuccessorIs
<1> DEFINE fresh == id \notin derived[heir]
           carry == CarriedApps(id, heir)
<1>1. job \in JobRec /\ fresh \in BOOLEAN /\ carry \in SUBSET (Ids \X Bases)
  BY <1>0, CarriedIs DEF MShape
<1>2. job' = [job EXCEPT !.todo = @ \ {id}, !.wrote = @ \/ fresh, !.carry = carry]
  BY DEF ToolCopies
<1> HIDE DEF fresh, carry
<1>3. job' \in JobRec /\ job'.does = job.does /\ job'.todo = job.todo \ {id} /\ job'.carry = carry
  BY <1>1, <1>2, JobSet
<1>4. \/ UNCHANGED <<held, derived, owed>>
      \/ /\ held' = [held EXCEPT ![heir] = Att!Absorb(@, {Recreated(id, p) : p \in held[id]})]
         /\ derived' = [derived EXCEPT ![heir] = @ \cup derived[id] \cup {id}]
         /\ owed' = owed \cup {heir.space}
  BY DEF ToolCopies, Row
<1>5. id \in job.todo /\ job.carry = {} /\ proc = "tool" /\ UNCHANGED <<gates, apps, entity, embedding, index>>
  BY DEF ToolCopies
<1> QED BY <1>0, <1>3, <1>4, <1>5 DEF carry

LEMMA CopiesShape == ASSUME MShape, NEW id \in Ids, ToolCopies(id) PROVE MShape'
<1> DEFINE heir == Successor(job.does, id)
           copies == {Recreated(id, p) : p \in held[id]}
           new == Att!Absorb(held[heir], copies)
<1>1. /\ heir \in Ids /\ job' \in JobRec /\ UNCHANGED <<gates, apps, entity, embedding, index>>
      /\ \/ UNCHANGED <<held, derived, owed>>
         \/ /\ held' = [held EXCEPT ![heir] = new]
            /\ derived' = [derived EXCEPT ![heir] = @ \cup derived[id] \cup {id}]
            /\ owed' = owed \cup {heir.space}
  <2> HIDE DEF heir
  <2>1. heir = Successor(job.does, id)
    BY DEF heir
  <2> QED BY <2>1, CopiesIs
<1>2. copies \subseteq Att!Attestation
  BY RecreatedIs
<1> HIDE DEF heir, copies
<1>3. new \in SUBSET Att!Attestation
  BY <1>1, <1>2, AbsorbIs DEF MShape
<1> HIDE DEF new
<1>4. held' \in [Ids -> SUBSET Att!Attestation]
  BY <1>1, <1>3 DEF MShape
<1>5. derived' \in [Ids -> SUBSET Ids]
  <2> DEFINE from == derived[heir] \cup derived[id] \cup {id}
  <2>1. from \in SUBSET Ids
    BY <1>1 DEF MShape
  <2>2. derived' = derived \/ derived' = [derived EXCEPT ![heir] = from]
    BY <1>1
  <2> HIDE DEF from
  <2> QED BY <1>1, <2>1, <2>2 DEF MShape
<1>6. owed' \subseteq Spaces
  BY <1>1 DEF MShape, Ids
<1> QED BY <1>1, <1>4, <1>5, <1>6 DEF MShape, index

LEMMA CarriesShape ==
    ASSUME MShape, NEW key \in job.carry, ToolCarries(key)
    PROVE  MShape' /\ job'.does = job.does /\ job'.todo = job.todo /\ job'.carry = job.carry \ {key}
<1>1. job \in JobRec /\ key \in Ids \X Bases
  BY DEF MShape, JobRec
<1>2. job' \in JobRec /\ job'.does = job.does /\ job'.todo = job.todo /\ job'.carry = job.carry \ {key}
  BY <1>1, CarrySet DEF ToolCarries
<1> QED BY <1>1, <1>2 DEF MShape, ToolCarries, index

LEMMA OpenedShape ==
    ASSUME MShape, NEW m, Opened(m)
    PROVE  /\ owed' = {} /\ UNCHANGED <<held, derived, gates, apps, model>>
BY DEF Opened

LEMMA MShapeStep == agenda \in Agendas /\ MShape /\ [Next]_vars => MShape'
<1> SUFFICES ASSUME agenda \in Agendas, MShape, [Next]_vars PROVE MShape'
  OBVIOUS
<1>1. ASSUME NEW d \in Daemons, Serve(d) PROVE MShape'
  <2>1. UNCHANGED job /\ embedding' = [NotEmbedding EXCEPT !.at = "waiting"]
    BY <1>1 DEF Serve, ServeOpens, TakesStore
  <2> QED BY <1>1, <2>1, OpenedShape DEF Serve, ServeOpens, MShape, NotEmbedding, TakesStore
<1>2. ASSUME NEW does \in {"rekey", "migrate"}, Tool(does) PROVE MShape'
  <2> DEFINE todo == Sources(does)
             new == [does |-> does, todo |-> todo, carry |-> {}, wrote |-> FALSE]
  <2>1. job' = new /\ embedding' = NotEmbedding
    BY <1>2 DEF Tool, ToolOpens, TakesStore
  <2>2. todo \in SUBSET Ids
    BY SourcesIs
  <2> HIDE DEF todo
  <2>3. new \in JobRec
    BY <2>2 DEF JobRec
  <2> HIDE DEF new
  <2>4. job' \in JobRec
    BY <2>1, <2>3
  <2>5. Opened(agenda.embeds["tool"])
    BY <1>2 DEF Tool, ToolOpens, TakesStore
  <2>6. owed' = {} /\ UNCHANGED <<held, derived, gates, apps, model>>
    BY <2>5, OpenedShape
  <2> QED BY <2>1, <2>4, <2>6 DEF MShape, NotEmbedding
<1>3. CASE ToolDone
  BY <1>3, NoJobIs DEF ToolDone, ToolEnds, MShape, LeavesStore
<1>4. CASE ToolStops \/ \E d \in Daemons : Stop(d)
  <2>1. MStop
    BY <1>4 DEF ToolStops, Stop, LeavesStore
  <2> QED BY <2>1, NoJobIs DEF MStop, MShape, NotEmbedding
<1>5. CASE \E d \in Doers : Resets(d)
  BY <1>5 DEF Resets, MReset, MShape, mvars, index
<1>6. CASE MNext
  <2>1. CASE \E id \in Ids, a \in Acts : Observe(id, a)
    BY <2>1, ObserveShape
  <2>2. CASE \E x \in agenda.elsewhere : SyncAppend(x[1], x[2])
    BY <2>2, SyncShape
  <2>3. CASE \E g \in agenda.gates : Gate(g[1], g[2], g[3])
    BY <2>3, GateShape
  <2>4. CASE \E s \in Spaces : Stamp(s)
    BY <2>4, StampShape
  <2>5. CASE \E s \in Spaces : Reproject(s) \/ BackfillWrite(s)
    <3>1. UNCHANGED <<held, derived, gates, apps, job, model>> /\ owed' \subseteq Spaces
      BY <2>5 DEF Reproject, BackfillWrite, MShape, index
    <3>2. CASE UNCHANGED embedding
      BY <3>1, <3>2 DEF MShape
    <3>3. CASE \E texts : embedding' = [embedding EXCEPT !.texts = texts]
      <4>1. PICK texts : embedding' = [embedding EXCEPT !.texts = texts]
        BY <3>3
      <4>2. embedding' = [at |-> embedding.at, texts |-> texts]
        BY <4>1 DEF MShape
      <4> QED BY <3>1, <4>2 DEF MShape
    <3> QED BY <2>5, <3>2, <3>3 DEF Reproject, BackfillWrite
  <2>6. CASE \E id \in Ids : ToolCopies(id)
    BY <2>6, CopiesShape
  <2>7. CASE \E key \in job.carry : ToolCarries(key)
    BY <2>7, CarriesShape
  <2>8. CASE ModelComes
    BY <2>8 DEF ModelComes, MShape
  <2>9. CASE BackfillScan \/ BackfillFails
    BY <2>9 DEF BackfillScan, BackfillFails, MShape, NotEmbedding, index
  <2> QED BY <1>6, <2>1, <2>2, <2>3, <2>4, <2>5, <2>6, <2>7, <2>8, <2>9 DEF MNext
<1>7. CASE UNCHANGED mvars
  BY <1>7 DEF MShape, mvars, index
<1> QED BY <1>1, <1>2, <1>3, <1>4, <1>5, <1>6, <1>7 DEF Next, vars, Declines

LEMMA MShapeInit == agenda \in Agendas /\ Init => MShape
<1> SUFFICES ASSUME agenda \in Agendas, Init PROVE MShape
  OBVIOUS
<1>1. agenda.held \subseteq Ids \X Att!Attestation
  BY MaintenanceAssumption
<1>2. \A x \in agenda.held : x[1] \in Ids /\ x[2] \in Att!Attestation /\ x[2].act \in Bases
  BY <1>1, CopyIs
<1>3. held \in [Ids -> SUBSET Att!Attestation]
  BY <1>2 DEF Init, MInit
<1>4. apps \subseteq Ids \X Bases
  BY <1>2 DEF Init, MInit
<1>5. gates \in [Ids -> Seq(GateActs)] /\ derived \in [Ids -> SUBSET Ids]
  BY DEF Init, MInit
<1> QED BY <1>3, <1>4, <1>5, NoJobIs DEF Init, MInit, MShape, NotEmbedding

LEMMA MShapeInvariant == Spec => []MShape
<1>1. Init => agenda \in Agendas /\ MShape
  BY MShapeInit DEF Init
<1> QED BY <1>1, MShapeStep, AgendaOne, PTL DEF Spec

(* --------------------------- what is served --------------------------- *)

(* What a workspace's rows are folded from is the workspace's own.         *)
LEMMA RowsStay ==
    ASSUME NEW s \in Spaces,
           \A id \in Ids : id.space = s =>
               held'[id] = held[id] /\ derived'[id] = derived[id] /\ gates'[id] = gates[id]
    PROVE  Rows(s)' = Rows(s)
<1>1. ASSUME NEW id \in Ids, id.space = s PROVE Tier(id)' = Tier(id)
  BY <1>1, TierAfter, TierAfterNext
<1>2. Live(s)' = Live(s)
  BY DEF Live
<1>3. \A id \in Live(s) : id \in Ids /\ id.space = s
  BY DEF Live
<1> QED BY <1>1, <1>2, <1>3 DEF Rows

(* What is served follows the log, or the workspace is owed. *)
Served(s) == s \in owed \/ Rows(s) = {} \/ entity[s].rows = Rows(s)
ServedInv == \A s \in Spaces : Served(s)

(* A projection settles what it folds, and leaves the rest as it was. *)
LEMMA ProjectServes ==
    ASSUME ServedInv, NEW spaces, NEW by, Project(spaces, by),
           \A s \in Spaces \ spaces : s \notin owed \ owed',
           \A s \in Spaces \ spaces : Rows(s)' = Rows(s)
    PROVE  ServedInv'
<1>1. PICK works \in {FALSE, model /\ by # None} :
          entity' = [s \in Spaces |->
            LET text == TextOf(Rows(s)')
            IN  IF s \in spaces /\ Rows(s)' # {}
                THEN [rows |-> Rows(s)', vector |-> Vector(s, text, IF works THEN Embedded(text, by) ELSE None)]
                ELSE entity[s]]
  BY DEF Project
<1>2. ASSUME NEW s \in Spaces PROVE Served(s)'
  <2>1. CASE s \in spaces /\ Rows(s)' # {}
    <3> DEFINE rows == Rows(s)'
               vector == Vector(s, TextOf(rows), IF works THEN Embedded(TextOf(rows), by) ELSE None)
    <3>1. entity'[s] = [rows |-> rows, vector |-> vector]
      BY <1>1, <2>1
    <3> HIDE DEF vector
    <3>2. entity'[s].rows = Rows(s)'
      BY <3>1
    <3> QED BY <3>2 DEF Served
  <2>2. CASE s \in spaces /\ Rows(s)' = {}
    BY <2>2 DEF Served
  <2>3. CASE s \notin spaces
    <3>1. entity'[s] = entity[s]
      BY <1>1, <2>3
    <3> QED BY <2>3, <3>1 DEF ServedInv, Served
  <2> QED BY <2>1, <2>2, <2>3
<1> QED BY <1>2 DEF ServedInv

(* A step that projects nothing owes every workspace whose rows it moves. *)
LEMMA OwedServes ==
    ASSUME ServedInv, owed \subseteq owed', \A s \in Spaces : entity'[s].rows = entity[s].rows,
           \A s \in Spaces \ owed' : Rows(s)' = Rows(s)
    PROVE  ServedInv'
BY DEF ServedInv, Served

LEMMA OpenedServes == ASSUME ServedInv, NEW m, Opened(m) PROVE ServedInv'
<1>1. /\ UNCHANGED <<held, derived, gates>> /\ Project(owed, m)
  BY DEF Opened
<1>2. \A s \in Spaces : Rows(s)' = Rows(s)
  BY <1>1, RowsStay
<1> QED BY <1>1, <1>2, ProjectServes

LEMMA ObserveServes == ASSUME ServedInv, MShape, NEW id \in Ids, NEW a \in Acts, Observe(id, a) PROVE ServedInv'
<1>1. /\ Project({id.space}, embedder) /\ UNCHANGED <<derived, gates, owed>>
      /\ \E new : held' = [held EXCEPT ![id] = new]
  BY DEF Observe, Row
<1>2. \A jd \in Ids \ {id} : held'[jd] = held[jd]
  BY <1>1 DEF MShape
<1>3. \A s \in Spaces \ {id.space} : Rows(s)' = Rows(s)
  BY <1>1, <1>2, RowsStay
<1> QED BY <1>1, <1>3, ProjectServes

LEMMA GateServes ==
    ASSUME ServedInv, MShape, NEW id \in Ids, NEW kind, NEW grant, Gate(id, kind, grant) PROVE ServedInv'
<1>1. /\ Project({id.space}, embedder) /\ UNCHANGED <<derived, held, owed>>
      /\ \E new : gates' = [gates EXCEPT ![id] = new]
  BY DEF Gate
<1>2. \A jd \in Ids \ {id} : gates'[jd] = gates[jd]
  BY <1>1 DEF MShape
<1>3. \A s \in Spaces \ {id.space} : Rows(s)' = Rows(s)
  BY <1>1, <1>2, RowsStay
<1> QED BY <1>1, <1>3, ProjectServes

LEMMA SyncServes ==
    ASSUME ServedInv, MShape, NEW id \in Ids, NEW p, SyncAppend(id, p) PROVE ServedInv'
<1>1. /\ UNCHANGED <<derived, gates, entity>> /\ owed' = owed \cup {id.space}
      /\ \E new : held' = [held EXCEPT ![id] = new]
  BY DEF SyncAppend, Row
<1>2. \A jd \in Ids \ {id} : held'[jd] = held[jd]
  BY <1>1 DEF MShape
<1>3. \A s \in Spaces \ owed' : Rows(s)' = Rows(s)
  BY <1>1, <1>2, RowsStay
<1> QED BY <1>1, <1>3, OwedServes

LEMMA StampServes == ASSUME ServedInv, MShape, NEW s \in Spaces, Stamp(s) PROVE ServedInv'
<1>1. UNCHANGED <<derived, gates, entity>> /\ owed' = owed \cup {s}
  BY DEF Stamp
<1>2. \A id \in Ids : id.space # s => held'[id] = held[id]
  BY DEF Stamp
<1>3. \A t \in Spaces \ owed' : Rows(t)' = Rows(t)
  BY <1>1, <1>2, RowsStay
<1> QED BY <1>1, <1>3, OwedServes

LEMMA CopiesServes == ASSUME ServedInv, MShape, NEW id \in Ids, ToolCopies(id) PROVE ServedInv'
<1> DEFINE heir == Successor(job.does, id)
           new == Att!Absorb(held[heir], {Recreated(id, p) : p \in held[id]})
           from == derived[heir] \cup derived[id] \cup {id}
<1>1. /\ heir \in Ids /\ UNCHANGED <<gates, apps, entity, embedding, index>>
      /\ \/ UNCHANGED <<held, derived, owed>>
         \/ /\ held' = [held EXCEPT ![heir] = new]
            /\ derived' = [derived EXCEPT ![heir] = from]
            /\ owed' = owed \cup {heir.space}
  <2> HIDE DEF heir
  <2>1. heir = Successor(job.does, id)
    BY DEF heir
  <2> QED BY <2>1, CopiesIs
<1> HIDE DEF heir, new, from
<1>2. CASE UNCHANGED <<held, derived, owed>>
  <2>1. \A s \in Spaces : Rows(s)' = Rows(s)
    BY <1>1, <1>2, RowsStay
  <2> QED BY <1>1, <1>2, <2>1, OwedServes
<1>3. CASE /\ held' = [held EXCEPT ![heir] = new]
           /\ derived' = [derived EXCEPT ![heir] = from]
           /\ owed' = owed \cup {heir.space}
  <2>1. \A jd \in Ids \ {heir} : held'[jd] = held[jd] /\ derived'[jd] = derived[jd] /\ gates'[jd] = gates[jd]
    BY <1>1, <1>3 DEF MShape
  <2>2. \A s \in Spaces \ owed' : Rows(s)' = Rows(s)
    BY <1>3, <2>1, RowsStay
  <2> QED BY <1>1, <1>3, <2>2, OwedServes
<1> QED BY <1>1, <1>2, <1>3

LEMMA ServedStep == ServedInv /\ MShape /\ VectorInv /\ agenda \in Agendas /\ [Next]_vars => ServedInv'
<1> SUFFICES ASSUME ServedInv, MShape, VectorInv, agenda \in Agendas, [Next]_vars PROVE ServedInv'
  OBVIOUS
<1>0. ASSUME UNCHANGED <<held, derived, gates, owed>>, \A s \in Spaces : entity'[s].rows = entity[s].rows
      PROVE  ServedInv'
  <2>1. \A s \in Spaces : Rows(s)' = Rows(s)
    BY <1>0, RowsStay
  <2> QED BY <1>0, <2>1, OwedServes
<1>1. CASE \E d \in Daemons : Serve(d)
  BY <1>1, OpenedServes DEF Serve, ServeOpens, TakesStore
<1>2. CASE \E does \in {"rekey", "migrate"} : Tool(does)
  BY <1>2, OpenedServes DEF Tool, ToolOpens, TakesStore
<1>3. CASE ToolDone
  <2>1. CASE UNCHANGED <<owed, entity>>
    BY <1>0, <1>3, <2>1 DEF ToolDone, ToolEnds, LeavesStore
  <2>2. ASSUME NEW target, owed' = owed \ {target}, Project({target}, embedder) PROVE ServedInv'
    <3>1. \A s \in Spaces : Rows(s)' = Rows(s)
      BY <1>3, RowsStay DEF ToolDone, ToolEnds, LeavesStore
    <3> QED BY <2>2, <3>1, ProjectServes
  <2> QED BY <1>3, <2>1, <2>2 DEF ToolDone, ToolEnds, LeavesStore
<1>4. CASE ToolStops \/ \E d \in Daemons : Stop(d)
  BY <1>0, <1>4 DEF ToolStops, Stop, MStop, LeavesStore
<1>5. CASE \E d \in Doers : Resets(d)
  <2>1. CASE UNCHANGED mvars
    BY <1>0, <2>1 DEF mvars
  <2>2. CASE MReset
    <3>1. ASSUME NEW s \in Spaces PROVE entity'[s].rows = entity[s].rows
      <4>1. entity'[s] = [entity[s] EXCEPT !.vector = None]
        BY <2>2 DEF MReset
      <4>2. entity[s] = [rows |-> entity[s].rows, vector |-> entity[s].vector]
        BY DEF VectorInv, Fits
      <4>3. entity'[s] = [rows |-> entity[s].rows, vector |-> None]
        BY <4>1, <4>2
      <4> QED BY <4>3
    <3> QED BY <1>0, <2>2, <3>1 DEF MReset
  <2> QED BY <1>5, <2>1, <2>2 DEF Resets
<1>6. CASE MNext
  <2>1. CASE \E id \in Ids, a \in Acts : Observe(id, a)
    BY <2>1, ObserveServes
  <2>2. CASE \E x \in agenda.elsewhere : SyncAppend(x[1], x[2])
    <3>1. \A x \in agenda.elsewhere : x[1] \in Ids
      BY MaintenanceAssumption
    <3> QED BY <2>2, <3>1, SyncServes
  <2>3. CASE \E g \in agenda.gates : Gate(g[1], g[2], g[3])
    <3>1. \A g \in agenda.gates : g[1] \in Ids
      BY MaintenanceAssumption
    <3> QED BY <2>3, <3>1, GateServes
  <2>4. CASE \E s \in Spaces : Stamp(s)
    BY <2>4, StampServes
  <2>5. ASSUME NEW s \in Spaces, Reproject(s) PROVE ServedInv'
    <3>1. UNCHANGED <<held, derived, gates>> /\ owed' = owed \ {s} /\ Project({s}, embedder)
      BY <2>5 DEF Reproject
    <3>2. \A t \in Spaces : Rows(t)' = Rows(t)
      BY <3>1, RowsStay
    <3> QED BY <3>1, <3>2, ProjectServes
  <2>6. CASE \E id \in Ids : ToolCopies(id)
    BY <2>6, CopiesServes
  <2>7. CASE \/ \E key \in job.carry : ToolCarries(key)
             \/ ModelComes \/ BackfillScan \/ BackfillFails
    BY <1>0, <2>7 DEF ToolCarries, ModelComes, BackfillScan, BackfillFails
  <2>8. ASSUME NEW s \in Spaces, BackfillWrite(s) PROVE ServedInv'
    <3>1. \A t \in Spaces : entity'[t].rows = entity[t].rows
      <4>1. CASE entity' = entity
        BY <4>1
      <4>2. ASSUME NEW vector, entity' = [entity EXCEPT ![s].vector = vector]
            PROVE  \A t \in Spaces : entity'[t].rows = entity[t].rows
        <5>1. /\ entity[s] = [rows |-> entity[s].rows, vector |-> entity[s].vector]
              /\ DOMAIN entity = Spaces
          BY DEF VectorInv, Fits
        <5> DEFINE new == [rows |-> entity[s].rows, vector |-> vector]
        <5>2. [entity[s] EXCEPT !.vector = vector] = new /\ new.rows = entity[s].rows
          BY <5>1
        <5>3. entity' = [entity EXCEPT ![s] = new]
          BY <4>2, <5>2
        <5> HIDE DEF new
        <5> QED BY <5>1, <5>2, <5>3
      <4> QED BY <2>8, <4>1, <4>2 DEF BackfillWrite
    <3> QED BY <1>0, <2>8, <3>1 DEF BackfillWrite
  <2> QED BY <1>6, <2>1, <2>2, <2>3, <2>4, <2>5, <2>6, <2>7, <2>8 DEF MNext
<1>7. CASE UNCHANGED mvars
  BY <1>0, <1>7 DEF mvars
<1> QED BY <1>1, <1>2, <1>3, <1>4, <1>5, <1>6, <1>7 DEF Next, vars, Declines

LEMMA ServedInvariant == Spec => []ServedInv
<1>1. Init => ServedInv
  BY DEF Init, MInit, ServedInv, Served
<1> QED BY <1>1, ServedStep, MShapeInvariant, VectorInvariant, AgendaOne, PTL DEF Spec

(* What is served is what the log folds to, or the workspace is owed: a    *)
(* write projects what it touches or owes it, a command owes each row it   *)
(* re-creates in the write that does, and what a stopped process owed is   *)
(* repaid by the next before it does anything else.                        *)
THEOREM ServedOrOwed == Spec => []ServedAsLogged
<1>1. ServedInv => ServedAsLogged
  BY DEF ServedInv, Served, ServedAsLogged
<1> QED BY <1>1, ServedInvariant, PTL

(* ------------------------- what a command carries --------------------- *)

(* Where a command writes, which is never where it reads. *)
Target(does, id) == IF does = "rekey" THEN id.space = "to" ELSE ~id.legacy

(* What has been re-created has its apps, or they are what is carried now. *)
Follows(does) ==
    /\ job.todo \subseteq Sources(does)
    /\ \A key \in job.carry : Target(does, key[1])
    /\ \A id \in Sources(does) \ job.todo : CarriedApps(id, Successor(does, id)) \subseteq apps \cup job.carry

JobInv ==
    /\ proc # "tool" => job = NoJob
    /\ proc = "tool" =>
          /\ job.does # "nothing"
          /\ \A does \in {"rekey", "migrate"} : job.does = does => Follows(does)

LEMMA SourcesRead == \A does : \A id \in Sources(does) : id \in Ids /\ ~Target(does, id)
BY DEF Sources, Live, Target

LEMMA SourcesStay ==
    ASSUME NEW does,
           \A id \in Ids : ~Target(does, id) => held'[id] = held[id] /\ derived'[id] = derived[id]
    PROVE  Sources(does)' = Sources(does)
<1>1. CASE does = "rekey"
  <2>1. \A id \in Ids : id.space = "from" => held'[id] = held[id] /\ derived'[id] = derived[id]
    BY <1>1 DEF Target
  <2>2. Live("from")' = Live("from")
    BY <2>1 DEF Live
  <2> QED BY <1>1, <2>2 DEF Sources
<1>2. CASE does # "rekey"
  BY <1>2 DEF Sources, Target
<1> QED BY <1>1, <1>2

LEMMA CarriedStay ==
    ASSUME NEW id \in Ids, NEW heir, held'[id] = held[id], gates'[id] = gates[id],
           \A b : <<id, b>> \in apps' <=> <<id, b>> \in apps
    PROVE  CarriedApps(id, heir)' = CarriedApps(id, heir)
<1>1. Tier(id)' = Tier(id)
  BY TierAfter, TierAfterNext
<1>2. \A p : Recreated(id, p)' = Recreated(id, p)
  BY <1>1 DEF Recreated
<1> QED BY <1>2 DEF CarriedApps

(* A step that leaves alone what a command reads. *)
LEMMA CarriesOn ==
    ASSUME NEW does \in {"rekey", "migrate"}, UNCHANGED gates,
           \A id \in Ids : ~Target(does, id) =>
               /\ held'[id] = held[id] /\ derived'[id] = derived[id]
               /\ \A b : <<id, b>> \in apps' <=> <<id, b>> \in apps
    PROVE  /\ Sources(does)' = Sources(does)
           /\ \A id \in Sources(does) :
                 CarriedApps(id, Successor(does, id))' = CarriedApps(id, Successor(does, id))
<1>1. Sources(does)' = Sources(does)
  BY SourcesStay
<1>2. ASSUME NEW id \in Sources(does), NEW heir
      PROVE  CarriedApps(id, heir)' = CarriedApps(id, heir)
  <2>1. id \in Ids /\ ~Target(does, id)
    BY SourcesRead
  <2> QED BY <2>1, CarriedStay
<1>3. ASSUME NEW id \in Sources(does)
      PROVE  CarriedApps(id, Successor(does, id))' = CarriedApps(id, Successor(does, id))
  <2> DEFINE heir == Successor(does, id)
  <2>1. CarriedApps(id, heir)' = CarriedApps(id, heir)
    BY <1>2
  <2> QED BY <2>1
<1> QED BY <1>1, <1>3

LEMMA CopiesFollow ==
    ASSUME MShape, NEW does \in {"rekey", "migrate"}, job.does = does, Follows(does),
           NEW id \in Ids, ToolCopies(id)
    PROVE  job'.does = does /\ Follows(does)'
<1> DEFINE heir == Successor(does, id)
           new == Att!Absorb(held[heir], {Recreated(id, p) : p \in held[id]})
           from == derived[heir] \cup derived[id] \cup {id}
<1>1. /\ heir \in Ids /\ id \in job.todo /\ job.carry = {}
      /\ job'.does = does /\ job'.todo = job.todo \ {id} /\ job'.carry = CarriedApps(id, heir)
      /\ UNCHANGED <<gates, apps, entity, embedding, index>>
      /\ \/ UNCHANGED <<held, derived, owed>>
         \/ held' = [held EXCEPT ![heir] = new] /\ derived' = [derived EXCEPT ![heir] = from]
  <2> HIDE DEF heir
  <2>1. heir = Successor(job.does, id)
    BY DEF heir
  <2> QED BY <2>1, CopiesIs
<1>2. Target(does, heir) /\ heir = Successor(does, id)
  BY SuccessorIs DEF Target
<1> HIDE DEF heir, new, from
<1>3. \A jd \in Ids \ {heir} : held'[jd] = held[jd] /\ derived'[jd] = derived[jd]
  BY <1>1 DEF MShape
<1>4. \A jd \in Ids : ~Target(does, jd) =>
          /\ held'[jd] = held[jd] /\ derived'[jd] = derived[jd]
          /\ \A b : <<jd, b>> \in apps' <=> <<jd, b>> \in apps
  BY <1>1, <1>2, <1>3
<1>5. /\ Sources(does)' = Sources(does)
      /\ \A jd \in Sources(does) :
            CarriedApps(jd, Successor(does, jd))' = CarriedApps(jd, Successor(does, jd))
  BY <1>1, <1>4, CarriesOn
<1>6. job'.todo \subseteq Sources(does)'
  BY <1>1, <1>5 DEF Follows
<1>7. CarriedApps(id, heir) \subseteq {heir} \X Bases
  BY <1>1, CarriedIs
<1>8. \A key \in job'.carry : Target(does, key[1])
  BY <1>1, <1>2, <1>7
<1>9. ASSUME NEW jd \in Sources(does)', jd \notin job'.todo
      PROVE  CarriedApps(jd, Successor(does, jd))' \subseteq apps' \cup job'.carry
  <2>1. CASE jd = id
    BY <1>1, <1>2, <1>5, <1>9, <2>1
  <2>2. CASE jd # id
    <3>1. CarriedApps(jd, Successor(does, jd)) \subseteq apps \cup job.carry
      BY <1>1, <1>5, <1>9, <2>2 DEF Follows
    <3> QED BY <1>1, <1>5, <1>9, <3>1
  <2> QED BY <2>1, <2>2
<1> QED BY <1>1, <1>6, <1>8, <1>9 DEF Follows

LEMMA CarriesFollow ==
    ASSUME MShape, NEW does \in {"rekey", "migrate"}, job.does = does, Follows(does),
           NEW key \in job.carry, ToolCarries(key)
    PROVE  job'.does = does /\ Follows(does)'
<1>1. /\ job'.does = does /\ job'.todo = job.todo /\ job'.carry = job.carry \ {key}
      /\ UNCHANGED <<held, derived, gates>> /\ apps' = apps \cup {key}
  BY CarriesShape DEF ToolCarries
<1>2. Target(does, key[1])
  BY DEF Follows
<1>3. /\ Sources(does)' = Sources(does)
      /\ \A jd \in Sources(does) :
            CarriedApps(jd, Successor(does, jd))' = CarriedApps(jd, Successor(does, jd))
  BY <1>1, <1>2, CarriesOn
<1>4. ASSUME NEW jd \in Sources(does)', jd \notin job'.todo
      PROVE  CarriedApps(jd, Successor(does, jd))' \subseteq apps' \cup job'.carry
  <2>1. CarriedApps(jd, Successor(does, jd)) \subseteq apps \cup job.carry
    BY <1>1, <1>3, <1>4 DEF Follows
  <2> QED BY <1>1, <1>3, <1>4, <2>1
<1> QED BY <1>1, <1>3, <1>4 DEF Follows

LEMMA JobStep == JobInv /\ MShape /\ ProcShape /\ [Next]_vars => JobInv'
<1> SUFFICES ASSUME JobInv, MShape, ProcShape, [Next]_vars PROVE JobInv'
  OBVIOUS
<1>0. ASSUME UNCHANGED <<held, derived, gates, apps, job, proc>> PROVE JobInv'
  <2>1. ASSUME NEW does \in {"rekey", "migrate"}, Follows(does) PROVE Follows(does)'
    <3>1. /\ Sources(does)' = Sources(does)
          /\ \A jd \in Sources(does) :
                CarriedApps(jd, Successor(does, jd))' = CarriedApps(jd, Successor(does, jd))
      BY <1>0, CarriesOn
    <3> QED BY <1>0, <2>1, <3>1 DEF Follows
  <2> QED BY <1>0, <2>1 DEF JobInv
<1>9. ASSUME NoJob = job, proc' # "tool", UNCHANGED job PROVE JobInv'
  BY <1>9 DEF JobInv
<1>1. CASE \E d \in Daemons : Serve(d)
  BY <1>1 DEF Serve, ServeOpens, JobInv, TakesStore
<1>2. ASSUME NEW does \in {"rekey", "migrate"}, Tool(does) PROVE JobInv'
  <2> DEFINE todo == Sources(does)
  <2>1. /\ job' = [does |-> does, todo |-> todo, carry |-> {}, wrote |-> FALSE]
        /\ UNCHANGED <<held, derived, gates, apps>> /\ proc' = "tool"
    BY <1>2 DEF Tool, ToolOpens, Opened, TakesStore
  <2>2. Sources(does)' = Sources(does)
    BY <2>1, SourcesStay
  <2> HIDE DEF todo
  <2>3. job'.does = does /\ job'.todo = todo /\ job'.carry = {}
    BY <2>1
  <2>4. Follows(does)'
    BY <2>2, <2>3 DEF Follows, todo
  <2> QED BY <2>1, <2>3, <2>4 DEF JobInv
<1>3. CASE ToolDone
  BY <1>3 DEF ToolDone, ToolEnds, JobInv, LeavesStore
<1>4. CASE ToolStops \/ \E d \in Daemons : Stop(d)
  BY <1>4 DEF ToolStops, Stop, MStop, JobInv, LeavesStore
<1>5. CASE \E d \in Doers : Resets(d)
  BY <1>0, <1>5 DEF Resets, MReset, mvars
<1>6. CASE MNext /\ UNCHANGED proc
  <2>1. CASE Serving
    <3>1. UNCHANGED job
      BY <1>6, <2>1 DEF MNext, Observe, SyncAppend, Stamp, Reproject, BackfillWrite, Gate, ToolCopies,
                        ToolCarries, ModelComes, BackfillScan, BackfillFails, Serving
    <3> QED BY <1>6, <2>1, <3>1 DEF JobInv, Serving
  <2>2. CASE proc = "tool"
    <3>1. PICK does \in {"rekey", "migrate"} : job.does = does /\ Follows(does)
      BY <2>2 DEF JobInv, MShape, JobRec
    <3>2. CASE \E id \in Ids : ToolCopies(id)
      <4>1. job'.does = does /\ Follows(does)'
        BY <3>1, <3>2, CopiesFollow
      <4> QED BY <1>6, <2>2, <4>1 DEF JobInv
    <3>3. CASE \E key \in job.carry : ToolCarries(key)
      <4>1. job'.does = does /\ Follows(does)'
        BY <3>1, <3>3, CarriesFollow
      <4> QED BY <1>6, <2>2, <4>1 DEF JobInv
    <3> QED BY <1>6, <2>2, <3>2, <3>3 DEF MNext, Observe, SyncAppend, Stamp, Reproject, BackfillWrite, Gate,
                        ModelComes, BackfillScan, BackfillFails, Serving
  <2> QED BY <1>6, <2>1, <2>2 DEF MNext, Observe, SyncAppend, Stamp, Reproject, BackfillWrite, Gate,
                        ToolCopies, ToolCarries, ModelComes, BackfillScan, BackfillFails
<1>7. CASE UNCHANGED <<mvars, proc>>
  BY <1>0, <1>7 DEF mvars
<1> QED BY <1>1, <1>2, <1>3, <1>4, <1>5, <1>6, <1>7 DEF Next, vars, Declines

LEMMA JobInvariant == Spec => []JobInv
<1>1. Init => JobInv
  BY DEF Init, MInit, JobInv
<1> QED BY <1>1, JobStep, MShapeInvariant, ProcInvariant, PTL DEF Spec

(* A re-key or a migration that ends, however many were stopped before it, *)
(* leaves each copy with the app of what it was made of: a row it finds    *)
(* re-created has its apps carried again, and no row it reads is one it    *)
(* writes.                                                                 *)
THEOREM CopiesKeepTheirApps == Spec => AppsFollow
<1> DEFINE RunEnds ==
        proc = "tool" /\ proc' = "down" /\ job.todo = {} /\ job.carry = {} =>
            \A id \in Sources(job.does) : LET heir == Successor(job.does, id) IN
                \A p \in held[id] :
                    /\ <<id, p.act>> \in apps
                    /\ \E q \in held[heir] : q.act = Recreated(id, p).act
                    => <<heir, Recreated(id, p).act>> \in apps
<1>1. JobInv /\ MShape => [RunEnds]_<<proc, mvars>>
  <2> SUFFICES ASSUME JobInv, MShape, proc = "tool", job.todo = {}, job.carry = {},
                      NEW id \in Sources(job.does), NEW p \in held[id], <<id, p.act>> \in apps
               PROVE  <<Successor(job.does, id), Recreated(id, p).act>> \in apps
    OBVIOUS
  <2>1. PICK does \in {"rekey", "migrate"} : job.does = does /\ Follows(does)
    BY DEF JobInv, MShape, JobRec
  <2>2. CarriedApps(id, Successor(does, id)) \subseteq apps
    BY <2>1 DEF Follows
  <2>3. <<Successor(does, id), Recreated(id, p).act>> \in CarriedApps(id, Successor(does, id))
    BY DEF CarriedApps
  <2> QED BY <2>1, <2>2, <2>3
<1>2. Spec => [][RunEnds]_<<proc, mvars>>
  BY <1>1, JobInvariant, MShapeInvariant, PTL
<1> QED BY <1>2 DEF AppsFollow

(* ------------------------- one claim, once ---------------------------- *)

LegacyOf(id) == [text |-> id.text, space |-> id.space, legacy |-> TRUE]

(* An act is held under the id it was said under, or under an id a command *)
(* gave it, which names the row of the old formula it took the place of.   *)
SaidUnder(id, a) ==
    \/ <<id, a>> \in Said(agenda)
    \/ /\ ~id.legacy /\ (id.space = "from" => LegacyOf(id) \in derived[id])
       /\ \E jd \in Ids : jd.text = id.text /\ <<jd, a>> \in Said(agenda)

SaidInv == \A id \in Ids : \A p \in held[id] : SaidUnder(id, p.act.act)

(* Of one claim of one act a row holds its stamps, or the act unstamped. *)
OneClaim(hs) == \A p, q \in hs : p # q /\ p.act = q.act => Att!IsStamped(p) /\ Att!IsStamped(q)
ClaimsInv == \A id \in Ids : OneClaim(held[id])

LEMMA SourceIs ==
    ASSUME NEW p \in Att!Attestation, NEW q \in Att!Attestation, p.act = q.act
    PROVE  /\ ~Att!IsStamped(p) /\ ~Att!IsStamped(q) => p = q
           /\ Att!IsStamped(p) /\ Att!IsStamped(q) /\ p.origin = q.origin => p = q
<1>1. ASSUME NEW x \in Att!Attestation, ~Att!IsStamped(x)
      PROVE  x = [act |-> x.act, origin |-> None, seq |-> 0]
  BY <1>1, MaintenanceAssumption DEF Att!Attestation, Att!Event, Att!IsStamped, Att!Unstamped
<1>2. ASSUME NEW x \in Att!Attestation, Att!IsStamped(x)
      PROVE  x = [act |-> x.act, origin |-> x.origin, seq |-> 1]
  BY <1>2 DEF Att!Attestation, Att!Event, Att!IsStamped, Att!Unstamped
<1> QED BY <1>1, <1>2

LEMMA EnrichedOnce ==
    ASSUME NEW S \in SUBSET Att!Attestation
    PROVE  OneClaim(Att!Enriched(S))
<1> SUFFICES ASSUME NEW p \in Att!Enriched(S), NEW q \in Att!Enriched(S), p # q, p.act = q.act,
                    ~Att!IsStamped(p) \/ ~Att!IsStamped(q)
             PROVE  FALSE
  BY DEF OneClaim
<1>1. p \in Att!Attestation /\ q \in Att!Attestation
  BY DEF Att!Enriched
<1>2. Att!IsStamped(p) \/ Att!IsStamped(q)
  BY <1>1, SourceIs
<1> QED BY <1>2 DEF Att!Enriched, Att!Events

(* What a step does to a row: it enriches a union of it, or leaves it. *)
LEMMA RowsEnriched ==
    ASSUME MShape, agenda \in Agendas, [Next]_vars, NEW id \in Ids
    PROVE  held'[id] = held[id] \/ \E S \in SUBSET Att!Attestation : held[id] \subseteq S /\ held'[id] = Att!Enriched(S)
<1> DEFINE Goal == held'[id] = held[id] \/ \E S \in SUBSET Att!Attestation : held[id] \subseteq S /\ held'[id] = Att!Enriched(S)
<1>0. ASSUME NEW jd \in Ids, NEW T \in SUBSET Att!Attestation,
             held' = [held EXCEPT ![jd] = Att!Absorb(@, T)]
      PROVE  Goal
  <2> DEFINE S == held[jd] \cup T
  <2>1. S \in SUBSET Att!Attestation /\ held[jd] \subseteq S
    BY DEF MShape
  <2>2. held' = [held EXCEPT ![jd] = Att!Enriched(S)]
    BY <1>0 DEF Att!Absorb
  <2> HIDE DEF S
  <2>3. held'[id] = held[id] \/ (id = jd /\ held'[id] = Att!Enriched(S))
    BY <2>2 DEF MShape
  <2> QED BY <2>1, <2>3
<1>1. CASE UNCHANGED held
  BY <1>1
<1>2. CASE \E jd \in Ids, a \in Acts : Observe(jd, a)
  <2>1. PICK jd \in Ids : \E a \in Acts : Observe(jd, a)
    BY <1>2
  <2>2. PICK a \in Acts : Observe(jd, a)
    BY <2>1
  <2> DEFINE b == [act |-> a, tier |-> AgentExtracted]
             T == {Att!Unstamped(b)}
  <2>3. b \in Bases
    BY DEF Bases, AgentExtracted, Tiers, Unverified, HumanConfirmed
  <2>4. held' = [held EXCEPT ![jd] = Att!Absorb(@, T)]
    BY <2>2 DEF Observe, Row
  <2> HIDE DEF b
  <2>5. T \in SUBSET Att!Attestation
    BY <2>3, UnstampedIs
  <2> HIDE DEF T
  <2> QED BY <1>0, <2>4, <2>5
<1>3. CASE \E x \in agenda.elsewhere : SyncAppend(x[1], x[2])
  <2>1. PICK x \in agenda.elsewhere : SyncAppend(x[1], x[2])
    BY <1>3
  <2>2. x[1] \in Ids /\ {x[2]} \in SUBSET Att!Attestation
    BY MaintenanceAssumption
  <2>3. held' = [held EXCEPT ![x[1]] = Att!Absorb(@, {x[2]})]
    BY <2>1 DEF SyncAppend, Row
  <2> QED BY <1>0, <2>2, <2>3
<1>4. CASE \E s \in Spaces : Stamp(s)
  <2>1. PICK s \in Spaces : Stamp(s)
    BY <1>4
  <2> DEFINE own == {p \in held[id] : ~Att!IsStamped(p)}
             stamped == {Att!Stamped(p.act, "here", 1) : p \in own}
             S == held[id] \cup stamped
  <2>2. held'[id] = held[id] \/ held'[id] = Att!Absorb(held[id], stamped)
    BY <2>1 DEF Stamp
  <2>3. S \in SUBSET Att!Attestation /\ held[id] \subseteq S
    BY StampedIs DEF MShape
  <2>4. Att!Absorb(held[id], stamped) = Att!Enriched(S)
    BY DEF Att!Absorb
  <2> HIDE DEF stamped, S
  <2> QED BY <2>2, <2>3, <2>4
<1>5. CASE \E jd \in Ids : ToolCopies(jd)
  <2>1. PICK jd \in Ids : ToolCopies(jd)
    BY <1>5
  <2> DEFINE heir == Successor(job.does, jd)
             T == {Recreated(jd, p) : p \in held[jd]}
  <2>2. heir \in Ids /\ (held' = held \/ held' = [held EXCEPT ![heir] = Att!Absorb(@, T)])
    <3> HIDE DEF heir
    <3>1. heir = Successor(job.does, jd)
      BY DEF heir
    <3> QED BY <2>1, <3>1, CopiesIs
  <2>3. T \in SUBSET Att!Attestation
    BY RecreatedIs
  <2> HIDE DEF heir, T
  <2> QED BY <1>0, <2>2, <2>3
<1>6. CASE MNext
  BY <1>1, <1>2, <1>3, <1>4, <1>5, <1>6 DEF MNext, Reproject, BackfillWrite, Gate, ToolCarries, ModelComes,
     BackfillScan, BackfillFails
<1>7. CASE (\E d \in Daemons : Serve(d)) \/ (\E does \in {"rekey", "migrate"} : Tool(does))
  BY <1>1, <1>7 DEF Serve, ServeOpens, Tool, ToolOpens, Opened, TakesStore
<1>8. CASE ToolDone \/ ToolStops \/ \E d \in Daemons : Stop(d)
  BY <1>1, <1>8 DEF ToolDone, ToolEnds, ToolStops, Stop, MStop, LeavesStore
<1>9. CASE \E d \in Doers : Resets(d)
  BY <1>1, <1>9 DEF Resets, MReset, mvars
<1>10. CASE UNCHANGED mvars
  BY <1>1, <1>10 DEF mvars
<1> QED BY <1>6, <1>7, <1>8, <1>9, <1>10 DEF Next, vars, Declines

LEMMA ClaimsStep == ClaimsInv /\ MShape /\ agenda \in Agendas /\ [Next]_vars => ClaimsInv'
BY RowsEnriched, EnrichedOnce DEF ClaimsInv

LEMMA ClaimsInvariant == Spec => []ClaimsInv
<1>1. ASSUME agenda \in Agendas, Init PROVE ClaimsInv
  <2> SUFFICES ASSUME NEW id \in Ids, NEW p \in held[id], NEW q \in held[id], p # q, p.act = q.act
               PROVE  Att!IsStamped(p) /\ Att!IsStamped(q)
    BY DEF ClaimsInv, OneClaim
  <2>1. held[id] = {x[2] : x \in {f \in agenda.held : f[1] = id}}
    BY <1>1 DEF Init, MInit
  <2>2. PICK x \in agenda.held : x[1] = id /\ x[2] = p
    BY <2>1
  <2>3. PICK y \in agenda.held : y[1] = id /\ y[2] = q
    BY <2>1
  <2>4. \A f, h \in agenda.held : f # h /\ f[1] = h[1] /\ f[2].act = h[2].act =>
            Att!IsStamped(f[2]) /\ Att!IsStamped(h[2])
    BY <1>1, MaintenanceAssumption
  <2> QED BY <2>2, <2>3, <2>4
<1>2. Init => ClaimsInv
  BY <1>1 DEF Init
<1> QED BY <1>2, ClaimsStep, MShapeInvariant, AgendaOne, PTL DEF Spec

(* A step that keeps what rows were re-created from, and adds what may be  *)
(* added.                                                                  *)
LEMMA SaidMore ==
    ASSUME SaidInv, UNCHANGED agenda, \A id \in Ids : derived[id] \subseteq derived'[id],
           \A id \in Ids : \A p \in held'[id] :
               (\E q \in held[id] : q.act.act = p.act.act) \/ SaidUnder(id, p.act.act)'
    PROVE  SaidInv'
BY DEF SaidInv, SaidUnder

LEMMA CopiesSaid ==
    ASSUME SaidInv, MShape, NEW does \in {"rekey", "migrate"}, job.does = does, Follows(does),
           UNCHANGED agenda, NEW id \in Ids, ToolCopies(id)
    PROVE  SaidInv'
<1> DEFINE heir == Successor(does, id)
           copies == {Recreated(id, p) : p \in held[id]}
           new == Att!Absorb(held[heir], copies)
           from == derived[heir] \cup derived[id] \cup {id}
<1>1. /\ heir \in Ids /\ id \in job.todo
      /\ \/ UNCHANGED <<held, derived>>
         \/ held' = [held EXCEPT ![heir] = new] /\ derived' = [derived EXCEPT ![heir] = from]
  <2> HIDE DEF heir
  <2>1. heir = Successor(job.does, id)
    BY DEF heir
  <2> QED BY <2>1, CopiesIs
<1>2. /\ heir.text = id.text /\ ~heir.legacy /\ heir.space = IF does = "rekey" THEN "to" ELSE id.space
  BY SuccessorIs
<1>3. ASSUME heir.space = "from" PROVE LegacyOf(heir) = id
  <2>1. does = "migrate" /\ id.space = "from" /\ id.legacy
    BY <1>1, <1>2, <1>3 DEF Follows, Sources
  <2>2. id = [text |-> id.text, space |-> id.space, legacy |-> id.legacy]
    BY DEF Ids
  <2>3. id.legacy = TRUE
    BY <2>1 DEF Ids
  <2> HIDE DEF heir
  <2> QED BY <1>2, <1>3, <2>1, <2>2, <2>3 DEF LegacyOf
<1>4. \A p \in copies : \E q \in held[id] : q.act.act = p.act.act
  BY RecreatedIs
<1>5. ASSUME NEW q \in held[id], id \in from
      PROVE  \/ <<heir, q.act.act>> \in Said(agenda)
             \/ /\ ~heir.legacy /\ (heir.space = "from" => LegacyOf(heir) \in from)
                /\ \E jd \in Ids : jd.text = heir.text /\ <<jd, q.act.act>> \in Said(agenda)
  <2>1. SaidUnder(id, q.act.act)
    BY DEF SaidInv
  <2>2. \E jd \in Ids : jd.text = heir.text /\ <<jd, q.act.act>> \in Said(agenda)
    BY <1>2, <2>1 DEF SaidUnder
  <2> QED BY <1>2, <1>3, <1>5, <2>2
<1>6. id \in from
  OBVIOUS
<1> HIDE DEF heir, copies, from
<1>7. CASE UNCHANGED <<held, derived>>
  BY <1>7, SaidMore
<1>8. CASE held' = [held EXCEPT ![heir] = new] /\ derived' = [derived EXCEPT ![heir] = from]
  <2>1. new \subseteq held[heir] \cup copies
    BY AbsorbIs
  <2> HIDE DEF new
  <2>2. /\ \A jd \in Ids \ {heir} : held'[jd] = held[jd] /\ derived'[jd] = derived[jd]
        /\ held'[heir] = new /\ derived'[heir] = from
    BY <1>1, <1>8 DEF MShape
  <2>3. derived[heir] \subseteq from
    BY DEF from
  <2>4. \A jd \in Ids : derived[jd] \subseteq derived'[jd]
    BY <2>2, <2>3
  <2>5. \A p \in copies : SaidUnder(heir, p.act.act)'
    BY <1>4, <1>5, <1>6, <2>2 DEF SaidUnder
  <2>6. \A jd \in Ids : \A p \in held'[jd] :
            (\E q \in held[jd] : q.act.act = p.act.act) \/ SaidUnder(jd, p.act.act)'
    BY <2>1, <2>2, <2>5
  <2> QED BY <2>4, <2>6, SaidMore
<1> QED BY <1>1, <1>7, <1>8

LEMMA SaidStep ==
    SaidInv /\ MShape /\ JobInv /\ ProcShape /\ agenda \in Agendas /\ [Next]_vars => SaidInv'
<1> SUFFICES ASSUME SaidInv, MShape, JobInv, ProcShape, agenda \in Agendas, [Next]_vars PROVE SaidInv'
  OBVIOUS
<1>0. UNCHANGED agenda
  BY DEF Next, vars, Serve, Declines, Stop, Resets, ToolDone, ToolStops, Tool, TakesStore, LeavesStore
<1>9. ASSUME UNCHANGED <<held, derived>> PROVE SaidInv'
  BY <1>0, <1>9, SaidMore
<1>10. ASSUME NEW jd \in Ids, NEW T, UNCHANGED derived, held' = [held EXCEPT ![jd] = Att!Absorb(@, T)],
              \A p \in T : <<jd, p.act.act>> \in Said(agenda)
       PROVE  SaidInv'
  <2> DEFINE new == Att!Absorb(held[jd], T)
  <2>1. new \subseteq held[jd] \cup T
    BY AbsorbIs
  <2>2. held' = [held EXCEPT ![jd] = new]
    BY <1>10
  <2> HIDE DEF new
  <2>3. held'[jd] = new /\ \A kd \in Ids \ {jd} : held'[kd] = held[kd]
    BY <2>2 DEF MShape
  <2>4. \A p \in T : SaidUnder(jd, p.act.act)'
    BY <1>0, <1>10 DEF SaidUnder
  <2> QED BY <1>0, <1>10, <2>1, <2>3, <2>4, SaidMore
<1>1. ASSUME NEW jd \in Ids, NEW a \in Acts, Observe(jd, a) PROVE SaidInv'
  <2> DEFINE b == [act |-> a, tier |-> AgentExtracted]
             T == {Att!Unstamped(b)}
  <2>1. b \in Bases /\ b.act = a
    BY DEF Bases, AgentExtracted, Tiers, Unverified, HumanConfirmed
  <2>2. UNCHANGED derived /\ held' = [held EXCEPT ![jd] = Att!Absorb(@, T)]
    BY <1>1 DEF Observe, Row
  <2>3. <<jd, a>> \in Said(agenda)
    BY <1>1 DEF Observe, Said
  <2> HIDE DEF b
  <2>4. \A p \in T : p.act.act = a
    BY <2>1, UnstampedIs
  <2> HIDE DEF T
  <2> QED BY <1>10, <2>2, <2>3, <2>4
<1>2. ASSUME NEW x \in agenda.elsewhere, SyncAppend(x[1], x[2]) PROVE SaidInv'
  <2>1. x[1] \in Ids
    BY MaintenanceAssumption
  <2>2. <<x[1], x[2].act.act>> \in Said(agenda)
    BY DEF Said
  <2> DEFINE T == {x[2]}
             jd == x[1]
  <2>3. UNCHANGED derived /\ held' = [held EXCEPT ![jd] = Att!Absorb(@, T)]
    BY <1>2 DEF SyncAppend, Row
  <2>4. \A p \in T : <<jd, p.act.act>> \in Said(agenda)
    BY <2>2
  <2> HIDE DEF T, jd
  <2>5. jd \in Ids
    BY <2>1 DEF jd
  <2> QED BY <1>10, <2>3, <2>4, <2>5
<1>3. ASSUME NEW s \in Spaces, Stamp(s) PROVE SaidInv'
  <2>1. ASSUME NEW jd \in Ids, NEW p \in held'[jd] PROVE \E q \in held[jd] : q.act.act = p.act.act
    <3> DEFINE own == {q \in held[jd] : ~Att!IsStamped(q)}
               stamped == {Att!Stamped(q.act, "here", 1) : q \in own}
    <3>1. held'[jd] = held[jd] \/ held'[jd] = Att!Absorb(held[jd], stamped)
      BY <1>3 DEF Stamp
    <3>2. \A x \in stamped : \E q \in held[jd] : q.act = x.act
      BY StampedIs DEF MShape
    <3> HIDE DEF stamped
    <3> QED BY <2>1, <3>1, <3>2, AbsorbIs
  <2>2. UNCHANGED derived
    BY <1>3 DEF Stamp
  <2> QED BY <1>0, <2>1, <2>2, SaidMore
<1>4. ASSUME NEW jd \in Ids, ToolCopies(jd) PROVE SaidInv'
  <2>1. proc = "tool"
    BY <1>4 DEF ToolCopies
  <2>2. PICK does \in {"rekey", "migrate"} : job.does = does /\ Follows(does)
    BY <2>1 DEF JobInv, MShape, JobRec
  <2> QED BY <1>0, <1>4, <2>2, CopiesSaid
<1>6. CASE MNext
  BY <1>1, <1>2, <1>3, <1>4, <1>6, <1>9 DEF MNext, Reproject, BackfillWrite, Gate, ToolCarries, ModelComes,
     BackfillScan, BackfillFails
<1>7. CASE (\E d \in Daemons : Serve(d)) \/ (\E does \in {"rekey", "migrate"} : Tool(does))
  BY <1>7, <1>9 DEF Serve, ServeOpens, Tool, ToolOpens, Opened, TakesStore
<1>8. CASE ToolDone \/ ToolStops \/ \E d \in Daemons : Stop(d)
  BY <1>8, <1>9 DEF ToolDone, ToolEnds, ToolStops, Stop, MStop, LeavesStore
<1>11. CASE \E d \in Doers : Resets(d)
  BY <1>9, <1>11 DEF Resets, MReset, mvars
<1>12. CASE UNCHANGED mvars
  BY <1>9, <1>12 DEF mvars
<1> QED BY <1>6, <1>7, <1>8, <1>11, <1>12 DEF Next, vars, Declines

LEMMA SaidInvariant == Spec => []SaidInv
<1>1. Init => SaidInv
  BY DEF Init, MInit, SaidInv, SaidUnder, Said
<1> QED BY <1>1, SaidStep, MShapeInvariant, JobInvariant, ProcInvariant, AgendaOne, PTL DEF Spec

(* Of one claim two readers of a workspace's live rows meet two nodes'     *)
(* stamps and nothing else: an act is under one id of its workspace, or    *)
(* under that of an old formula and the row that names it as its source,   *)
(* which takes it out of the live ones.                                    *)
THEOREM NoActCountsTwice == Spec => []CountedOnce
<1>1. SaidInv /\ ClaimsInv /\ MShape /\ agenda \in Agendas => CountedOnce
  <2> SUFFICES ASSUME SaidInv, ClaimsInv, MShape, agenda \in Agendas,
                      NEW s \in Spaces, NEW id \in Live(s), NEW jd \in Live(s),
                      NEW p \in held[id], NEW q \in held[jd], p.act = q.act, <<id, p>> # <<jd, q>>
               PROVE  Att!IsStamped(p) /\ Att!IsStamped(q) /\ p.origin # q.origin
    BY DEF CountedOnce
  <2>1. id \in Ids /\ jd \in Ids /\ id.space = s /\ jd.space = s
    BY DEF Live
  <2>2. p \in Att!Attestation /\ q \in Att!Attestation
    BY <2>1 DEF MShape
  <2>3. CASE id = jd
    BY <2>1, <2>2, <2>3, SourceIs DEF ClaimsInv, OneClaim
  <2>4. CASE id # jd
    <3>1. \A x, y \in Said(agenda) : x[2] = y[2] =>
              x[1].text = y[1].text /\ (x[1].space = y[1].space => x[1] = y[1])
      BY MaintenanceAssumption
    <3>2. \A x \in Said(agenda) : x[1].legacy => x[1].space = "from"
      BY MaintenanceAssumption
    <3>3. SaidUnder(id, p.act.act) /\ SaidUnder(jd, p.act.act)
      BY <2>1 DEF SaidInv
    <3>4. id.text = jd.text
      BY <3>1, <3>3 DEF SaidUnder
    <3>5. \A x \in Ids : x = [text |-> x.text, space |-> x.space, legacy |-> x.legacy] /\ x.legacy \in BOOLEAN
      BY DEF Ids
    <3>6. id.legacy # jd.legacy
      BY <2>1, <2>4, <3>4, <3>5
    <3>7. ASSUME NEW x \in Live(s), NEW y \in Live(s), x \in Ids, y \in Ids, x.space = s, y.space = s,
                 x.text = y.text, x.legacy, ~y.legacy, x # y,
                 SaidUnder(x, p.act.act), SaidUnder(y, p.act.act)
          PROVE  FALSE
      <4>1. <<x, p.act.act>> \in Said(agenda) /\ s = "from"
        BY <3>2, <3>7 DEF SaidUnder
      <4>2. <<y, p.act.act>> \notin Said(agenda)
        BY <3>1, <3>7, <4>1
      <4>3. LegacyOf(y) \in derived[y]
        BY <3>7, <4>1, <4>2 DEF SaidUnder
      <4>4. LegacyOf(y) = x
        BY <3>5, <3>7 DEF LegacyOf
      <4> QED BY <3>7, <4>3, <4>4 DEF Live
    <3> QED BY <2>1, <2>4, <3>3, <3>4, <3>5, <3>6, <3>7
  <2> QED BY <2>3, <2>4
<1> QED BY <1>1, SaidInvariant, ClaimsInvariant, MShapeInvariant, AgendaOne, PTL

(* ------------------------------- types -------------------------------- *)

(* Every part's state has its type, no two daemons have the store, and who *)
(* has the turn or reopens is where one can be.                            *)
THEOREM TypesHold == Spec => []TypeOK
<1>1. ASSUME ProcShape, agenda \in Agendas, MShape, LInv, BInv, DInv PROVE TypeOK
  <2> USE <1>1
  <2>1. \A id \in Ids : held[id] \subseteq Att!Attestation /\ derived[id] \subseteq Ids
    BY DEF MShape
  <2>2. /\ \A x \in apps : x[1] \in Ids /\ x[2] \in Bases
        /\ owed \subseteq Spaces /\ model \in BOOLEAN
        /\ job.does \in {"nothing", "rekey", "migrate"} /\ job.todo \subseteq Ids
        /\ embedding.at \in {"off", "waiting", "writing"}
    BY DEF MShape, JobRec
  <2>3. /\ file \in Config \cup {None} /\ directory \in Allowlist
        /\ listening \in {None, 1, 2} /\ {state, changed} \subseteq BOOLEAN
        /\ invited \in {"no", "open", "expired"}
        /\ turn # None => task[turn].at \in {"deciding", "binding"}
        /\ \A t \in Tasks : task[t].conf \in Config \cup {None}
    BY DEF LInv, ListenerShape, InTurn, Refreshing
  <2>4. /\ sessions \subseteq [id : Nat, initialized : BOOLEAN]
        /\ reopening # None =>
               request[reopening].at \in {"opening", "opened", "notifying", "notified", "broken"}
    BY DEF BInv, BridgeShape, SessionInv, RequestInv, Opens0
  <2>5. /\ Serving <=> \E d \in Daemons : life[d] \in {"up", "stopping"}
        /\ \A d \in Daemons : life[d] \in {"off", "starting", "up", "stopping", "failed"}
    BY DEF DInv, HolderInv, Holding, LifeShape, Lives
  <2>6. /\ loaded \subseteq Jobs /\ aside \subseteq {"hand", "generated"}
        /\ plist \in {"absent", "generated", "hand"} /\ pidfile \in Forks \cup {None}
        /\ app.child # None <=> app.shows = "spawned"
    BY DEF DInv, FilesShape, Plists, AppShape
  <2>7. \A d \in Doers : act[d].plan \subseteq Daemons
    BY DEF DInv, ActShape, Doing
  <2>8. Cardinality({d \in Daemons : life[d] \in {"up", "stopping"}}) <= 1
    <3> DEFINE holding == {d \in Daemons : life[d] \in {"up", "stopping"}}
    <3>1. \A x, y \in holding : x = y
      BY DEF DInv, HolderInv, Holding
    <3> HIDE DEF holding
    <3>2. holding = {} \/ \E x : holding = {x}
      <4>1. ASSUME NEW x \in holding PROVE holding = {x}
        BY <3>1
      <4> QED BY <4>1
    <3>3. Cardinality(holding) = 0 \/ Cardinality(holding) = 1
      BY <3>2, FS_EmptySet, FS_Singleton
    <3>4. Cardinality(holding) <= 1
      BY <3>3
    <3> QED BY <3>4 DEF holding
  <2>9. proc \in {"down", "serving", "tool"} /\ agenda \in Agendas
    BY DEF ProcShape
  <2> QED BY <2>1, <2>2, <2>3, <2>4, <2>5, <2>6, <2>7, <2>8, <2>9 DEF TypeOK
<1> QED BY <1>1, ProcInvariant, MShapeInvariant, ListenerInvariant, BridgeInvariant,
           LifecycleInvariant, AgendaOne, PTL

(* ---------------------------- never raised ---------------------------- *)

(* A better start is a better end, but for what lies under a bound both    *)
(* keep to.                                                                *)
LEMMA AfterMonotone ==
    ASSUME NEW x \in Tiers, NEW y \in Tiers, NEW t \in Tiers, NEW gs \in Seq(GateActs), y <= Most(x, t)
    PROVE  After(y, gs)[Len(gs)] <= Most(After(x, gs)[Len(gs)], t)
<1> DEFINE Good(n) == /\ After(x, gs)[n] \in Tiers /\ After(y, gs)[n] \in Tiers
                      /\ After(y, gs)[n] <= Most(After(x, gs)[n], t)
           T == {n \in Nat : n <= Len(gs) => Good(n)}
<1>1. T \in SUBSET Nat /\ 0 \in T
  BY AfterIs
<1>2. ASSUME NEW n \in T PROVE n + 1 \in T
  <2> SUFFICES ASSUME n + 1 <= Len(gs) PROVE Good(n + 1)
    OBVIOUS
  <2>1. n \in Nat /\ n <= Len(gs) /\ n + 1 \in 1 .. Len(gs) /\ Len(gs) \in Nat
    OBVIOUS
  <2>2. gs[n + 1] \in GateActs /\ Good(n)
    BY <2>1
  <2> DEFINE kind == gs[n + 1].kind
             grant == gs[n + 1].grant
             a == After(x, gs)[n]
             b == After(y, gs)[n]
  <2>3. grant \in Tiers /\ a \in Tiers /\ b \in Tiers /\ b <= Most(a, t)
    BY <2>2 DEF GateActs
  <2>4. After(x, gs)[n + 1] = Moved(kind, a, grant) /\ After(y, gs)[n + 1] = Moved(kind, b, grant)
    BY <2>1, AfterIs
  <2> HIDE DEF kind, grant, a, b
  <2>5. /\ Moved(kind, a, grant) \in Tiers /\ Moved(kind, b, grant) \in Tiers
        /\ Moved(kind, b, grant) <= Most(Moved(kind, a, grant), t)
    BY <2>3 DEF Moved, Least, Most, Tiers, Unverified, HumanConfirmed
  <2> QED BY <2>4, <2>5
<1>3. T = Nat
  <2> HIDE DEF T
  <2> QED BY <1>1, <1>2, Counting
<1>4. Len(gs) \in Nat /\ Len(gs) \in T
  BY <1>3
<1> QED BY <1>4

LEMMA EnrichedKeeps ==
    ASSUME NEW S \in SUBSET Att!Attestation, S # {}
    PROVE  Att!Enriched(S) # {} /\ Att!Enriched(S) \subseteq S
BY DEF Att!Enriched, Att!Events

(* A row that holds nothing was given nothing else. *)
BareInv == \A id \in Ids : held[id] = {} => gates[id] = <<>> /\ derived[id] = {}

LEMMA RowsKept ==
    ASSUME MShape, agenda \in Agendas, [Next]_vars, NEW id \in Ids, held'[id] = {}
    PROVE  held[id] = {}
BY RowsEnriched, EnrichedKeeps

LEMMA BareStep ==
    BareInv /\ MShape /\ JobInv /\ ProcShape /\ agenda \in Agendas /\ [Next]_vars => BareInv'
<1> SUFFICES ASSUME BareInv, MShape, JobInv, ProcShape, agenda \in Agendas, [Next]_vars,
                    NEW id \in Ids, held'[id] = {}
             PROVE  gates'[id] = <<>> /\ derived'[id] = {}
  BY DEF BareInv
<1>0. held[id] = {} /\ gates[id] = <<>> /\ derived[id] = {}
  BY RowsKept DEF BareInv
<1>1. CASE UNCHANGED <<gates, derived>>
  BY <1>0, <1>1
<1>2. ASSUME NEW x \in agenda.gates, Gate(x[1], x[2], x[3]) PROVE gates'[id] = <<>> /\ derived'[id] = {}
  <2>1. held[x[1]] # {} /\ UNCHANGED derived /\ \E new : gates' = [gates EXCEPT ![x[1]] = new]
    BY <1>2 DEF Gate
  <2>2. gates'[id] = gates[id]
    BY <1>0, <2>1 DEF MShape
  <2> QED BY <1>0, <2>1, <2>2
<1>3. ASSUME NEW jd \in Ids, ToolCopies(jd) PROVE gates'[id] = <<>> /\ derived'[id] = {}
  <2> DEFINE heir == Successor(job.does, jd)
             copies == {Recreated(jd, p) : p \in held[jd]}
             new == Att!Absorb(held[heir], copies)
             from == derived[heir] \cup derived[jd] \cup {jd}
  <2>1. /\ heir \in Ids /\ UNCHANGED gates /\ proc = "tool" /\ jd \in job.todo
        /\ \/ UNCHANGED <<held, derived>>
           \/ held' = [held EXCEPT ![heir] = new] /\ derived' = [derived EXCEPT ![heir] = from]
    <3> HIDE DEF heir
    <3>1. heir = Successor(job.does, jd)
      BY DEF heir
    <3> QED BY <1>3, <3>1, CopiesIs
  <2>2. held[jd] # {}
    <3>1. PICK does \in {"rekey", "migrate"} : job.does = does /\ Follows(does)
      BY <2>1 DEF JobInv, MShape, JobRec
    <3> QED BY <2>1, <3>1, SourcesIs DEF Follows
  <2>3. new # {}
    <3>1. copies # {} /\ copies \subseteq Att!Attestation
      BY <2>2, RecreatedIs
    <3> HIDE DEF copies, heir
    <3>2. held[heir] \cup copies \in SUBSET Att!Attestation /\ held[heir] \cup copies # {}
      BY <2>1, <3>1 DEF MShape
    <3> QED BY <3>2, EnrichedKeeps DEF Att!Absorb
  <2> HIDE DEF heir, new, from, copies
  <2>4. CASE UNCHANGED <<held, derived>>
    BY <1>0, <2>1, <2>4
  <2>5. CASE held' = [held EXCEPT ![heir] = new] /\ derived' = [derived EXCEPT ![heir] = from]
    <3>1. id # heir
      BY <2>1, <2>3, <2>5 DEF MShape
    <3>2. derived'[id] = derived[id]
      BY <2>5, <3>1 DEF MShape
    <3> QED BY <1>0, <2>1, <3>2
  <2> QED BY <2>1, <2>4, <2>5
<1>6. CASE MNext
  BY <1>1, <1>2, <1>3, <1>6 DEF MNext, Observe, SyncAppend, Stamp, Reproject, BackfillWrite, ToolCarries,
     ModelComes, BackfillScan, BackfillFails
<1>7. CASE (\E d \in Daemons : Serve(d)) \/ (\E does \in {"rekey", "migrate"} : Tool(does))
  BY <1>1, <1>7 DEF Serve, ServeOpens, Tool, ToolOpens, Opened, TakesStore
<1>8. CASE ToolDone \/ ToolStops \/ \E d \in Daemons : Stop(d)
  BY <1>1, <1>8 DEF ToolDone, ToolEnds, ToolStops, Stop, MStop, LeavesStore
<1>9. CASE \E d \in Doers : Resets(d)
  BY <1>1, <1>9 DEF Resets, MReset, mvars
<1>10. CASE UNCHANGED mvars
  BY <1>1, <1>10 DEF mvars
<1> QED BY <1>6, <1>7, <1>8, <1>9, <1>10 DEF Next, vars, Declines

LEMMA BareInvariant == Spec => []BareInv
<1>1. Init => BareInv
  BY DEF Init, MInit, BareInv
<1> QED BY <1>1, BareStep, MShapeInvariant, JobInvariant, ProcInvariant, AgendaOne, PTL DEF Spec

(* A copy is worth no more than the row it was made of. *)
LEMMA CopyWorth ==
    ASSUME MShape, NEW id \in Ids, NEW p \in held[id]
    PROVE  /\ Tier(id) \in Tiers /\ Evaluated(Recreated(id, p)) \in Tiers
           /\ Evaluated(Recreated(id, p)) <= Tier(id)
<1> DEFINE tier == IF gates[id] = <<>> THEN Evaluated(p) ELSE Least(Evaluated(p), Tier(id))
           b == [act |-> p.act.act, tier |-> tier]
<1>1. p \in Att!Attestation /\ held[id] \in SUBSET Att!Attestation /\ gates[id] \in Seq(GateActs)
  BY DEF MShape
<1>2. Tier(id) \in Tiers
  BY <1>1, BestIs, AfterType, TierAfter
<1>3. gates[id] = <<>> => Tier(id) = Best(held[id])
  BY AfterIs, TierAfter
<1>4. Evaluated(p) \in Tiers /\ Evaluated(p) <= Best(held[id])
  BY <1>1, BestIs, CopyIs
<1>5. tier \in Tiers /\ tier <= Tier(id)
  BY <1>2, <1>3, <1>4 DEF Least, Tiers, Unverified, HumanConfirmed
<1> HIDE DEF tier
<1>6. b \in Bases /\ b.tier = tier
  BY <1>1, <1>5, CopyIs DEF Bases
<1>7. Recreated(id, p) = Att!Unstamped(b)
  BY DEF Recreated, tier
<1> HIDE DEF b
<1>8. Evaluated(Recreated(id, p)) = tier
  BY <1>6, <1>7, UnstampedIs DEF Evaluated
<1> QED BY <1>2, <1>5, <1>8

LEMMA CopiesRaiseNothing ==
    ASSUME MShape, BareInv, JobInv, NEW id \in Ids, ToolCopies(id), NEW heir, heir = Successor(job.does, id)
    PROVE  Tier(heir)' <= Most(IF held[heir] = {} THEN Unverified ELSE Tier(heir), Tier(id))
<1> DEFINE copies == {Recreated(id, p) : p \in held[id]}
           S == held[heir] \cup copies
           gs == gates[heir]
           t == Tier(id)
<1>1. heir \in Ids /\ id \in job.todo /\ UNCHANGED gates /\ proc = "tool"
  BY CopiesIs
<1>2. held[id] # {}
  <2>1. PICK does \in {"rekey", "migrate"} : job.does = does /\ Follows(does)
    BY <1>1 DEF JobInv, MShape, JobRec
  <2> QED BY <1>1, <2>1, SourcesIs DEF Follows
<1>3. t \in Tiers
  BY <1>2, CopyWorth
<1>4. gs \in Seq(GateActs) /\ held[heir] \in SUBSET Att!Attestation
  BY <1>1 DEF MShape
<1>5. CASE id \in derived[heir]
  <2>1. held' = held /\ held[heir] # {}
    BY <1>1, <1>5 DEF ToolCopies, BareInv
  <2>2. Tier(heir)' = Tier(heir)
    BY <1>1, <2>1, TierAfter, TierAfterNext
  <2>3. Tier(heir) \in Tiers
    BY <1>4, <2>1, BestIs, AfterType, TierAfter
  <2> HIDE DEF t
  <2>4. Tier(heir) <= Most(Tier(heir), t)
    BY <1>3, <2>3 DEF Most, Tiers, Unverified, HumanConfirmed
  <2> QED BY <2>1, <2>2, <2>4 DEF t
<1>6. CASE id \notin derived[heir]
  <2>1. held' = [held EXCEPT ![heir] = Att!Enriched(S)]
    BY <1>6 DEF ToolCopies, Row, Att!Absorb
  <2>2. copies # {} /\ copies \subseteq Att!Attestation
    BY <1>2, RecreatedIs
  <2>3. \A p \in copies : Evaluated(p) <= t
    BY CopyWorth
  <2> HIDE DEF copies, t
  <2>4. S \in SUBSET Att!Attestation /\ S # {}
    BY <1>4, <2>2
  <2>5. Att!Enriched(S) # {} /\ Att!Enriched(S) \subseteq S
    BY <2>4, EnrichedKeeps
  <2> DEFINE new == Att!Enriched(S)
             y == Best(new)
  <2>6. held'[heir] = new
    BY <1>1, <2>1 DEF MShape
  <2>7. y \in Tiers /\ \E p \in S : y = Evaluated(p)
    BY <2>4, <2>5, BestIs
  <2>8. Tier(heir)' = After(y, gs)[Len(gs)]
    BY <1>1, <2>6, TierAfterNext
  <2> HIDE DEF new, y
  <2>9. CASE held[heir] = {}
    <3>1. gs = <<>>
      BY <1>1, <2>9 DEF BareInv
    <3>2. Tier(heir)' = y
      BY <2>8, <3>1, AfterIs
    <3>3. y <= t
      BY <2>3, <2>7, <2>9
    <3>4. y <= Most(Unverified, t)
      BY <1>3, <2>7, <3>3 DEF Most, Tiers, Unverified, HumanConfirmed
    <3> QED BY <2>9, <3>2, <3>4 DEF t
  <2>10. CASE held[heir] # {}
    <3> DEFINE x == Best(held[heir])
    <3>1. x \in Tiers /\ \A p \in held[heir] : Evaluated(p) <= x
      BY <1>4, <2>10, BestIs
    <3> HIDE DEF x
    <3>2. y <= x \/ y <= t
      BY <2>3, <2>7, <3>1
    <3>3. y <= Most(x, t)
      BY <1>3, <2>7, <3>1, <3>2 DEF Most, Tiers, Unverified, HumanConfirmed
    <3> HIDE DEF gs
    <3>4. After(y, gs)[Len(gs)] <= Most(After(x, gs)[Len(gs)], t)
      BY <1>3, <1>4, <2>7, <3>1, <3>3, AfterMonotone
    <3>5. Tier(heir) = After(x, gs)[Len(gs)]
      BY TierAfter DEF x, gs
    <3> QED BY <2>8, <2>10, <3>4, <3>5 DEF t
  <2> QED BY <2>9, <2>10
<1> QED BY <1>5, <1>6

(* Re-creating a row under another id leaves that id no higher than it     *)
(* was, or than the row: a copy is clamped to what its attestation         *)
(* evaluated to and to what gate acts left its row at, and the gate acts   *)
(* of the id it joins lead a lower start to no higher an end.              *)
THEOREM CopiesAreNotRaised == Spec => NeverRaised
<1> DEFINE Kept == \A id \in job.todo : LET heir == Successor(job.does, id) IN
        id \notin job.todo' /\ proc' = "tool" =>
            Tier(heir)' <= Most(IF held[heir] = {} THEN Unverified ELSE Tier(heir), Tier(id))
<1>1. MShape /\ BareInv /\ JobInv /\ ProcShape /\ [Next]_vars => [Kept]_<<proc, mvars>>
  <2> SUFFICES ASSUME MShape, BareInv, JobInv, ProcShape, [Next]_vars,
                      NEW id \in job.todo, id \notin job.todo', proc' = "tool",
                      NEW heir, heir = Successor(job.does, id)
               PROVE  Tier(Successor(job.does, id))'
                        <= Most(IF held[heir] = {} THEN Unverified ELSE Tier(heir), Tier(id))
    OBVIOUS
  <2>1. proc = "tool" /\ id \in Ids
    BY NoJobIs DEF JobInv, MShape, JobRec
  <2>2. job' # job
    OBVIOUS
  <2>3. \E jd \in Ids : ToolCopies(jd)
    <3>1. \/ \E jd \in Ids : ToolCopies(jd)
          \/ \E key \in job.carry : ToolCarries(key)
          \/ UNCHANGED job
      BY <2>1 DEF Next, vars, mvars, Serve, Declines, Stop, Resets, MReset, ToolDone, ToolStops, Tool, Serving,
            MNext, Observe, SyncAppend, Stamp, Gate, Reproject, BackfillWrite, ModelComes, BackfillScan,
            BackfillFails, TakesStore, LeavesStore
    <3>2. ASSUME NEW key \in job.carry, ToolCarries(key) PROVE job'.todo = job.todo
      BY <3>2, CarriesShape
    <3> QED BY <2>2, <3>1, <3>2
  <2>4. PICK jd \in Ids : ToolCopies(jd)
    BY <2>3
  <2>5. job'.todo = job.todo \ {jd} /\ job'.does = job.does
    <3> DEFINE k == Successor(job.does, jd)
    <3>1. k = Successor(job.does, jd)
      OBVIOUS
    <3> HIDE DEF k
    <3> QED BY <2>4, <3>1, CopiesIs
  <2>6. jd = id
    BY <2>5
  <2>7. Tier(heir)' <= Most(IF held[heir] = {} THEN Unverified ELSE Tier(heir), Tier(id))
    BY <2>4, <2>6, CopiesRaiseNothing
  <2>8. Successor(job.does, id)' = heir
    BY <2>5 DEF Successor
  <2>9. Tier(Successor(job.does, id))' = Tier(heir)'
    BY <2>8 DEF Tier
  <2> QED BY <2>7, <2>9
<1>2. Spec => [][Kept]_<<proc, mvars>>
  BY <1>1, MShapeInvariant, BareInvariant, JobInvariant, ProcInvariant, PTL DEF Spec
<1> QED BY <1>2 DEF NeverRaised
===============================================================================
