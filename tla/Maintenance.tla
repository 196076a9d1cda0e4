------------------------------ MODULE Maintenance ------------------------------
(***************************************************************************)
(* Rows that change their id, and rows that get a vector late.  The        *)
(* workspace and the id formula are inside an observation's id, so a       *)
(* re-key (from one workspace to another) and a migration (from an old     *)
(* formula) re-create the row under a new id and leave the old one.  Both  *)
(* are one-shot commands that a stop can cut anywhere; run again, they     *)
(* take up what was left.  Meanwhile the daemon syncs, stamps, merges gate *)
(* acts, and embeds what was written before its model was there.           *)
(*                                                                         *)
(* A text is what an observation says; each spells the name of the one     *)
(* entity of its workspace, so that entity's row follows all the texts.    *)
(* Rows of proposal events, which both commands skip, are left out.        *)
(***************************************************************************)
EXTENDS StoreHolder, Tiers, Sequences, FiniteSets

CONSTANTS
    Texts,   \* in the order they were said
    Acts,    \* attestations: one host's statement at one time
    Claimed  \* the tier each act claims

Spaces == {"from", "to"}
Ids == [text : Texts, space : Spaces, legacy : BOOLEAN]

(* An attestation without its stamp: a copy may carry another tier. *)
Bases == [act : Acts, tier : Tiers]
Signers == {"here", "peer"}

Att == INSTANCE Attestations
         WITH Acts <- Bases, Nodes <- Signers, NoOrigin <- None, MaxSeq <- 1

(* What an instance says of acts, and under which ids. *)
Said(a) == a.says \cup {<<x[1], x[2].act.act>> : x \in a.held \cup a.elsewhere}

(* An act states one text, and until a command re-creates it a workspace   *)
(* has it under one id, whoever says it; a row as it is found is enriched. *)
ASSUME MaintenanceAssumption ==
    /\ Texts \subseteq Nat /\ Claimed \in [Acts -> Tiers] /\ None \notin Signers
    /\ \A a \in Agendas :
          /\ a.held \cup a.elsewhere \subseteq Ids \X Att!Attestation /\ a.says \subseteq Ids \X Acts
          /\ a.gates \subseteq Ids \X GateKinds \X Tiers
          /\ \A x \in Said(a) : x[1].legacy => x[1].space = "from"
          /\ \A x, y \in Said(a) : x[2] = y[2] =>
                x[1].text = y[1].text /\ (x[1].space = y[1].space => x[1] = y[1])
          /\ \A x, y \in a.held : x # y /\ x[1] = y[1] /\ x[2].act = y[2].act =>
                Att!IsStamped(x[2]) /\ Att!IsStamped(y[2])

VARIABLES
    held,     \* the log: the attestations each row holds
    derived,  \* the ids each row was re-created from
    gates,    \* merged gate acts on each row, in the order of their verdicts
    apps,     \* the attestations, stamp aside, whose app is recorded
    owed,     \* workspaces with an entry in the ledger
    entity,   \* each workspace's entity row: what it was folded from, its vector
    job,      \* the command that runs
    embedding,\* the backfill of the serving process
    model,    \* whether the embedding model is there
    embedder, \* the model the process embeds with, or None
    recorded  \* the model the store records as its vectors', or None

mvars == <<held, derived, gates, apps, owed, entity, job, embedding, model, embedder, recorded>>
index == <<model, embedder, recorded>>

(* -------------------------------- the folds ---------------------------- *)

(* A stamped claim never evaluates above HostSigned; one without a stamp is *)
(* taken at its word.                                                      *)
Evaluated(p) == IF Att!IsStamped(p) THEN Least(p.act.tier, HostSigned) ELSE p.act.tier

(* The tier merged gate acts leave a row at, from its best attestation. *)
Tier(id) ==
    LET after[n \in Nat] == IF n = 0 THEN Max({Evaluated(p) : p \in held[id]})
                            ELSE Moved(gates[id][n].kind, after[n - 1], gates[id][n].grant)
    IN  after[Len(gates[id])]

(* A slip: a migrated row and its successor both count. *)
LiveUnfolded(s) == {id \in Ids : id.space = s /\ held[id] # {}}

(* The rows of a workspace that folds read: not one a row of the same      *)
(* workspace and text was re-created from.                                 *)
Live(s) ==
    {id \in Ids : /\ id.space = s /\ held[id] # {}
                  /\ ~ \E heir \in Ids : heir.space = s /\ heir.text = id.text /\ id \in derived[heir]}

Rows(s) == {<<id.text, Tier(id)>> : id \in Live(s)}

(* The text an entity is embedded for: its name, by tier and then by time, *)
(* and its other spellings.                                                *)
TextOf(rows) ==
    LET first == CHOOSE r \in rows : \A q \in rows : r[2] > q[2] \/ (r[2] = q[2] /\ r[1] >= q[1])
    IN  [name |-> first[1], aliases |-> {r[1] : r \in rows} \ {first[1]}]

(* ---------------------------- the projection --------------------------- *)

(* A vector, by the text and the model it was made of. *)
Embedded(text, by) == [text |-> text, by |-> by]

(* The stored vector if it was made for this text; else a new one.         *)
Vector(s, text, fresh) ==
    IF entity[s].vector # None /\ TextOf(entity[s].rows) = text THEN entity[s].vector
    ELSE fresh

(* The entity rows of some workspaces, folded from the log as it will be.  *)
(* An embedding may fail, and always does until the model is there.        *)
Project(spaces, by) ==
    \E works \in {FALSE, model /\ by # None} :
        entity' = [s \in Spaces |->
            LET text == TextOf(Rows(s)')
            IN  IF s \in spaces /\ Rows(s)' # {}
                THEN [rows |-> Rows(s)', vector |-> Vector(s, text, IF works THEN Embedded(text, by) ELSE None)]
                ELSE entity[s]]

(* ------------------------------ the daemon ----------------------------- *)

NoJob == [does |-> "nothing", todo |-> {}, carry |-> {}, wrote |-> FALSE]
NotEmbedding == [at |-> "off", texts |-> <<>>]

MInit ==
    /\ held = [id \in Ids |-> {x[2] : x \in {f \in agenda.held : f[1] = id}}]
    /\ derived = [id \in Ids |-> {}] /\ gates = [id \in Ids |-> <<>>]
    /\ apps = {<<x[1], x[2].act>> : x \in {f \in agenda.held : f[2].act.act \in agenda.named}}
    /\ owed = Spaces /\ entity = [s \in Spaces |-> [rows |-> {}, vector |-> None]]
    /\ job = NoJob /\ embedding = NotEmbedding
    /\ model = FALSE /\ embedder = None /\ recorded = None

Row(id, copies) == held' = [held EXCEPT ![id] = Att!Absorb(@, copies)]

(* observe, with the projection in its transaction. *)
Observe(id, a) ==
    /\ Serving /\ <<id, a>> \in agenda.says /\ ~ \E p \in held[id] : p.act.act = a
    /\ Row(id, {Att!Unstamped([act |-> a, tier |-> AgentExtracted])})
    /\ UNCHANGED <<derived, gates>>
    /\ Project({id.space}, embedder)
    /\ UNCHANGED <<apps, owed, job, embedding, index>>

(* A sync apply appends a peer's attestation and owes its projection ... *)
SyncAppend(id, p) ==
    /\ Serving /\ <<id, p>> \in agenda.elsewhere /\ p \notin held[id]
    /\ Row(id, {p})
    /\ owed' = owed \cup {id.space}
    /\ UNCHANGED <<derived, gates, apps, entity, job, embedding, index>>

(* ... and so does the stamping of what a workspace holds unstamped, rows  *)
(* of an old formula aside.                                                *)
Stamp(s) ==
    LET own(id) == {p \in held[id] : ~Att!IsStamped(p)}
        rows == {id \in Ids : id.space = s /\ ~id.legacy /\ own(id) # {}}
    IN  /\ Serving /\ s \in agenda.shared /\ rows # {}
        /\ held' = [id \in Ids |-> IF id \in rows
                THEN Att!Absorb(held[id], {Att!Stamped(p.act, "here", 1) : p \in own(id)})
                ELSE held[id]]
        /\ owed' = owed \cup {s}
        /\ UNCHANGED <<derived, gates, apps, entity, job, embedding, index>>

(* A merged gate act, with the rows of its target in its transaction. *)
Gate(id, kind, grant) ==
    /\ Serving /\ <<id, kind, grant>> \in agenda.gates /\ held[id] # {}
    /\ ~ \E n \in 1 .. Len(gates[id]) : gates[id][n].kind = kind
    /\ gates' = [gates EXCEPT ![id] = Append(@, [kind |-> kind, grant |-> grant])]
    /\ UNCHANGED <<held, derived>>
    /\ Project({id.space}, embedder)
    /\ UNCHANGED <<apps, owed, job, embedding, index>>

Reproject(s) ==
    /\ Serving /\ s \in owed /\ owed' = owed \ {s}
    /\ UNCHANGED <<held, derived, gates>>
    /\ Project({s}, embedder)
    /\ UNCHANGED <<apps, job, embedding, index>>

(* A store whose vectors are another model's is not opened.                *)
Opens(m) == m = None \/ recorded \in {None, m}

(* Every process records its model and repays what is owed before it does  *)
(* anything else.                                                          *)
Opened(m) ==
    /\ Opens(m) /\ embedder' = m /\ recorded' = IF m = None THEN recorded ELSE m
    /\ owed' = {}
    /\ UNCHANGED <<held, derived, gates, apps>>
    /\ Project(owed, m)
    /\ UNCHANGED model

(* ----------------------- the re-key and the migration ------------------ *)

(* A slip: the tier is read off the claim once its stamp is gone. *)
RecreatedUnclamped(id, p) == Att!Unstamped(p.act)

(* An attestation as it is re-created: unstamped, at what it evaluated to,  *)
(* and no higher than the gate acts left its row.                          *)
Recreated(id, p) ==
    Att!Unstamped([act |-> p.act.act,
        tier |-> IF gates[id] = <<>> THEN Evaluated(p) ELSE Least(Evaluated(p), Tier(id))])

(* A re-key takes the live rows of its source to its target; a migration   *)
(* every row of an old formula to the current one.                         *)
Sources(does) ==
    IF does = "rekey" THEN Live("from")
    ELSE {id \in Ids : id.space = "from" /\ id.legacy /\ held[id] # {}}

Successor(does, id) ==
    [id EXCEPT !.legacy = FALSE, !.space = IF does = "rekey" THEN "to" ELSE @]

ToolOpens(does) ==
    /\ Opened(agenda.embeds["tool"])
    /\ job' = [does |-> does, todo |-> Sources(does), carry |-> {}, wrote |-> FALSE]
    /\ embedding' = NotEmbedding

(* The recorded apps of a row's attestations, at the keys of its copies. *)
CarriedApps(id, heir) ==
    {<<heir, Recreated(id, p).act>> : p \in {q \in held[id] : <<id, q.act>> \in apps}}

(* A slip: a row that is there already is passed over, apps and all. *)
ToolCopiesOnce(id) ==
    LET heir == Successor(job.does, id)
        there == id \in derived[heir]
    IN  /\ proc = "tool" /\ job.carry = {} /\ id \in job.todo
        /\ job' = [job EXCEPT !.todo = @ \ {id}, !.wrote = @ \/ ~there,
                              !.carry = IF there THEN {} ELSE CarriedApps(id, heir)]
        /\ IF there THEN UNCHANGED <<held, derived, owed>>
           ELSE /\ Row(heir, {Recreated(id, p) : p \in held[id]})
                /\ derived' = [derived EXCEPT ![heir] = @ \cup derived[id] \cup {id}]
                /\ owed' = owed \cup {heir.space}
        /\ UNCHANGED <<gates, apps, entity, embedding, index>>

(* A slip: what a command wrote is not in the ledger. *)
ToolCopiesUnowed(id) ==
    LET heir == Successor(job.does, id)
        there == id \in derived[heir]
    IN  /\ proc = "tool" /\ job.carry = {} /\ id \in job.todo
        /\ job' = [job EXCEPT !.todo = @ \ {id}, !.wrote = @ \/ ~there,
                              !.carry = CarriedApps(id, heir)]
        /\ IF there THEN UNCHANGED <<held, derived>>
           ELSE /\ Row(heir, {Recreated(id, p) : p \in held[id]})
                /\ derived' = [derived EXCEPT ![heir] = @ \cup derived[id] \cup {id}]
        /\ UNCHANGED <<gates, apps, owed, entity, embedding, index>>

(* One row is re-created, or found re-created by an earlier run; its       *)
(* projection is owed, and its apps are next.                              *)
ToolCopies(id) ==
    LET heir == Successor(job.does, id)
        there == id \in derived[heir]
    IN  /\ proc = "tool" /\ job.carry = {} /\ id \in job.todo
        /\ job' = [job EXCEPT !.todo = @ \ {id}, !.wrote = @ \/ ~there,
                              !.carry = CarriedApps(id, heir)]
        /\ IF there THEN UNCHANGED <<held, derived, owed>>
           ELSE /\ Row(heir, {Recreated(id, p) : p \in held[id]})
                /\ derived' = [derived EXCEPT ![heir] = @ \cup derived[id] \cup {id}]
                /\ owed' = owed \cup {heir.space}
        /\ UNCHANGED <<gates, apps, entity, embedding, index>>

(* One app is carried, in a write of its own. *)
ToolCarries(key) ==
    /\ proc = "tool" /\ key \in job.carry
    /\ apps' = apps \cup {key}
    /\ job' = [job EXCEPT !.carry = @ \ {key}]
    /\ UNCHANGED <<held, derived, gates, owed, entity, embedding, index>>

(* The end of a run: the target is reprojected, by a re-key if it wrote. *)
ToolEnds ==
    LET target == IF job.does = "rekey" THEN "to" ELSE "from"
    IN  /\ proc = "tool" /\ job.todo = {} /\ job.carry = {}
        /\ job' = NoJob
        /\ UNCHANGED <<held, derived, gates>>
        /\ IF job.wrote \/ job.does = "migrate"
           THEN owed' = owed \ {target} /\ Project({target}, embedder)
           ELSE UNCHANGED <<owed, entity>>
        /\ embedder' = None
        /\ UNCHANGED <<apps, embedding, model, recorded>>

(* ----------------------------- the backfill ---------------------------- *)

ServeOpens(m) ==
    /\ Opened(m)
    /\ embedding' = [NotEmbedding EXCEPT !.at = "waiting"]
    /\ UNCHANGED job

(* The model's files arrive. *)
ModelComes ==
    /\ Serving /\ agenda.model /\ ~model /\ model' = TRUE
    /\ UNCHANGED <<held, derived, gates, apps, owed, entity, job, embedding, embedder, recorded>>

(* With no guard: what has no vector is read, and its text embedded. *)
BackfillScan ==
    /\ Serving /\ embedding.at = "waiting" /\ model /\ embedder # None
    /\ embedding' = [at |-> "writing", texts |->
           [s \in {t \in Spaces : entity[t].vector = None /\ entity[t].rows # {}} |->
                TextOf(entity[s].rows)]]
    /\ UNCHANGED <<held, derived, gates, apps, owed, entity, job, index>>

(* A slip: the text is not read again. *)
BackfillWriteUnchecked(s) ==
    /\ Serving /\ embedding.at = "writing" /\ s \in DOMAIN embedding.texts
    /\ embedding' = [embedding EXCEPT !.texts =
           [t \in DOMAIN embedding.texts \ {s} |-> embedding.texts[t]]]
    /\ entity' = IF entity[s].vector = None
                 THEN [entity EXCEPT ![s].vector = Embedded(embedding.texts[s], embedder)]
                 ELSE entity
    /\ UNCHANGED <<held, derived, gates, apps, owed, job, index>>

(* Under the guard: kept if the entity still has none, and has that text. *)
BackfillWrite(s) ==
    /\ Serving /\ embedding.at = "writing" /\ s \in DOMAIN embedding.texts
    /\ embedding' = [embedding EXCEPT !.texts =
           [t \in DOMAIN embedding.texts \ {s} |-> embedding.texts[t]]]
    /\ entity' = IF entity[s].vector = None /\ TextOf(entity[s].rows) = embedding.texts[s]
                 THEN [entity EXCEPT ![s].vector = Embedded(embedding.texts[s], embedder)]
                 ELSE entity
    /\ UNCHANGED <<held, derived, gates, apps, owed, job, index>>

(* An embedding that fails ends the run: the rest is left to the next start. *)
BackfillFails ==
    /\ Serving /\ embedding.at = "writing" /\ embedding' = NotEmbedding
    /\ UNCHANGED <<held, derived, gates, apps, owed, entity, job, index>>

(* embed reset: every vector goes, and with them the record of their model. *)
MReset ==
    /\ entity' = [s \in Spaces |-> [entity[s] EXCEPT !.vector = None]] /\ recorded' = None
    /\ UNCHANGED <<held, derived, gates, apps, owed, job, embedding, model, embedder>>

MStop ==
    /\ job' = NoJob /\ embedding' = NotEmbedding /\ embedder' = None
    /\ UNCHANGED <<held, derived, gates, apps, owed, entity, model, recorded>>

MNext ==
    \/ \E id \in Ids, a \in Acts : Observe(id, a)
    \/ \E x \in agenda.elsewhere : SyncAppend(x[1], x[2])
    \/ \E s \in Spaces : Stamp(s) \/ Reproject(s) \/ BackfillWrite(s)
    \/ \E g \in agenda.gates : Gate(g[1], g[2], g[3])
    \/ \E id \in Ids : ToolCopies(id)
    \/ \E key \in job.carry : ToolCarries(key)
    \/ ModelComes \/ BackfillScan \/ BackfillFails

(* ------------------------------ properties ----------------------------- *)

(* Re-creating a row under another id does not raise what it evaluates to: *)
(* a command leaves a row no higher than it was, or than its sources are,  *)
(* though the stamp that capped a claim and the gate act that lowered it   *)
(* both stay behind.                                                       *)
NeverRaised ==
    [][\A id \in job.todo : LET heir == Successor(job.does, id) IN
        id \notin job.todo' /\ proc' = "tool" =>
            Tier(heir)' <= Most(IF held[heir] = {} THEN Unverified ELSE Tier(heir), Tier(id))]_<<proc, mvars>>

(* A run that ends, however many were stopped before it, leaves each copy  *)
(* with the app of what it was made of.                                    *)
AppsFollow ==
    [][proc = "tool" /\ proc' = "down" /\ job.todo = {} /\ job.carry = {} =>
        \A id \in Sources(job.does) : LET heir == Successor(job.does, id) IN
            \A p \in held[id] :
                /\ <<id, p.act>> \in apps
                /\ \E q \in held[heir] : q.act = Recreated(id, p).act
                => <<heir, Recreated(id, p).act>> \in apps]_<<proc, mvars>>

(* No reader counts an act twice: in one workspace two attestations of the *)
(* same claim of one act are two nodes' stamps, never a row and its        *)
(* successor, or a copy and what it was made of.                           *)
CountedOnce ==
    \A s \in Spaces : \A id, jd \in Live(s) : \A p \in held[id], q \in held[jd] :
        p.act = q.act /\ <<id, p>> # <<jd, q>> =>
            Att!IsStamped(p) /\ Att!IsStamped(q) /\ p.origin # q.origin

(* An entity's vector is of the text it has, whatever was written while    *)
(* the text was being embedded: nothing is found by a name it lost.  And   *)
(* it is of the model the store records, which is the one that embeds the  *)
(* questions, whichever daemons had the store before a rebuild and after.  *)
VectorsFit ==
    /\ \A s \in Spaces : entity[s].vector # None =>
           entity[s].vector = Embedded(TextOf(entity[s].rows), recorded)
    /\ Serving => embedder \in {None, recorded}

(* What is served is what the log folds to, or is owed: rows a command     *)
(* re-created and was stopped before it projected among them.              *)
ServedAsLogged ==
    Serving => \A s \in Spaces : s \in owed \/ Rows(s) = {} \/ entity[s].rows = Rows(s)
===============================================================================
