------------------------------ MODULE ProposalFold ------------------------------
(***************************************************************************)
(* What one workspace's log says of its proposals: their states, the tier  *)
(* each claim is left at, and where merged entities forward to.  All of it *)
(* is read off the log at each read, in no order of arrival, so the module *)
(* has no variables: a log is a record of sets, and every operator a       *)
(* function of one.                                                        *)
(*                                                                         *)
(* A proposal is its content, so its id names what it asks.  Ids are       *)
(* ordered (they are hashes), which is all the folds use of them.          *)
(***************************************************************************)
EXTENDS Tiers, FiniteSets

CONSTANTS
    Claims,    \* observations that say something of entities
    Entities,
    Names,     \* the entities each claim names
    Proposals, \* their ids
    Ask,       \* the kind, targets, into and tier each one asks
    None

Kinds == GateKinds \cup {"entity_merge", "entity_split", "tbox_change", "recall"}

HasCommitEffect(kind) == kind \notin {"tbox_change", "recall"}

ASSUME FoldAssumption ==
    /\ Proposals \subseteq Nat /\ None \notin Proposals \cup Entities \cup Tiers
    /\ IsFiniteSet(Proposals) /\ IsFiniteSet(Entities)
    /\ Names \in [Claims -> SUBSET Entities]
    /\ DOMAIN Ask = Proposals
    /\ \A p \in Proposals :
        /\ Ask[p].kind \in Kinds
        /\ Ask[p].tier \in Tiers \cup {None}
        /\ Ask[p].into \in Entities \cup {None}
        /\ Ask[p].targets \in IF Ask[p].kind \in GateKinds \cup {"recall"} THEN SUBSET Claims
                              ELSE IF Ask[p].kind = "entity_split" THEN SUBSET Proposals
                              ELSE SUBSET Entities
        /\ IsFiniteSet(Ask[p].targets)
        /\ Ask[p].kind = "entity_split" => Cardinality(Ask[p].targets) = 1

(* --------------------------------- logs -------------------------------- *)

(* said: who said a claim at which evaluated tier, no more than host       *)
(* signed.  merges: each merge verdict's attestations, with the surface    *)
(* that stamped it and the time it was cast.                               *)
Merge == [proposal : Proposals, surface : Surfaces, at : Nat]

Log == [said : SUBSET (Claims \X (Unverified .. HostSigned)),
        opened : SUBSET Proposals, merges : SUBSET Merge,
        rejected : SUBSET Proposals, withdrawn : SUBSET Proposals]

Nothing == [said |-> {}, opened |-> {}, merges |-> {}, rejected |-> {}, withdrawn |-> {}]

(* Appending L2 to L1: a set union, whatever the order. *)
Join(L1, L2) == [f \in DOMAIN L1 |-> L1[f] \cup L2[f]]

Said(c, t) == [Nothing EXCEPT !.said = {<<c, t>>}]
Opened(p) == [Nothing EXCEPT !.opened = {p}]
Cast(p, s, at) ==
    [Nothing EXCEPT !.merges = {[proposal |-> p, surface |-> s, at |-> at]}]
Rejected(p) == [Nothing EXCEPT !.rejected = {p}]
Withdrawn(p) == [Nothing EXCEPT !.withdrawn = {p}]

Held(L) == {s[1] : s \in L.said}
Asserted(L) == UNION {Names[c] : c \in Held(L)}

(* ---------------------------- proposal states -------------------------- *)

MergesOf(L, p) == {m \in L.merges : m.proposal = p}

(* A merge of a kind without an effect is read as a comment. *)
MergeCast(L, p) == HasCommitEffect(Ask[p].kind) /\ MergesOf(L, p) # {}

(* A slip: a merge someone rejected is not decided. *)
DecidedUnrejected(L) ==
    {p \in L.opened : Ask[p].kind = "entity_merge" /\ MergeCast(L, p)} \ L.rejected

(* The entity merges a split may name: a merge verdict is enough. *)
Decided(L) == {p \in L.opened : Ask[p].kind = "entity_merge" /\ MergeCast(L, p)}

(* The blocking checks, recomputed from the log at every read. *)
Passes(L, p) ==
    LET ask == Ask[p]
    IN  /\ ask.kind = "entity_split" => ask.targets \subseteq Decided(L)
        /\ ask.kind \in GateKinds =>
            /\ ask.targets # {} /\ ask.targets \subseteq Held(L)
            /\ ask.tier # None
        /\ ask.kind = "entity_merge" =>
            /\ ask.into \in ask.targets /\ Cardinality(ask.targets) >= 2
            /\ ask.targets \subseteq Asserted(L)

(* A slip: what concluded first stands, so a withdrawal or a reject that   *)
(* arrives late takes a merge back.                                        *)
StateByRefusal(L, p) ==
    IF p \in L.withdrawn THEN "withdrawn"
    ELSE IF p \in L.rejected THEN "rejected"
    ELSE IF MergeCast(L, p) /\ Passes(L, p) THEN "merged"
    ELSE IF MergeCast(L, p) THEN "blocked" ELSE "open"

(* Merged absorbs; a blocked merge does not, and a reject concludes it. *)
State(L, p) ==
    IF MergeCast(L, p) /\ Passes(L, p) THEN "merged"
    ELSE IF MergeCast(L, p) /\ p \in L.rejected THEN "rejected"
    ELSE IF MergeCast(L, p) THEN "blocked"
    ELSE IF p \in L.withdrawn THEN "withdrawn"
    ELSE IF p \in L.rejected THEN "rejected" ELSE "open"

Merged(L) == {p \in L.opened : State(L, p) = "merged"}

(* ------------------------------ gate grants ---------------------------- *)

(* A slip: every surface grants what a promotion asks for. *)
GrantUncapped(L, p) == Ask[p].tier

(* A promotion is capped by the highest of the surfaces that merged it; a  *)
(* demotion is not capped.                                                 *)
Grant(L, p) ==
    IF Ask[p].kind = "claim_demotion" THEN Ask[p].tier
    ELSE Least(Ask[p].tier, Max({Ceiling(m.surface) : m \in MergesOf(L, p)}))

(* The verdict that stands for p: the earliest. *)
Rep(L, p) == Min({m.at : m \in MergesOf(L, p)})

(* By the time of the verdict, then by id. *)
Earlier(at, p, q) == at[p] < at[q] \/ (at[p] = at[q] /\ p < q)

Before(L, p, q) == Earlier([r \in {p, q} |-> Rep(L, r)], p, q)

Base(L, c) == Max({s[2] : s \in {x \in L.said : x[1] = c}})

(* The committed gate acts on a claim, in the order of their verdicts. *)
Events(L, c) == {p \in Merged(L) : Ask[p].kind \in GateKinds /\ c \in Ask[p].targets}

Last(S, at) == CHOOSE p \in S : \A q \in S \ {p} : Earlier(at, q, p)

(* Where gate acts leave a claim, one after the other, from its base.      *)
AfterActs(base, grant, at) ==
    LET after[S \in SUBSET DOMAIN at] ==
            IF S = {} THEN base
            ELSE LET p == Last(S, at)
                 IN  Moved(Ask[p].kind, after[S \ {p}], grant[p])
    IN  after[DOMAIN at]

(* The tier its gate acts leave a held claim at. *)
Tier(L, c) ==
    LET events == Events(L, c)
    IN  AfterActs(Base(L, c), [p \in events |-> Grant(L, p)],
                  [p \in events |-> Rep(L, p)])

(* What the graph's row of entity e is folded from. *)
Row(L, e) == [c \in {x \in Held(L) : e \in Names[x]} |-> Tier(L, c)]

(* ------------------------------ forwarding ----------------------------- *)

Reversed(L) == UNION {Ask[p].targets : p \in {q \in Merged(L) : Ask[q].kind = "entity_split"}}

Live(L, less) == {p \in Merged(L) : Ask[p].kind = "entity_merge"} \ (Reversed(L) \cup less)

(* Raw edges: of two live merges of one entity, the later id's. *)
Edges(L, less) ==
    LET live == Live(L, less)
        by(t) == {p \in live : t \in Ask[p].targets \ {Ask[p].into}}
    IN  [t \in {e \in Entities : by(e) # {}} |-> Ask[Max(by(t))].into]

Step(f, e) == IF e \in DOMAIN f THEN f[e] ELSE e

Hops(f, e) ==
    LET hop[n \in Nat] == IF n = 0 THEN e ELSE Step(f, hop[n - 1])
    IN  hop

(* A slip: the walk of a chain stops a hop short of its end. *)
ResolvedShort(f) == [e \in DOMAIN f |-> Hops(f, e)[Cardinality(DOMAIN f) - 1]]

(* Each edge followed to its end, with a cap on the hops. *)
Resolved(f) == [e \in DOMAIN f |-> Hops(f, e)[Cardinality(DOMAIN f) + 1]]

ForwardingLess(L, less) == Resolved(Edges(L, less))
Forwarding(L) == ForwardingLess(L, {})

(* Where an entity leads. *)
Orbit(f, e) == {Hops(f, e)[n] : n \in 1 .. Cardinality(DOMAIN f) + 1}

(* The entities that lead back into themselves, each with its cycle. *)
Cycles(L) ==
    LET f == Edges(L, {})
    IN  {Orbit(f, e) : e \in {x \in DOMAIN f : x \in Orbit(f, x)}}

(* -------------------------------- previews ----------------------------- *)

(* A slip: the preview grants what an agent's verdict would. *)
GatePreviewByAgent(L, p, c) ==
    Moved(Ask[p].kind, Tier(L, c), Least(Ask[p].tier, HostSigned))

(* A gate act previewed: applied after every merged one, from the console. *)
GatePreview(L, p, c) ==
    LET grant == IF Ask[p].kind = "claim_promotion"
                 THEN Least(Ask[p].tier, Ceiling("console")) ELSE Ask[p].tier
    IN  Moved(Ask[p].kind, Tier(L, c), grant)

(* A split previewed: the map with its merge left out. *)
SplitPreview(L, p) == ForwardingLess(L, Ask[p].targets)

(* A merge previewed: its edges put over the map as it is now. *)
MergePreview(L, p) ==
    LET f == Forwarding(L)
        folded == Ask[p].targets \ {Ask[p].into}
    IN  [e \in DOMAIN f \cup folded |-> IF e \in folded THEN Ask[p].into ELSE f[e]]
===============================================================================
