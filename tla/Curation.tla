-------------------------------- MODULE Curation -------------------------------
(***************************************************************************)
(* The acts of one node on its proposals, and the graph rows that follow   *)
(* them.  Agents propose and review through the tools; a person at a       *)
(* console proposes, settles a contested claim and casts verdicts; a sync  *)
(* brings what peers did, in any order and without passing any check here. *)
(* Everything said of a proposal is read off the log (ProposalFold), so    *)
(* the state is the log, the rows, and where each call in flight is: a     *)
(* review reads the log and takes its time before it takes the guard.      *)
(*                                                                         *)
(* A guarded section is one step here; OwedLedger has its parts, and how a *)
(* sync append that falls into one stays owed.                             *)
(***************************************************************************)
EXTENDS ProposalFold

CONSTANTS
    Callers,   \* calls in flight
    SurfaceOf, \* the surface each one comes from
    Again,     \* the proposal whose reason has one more ", again"
    Agendas    \* what an instance is about: the claims said and the proposals
               \* asked here, what peers' logs hold, the calls and decisions
               \* made, and a bound on the reviews

Decisions == {"merge", "reject", "withdraw"}

ASSUME CurationAssumption ==
    /\ SurfaceOf \in [Callers -> Surfaces]
    /\ Again \in [Proposals -> Proposals \cup {None}]
    /\ \A p, q \in Proposals : Again[p] # None =>
        Ask[Again[p]] = Ask[p] /\ (Again[q] = Again[p] => q = p)
    /\ \A a \in Agendas :
        /\ a.says \subseteq Claims /\ a.asks \subseteq Proposals
        /\ a.elsewhere \subseteq Log /\ \A L \in a.elsewhere : IsFiniteSet(L.merges)
        /\ a.callers \subseteq Callers /\ a.decisions \subseteq Decisions
        /\ a.reviews \in Nat

VARIABLES
    log,     \* what the store's log holds
    mine,    \* history: what was written here
    rows,    \* ENTITIES: what each row was folded from
    owed,    \* whether the ledger has an entry
    call,    \* where each caller's review is
    clock,   \* of this node: ticks with each review
    agenda

vars == <<log, mine, rows, owed, call, clock, agenda>>

Idle == [at |-> "out", proposal |-> None, decision |-> None, time |-> 0]

Init ==
    /\ log = Nothing /\ mine = Nothing
    /\ rows = [e \in Entities |-> Row(Nothing, e)]
    /\ owed = FALSE
    /\ call = [c \in Callers |-> Idle]
    /\ clock = 0
    /\ agenda \in Agendas

(* A local write: the row, with the rows of the entities it folds. *)
Write(L, touched) ==
    /\ log' = Join(log, L) /\ mine' = Join(mine, L)
    /\ rows' = [e \in Entities |-> IF e \in touched THEN Row(log', e) ELSE rows[e]]

(* ------------------------------ the ledger ----------------------------- *)

(* observe: the row and the rows it touches, folded with the row in the log. *)
Observe(c) ==
    /\ c \in agenda.says /\ <<c, AgentExtracted>> \notin log.said
    /\ Write(Said(c, AgentExtracted), Names[c])
    /\ UNCHANGED <<owed, call, clock, agenda>>

(* A sync apply appends what a peer wrote; its projection is owed. *)
SyncAppend(L) ==
    /\ log' = Join(log, L) /\ log' # log
    /\ owed' = TRUE
    /\ UNCHANGED <<mine, rows, call, clock, agenda>>

(* ... until a reproject, which repays all of it. *)
Reproject ==
    /\ owed /\ owed' = FALSE
    /\ rows' = [e \in Entities |-> Row(log, e)]
    /\ UNCHANGED <<log, mine, call, clock, agenda>>

(* ------------------------------- proposing ----------------------------- *)

(* What propose refuses: a gate target that is not here, and the content   *)
(* of a merge a split has reversed.                                        *)
Refused(p) ==
    \/ Ask[p].kind \in GateKinds /\ ~(Ask[p].targets \subseteq Held(log))
    \/ Ask[p].kind = "entity_merge" /\ p \in Reversed(log)

(* propose, by an agent: what is in the log already is absorbed. *)
Propose(p) ==
    /\ p \in agenda.asks \ log.opened /\ ~Refused(p)
    /\ Write(Opened(p), {})
    /\ UNCHANGED <<owed, call, clock, agenda>>

(* A slip: an accepted gate act always holds. *)
StillHoldsGates(L, p) ==
    /\ State(L, p) \notin {"rejected", "withdrawn"}
    /\ ~(State(L, p) = "merged" /\ Ask[p].kind = "entity_merge" /\ p \in Reversed(L))

(* Whether a decided proposal's answer still holds: an accepted merge until *)
(* a split reverses it, an accepted gate act until a later one on one of    *)
(* its sources.                                                             *)
StillHolds(L, p) ==
    CASE State(L, p) \in {"rejected", "withdrawn"} -> FALSE
      [] State(L, p) = "merged" /\ Ask[p].kind = "entity_merge" -> p \notin Reversed(L)
      [] State(L, p) = "merged" /\ Ask[p].kind \in GateKinds ->
            ~ \E c \in Ask[p].targets : \E q \in Events(L, c) \ {p} : Before(L, p, q)
      [] OTHER -> TRUE

(* The proposals that ask what p asks, for whatever reason. *)
Askings(p) == {q \in Proposals : Ask[q] = Ask[p]}

(* Where a person's act lands: on the first asking, down its repeats, that *)
(* is not in the log or still holds.                                       *)
Lands(p, q) ==
    LET passed == {r \in log.opened : ~StillHolds(log, r)}
    IN  /\ q \notin passed
        /\ \/ q = p
           \/ \E S \in SUBSET passed :
                /\ p \in S /\ \A r \in S : Again[r] \in S \cup {q}
                /\ \E r \in S : Again[r] = q

(* A slip: a repeat is asked of whatever is in the log, held or not. *)
AskAnyway(p, q) ==
    /\ q = IF p \in log.opened THEN Again[p] ELSE p
    /\ q # None /\ q \notin log.opened /\ ~Refused(q)
    /\ Write(Opened(q), {})

(* propose_anew: what still holds is found, and nothing is written; all of  *)
(* it under the guard.                                                      *)
AskAnew(p, q) ==
    /\ q \notin log.opened /\ Lands(p, q) /\ ~Refused(q)
    /\ Write(Opened(q), {})

(* The console's Propose, Same as ... and Un-merge. *)
ProposeAnew(p) ==
    /\ p \in agenda.asks /\ Ask[p].kind \notin GateKinds
    /\ \E q \in Askings(p) : AskAnew(p, q)
    /\ UNCHANGED <<owed, call, clock, agenda>>

(* The console's settle: the proposal, then its verdict.  One found in     *)
(* force is the answer, a blocked one is refused, an open one is accepted. *)
Settle(c, p) ==
    LET found(q) == q \in log.opened /\ Lands(p, q) /\ UNCHANGED <<log, mine, rows>>
        goes(at, q) == call' = [call EXCEPT ![c] =
            [at |-> at, proposal |-> q, decision |-> None, time |-> 0]]
    IN  /\ c \in agenda.callers /\ SurfaceOf[c] = "console" /\ call[c].at = "out"
        /\ p \in agenda.asks /\ Ask[p].kind \in GateKinds
        /\ \E q \in Askings(p) :
            \/ AskAnew(p, q) /\ goes("settling", q)
            \/ State(log, q) = "open" /\ found(q) /\ goes("settling", q)
            \/ State(log, q) = "merged" /\ found(q) /\ goes("found", q)
        /\ UNCHANGED <<owed, clock, agenda>>

(* A settle ends with what it found, or with the checks that refuse it. *)
Answered(c) ==
    /\ \/ call[c].at = "found"
       \/ call[c].at = "settling" /\ ~Passes(log, call[c].proposal)
    /\ call' = [call EXCEPT ![c] = Idle]
    /\ UNCHANGED <<log, mine, rows, owed, clock, agenda>>

(* ------------------------------- reviewing ----------------------------- *)

(* review_proposal up to the guard: the fold, the checks of a merge, and   *)
(* the time the verdict will carry.                                        *)
ReviewStart(c, p, decision) ==
    /\ \/ call[c].at = "out"
       \/ call[c].at = "settling" /\ call[c].proposal = p /\ decision = "merge"
    /\ c \in agenda.callers /\ decision \in agenda.decisions /\ p \in log.opened
    /\ decision = "merge" => HasCommitEffect(Ask[p].kind) /\ Passes(log, p)
    /\ clock < agenda.reviews /\ clock' = clock + 1
    /\ call' = [call EXCEPT ![c] =
           [at |-> "reviewing", proposal |-> p, decision |-> decision, time |-> clock']]
    /\ UNCHANGED <<log, mine, rows, owed, agenda>>

(* A slip: the verdict carries no surface. *)
VerdictUnmarked(c) ==
    LET r == call[c]
    IN  CASE r.decision = "merge" -> Cast(r.proposal, None, r.time)
          [] r.decision = "reject" -> Rejected(r.proposal)
          [] OTHER -> Withdrawn(r.proposal)

Verdict(c) ==
    LET r == call[c]
    IN  CASE r.decision = "merge" -> Cast(r.proposal, SurfaceOf[c], r.time)
          [] r.decision = "reject" -> Rejected(r.proposal)
          [] OTHER -> Withdrawn(r.proposal)

(* A slip: a verdict writes no rows. *)
ReviewCommitAlone(c) ==
    /\ call[c].at = "reviewing"
    /\ Write(Verdict(c), {})
    /\ call' = [call EXCEPT ![c] = Idle]
    /\ UNCHANGED <<owed, clock, agenda>>

(* ... and under it: the verdict, with the rows of a gate act's targets    *)
(* folded from the log with the verdict in it.                             *)
ReviewCommit(c) ==
    LET p == call[c].proposal
        moves == call[c].decision = "merge" /\ Ask[p].kind \in GateKinds
    IN  /\ call[c].at = "reviewing"
        /\ Write(Verdict(c),
                 IF moves THEN UNION {Names[t] : t \in Ask[p].targets \cap Held(log)} ELSE {})
        /\ call' = [call EXCEPT ![c] = Idle]
        /\ UNCHANGED <<owed, clock, agenda>>

(* ------------------------------ the calls ------------------------------ *)

Next ==
    \/ \E c \in Claims : Observe(c)
    \/ \E L \in agenda.elsewhere : SyncAppend(L)
    \/ Reproject
    \/ \E p \in Proposals : Propose(p) \/ ProposeAnew(p)
    \/ \E c \in Callers, p \in Proposals :
        Settle(c, p) \/ \E d \in Decisions : ReviewStart(c, p, d)
    \/ \E c \in Callers : Answered(c) \/ ReviewCommit(c)

Spec == Init /\ [][Next]_vars

(* ------------------------------ properties ----------------------------- *)

(* The values every variable takes. *)
TypeOK ==
    /\ log \in Log /\ mine \in Log
    /\ DOMAIN rows = Entities
    /\ \A e \in Entities : DOMAIN rows[e] \subseteq Claims /\ \A c \in DOMAIN rows[e] : rows[e][c] \in Tiers
    /\ owed \in BOOLEAN
    /\ call \in [Callers -> [at : {"out", "settling", "found", "reviewing"},
                             proposal : Proposals \cup {None},
                             decision : Decisions \cup {None}, time : Nat]]
    /\ clock \in Nat
    /\ agenda \in Agendas

(* The log with p accepted at a console, later than every verdict in it. *)
Later(L, p) == Join(L, Cast(p, "console", 1 + Max({m.at : m \in L.merges} \cup {0})))

(* A gate act that peers merged and whose opening, or a claim it moves,    *)
(* was written here after: what completes it folds the rows of that one    *)
(* claim, or none, and owes nothing.                                       *)
CompletedHere(e) ==
    \E p \in Merged(log) :
        /\ Ask[p].kind \in GateKinds /\ MergesOf(mine, p) = {}
        /\ \E t \in Ask[p].targets : e \in Names[t]
        /\ \/ p \in mine.opened
           \/ \E t \in Ask[p].targets \cap Held(mine) : e \notin Names[t]

(* A row that is not what the log folds to is owed, whatever was written   *)
(* here or arrived, in whatever order - but for a peer's gate act a local  *)
(* write completes.                                                        *)
RowsFollowTheLog ==
    \A e \in Entities : rows[e] = Row(log, e) \/ owed \/ CompletedHere(e)

(* Once merged, a proposal stays merged: no verdict, withdrawal or evidence *)
(* that comes later, from here or from a peer, takes it back.               *)
MergedIsFinal == [][Merged(log) \subseteq Merged(log')]_vars

(* The highest tier is a person's: a claim stands human confirmed only     *)
(* while a merge verdict cast at a console is in the log for a merged      *)
(* promotion of it.                                                        *)
ConfirmedByAPerson ==
    \A c \in Held(log) : Tier(log, c) = HumanConfirmed =>
        \E p \in Events(log, c) : /\ Ask[p].kind = "claim_promotion"
                                  /\ \E m \in MergesOf(log, p) : m.surface = "console"

(* Persons at two consoles, a peer and an agent may ask the same: a repeat *)
(* this node comes to by itself, and that nobody asked in so many words,   *)
(* never waits beside the round it repeats, whatever arrived before it or  *)
(* after.  A peer's repeat may: it can arrive before the verdicts that the *)
(* peer had seen.                                                          *)
AskedOnce ==
    \A p \in log.opened :
        Again[p] \in mine.opened \ agenda.asks =>
            ~(State(log, p) = "open" /\ State(log, Again[p]) = "open")

(* Confirm, Undo, Confirm: what a settle lands on, found or opened, is not *)
(* superseded.  Were its verdict cast next, by a clock not behind the      *)
(* others, the claims it asks about would stand as it asks - unless a      *)
(* verdict on it came before the proposal, and stands from its own time.   *)
SettleTakesEffect ==
    [][\A c \in Callers : call[c].at = "out" /\ call'[c].at \in {"settling", "found"} =>
        LET p == call'[c].proposal
            L == Later(log', p)
        IN  Passes(L, p) /\ (p \in log.opened \/ MergesOf(log, p) = {}) =>
                \A t \in Ask[p].targets :
                    Moved(Ask[p].kind, Tier(L, t), Ask[p].tier) = Tier(L, t)]_vars

(* A merge accepted here commits although its checks were made before the  *)
(* guard was taken.                                                        *)
LocalMergeCommits ==
    [][\A c \in Callers :
        call[c].at = "reviewing" /\ call'[c].at = "out" /\ call[c].decision = "merge"
            => call[c].proposal \in Merged(log')]_vars

(* Where every entity forwards to is the end of its chain: an entity that  *)
(* forwards nowhere, unless the chain runs into a cycle the report shows.  *)
ForwardingEnds ==
    LET f == Forwarding(log)
    IN  \A e \in DOMAIN f : f[e] \notin DOMAIN f \/ \E C \in Cycles(log) : f[e] \in C

(* No merge before this one folded one of its entities, or folded another  *)
(* into one that it folds, or ran into a ring, where the cap on the hops    *)
(* decides; and nobody has said to split it already.                       *)
Apart(l, p) ==
    LET f == Forwarding(l)
    IN  /\ Ask[p].targets \cap DOMAIN f = {} /\ Cycles(l) = {}
        /\ \A e \in DOMAIN f : f[e] \notin Ask[p].targets \ {Ask[p].into}
        /\ \A q \in l.opened :
            Ask[q].kind = "entity_split" /\ p \in Ask[q].targets => ~MergeCast(l, q)

(* The diff a reviewer reads before a verdict is what the verdict does:    *)
(* for an open question that passes its checks, and a console verdict      *)
(* later than all others.  A merge's diff is that only while it stands     *)
(* apart from the merges and the splits before it.                         *)
DiffIsEffect ==
    \A p \in log.opened : State(log, p) = "open" /\ Passes(log, p) =>
        /\ Ask[p].kind \in GateKinds => \A c \in Ask[p].targets :
            GatePreview(log, p, c) = Tier(Later(log, p), c)
        /\ Ask[p].kind = "entity_split" => SplitPreview(log, p) = Forwarding(Later(log, p))
        /\ Ask[p].kind = "entity_merge" /\ Apart(log, p) =>
               MergePreview(log, p) = Forwarding(Later(log, p))
===============================================================================
