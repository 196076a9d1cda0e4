----------------------------- MODULE Replication -----------------------------
(***************************************************************************)
(* One workspace replicated between spokes and hubs: every node keeps an   *)
(* append-only log, stamps its own acts at the export boundary, and moves  *)
(* events in rounds it starts (push what the hub lacks, then pull).        *)
(*                                                                         *)
(* Store transactions are atomic; between two of them any other process or *)
(* thread may run.  A call from a spoke to a hub may be lost on the way, or *)
(* abandoned by the spoke while the hub's blocking task runs on.           *)
(***************************************************************************)
EXTENDS Attestations, Integers, FiniteSets

CONSTANTS
    Links,      \* <<spoke, hub>>: the hub's address is in the spoke's servers
    Author,     \* the node that observes each act
    Sharing,    \* nodes with the workspace on their share list
    Newer,      \* acts an old release cannot decode
    Malformed,  \* acts every receiver refuses as malformed
    BatchEvents,\* events in one push call
    PageEvents, \* events in one pull page
    FirstKeys,  \* origins each node trusts at first when it pulls
    FirstGrants,\* nodes each hub grants the workspace to at first
    FirstOld,   \* nodes that start on an old release
    Budget      \* how often each kind of fault or edit may happen

(* Acts are numbered in the order backfill stamps them: (ordering HLC, id). *)
ASSUME ActsAssumption == Acts \subseteq Nat /\ IsFiniteSet(Acts)

Faults == {"crash", "loss", "backup", "restore", "edit"}

ASSUME ConfigAssumption ==
    /\ Links \subseteq Nodes \X Nodes
    /\ Author \in [Acts -> Nodes]
    /\ Sharing \subseteq Nodes
    /\ Newer \subseteq Acts /\ Malformed \subseteq Acts
    /\ BatchEvents \in Nat \ {0} /\ PageEvents \in Nat \ {0}
    /\ FirstKeys \in [Nodes -> SUBSET Nodes]
    /\ FirstGrants \in [Nodes -> SUBSET Nodes]
    /\ FirstOld \subseteq Nodes
    /\ Budget \in [Faults -> Nat]

VARIABLES
    log,      \* the rows of the store: attestations
    backup,   \* the copy of the store a restore would bring back
    mark,     \* node.seq, beside the key: highest seq reserved
    counter,  \* SyncNode.last_seq, seeded lazily
    stamping, \* the backfills running at a node, by caller
    asks,     \* callers whose backfill waits for that lock
    jobs,     \* pushes a hub is applying in blocking tasks
    round,    \* the push or pull under the node's round lock
    keys,     \* origins the node verifies pulled events against
    granted,  \* nodes whose allowlist entry at this hub names the workspace
    old,      \* nodes on an old release
    spent,    \* faults so far
    issued    \* history: every stamp ever written to a log

disk == <<log, backup, mark>>
process == <<counter, stamping, asks, jobs, round>>
settings == <<keys, granted, old>>
vars == <<disk, process, settings, spent, issued>>

None == NoOrigin
Hubs(n) == {h \in Nodes : <<n, h>> \in Links}

(* ------------------------- sequence numbers ---------------------------- *)

(* The greatest of a set of seqs, 0 when there is none. *)
Highest(S) ==
    CHOOSE u \in 0 .. MaxSeq :
        /\ \A q \in S : q <= u
        /\ \A v \in 0 .. MaxSeq : (\A q \in S : q <= v) => u <= v

Vector == [Nodes -> 0 .. MaxSeq]
NoVector == [o \in Nodes |-> 0]

VersionVector(S) ==
    [o \in Nodes |-> Highest({p.seq : p \in {e \in Events(S) : e.origin = o}})]

(* A slip: the event after the last one held counts as covered. *)
CoversNext(vv, p) == p.seq <= vv[p.origin] + 1

(* What a vector claims: every event of a stream up to its seq. *)
Covers(vv, p) == p.seq <= vv[p.origin]

(* Everything stamped that `since` does not cover. *)
AttestationsSince(S, since) == {p \in Events(S) : ~Covers(since, p)}

Unseeded == -1

Seeded(n) ==
    IF counter[n] # Unseeded THEN counter[n]
    ELSE Highest({mark[n], VersionVector(log[n])[n]})

Floored(n, seen) == Highest({Seeded(n), seen})

(* ------------------------------- apply --------------------------------- *)

Readable(n, p) == p.act \notin Newer \/ n \notin old

(* A slip: events behind a rejection are judged on their own. *)
HoldsAlone(n, p, allowed, held) == p.origin \notin allowed \/ ~Readable(n, p)

(* A rejection whose cause the receiver can clear (a key, a grant, an      *)
(* upgrade), or one behind such a rejection: it holds its stream.          *)
Holds(n, p, allowed, held) ==
    \/ p.origin \in held
    \/ p.origin \notin allowed
    \/ ~Readable(n, p)

Accepts(n, p, allowed, held) ==
    ~Holds(n, p, allowed, held) /\ p.act \notin Malformed

(* The next event of its stream in a set of events. *)
IsNext(E, p) == p \in E /\ \A q \in E : q.origin = p.origin => p.seq <= q.seq

(* A slip: the page is cut before the events are put in order. *)
IsPageUnordered(P, E, k) ==
    Cardinality(P) = IF Cardinality(E) < k THEN Cardinality(E) ELSE k

(* The first k events of E: a prefix of every stream in it. *)
IsPage(P, E, k) ==
    /\ Cardinality(P) = IF Cardinality(E) < k THEN Cardinality(E) ELSE k
    /\ \A p \in P, q \in E : q.origin = p.origin /\ q.seq < p.seq => q \in P

(* ------------------------------- state --------------------------------- *)

Idle == [phase |-> "idle", todo |-> {}, asked |-> {}, peer |-> None,
         events |-> {}, held |-> {}, since |-> NoVector, more |-> FALSE,
         pulls |-> FALSE]

Phases == {"idle", "ask", "stamp", "push", "send", "sent",
           "pull", "fetch", "asked", "apply"}

NoPass == [todo |-> {}, next |-> 0]

(* A round exchanging with a hub knows which. *)
Round ==
    {r \in [phase : Phases, todo : SUBSET Nodes,
             asked : SUBSET [hub : Nodes, vv : Vector], peer : Nodes \cup {None},
             events : SUBSET Event, held : SUBSET Nodes,
             since : Vector, more : BOOLEAN, pulls : BOOLEAN] :
        r.peer = None => r.phase \in {"idle", "ask", "stamp", "push", "pull"}}

Job == [from : Nodes, live : BOOLEAN, events : SUBSET Event,
        held : SUBSET Nodes, allowed : SUBSET Nodes]

Pass == [todo : SUBSET Acts, next : 0 .. MaxSeq + 1]

Init ==
    /\ log = [n \in Nodes |-> {}]
    /\ backup = [n \in Nodes |-> {}]
    /\ mark = [n \in Nodes |-> 0]
    /\ counter = [n \in Nodes |-> Unseeded]
    /\ stamping = [n \in Nodes |-> [c \in Nodes |-> NoPass]]
    /\ asks = [n \in Nodes |-> {}]
    /\ jobs = [n \in Nodes |-> {}]
    /\ round = [n \in Nodes |-> Idle]
    /\ keys = [n \in Nodes |-> FirstKeys[n] \cup {n}]
    /\ granted = FirstGrants
    /\ old = FirstOld
    /\ spent = [f \in Faults |-> 0]
    /\ issued = {}

Spend(f) == spent[f] < Budget[f] /\ spent' = [spent EXCEPT ![f] = @ + 1]

(* ------------------------------ observing ------------------------------ *)

RoundBecomes(n, r) == round' = [round EXCEPT ![n] = r]

(* One observe: the author's store gains an unstamped attestation. *)
Observe(n, a) ==
    /\ Author[a] = n
    /\ \A m \in Nodes : \A p \in log[m] : p.act # a
    /\ \A e \in issued : e.act # a
    /\ log' = [log EXCEPT ![n] = Absorb(@, {Unstamped(a)})]
    /\ UNCHANGED <<backup, mark, process, settings, spent, issued>>

(* ------------------------------ stamping ------------------------------- *)

(* A slip: backfills do not wait for each other. *)
LockFreeAlways(n) == TRUE

(* No backfill of node n is between its snapshot and its last write. *)
LockFree(n) == \A c \in Nodes : stamping[n][c].todo = {}

(* Caller c's backfill at node n has returned. *)
Returned(n, c) == c \notin asks[n] /\ stamping[n][c].todo = {}

(* The snapshot has nothing unstamped: no seq is reserved. *)
BackfillNothing(n, c) ==
    /\ c \in asks[n] /\ LockFree(n)
    /\ UnstampedActs(log[n]) = {}
    /\ asks' = [asks EXCEPT ![n] = @ \ {c}]
    /\ UNCHANGED <<disk, counter, stamping, jobs, round, settings, spent, issued>>

(* A slip: the mark beside the key is not written. *)
BackfillStartUnmarked(n, c) ==
    LET todo == UnstampedActs(log[n])
        reserved == Seeded(n) + Cardinality(todo)
    IN  /\ c \in asks[n] /\ LockFree(n)
        /\ todo # {}
        /\ reserved <= MaxSeq
        /\ mark' = mark
        /\ counter' = [counter EXCEPT ![n] = reserved]
        /\ stamping' = [stamping EXCEPT ![n][c] =
               [todo |-> todo, next |-> Seeded(n) + 1]]
        /\ asks' = [asks EXCEPT ![n] = @ \ {c}]
        /\ UNCHANGED <<log, backup, jobs, round, settings, spent, issued>>

(* A slip: numbering starts at the last seq used. *)
BackfillStartReused(n, c) ==
    LET todo == UnstampedActs(log[n])
        reserved == Seeded(n) + Cardinality(todo)
    IN  /\ c \in asks[n] /\ LockFree(n)
        /\ todo # {}
        /\ reserved <= MaxSeq
        /\ mark' = [mark EXCEPT ![n] = Highest({@, reserved})]
        /\ counter' = [counter EXCEPT ![n] = reserved]
        /\ stamping' = [stamping EXCEPT ![n][c] =
               [todo |-> todo, next |-> Seeded(n)]]
        /\ asks' = [asks EXCEPT ![n] = @ \ {c}]
        /\ UNCHANGED <<log, backup, jobs, round, settings, spent, issued>>

(* Snapshot under the lock, then reserve one seq per unstamped attestation: *)
(* the mark is written before the counter moves and before any is used.    *)
BackfillStart(n, c) ==
    LET todo == UnstampedActs(log[n])
        reserved == Seeded(n) + Cardinality(todo)
    IN  /\ c \in asks[n] /\ LockFree(n)
        /\ todo # {}
        /\ reserved <= MaxSeq
        /\ mark' = [mark EXCEPT ![n] = Highest({@, reserved})]
        /\ counter' = [counter EXCEPT ![n] = reserved]
        /\ stamping' = [stamping EXCEPT ![n][c] =
               [todo |-> todo, next |-> Seeded(n) + 1]]
        /\ asks' = [asks EXCEPT ![n] = @ \ {c}]
        /\ UNCHANGED <<log, backup, jobs, round, settings, spent, issued>>

(* One row written back through the ordinary absorb, in stamping order. *)
BackfillWrite(n, c) ==
    LET pass == stamping[n][c]
    IN  \E a \in pass.todo :
        LET e == Stamped(a, n, pass.next)
            left == pass.todo \ {a}
        IN  /\ \A b \in left : a < b
            /\ log' = [log EXCEPT ![n] = Absorb(@, {e})]
            /\ issued' = issued \cup {e}
            /\ stamping' = [stamping EXCEPT ![n][c] =
                   IF left = {} THEN NoPass
                   ELSE [todo |-> left, next |-> pass.next + 1]]
            /\ UNCHANGED <<backup, mark, counter, asks, jobs, round,
                           settings, spent>>

(* ------------------------- a round: ask and stamp ---------------------- *)

(* push_workspace (and with `pulls`, the pull a sync_round does after it), *)
(* only for a workspace on the share list.                                 *)
PushStart(n, pulls) ==
    /\ round[n] = Idle /\ n \in Sharing /\ Hubs(n) # {}
    /\ RoundBecomes(n, [Idle EXCEPT !.phase = "ask", !.todo = Hubs(n),
                                    !.pulls = pulls])
    /\ UNCHANGED <<disk, counter, stamping, asks, jobs, settings, spent, issued>>

(* pull_workspace on its own: the sync_pull tool, a receive-only workspace. *)
PullStart(n) ==
    /\ round[n] = Idle /\ Hubs(n) # {}
    /\ RoundBecomes(n, [Idle EXCEPT !.phase = "pull", !.todo = Hubs(n)])
    /\ UNCHANGED <<disk, counter, stamping, asks, jobs, settings, spent, issued>>

(* A hub that grants the workspace answers with its version vector. *)
Advertise(n, h) ==
    /\ round[n].phase = "ask" /\ h \in round[n].todo /\ n \in granted[h]
    /\ RoundBecomes(n, [round[n] EXCEPT
           !.todo = @ \ {h},
           !.asked = @ \cup {[hub |-> h, vv |-> VersionVector(log[h])]}])
    /\ UNCHANGED <<disk, counter, stamping, asks, jobs, settings, spent, issued>>

(* The call fails, or answers 403: this hub is left out of the push. *)
AdvertiseFails(n, h) ==
    /\ round[n].phase = "ask" /\ h \in round[n].todo
    /\ RoundBecomes(n, [round[n] EXCEPT !.todo = @ \ {h}])
    /\ \/ n \notin granted[h] /\ UNCHANGED spent
       \/ n \in granted[h] /\ Spend("loss")
    /\ UNCHANGED <<disk, counter, stamping, asks, jobs, settings, issued>>

(* Every answer floors the counter, and the backfill takes its turn. *)
FloorSeq(n) ==
    LET seen == {r.vv[n] : r \in round[n].asked}
    IN  /\ round[n].phase = "ask" /\ round[n].todo = {}
        /\ counter' = IF seen = {} THEN counter
                      ELSE [counter EXCEPT ![n] = Floored(n, Highest(seen))]
        /\ asks' = [asks EXCEPT ![n] = @ \cup {n}]
        /\ RoundBecomes(n, [round[n] EXCEPT !.phase = "stamp"])
        /\ UNCHANGED <<disk, stamping, jobs, settings, spent, issued>>

(* ----------------------------- a round: push --------------------------- *)

(* A round that ends its push goes on to pull, or is over. *)
AfterPush(r, n) ==
    IF r.pulls THEN [Idle EXCEPT !.phase = "pull", !.todo = Hubs(n)] ELSE Idle

(* This hub's part of the push or the pull is over. *)
Leave(r) ==
    [r EXCEPT !.phase = IF r.phase \in {"push", "send", "sent"}
                        THEN "push" ELSE "pull",
              !.peer = None, !.events = {}, !.held = {},
              !.since = NoVector, !.more = FALSE]

Stamping(n) ==
    /\ round[n].phase = "stamp" /\ Returned(n, n)
    /\ RoundBecomes(n, [round[n] EXCEPT !.phase = "push"])
    /\ UNCHANGED <<disk, counter, stamping, asks, jobs, settings, spent, issued>>

(* The counter cannot pass MaxSeq: nothing is stamped and the caller fails. *)
SeqExhausted(n, c) ==
    LET todo == UnstampedActs(log[n])
    IN  /\ c \in asks[n] /\ LockFree(n)
        /\ todo # {} /\ Seeded(n) + Cardinality(todo) > MaxSeq
        /\ counter' = [counter EXCEPT ![n] = Seeded(n)]
        /\ asks' = [asks EXCEPT ![n] = @ \ {c}]
        /\ RoundBecomes(c,
               IF c = n /\ round[n].phase = "stamp" THEN AfterPush(round[n], n)
               ELSE IF round[c].phase = "asked" /\ round[c].peer = n
               THEN Leave(round[c]) ELSE round[c])
        /\ UNCHANGED <<disk, stamping, jobs, settings, spent, issued>>

(* The surplus of one hub, against the vector it advertised. *)
ExportDelta(n) ==
    /\ round[n].phase = "push"
    /\ \E r \in round[n].asked :
        LET surplus == AttestationsSince(log[n], r.vv)
        IN  RoundBecomes(n,
                IF surplus = {} THEN [round[n] EXCEPT !.asked = @ \ {r}]
                ELSE [round[n] EXCEPT !.asked = @ \ {r}, !.phase = "send",
                                      !.peer = r.hub, !.events = surplus])
    /\ UNCHANGED <<disk, counter, stamping, asks, jobs, settings, spent, issued>>

(* A slip: a push may carry any origin the hub has a key for. *)
PushBatchUnbounded(n) ==
    LET h == round[n].peer
    IN  /\ round[n].phase = "send" /\ n \in granted[h]
        /\ \E batch \in SUBSET round[n].events :
            /\ IsPage(batch, round[n].events, BatchEvents)
            /\ jobs' = [jobs EXCEPT ![h] = @ \cup
                   {[from |-> n, live |-> TRUE, events |-> batch, held |-> {},
                     allowed |-> Nodes]}]
            /\ RoundBecomes(n, [round[n] EXCEPT
                   !.phase = "sent", !.events = @ \ batch])
        /\ UNCHANGED <<disk, counter, stamping, asks, settings, spent, issued>>

(* One batch reaches the hub, which authorizes the pusher and fixes whom it *)
(* admits: the nodes granted the workspace there and the hub itself.       *)
PushBatch(n) ==
    LET h == round[n].peer
    IN  /\ round[n].phase = "send" /\ n \in granted[h]
        /\ \E batch \in SUBSET round[n].events :
            /\ IsPage(batch, round[n].events, BatchEvents)
            /\ jobs' = [jobs EXCEPT ![h] = @ \cup
                   {[from |-> n, live |-> TRUE, events |-> batch, held |-> {},
                     allowed |-> granted[h] \cup {h}]}]
            /\ RoundBecomes(n, [round[n] EXCEPT
                   !.phase = "sent", !.events = @ \ batch])
        /\ UNCHANGED <<disk, counter, stamping, asks, settings, spent, issued>>

(* The hub applies one event of a push: absorbed and, for its own stream,  *)
(* floored; or dropped; or its stream held for the rest of the batch.      *)
ApplyPushed(h) ==
    \E j \in jobs[h] : \E p \in j.events :
        LET held == IF Holds(h, p, j.allowed, j.held)
                    THEN j.held \cup {p.origin} ELSE j.held
            rest == [j EXCEPT !.events = @ \ {p}, !.held = held]
            ok == Accepts(h, p, j.allowed, j.held)
        IN  /\ IsNext(j.events, p)
            /\ log' = IF ok THEN [log EXCEPT ![h] = Absorb(@, {p})] ELSE log
            /\ counter' = IF ok /\ p.origin = h
                          THEN [counter EXCEPT ![h] = Floored(h, p.seq)]
                          ELSE counter
            /\ jobs' = [jobs EXCEPT ![h] = (@ \ {j}) \cup
                   IF rest.events = {} /\ ~rest.live THEN {} ELSE {rest}]
            /\ UNCHANGED <<backup, mark, stamping, asks, round, settings,
                           spent, issued>>

(* The answer: streams held at the hub are not sent further this round. *)
PushReply(n) ==
    LET h == round[n].peer
    IN  /\ round[n].phase = "sent"
        /\ \E j \in jobs[h] :
            LET held == round[n].held \cup j.held
                events == {p \in round[n].events : p.origin \notin held}
            IN  /\ j.from = n /\ j.live /\ j.events = {}
                /\ jobs' = [jobs EXCEPT ![h] = @ \ {j}]
                /\ RoundBecomes(n,
                       IF events = {} THEN Leave(round[n])
                       ELSE [round[n] EXCEPT !.phase = "send", !.held = held,
                                             !.events = events])
        /\ UNCHANGED <<disk, counter, stamping, asks, settings, spent, issued>>

(* A job whose caller has gone runs on, unanswered. *)
Orphaned(S, n) ==
    {IF j.from = n THEN [j EXCEPT !.live = FALSE] ELSE j :
        j \in {i \in S : i.from # n \/ i.events # {}}}

(* 403, an unreachable hub, or an answer that came too late. *)
PushFails(n) ==
    LET h == round[n].peer
    IN  /\ round[n].phase \in {"send", "sent"}
        /\ \/ round[n].phase = "send" /\ n \notin granted[h] /\ UNCHANGED spent
           \/ Spend("loss")
        /\ jobs' = [jobs EXCEPT ![h] = Orphaned(@, n)]
        /\ RoundBecomes(n, Leave(round[n]))
        /\ UNCHANGED <<disk, counter, stamping, asks, settings, issued>>

PushEnd(n) ==
    /\ round[n].phase = "push" /\ round[n].asked = {}
    /\ RoundBecomes(n, AfterPush(round[n], n))
    /\ UNCHANGED <<disk, counter, stamping, asks, jobs, settings, spent, issued>>

(* ----------------------------- a round: pull --------------------------- *)

(* The next hub: what the store holds now is what is asked beyond. *)
PullFrom(n, h) ==
    /\ round[n].phase = "pull" /\ h \in round[n].todo
    /\ RoundBecomes(n, [round[n] EXCEPT
           !.todo = @ \ {h}, !.phase = "fetch", !.peer = h,
           !.since = VersionVector(log[n])])
    /\ UNCHANGED <<disk, counter, stamping, asks, jobs, settings, spent, issued>>

(* A pull request is authorized at the hub and waits for its backfill. *)
PullAsk(n) ==
    LET h == round[n].peer
    IN  /\ round[n].phase = "fetch" /\ n \in granted[h]
        /\ asks' = [asks EXCEPT ![h] = @ \cup {n}]
        /\ RoundBecomes(n, [round[n] EXCEPT !.phase = "asked"])
        /\ UNCHANGED <<disk, counter, stamping, jobs, settings, spent, issued>>

(* A vector moved on past the events of a page. *)
Advanced(vv, page) ==
    [o \in Nodes |->
        Highest({vv[o]} \cup {p.seq : p \in {q \in page : q.origin = o}})]

(* One page of the hub's delta; the request advances to the page's end. *)
PullServe(n) ==
    LET h == round[n].peer
        delta == AttestationsSince(log[h], round[n].since)
    IN  /\ round[n].phase = "asked" /\ Returned(h, n)
        /\ \E page \in SUBSET delta :
            /\ IsPage(page, delta, PageEvents)
            /\ RoundBecomes(n,
                   IF page = {} THEN Leave(round[n])
                   ELSE [round[n] EXCEPT !.phase = "apply", !.events = page,
                            !.held = {}, !.more = page # delta,
                            !.since = Advanced(round[n].since, page)])
        /\ UNCHANGED <<disk, counter, stamping, asks, jobs, settings, spent, issued>>

(* The puller applies one event, admitting every origin it has a key for. *)
ApplyPulled(n) ==
    \E p \in round[n].events :
        LET r == round[n]
            ok == Accepts(n, p, keys[n], r.held)
        IN  /\ r.phase = "apply" /\ IsNext(r.events, p)
            /\ log' = IF ok THEN [log EXCEPT ![n] = Absorb(@, {p})] ELSE log
            /\ counter' = IF ok /\ p.origin = n
                          THEN [counter EXCEPT ![n] = Floored(n, p.seq)]
                          ELSE counter
            /\ RoundBecomes(n, [round[n] EXCEPT
                   !.events = @ \ {p},
                   !.held = IF Holds(n, p, keys[n], r.held)
                            THEN @ \cup {p.origin} ELSE @])
            /\ UNCHANGED <<backup, mark, stamping, asks, jobs, settings,
                           spent, issued>>

(* A slip: a held stream is claimed past the largest seq. *)
PullNextPastMax(n) ==
    LET claimed == [o \in Nodes |-> IF o \in round[n].held THEN MaxSeq + 1
                                    ELSE round[n].since[o]]
    IN  /\ round[n].phase = "apply" /\ round[n].events = {}
        /\ RoundBecomes(n,
               IF round[n].more
               THEN [round[n] EXCEPT !.phase = "fetch", !.since = claimed,
                                     !.held = {}, !.more = FALSE]
               ELSE Leave(round[n]))
        /\ UNCHANGED <<disk, counter, stamping, asks, jobs, settings, spent, issued>>

(* A held stream is claimed whole; the next page, while there is more. *)
PullNext(n) ==
    LET claimed == [o \in Nodes |-> IF o \in round[n].held THEN MaxSeq
                                    ELSE round[n].since[o]]
    IN  /\ round[n].phase = "apply" /\ round[n].events = {}
        /\ RoundBecomes(n,
               IF round[n].more
               THEN [round[n] EXCEPT !.phase = "fetch", !.since = claimed,
                                     !.held = {}, !.more = FALSE]
               ELSE Leave(round[n]))
        /\ UNCHANGED <<disk, counter, stamping, asks, jobs, settings, spent, issued>>

(* 403, an unreachable hub, or an answer that came too late. *)
PullFails(n) ==
    LET h == round[n].peer
    IN  /\ round[n].phase \in {"fetch", "asked"}
        /\ \/ round[n].phase = "fetch" /\ n \notin granted[h] /\ UNCHANGED spent
           \/ Spend("loss")
        /\ RoundBecomes(n, Leave(round[n]))
        /\ UNCHANGED <<disk, counter, stamping, asks, jobs, settings, issued>>

PullEnd(n) ==
    /\ round[n].phase = "pull" /\ round[n].todo = {}
    /\ RoundBecomes(n, Idle)
    /\ UNCHANGED <<disk, counter, stamping, asks, jobs, settings, spent, issued>>

(* ------------------- faults, restarts and settings --------------------- *)

(* The process of n stops and starts again: what it kept in memory is gone, *)
(* calls it had made run on at the hubs, calls made to it fail.            *)
Restart(n) ==
    /\ counter' = [counter EXCEPT ![n] = Unseeded]
    /\ stamping' = [stamping EXCEPT ![n] = [c \in Nodes |-> NoPass]]
    /\ asks' = [asks EXCEPT ![n] = {}]
    /\ jobs' = [m \in Nodes |-> IF m = n THEN {} ELSE Orphaned(jobs[m], n)]
    /\ round' = [m \in Nodes |->
           IF m = n THEN Idle
           ELSE IF round[m].peer = n /\ round[m].phase \in {"sent", "asked"}
           THEN Leave(round[m]) ELSE round[m]]

Crash(n) ==
    /\ Spend("crash") /\ Restart(n)
    /\ UNCHANGED <<disk, settings, issued>>

(* A copy of the store is put aside; and brought back with the node        *)
(* stopped.  The key and its mark stay where they are.                     *)
Backup(n) ==
    /\ Spend("backup")
    /\ backup' = [backup EXCEPT ![n] = log[n]]
    /\ UNCHANGED <<log, mark, process, settings, issued>>

Restore(n) ==
    /\ Spend("restore") /\ Restart(n)
    /\ log' = [log EXCEPT ![n] = backup[n]]
    /\ UNCHANGED <<backup, mark, settings, issued>>

(* What clears a rejection: a key in the configuration, read at start, ... *)
TrustOrigin(n, o) ==
    /\ o \notin keys[n] /\ Restart(n)
    /\ keys' = [keys EXCEPT ![n] = @ \cup {o}]
    /\ UNCHANGED <<disk, granted, old, spent, issued>>

(* ... a newer release, ... *)
Upgrade(n) ==
    /\ n \in old /\ Restart(n)
    /\ old' = old \ {n}
    /\ UNCHANGED <<disk, keys, granted, spent, issued>>

(* ... or a grant at the hub, which replaces its allowlist while it runs. *)
Grant(h, n) ==
    /\ Spend("edit") /\ h \in Hubs(n) /\ n \notin granted[h]
    /\ granted' = [granted EXCEPT ![h] = @ \cup {n}]
    /\ UNCHANGED <<disk, process, keys, old, issued>>

Revoke(h, n) ==
    /\ Spend("edit") /\ n \in granted[h]
    /\ granted' = [granted EXCEPT ![h] = @ \ {n}]
    /\ UNCHANGED <<disk, process, keys, old, issued>>

(* -------------------------- specification ------------------------------ *)

RoundStep(n) ==
    \/ \E h \in Nodes : Advertise(n, h) \/ AdvertiseFails(n, h)
    \/ FloorSeq(n) \/ Stamping(n)
    \/ ExportDelta(n) \/ PushBatch(n) \/ PushReply(n) \/ PushFails(n)
    \/ PushEnd(n)
    \/ \E h \in Nodes : PullFrom(n, h)
    \/ PullAsk(n) \/ PullServe(n) \/ ApplyPulled(n) \/ PullNext(n)
    \/ PullFails(n) \/ PullEnd(n)

BackfillStep(n) ==
    \E c \in Nodes :
        \/ BackfillNothing(n, c) \/ BackfillStart(n, c)
        \/ BackfillWrite(n, c) \/ SeqExhausted(n, c)

Environment(n) ==
    \/ Crash(n) \/ Backup(n) \/ Restore(n) \/ Upgrade(n)
    \/ \E o \in Nodes : TrustOrigin(n, o) \/ Grant(n, o) \/ Revoke(n, o)

Next ==
    \E n \in Nodes :
        \/ \E a \in Acts : Observe(n, a)
        \/ \E pulls \in BOOLEAN : PushStart(n, pulls)
        \/ PullStart(n)
        \/ RoundStep(n) \/ BackfillStep(n) \/ ApplyPushed(n)
        \/ Environment(n)

Spec == Init /\ [][Next]_vars

(* One caller's wait for the backfill lock ends. *)
BackfillTurn(n, c) ==
    BackfillNothing(n, c) \/ BackfillStart(n, c) \/ SeqExhausted(n, c)

(* A sync_round for a shared workspace, or its pull for a received one. *)
TimedRound(n) ==
    IF n \in Sharing THEN PushStart(n, TRUE) ELSE PullStart(n)

(* Tasks and threads that can run do; the daemon's timer never stops, and  *)
(* its turn at the round lock comes whatever the tools do (the lock is     *)
(* fair, so strong fairness).  Nothing makes a fault or an edit happen.    *)
Fairness ==
    \A n \in Nodes :
        /\ WF_vars(RoundStep(n))
        /\ \A c \in Nodes :
            WF_vars(BackfillTurn(n, c)) /\ WF_vars(BackfillWrite(n, c))
        /\ WF_vars(ApplyPushed(n))
        /\ SF_vars(TimedRound(n))

FairSpec == Spec /\ Fairness

(* ---------------------------- properties ------------------------------- *)

(* The values every variable takes. *)
TypeOK ==
    /\ log \in [Nodes -> SUBSET Attestation]
    /\ backup \in [Nodes -> SUBSET Attestation]
    /\ mark \in [Nodes -> 0 .. MaxSeq]
    /\ counter \in [Nodes -> 0 .. MaxSeq \cup {Unseeded}]
    /\ stamping \in [Nodes -> [Nodes -> Pass]]
    /\ asks \in [Nodes -> SUBSET Nodes]
    /\ jobs \in [Nodes -> SUBSET Job]
    /\ round \in [Nodes -> Round]
    /\ keys \in [Nodes -> SUBSET Nodes]
    /\ granted \in [Nodes -> SUBSET Nodes]
    /\ old \in SUBSET Nodes
    /\ spent \in [Faults -> Nat]
    /\ issued \in SUBSET Event

(* A seq of a stream names one event, whatever crashes and restores its    *)
(* origin goes through: no two events ever written share an origin and a   *)
(* seq, and every event any node holds is one its origin wrote.            *)
SeqIssuedOnce ==
    /\ \A e, f \in issued : e.origin = f.origin /\ e.seq = f.seq => e = f
    /\ \A n \in Nodes : Events(log[n]) \subseteq issued

(* One act is stamped once, however rounds, pull requests and crashes      *)
(* interleave with the backfills that stamp it.                            *)
OneActOneStamp ==
    \A e, f \in issued : e.act = f.act => e = f

(* No log counts one act twice: enrichment leaves an act one attestation,  *)
(* stamped or not.  (Said of restores too, where run restamp refutes it.)   *)
NoDoubleCount ==
    \A n \in Nodes : \A p, q \in log[n] : p.act = q.act => p = q

(* A log never holds an event of a stream without every event written      *)
(* before it in that stream, those the node refuses for good excepted: the *)
(* version vector, a maximum per stream, never claims what is not held.    *)
NoHole ==
    \A n \in Nodes : \A f \in Events(log[n]) : \A e \in issued :
        e.origin = f.origin /\ e.seq < f.seq /\ e.act \notin Malformed
            => e \in log[n]

(* An act a log holds stays there and a stamp it has gained is never lost, *)
(* whatever is absorbed in whatever order (a restore aside).               *)
LogGrows ==
    [][\A n \in Nodes : log'[n] # log[n] /\ spent'["restore"] = spent["restore"]
          => /\ Events(log[n]) \subseteq Events(log'[n])
             /\ {p.act : p \in log[n]} \subseteq {p.act : p \in log'[n]}]_vars

(* The streams this system implements, for logs that are never restored.   *)
Promise == INSTANCE Streams WITH held <- [n \in Nodes |-> Events(log[n])]

(* Every step is a stamp past all others of its stream, an in-order        *)
(* delivery, or invisible: what Streams promises is what the rounds do.    *)
ImplementsStreams == Promise!Spec

(* Act a is observed, and node n holds it as an event. *)
Observed(a) == \E p \in log[Author[a]] : p.act = a
Arrived(n, a) == \E p \in Events(log[n]) : p.act = a

(* What keeps act a from node n: n or a hub it exchanges with cannot       *)
(* decode an event of a's stream, or lacks its origin's key.               *)
Rejects(m, a) ==
    \/ m \in old /\ \E b \in Newer : Author[b] = Author[a]
    \/ Author[a] \notin keys[m]

Stuck(n, a) == \E m \in {n} \cup Hubs(n) : Rejects(m, a)

(* Every act observed reaches every node whose rejections of its stream    *)
(* are cleared in the end: an event held, lost or refused on the way is    *)
(* offered again, and a stream held for a rejection nobody clears keeps no *)
(* other stream back, however small the pages and the batches are.         *)
Delivered ==
    \A a \in Acts \ Malformed : \A n \in Nodes \ {Author[a]} :
        <>[]~Stuck(n, a) => (Observed(a) ~> Arrived(n, a))

(* A hub that pulls from nobody holds only streams of nodes granted the    *)
(* workspace there, whoever pushes them (while its allowlist is as it was  *)
(* first).                                                                 *)
Admission ==
    \A n \in Nodes : Hubs(n) = {} =>
        \A e \in Events(log[n]) : e.origin \in FirstGrants[n] \cup {n}
===============================================================================
