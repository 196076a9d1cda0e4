# supragnosis: a verification project

supragnosis keeps a knowledge log per *workspace*: append-only observations, each with
the attestations of the hosts that stated it, from which entities and relations are
folded. Nodes replicate the log through hubs they push to and pull from, a person
reviews proposals that change what the folds conclude, and one daemon per machine holds
the store. This directory models the parts of that program whose correctness depends on
orders, interleavings and crashes; TLC checks the models on small instances and TLAPS
proves every safety property of the passing runs for every instance.

All paths below are relative to the repository root.

## 1. Inventory

| Component | State | Operations | What is hard |
|---|---|---|---|
| Observation rows (`crates/supragnosis-core/src/observation.rs`, `provenance.rs`) | attestations of a row, with or without a sync stamp | `absorb`, stamp upgrade, `VersionVector` | copies of a row meet in any order, before and after stamping |
| Sync node (`crates/supragnosis-sync/src/lib.rs`) | log, `node.seq` mark, seq counter, backfill lock | `backfill`, `reserve`, `floor_seq`, `export_delta`, `apply_inbound` | crash between reservation and stamp, restored stores, a rejected event in a stream |
| Sync HTTP API (`crates/supragnosis-sync/src/http`) | live allowlist, blocking jobs | advertise, push, pull, ping, search | a job outlives its caller; grants change between batches; pages cut streams |
| Sync rounds (`crates/supragnosis-mcp/src/sync.rs`, `crates/supragnosis-cli/src/sync_wiring.rs`) | round lock, timer | `push_workspace`, `pull_workspace`, `sync_round`, the five-minute timer | lost calls, retries, several hubs, bridges between hubs |
| Owed ledger and reprojection (`crates/supragnosis-engine/src/maintenance.rs`, `observe.rs`, `crates/supragnosis-store/src/redb_store.rs`) | log, graph, ledger of owed projections, write guard | `commit_projected`, `add_observation`, `reproject`, `clear_owed`, `repay_owed`, format upgrade | sync appends outside the guard; crash between append and projection |
| Proposals and review (`crates/supragnosis-engine/src/proposals.rs`, `propose.rs`, `review.rs`, `crates/supragnosis-viz/src/resolve_api.rs`) | proposal events in the log (folded on read) | `propose`, `propose_anew`, `review_proposal`, the console's settle | events arrive in any order; review decides on a stale fold; the same act asked twice |
| Belief and gates (`belief.rs`, `gate.rs`) | gate verdicts in the log, rows in the graph | `gate_verdicts`, `gate_fold`, `belief_fold` | concurrent verdicts, promotion against demotion, what raises a tier |
| Merge forwarding and diffs (`forwarding.rs`, `diffs.rs`) | merges decided and reversed | `decided_merges`, `forwarding_less`, the previews | chains, cycles, reversals; a diff that is not what the verdict does |
| Re-key and legacy ids (`maintenance.rs`) | copies of rows between workspaces and id formulas | `rekey_workspace`, `migrate_legacy_ids` | stopped and run again while sync appends; stamps and gate acts stay behind |
| Embeddings (`maintenance.rs`, `crates/supragnosis-cli/src/embedding.rs`) | vectors, the model the store records | backfill, `embed reset`, `embed rebuild`, the model check on open | a vector for a text the entity no longer has; daemons of two models |
| Pairing (`crates/supragnosis-cli/src/invite.rs`, `join.rs`, `pair.rs`) | invitations, configuration, peers file, the joiner's record | invite, preview, join, allow, deny, cancel, expire, remove, leave | three files written in turn; two machines with one code; expiry during an answer |
| Hub listener (`crates/supragnosis-cli/src/hub.rs`, `sync_wiring.rs`) | running listener, its directory and its state | `refresh`, `follow`, `apply`, narrowing, `make_invitation` | overlapping refreshes; an invitation that ends with nobody there |
| Daemon lifecycle (`crates/supragnosis-cli/src/lifecycle.rs`, `service.rs`, `daemon_ctl.rs`, `managers.rs`) | loaded jobs, service file, pidfile, the running daemons | start, stop, restart, install, take over, uninstall | commands look first and act later; several managers of one store |
| Desktop app (`app/src/daemon.rs`, `settings.rs`) and setup (`crates/supragnosis-cli/src/setup.rs`) | what the app shows, its child | attach or spawn, Restart, Start at Login, Rebuild Index, quit; the server step | the app's child races a job; a shown failure that has passed |
| stdio bridge (`crates/supragnosis-cli/src/bridge.rs`) | one session with the daemon | `send`, `reopen`, `post` | several requests meet a lost session; a daemon that dies answering |

Everything else - MCP request and reply types, search and read queries, inference, the
clients' configuration files and hooks, the viewer's page - keeps no state whose order
matters to another part; `PROJECT.json` lists each with its reason, and lists every hazard
with the line where it bites.

### How the components interact

```
 person / agent ──► engine (observe, propose, review) ──► log ─┐
                        │  write guard                          │ append   ┌── hub's HTTP API ◄── other nodes
                        ▼                                       ▼          ▼
                  graph (folds) ◄── reproject ◄── ledger of owed ◄── apply_inbound ◄── pull from hubs
                        ▲  vectors                              ▲
          embedding backfill                rekey, migrate, embed reset (one-shot commands)

 timer / tools ──► sync round: advertise, floor, backfill, push, pull

 person ──► hub's daemon: invite, allow, remove ──► invitations, peers.toml, configuration (allowlist)
                                                              └─ notice ──► listener's refresh
 person ──► `hub join` on another machine ──► the hub's pairing listener; its own configuration

 launchd, Homebrew, `start`, the app, a terminal ──► daemons ──► the store's lock (one of them gets it)
 MCP client ──► stdio bridge ──► whichever daemon serves
```

* The engine appends to the log and folds the graph under one write guard. Sync appends to
  the same log **outside** that guard and leaves a note in the ledger; a reproject repays it.
* A sync round and the pull handler of the node's own hub both stamp unstamped acts
  (`backfill`), and a handler's blocking job outlives the caller that gave up on it.
* Two nodes share nothing but HTTP calls, each of which can be lost on the way there or back.
* A proposal's state, a claim's tier and an entity's forwarding are folded from the log at
  each read, so what a peer's verdict does here depends on the log and on no order of arrival.
* Pairing writes the allowlist the sync handlers read, and wakes the listener that serves them.
* The store's lock admits one process: a daemon, or a one-shot command. Whatever a process
  kept in memory - a job, a backfill, a listener, the bridge's session - ends with it.

### What makes each correct

| Component | Properties |
|---|---|
| Observation rows | merging copies is associative, commutative, idempotent; no act and no stamp is lost |
| Sync | a seq names one event for ever (`SeqIssuedOnce`); an act is stamped once (`OneActOneStamp`, `NoDoubleCount`); a version vector never claims an event that is not held (`NoHole`, `ImplementsStreams`); a rejected event holds its stream and no other, and every act arrives once nothing rejects it (`Delivered`); a hub takes in only what it granted (`Admission`) |
| Owed ledger | what the graph lacks is owed across crashes and failed writes (`LagIsOwed`); the graph never goes back (`GraphNeverGoesBack`); a process serves only a repaid graph (`ServesCurrent`) and does come to serve (`OpensToServe`) |
| Proposals, gates, forwarding | rows are what the log folds to, or owed (`RowsFollowTheLog`); a merged proposal stays merged (`MergedIsFinal`); only a person confirms (`ConfirmedByAPerson`); no repeat this node asked waits beside the round it repeats (`AskedOnce`); what a settle lands on is in force (`SettleTakesEffect`); a review's stale checks do no harm (`LocalMergeCommits`); a chain of merges ends (`ForwardingEnds`); a diff says what the verdict does (`DiffIsEffect`) |
| Re-key, embeddings | a copy raises nothing (`NeverRaised`), counts once (`CountedOnce`), takes its app along (`AppsFollow`), and a cut run leaves what is served owed (`ServedAsLogged`); a vector is of the text and the model in force (`VectorsFit`) |
| Pairing | the person's Allow admits what they were shown; a code lets in one machine; a hub admits one; an allowed machine keeps its answer until it takes it; a leave drops its record of a hub with the entry, not before (`LeavesNothing`) |
| Hub listener | the daemon says it listens exactly when it does (`StateIsTrue`); a listener open for an invitation alone closes when that ends (`ClosesUninvited`) |
| Lifecycle, app | an install ends with one owner of the store (`OneOwner`); the app comes to show what runs (`Shown`) |
| Bridge | no request runs twice (`RanOnce`), lost sessions are replaced by one (`OneSession`), each request is answered once (`Answered`) |

## 2. Modules and the code they model

`PROJECT.json` maps every definition to its lines. The modules:

| Module | What it is | Code |
|---|---|---|
| `Attestations` | a row as a set of attestations, `Absorb`, `Enriched` (constant level) | `observation.rs`, `provenance.rs` |
| `Replication` | nodes, hubs, rounds, handlers, backfills; extends `Attestations` | `supragnosis-sync/src/lib.rs`, its `http/` handlers and client, `supragnosis-mcp/src/sync.rs`, `sync_wiring.rs` |
| `Streams` | abstract: events are issued in order per origin and each node takes each stream in order | what the module docs of `lib.rs` promise |
| `OwedLedger` | one store: log, graph, ledger, guard, process start | `maintenance.rs`, `observe.rs`, `redb_store.rs`, `engine_setup.rs` |
| `Pairing` | hubs, their files, the joining machine's command | `invite.rs`, `join.rs`, `hub.rs`, `fed.rs` |
| `Tiers` | trust tiers, ceilings, what a gate act does to a tier (constant level) | `supragnosis-core`, `gate.rs`, `belief.rs` |
| `ProposalFold` | states, tiers, forwarding and previews as functions of a log (constant level) | `proposals.rs`, `gate.rs`, `belief.rs`, `forwarding.rs`, `diffs.rs` |
| `Curation` | one node's acts on proposals and the rows that follow; extends `ProposalFold` | `propose.rs`, `review.rs`, `observe.rs`, `resolve_api.rs` |
| `StoreHolder` | who has the store, and how it is taken and left | `redb_store.rs` (the lock), `serve.rs` |
| `Maintenance` | re-key, migration, embeddings; instances `Attestations` | `maintenance.rs`, `embedding.rs`, `redb_store.rs` |
| `Listener` | the hub's listener and its refreshes | `hub.rs`, `sync_wiring.rs`, `invite.rs` |
| `Bridge` | a client's requests over one session | `bridge.rs` |
| `Lifecycle` | who runs the daemon: commands, jobs, the app | `lifecycle.rs`, `service.rs`, `daemon_ctl.rs`, `managers.rs`, `setup.rs`, `app/src/daemon.rs`, `settings.rs` |
| `Machine` | composes the last five on one machine: what a stop cuts short, and what outlives it | |
| `MC*` | the instances TLC checks | |
| `ReplicationProofs`, `DeliveryProofs` | theorems of `Attestations` and `Replication`; of what is delivered, down to `Streams` | |
| `OwedLedgerProofs`, `PairingProofs`, `CurationProofs` | theorems of the module in the name | |
| `MachineProofs`, `MaintenanceProofs` | theorems of `Machine`: its listener, bridge and lifecycle; its maintenance and its types | |
| `Iteration` | inductions over the numbers, for what recursive functions compute | |

**Attestations.** An attestation is an act with its stamp (origin and seq) or none. A row in
the code is one content-addressed observation with several attestations; the model keeps all
rows of a log in one set, because an act belongs to exactly one row. `Enriched` is the rule
that a stamped attestation replaces the unstamped one of the same act, and `Absorb` is
`absorb` of two copies.

**Replication.** `log`, `backup` and `mark` survive a crash (the store, a copy of it, the
`node.seq` file beside the key); `counter`, `stamping`, `asks`, `jobs` and `round` die with the
process. Actions follow the code's awaits and locks:

| Code | Actions |
|---|---|
| `push_workspace` | `PushStart`, `Advertise`/`AdvertiseFails` per hub, `FloorSeq`, `Stamping`, `ExportDelta`, `PushBatch`, `PushReply`/`PushFails`, `PushEnd` |
| `pull_workspace` | `PullStart`, `PullFrom` per hub, `PullAsk`, `PullServe`, `ApplyPulled`, `PullNext`/`PullFails`, `PullEnd` |
| `backfill` under its lock | `BackfillNothing`, `BackfillStart` (snapshot and seq reservation), `BackfillWrite` per act, `SeqExhausted` |
| push handler | the batch becomes a member of `jobs`; `ApplyPushed` applies it, whether or not its caller still waits |
| pull handler | `PullAsk` asks the hub to stamp first, `PullServe` cuts the page |
| a person, the host | `Observe`, `Crash`, `Backup`, `Restore`, `TrustOrigin`, `Upgrade`, `Grant`, `Revoke` |

A rejection is of one of two kinds, as in `apply_inbound`: one that may pass (an origin whose
key or grant is missing, an encoding of a newer release) holds the stream, a final one (a
malformed event, `Malformed`) is skipped. Batches and pages are prefixes of each stream and
the order of origins in them is open, since the code orders by (origin, seq) and origins are
opaque.

**Streams** states the promise in two actions: `Issue` a stamp past all others of its stream,
`Deliver` an event whose predecessors are held. `Replication!ImplementsStreams` is
`INSTANCE Streams` with `held` mapped to the stamped part of each log; run `delivery` checks
it as a property.

**OwedLedger.** `observe` is two steps under the guard (fold, then write log and rows in one
transaction); a sync append (`AddObservation`) is one transaction outside it; a reproject is
read the owed ids, fold the entities, fold the relations, write the rows, clear the ids.
`mode` is the process: closed, opening (upgrading and repaying), serving. `StoreFails` ends a
section early; `Crash` ends everything.

**Pairing.** `book` is the invitations file, `allow` the allowlist entries, `joined` the peers
file. On its side a joining machine writes the hub entry, `link` (by the code whose credential it
holds) with `url`, and then its record of the hub, `sidecar`, with the same address. `hub leave`
knows the entry by the address in the record and by nothing else (`LinkedAt`), so a record that
is older than the entry may miss it. `acting` is the daemon's
act under its lock between two of its file writes; `cli` is the command on the other machine.
`unkept` is a history variable: whose entry was written by a join that has not recorded it.
`Read` is the expiry the code applies on every load; `Expire` only makes it due.

**ProposalFold and Curation.** A log is a record of sets: what was said, which proposals were
opened, rejected and withdrawn, and each merge verdict with its surface and its time. `State`,
`Tier`, `Row` and `Forwarding` are functions of such a record, which is exactly the code's claim
that its folds read no order of arrival; a peer's events arrive (`SyncAppend`) in any grouping
and order. `Curation` adds what is *not* a function of the log: the rows written in the
transaction of a local write, and calls that read before they take the guard.

| Code | Actions |
|---|---|
| `observe`, sync's apply, `reproject` | `Observe`, `SyncAppend`, `Reproject` |
| `propose`, `propose_anew` | `Propose`, `ProposeAnew` (a person's act lands down the repeats, `Askings` and `Lands`) |
| the console's settle | `Settle`, then `Answered` or a review |
| `review_proposal` | `ReviewStart` (fold, checks and time, no guard), `ReviewCommit` (verdict and rows, under it) |

**Maintenance.** A row's id holds its text, its workspace and its id formula, so a re-key and a
migration write a row anew: `ToolOpens`, `ToolCopies` a row, `ToolCarries` each app mark of it
in a write of its own, `ToolEnds`. The daemon meanwhile observes, syncs, stamps and merges gate
acts (`Observe`, `SyncAppend`, `Stamp`, `Gate`, `Reproject`), and embeds in the background
(`ModelComes`, `BackfillScan` with no guard, `BackfillWrite` under it, `BackfillFails`). A
vector carries the text and the model it was made of; `Opens` is the check of the model a
store records, `MReset` is `embed reset`.

**Listener.** `file` is the `[server]` section, `directory` who the running hub admits,
`listening` what is bound, `state` what the daemon says of it. A refresh is `Read` the file,
`Take` the turn (the mutex), `Decide`, `Bind`; three tasks do it: the start, the loop `follow`
(`FollowWakes`, `FollowExpires`) and an invitation in the making. `Narrow`, `NarrowReads` and
`NarrowApplies` are the console's narrowing, which does not take the turn. Acts on the file are
`Invite`, `Allow`, `Close`, `Remove` and `Edit` (by hand).

**Bridge.** A request is `Send`, then `Runs`, `Refused` (404 for a session the daemon does not
know), `Answer`, `Empty`, `Broken` or `Unreachable`; a refused one `Reopen`s (`Open`,
`SetSession`, `Notify`, `Notified`), unless another did so since, and is `Resend`-ed once.

**Lifecycle.** `life` is where each daemon is: off, starting, up (it holds the store), stopping,
failed. `act` is what each doer is in the middle of - a person at a shell, the app's page, the
app's launch - and between two of its steps anything else may happen. Commands: `LooksToStart`,
`Forking`; `LooksToStop`, `RetiresJob`, `RetiresFork`, `Waits`; `LooksToRestart`, `Kicks`;
`LooksToInstall`, `LooksToUninstall`, `Releases`, `Writes`, `Loads`, `Awaits`; `LooksToSetUp`;
`LooksToRebuild`, `Frees`, `DReset`. The app: `Launch`, `BringsUp`, `Watches`,
`RestartPressed`, `LoginPressed`, `RebuildPressed`, `Reaps`, `Settles`, `Quit`, and what a read
of its state does, `Heals` and `SettlesExited`.

**StoreHolder and Machine.** A process takes the store's lock (`TakesStore`) and gives it back when
it is gone (`LeavesStore`). `Serve` is the one step in which a daemon gets the store, opens and repays it
(`ServeOpens`), builds the hub (`LServe`) and answers the bridge; `Stop` is its end, killed or
told, at whatever step the parts are, and each part says what it loses (`MStop`, `LStop`,
`BStop`). `Tool` is a one-shot command that finds the store free, `Declines` a daemon that will
not open another model's vectors.

## 3. Abstractions

* *Data.* Bodies, ids, names, key material, certificates, words and addresses are values to
  tell apart. A credential is the code it was minted for. `u64::MAX` is `MaxSeq`.
* *Admission.* A signature that does not verify, an unknown origin and an origin the grant
  leaves out lead to one code path (the stream is held), so they are one class. A hub's own
  streams are always allowed there.
* *Atomic in the model.* `add_observation` of an inbound event and the counter's floor that
  follows it; the floors taken from several advertise answers; the reads of one fold in
  `observe`. Each is a sequence of reads or monotone raises whose parts nothing else in the
  model tells apart. A store error in the middle of `apply_inbound` leaves the same rows as
  the hub's crash there, which is modelled. In `Curation` and `Maintenance` a guarded section is
  one step: `OwedLedger` has its parts.
* *Static per process.* A puller's keys are read when the process starts, so `TrustOrigin`
  restarts it; a hub's allowlist is replaced live, so `Grant` and `Revoke` do not.
* *One at a time.* A node runs one round (the round lock), a caller of backfill is one
  backfill, and a machine runs one join or leave.
* *Pairing.* All clocks agree, tombstones of used codes are kept for ever (the code drops them
  after a day), and a leave cut short between its read and its removal is one step. Which of a
  code's addresses answers a join is chosen where the entry is written, since no step looks at it
  before. A machine with records of several hubs leaves any of them; the code takes the first by
  the hub's id.
* *Curation.* A proposal is what it asks; kinds of evidence, similarity of kept-apart rounds, chat
  threads and type changes are left out. A verdict's time is the node's own count of reviews;
  a peer's is given by the instance, ahead or behind.
* *Maintenance.* Every text of a workspace spells the name of one entity, so a rename is a write.
  Rows of proposal events, which both commands skip, are left out, and so is the recording of
  an app when a row is observed (instances start with apps recorded).
* *Listener.* The address is not loopback, so the bind rule asks for TLS and something admitted;
  an address that is taken is a bind that fails.
* *Lifecycle.* The macOS reading: launchd jobs, not systemd units. A look is one step. `start`'s
  fork, lock and pidfile are one step, as are a reset's own reads and writes. The MCP port and the
  viewer's socket answer together (`Up`). A process told to stop does so in time; one killed
  leaves the same. After a rebuild the app goes straight to bring-up.
* *Agendas.* `Curation` and `Machine` start from one of a set of *agendas*: records that say
  which acts, commands and first state an instance is about. The agenda never changes and no
  action reads more of it than what a person, a peer or a file would decide, so each agenda is
  a small instance of its own, and one run covers the parts that would multiply each other.

## 4. Runs and bounds

Bounds are small on purpose and each run is shaped so that its case does happen: every
property has a mutant, a plausible slip in a mapped definition, that TLC must
refute under the same bounds. Slips stand beside the definition they replace.

| Run | Instance | Checks | Distinct states |
|---|---|---|---|
| `delivery` | hub, two spokes, three acts, one of them the hub's; one crash anywhere; batches and pages of one event | `OneActOneStamp`, `NoDoubleCount`, `LogGrows`, `ImplementsStreams` | 240,740 |
| `held` | two hubs and a bridge between them; one hub is old, the bridge lacks a key, one act is malformed and one of a newer encoding; one grant edit, keys and upgrades at any time | `NoHole`, `Admission` | 1,052,080 |
| `restore` | one spoke, `MaxSeq` 3, a backup, a restore, a crash, a lost call and a late grant | `SeqIssuedOnce` | 506,994 |
| `delivered` | one spoke is old and may stay so, one act is of the newer encoding, the hub's own act is not; one-event batches and pages, one lost call | `Delivered` | 54,151 |
| `ledger` | two observations of two attestations, an entity and a relation, two callers, one crash, one failure | `LagIsOwed`, `GraphNeverGoesBack`, `ServesCurrent`, `OpensToServe` | 67,126 |
| `pairing` | one hub, two codes, two joiners (symmetric); the hub has moved to another address by its second code; two stops, failed writes or lost answers in all | `AllowedAsShown`, `OneMachinePerCode`, `OneAdmitted`, `AdmittedIsAnswered`, `AllowedIsAnswered`, `LeavesNothing` | 829,688 |
| `curation` | five agendas: claims confirmed and undone at two consoles, a promotion of two claims, merges in a chain and a ring, a merge taken back, a peer's repeat that comes before or after its verdict on the first round | `TypeOK`, `RowsFollowTheLog`, `ConfirmedByAPerson`, `AskedOnce`, `ForwardingEnds`, `DiffIsEffect`, `MergedIsFinal`, `SettleTakesEffect`, `LocalMergeCommits` | 132,708 |
| `machine` | twelve agendas: `Rekeying`, `Migrating`, `Embedding`, `Listening`, `Starting`, `Admitting`, `Bridging`, `TakingOver`, `Commanding`, `Using`, `SettingUp`, `Reindexing` | `TypeOK`, `CountedOnce`, `VectorsFit`, `ServedAsLogged`, `NeverRaised`, `AppsFollow`, `StateIsTrue`, `ClosesUninvited`, `RanOnce`, `OneSession`, `Answered`, `OneOwner`, `Shown` | 122,594 |
| `restamp`, `overtaken`, `crossed`, `halfallowed` | the smallest instance of each finding | one property each, violated | - |

Why this is enough to look at: a stream needs two events for an order and a hole, and the
third act in `delivery` and the fourth in `held` give a hole in the middle and a second author.
Two backfills on a node (a round's and a handler's) are the most the lock has to separate in
these graphs. One fault of a kind reaches every position of that fault, since the budget is spent
at any step. With `MaxSeq` 3 two acts that are stamped again after a restore want a fourth
seq, so the seq space runs out. Two hubs are needed for a bridge, two observations for a ledger
entry overtaken while another is owed, two joiners and two codes for a race on one code and
for an old code against a new one. A leave cut before it forgets and a rejoin cut before it records
are two stops, and a hub that moves between its codes makes them meet at two addresses. A settle races another console's and a peer's verdict, so two
consoles and one peer's log are what its order needs; a chain of merges needs three entities. A
command that is cut and run again needs a row of this node's and one a peer stamped. The
listener's refreshes are three tasks, and three edits let two of them hold configurations
that a third edit has overtaken. Two requests are one that reopens and one that waits. The
lifecycle's doers are all three; each agenda gives them two or three acts to start, so that
commands overlap in pairs.

`SYMMETRY Joiners` in `pairing` exchanges machines that make no code. No liveness
property is checked in that run: its two action properties are conditions on single steps.

`CHECK_DEADLOCK FALSE` stands where the system may really stop: `crossed`, `halfallowed` and
`pairing` (the codes are spent), `curation` (the reviews are spent and nothing is left to ask),
`machine` (nothing runs, and nobody starts anything any more).

What the bounds name: `MaxSeq` the seq space, `BatchEvents`/`PageEvents` the size limits of a push
and a page, `Budget` the faults of each kind, `MaxCrashes`, `MaxFailures` and `MaxFaults` the faults of
`OwedLedger` and `Pairing`, `Tries` the codes a person brings to each machine (in `pairing` the hub
itself is tried with the first code only, which it refuses like any), `reviews` the verdicts of a curation agenda, `acts` the commands and
presses and `edits` the acts on the listener's file in a machine agenda. Crashes of the
machine's process are not bounded.

## 5. Fairness

* `Replication!Fairness`: weak fairness on a round's own steps, a backfill's turn and its
  writes, and a handler's job: tasks and threads that can run do. Strong fairness on
  `TimedRound`: the daemon's five-minute timer runs for ever and the round lock is a tokio
  mutex, which is first come, first served, so the timer's round gets its turn although tools
  start rounds too. Nothing is assumed about faults, edits or persons: `Delivered` is
  conditional on the rejection of the act's own stream being cleared for good, whatever else
  is rejected.
* `OwedLedger!Fairness`: a process is started until it serves, and a caller's section runs to
  its end. Nobody is assumed to write, and no store to fail.
* `Listener!LFairness`: time passes (`Expires`), the loop `follow` wakes, and refreshes and the
  narrowing's handler run on: they are spawned tasks, and the turn is a mutex held by one
  refresh that ends.
* `Bridge!BFairness`: each request's task runs on. What it awaits answers, breaks off or times
  out.
* `Lifecycle!DFairness`: commands and the app's acts go on to their end, a daemon that finds
  the store held exits, and the app reads its state every minute (`Heals`, `SettlesExited`).
  No job is assumed to be started again.
* `Machine!FairSpec` adds that a daemon told to stop does and that a reset under way finishes.
  That anything starts a daemon again is **not** assumed, so a bridge's answer (`Answered`) may
  be an error, and `Shown` speaks of a daemon that goes on answering.
* `Pairing` and `Curation` state no liveness: every step is a person's or a peer's.

## 6. What is proved

Every safety property a passing run checks is a theorem as well, for any number of nodes, acts,
machines, codes, callers, claims, requests and faults within the named assumptions on the
constants.

| Theorem | Property | Argument |
|---|---|---|
| `ReplicationProofs!AbsorbCommutes`, `AbsorbAssociates`, `AbsorbIdempotent` | merging copies of a row | enriching a union after enriching a part changes nothing, because enrichment keeps every stamped attestation |
| `ReplicationProofs!AbsorbKeepsActs` | no act is lost in a merge | an unstamped attestation is dropped only for a stamped one of its act |
| `ReplicationProofs!TypeCorrect` | the type invariant, which no run repeats | one lemma per group of actions; a seq never passes `MaxSeq` since a reservation checks the room for all it takes |
| `ReplicationProofs!SeqsAreUnique` | `SeqIssuedOnce` | `IInv` |
| `ReplicationProofs!LogsGrow` | `LogGrows` | each step absorbs, stamps, observes, restores or is silent (`StepKinds`) |
| `ReplicationProofs!ActsAreStampedOnce`, `NothingCountsTwice` | `OneActOneStamp`, `NoDoubleCount`, without restores | `ActInv` |
| `ReplicationProofs!HubsAdmitOnlyGrantees` | `Admission`, without new grants | `AdmitInv` |
| `DeliveryProofs!StreamsHaveNoHoles`, `RoundsImplementStreams` | `NoHole`, `ImplementsStreams`, without restores | `DeliveryInv` |
| `OwedLedgerProofs!TypeCorrect`, `TheLagIsOwed`, `TheGraphAdvances`, `TheServedIsCurrent` | the type invariant, `LagIsOwed`, `GraphNeverGoesBack`, `ServesCurrent` | `IInv` |
| `PairingProofs!TypeCorrect`, `AdmittedAsShown`, `OneCodeOneMachine`, `AtMostOneAdmitted`, `AdmittedByAnAnswer`, `TheAllowedIsAnswered` | the type invariant, `AllowedAsShown`, `OneMachinePerCode`, `OneAdmitted`, `AdmittedIsAnswered`, `AllowedIsAnswered` | `IInv` |
| `PairingProofs!NothingIsLeft` | `LeavesNothing` | `Keeping`: an entry that its join has recorded is at the address in the record |
| `CurationProofs!TypeCorrect`, `MergesAreFinal`, `AcceptedMergesCommit` | `TypeOK`, `MergedIsFinal`, `LocalMergeCommits` | `Shape`; logs only grow |
| `CurationProofs!NoRoundWaitsBesideItsRepeat` | `AskedOnce` | `RepeatsWait` |
| `CurationProofs!RowsAreOwedOrFolded` | `RowsFollowTheLog` | `RowsInv` |
| `CurationProofs!OnlyAPersonConfirms`, `SettlesTakeEffect` | `ConfirmedByAPerson`, `SettleTakesEffect` | induction along the fold of a claim's gate acts |
| `CurationProofs!ForwardingLeadsToAnEnd`, `DiffsAreEffects` | `ForwardingEnds`, `DiffIsEffect` | induction over the hops; a log grown by one verdict |
| `MachineProofs!WhatItSaysIsSo` | `StateIsTrue` | `LInv` |
| `MachineProofs!NothingRunsTwice`, `OneSessionEach` | `RanOnce`, `OneSession` | `BInv` |
| `MachineProofs!AnInstallOwns` | `OneOwner` | `DInv` |
| `MaintenanceProofs!TypesHold` | `TypeOK` of the machine: one daemon at most has the store | the shapes and invariants of its parts |
| `MaintenanceProofs!NoVectorIsStale`, `ServedOrOwed` | `VectorsFit`, `ServedAsLogged` | `VectorInv`, `ServedInv` |
| `MaintenanceProofs!CopiesKeepTheirApps`, `NoActCountsTwice`, `CopiesAreNotRaised` | `AppsFollow`, `CountedOnce`, `NeverRaised` | `JobInv`; `SaidInv` with `ClaimsInv`; `BareInv` |

**Seqs are unique.** `SeqIssuedOnce` says nothing of what will be issued next. The invariant
`ReplicationProofs!IInv` adds that the mark is at least every seq issued by its node, that a running
backfill holds a range no event has and no other backfill shares, that a seeded counter is not below the mark, and that events in
logs, batches, pages and copies were issued. The mark is outside the copy a restore puts back,
which is the step where it is needed. The floor taken from a hub's vector only raises the
counter.

**An act is stamped once.** `SeqIssuedOnce` does not give this: an act may get two seqs.
`ReplicationProofs!ActInv` adds that an author's log holds every stamp of its acts (`StampsHeld`),
that unstamped acts are the node's own (`OwnActs`), and that a backfill under way has taken
only acts nobody stamped (`PassFresh`), which is what the lock over snapshot and writes is
for. The theorem is for `Budget["restore"] = 0`, and it is sharp: run `restamp` is the
counterexample with a restore.

**Admission.** `AdmitInv` follows what a hub that pulls from nobody was granted into its jobs and its log. A
revocation between two batches leaves what was taken in, so the property speaks of grants
that were made at first, and the theorem assumes that no allowlist is widened (`NoNewGrants`):
no edits, or every linked spoke granted from the start. Run `held` is an instance of the second.

**No hole, and the refinement.** A vector names the last seq of each stream, so what a receiver
is sent behind it must follow on what it holds. `DeliveryInv` says that at every point of an
exchange: a hub holds the end of each stream of the vector it advertised (`AnswersHeld`), what
is left of a push and of a batch a hub is applying follows on what the hub holds (`ToSend`,
`InFlight`, `JobsInv`), what is left of a page follows on what the puller holds (`ToApply`),
and the puller holds what it does not ask for (`SinceHeld`), the streams that this exchange
held apart. A job whose caller still waits is the one batch of its round (`LiveSent`); one whose
caller gave up is covered by `JobsInv` alone, and so may be applied at any later time.
`RoundsImplementStreams` then shows each step to issue the next event of a stream, to deliver
the next one owed, or to be a stutter. Both are for `Budget["restore"] = 0`: a hub restored
between an advertise and the push computed from it is left with a hole (section 8).

**The lag is owed.** The invariant `OwedLedgerProofs!IInv` follows a section through its steps: what a
reproject has folded is between the graph and the log it read (`Between`), for every entry it will
clear; `observe`'s fold shows all of its observation; the guard keeps a second fold out. An
append on an entry that the running reproject already read is set apart in the history
variable `overtaken`; `LagIsOwed` and `ServesCurrent` except exactly those, and run
`overtaken` shows that the exception is real.

**Pairing.** `PairingProofs!IInv` names: a code being made is unmade (`Inviting`) and a hub has one
open code (`OneOpen`), so an answer goes to the request the person saw; a hub in an Allow has
written its entry (`Holding`) and an entry belongs to an Allow that is complete, under way or
cut short (`Grants`); a machine's hub entry is by a code that holds its own request
(`Joins`); a used code has its answer (`Answers`). The lemma `BookStep` shows first that every
step moves each invitation only forward; the rest lean on it. `NothingIsLeft` has an invariant of
its own, `Keeping`: a join that is about to record has the entry it wrote, an entry that its join
has recorded is at the address in its hub's record, and a leave that has edited finds no entry at
the address of its record. The entry that `LeavesNothing` excepts is exactly one its join has
not recorded, behind an older record with another address.

**Curation.** `Shape` holds the types, that what is written here is part of the log, and what a
call keeps from before it took the guard: a review under way was accepted by checks on a log that the log of
now contains. `Within` is monotone in all that the checks read (evidence and verdicts are only
added), so a merged proposal stays merged and a stale review still commits. `RepeatsWait`: what
a repeat this node came to repeats was decided when it was opened, and a decided proposal is
never open again, whatever arrives. `AskedOnce` speaks of those repeats alone and assumes nothing
of peers: a peer's stream may bring a repeat before another brings the verdict on what it
repeats (section 8), and an agent may write a repeat's words of its own accord.
`RowsInv` adds to `RowsFollowTheLog` that what was merged here passes (`MineHavePassed`), so a
completion that the definition sets apart is always a peer's.

The folds are recursive functions over gate acts ordered by time and over hops. They are
reasoned about through `Iteration`: a set of numbers with 0 and closed under successor is
`Nat` (`Counting`), and a step function has an iterate from every start
(`RecursionExists`). That a tier is human-confirmed only by a console's verdict is such an
induction; that a settle takes effect looks at the act it lands on, which is the claim's last in the
fold or, where it is found, still holds there; that a chain of merges ends is the pigeonhole principle on its hops, for every finite
log of merges (`CurationAssumption` says that a peer's log is one). For a diff the proof compares the
fold of a log with that of the log and one verdict more.

**Listener.** `LInv`: the refresh that has the turn is the one that decides or binds, the state
is what is bound unless one is binding, and while one binds the socket is free. So three
refreshes that overlap, each with a configuration it read before its turn, cannot make the
state lie.

**Bridge.** `BInv`: the generation of the bridge's session counts its reopenings, a refused request
saw a generation that the daemon does not know any more, and the one request that holds the
reopening is at a known point of it, so that a second one finds the generation moved. A
request runs only from a place it has not run at, whatever breaks off.

**Lifecycle.** `DInv`: exactly the daemon that is up or stopping has the store (`HolderInv`), and
for an install or takeover that nothing else overlaps (`OwnerInv`) what it has brought about at
each of its steps: it retires all jobs it found, goes on when the store is free and so every
daemon is dead, and then loads its own. The condition of `OneOwner` (a daemon nothing names
and that has not opened the store is seen by no look) is the one gap, as section 8 says.

**Maintenance.** `VectorInv`: every vector is of the entity's text now and of the recorded model,
and who embeds does so with that model; a backfill writes only where the text is still the one it
read. `ServedInv`: rows are what the log folds to, or owed. `JobInv`: of the rows a command
reads, each that is done has its apps, or they are being carried at the moment; a command
never reads where it writes, so that a second run finds what a cut one left. `SaidInv`: an act
is under the id it was said under, or under one a command gave, which names the row of the old
formula as its source and so takes that row out of the live ones; with `ClaimsInv`, that a row holds of
one claim its stamps or the unstamped act, two live attestations of one claim are two nodes'
stamps. `BareInv`: an id without attestations has no gate acts and no sources, so the tier of a copy is
that of its clamp; where the id has acts, the fold of gate acts is monotone in its start.

*Assumptions on agendas.* `ListenerAssumption`, `LifecycleAssumption`, `CurationAssumption` and
`MaintenanceAssumption` say of an agenda what its types are, and of `Maintenance` three more things:
an act states one text, a workspace has it under one id until a command re-creates it, and a row
as it is found is enriched. An id in the code is a hash of text, workspace and formula and every
write of a row goes through `absorb`, so the code keeps all three. TLC evaluates every assumption
on the instances.

## 7. Only model-checked

Liveness, which the provers do not reach (nor `ENABLED`): `Delivered`, `OpensToServe`,
`ClosesUninvited`, `Answered`, `Shown`. The counterexamples of section 8 are TLC's by nature. Where a theorem
assumes more than its run (no restores, no new grants), the run `delivery` or `held` is an
instance of that assumption, and what happens without it is a run of its own (`restamp`) or named
in section 8.

## 8. What the checks found

Four runs end in a counterexample to something a document or a comment of the repository
says; `PROJECT.json` quotes the lines.

1. **`restamp`** - a spoke restored to a copy older than its last push stamps an act again in the
   first push round, before any pull shows it the first stamp, and the hub counts the act twice
   (`docs/principles.md:250`, `docs/sync-correctness.md:271`).
2. **`overtaken`** - `clear_owed` removes ids read before the log was; an append that lands in
   between is removed with them and nothing is owed (`docs/crash-recovery.md:141`, `:150`).
3. **`crossed`** - two machines that invite each other end each admitting and joined to the
   other; `write_join` looks again at the hub entries and not at the allowlist
   (`docs/pairing.md:463`, PA9).
4. **`halfallowed`** - `allow` stopped after its first write leaves a machine admitted that no
   answer was kept for (comment at `invite.rs:567`).

Smaller observations met while modelling, none with a run of its own. Where a property holds
only with an exception, the exception is in its definition and named here.

*Sync.* `push_workspace` backfills even if every advertise failed; the pull handler backfills
with no floor from a peer; events a restored node lost of its *own* stream are not pulled back;
a hub restored between an advertise and the push computed from it is left with a hole. A
re-key there and back, or a peer's, puts one act twice in a row, under two ids
(`crates/supragnosis-sync/src/lib.rs:383`).

*Proposals.* A gate act that peers merged, and whose opening or whose claim is written here
afterwards, leaves the rows of its other claims stale with nothing owed (`CompletedHere`;
`propose.rs:353`). Two merges that fold two entities into each other hide both. A merge's diff
puts its edges over the map instead of folding again, so beside other merges of its entities it
differs from the effect (`Apart`; `diffs.rs:207` against `:192`). A promotion that an agent
merged makes the console's Confirm answer "found" without raising the claim to the person's
tier. With clocks that disagree, a later Confirm can fold before the act it answers.
`curation.rs`'s record of a person's no keeps the *earliest* console reject of a pair, so an
older one that arrives from a peer lifts a newer no, where `docs/design-system.md` section 29.23
counts from that reject's own attestation. A peer's repeat of an act, and the verdict on the
round it repeats, may come in streams of different origins, so a log can hold both rounds open
until the verdict arrives; the exception of `AskedOnce`, which the agenda `Crossing` reaches.

*Re-key.* What a source row is told after its first re-key is not copied by a second
run. A demotion merged between a cut run and the next lowers the copies' tier, so the
next run records apps under keys no attestation has (`docs/design-system.md:4328`).

*Listener.* A narrowing applies what it read back, so one that crosses refreshes leaves the
directory behind the file until the next (`sync_wiring.rs:93`). A listener whose last
machine was removed while an older refresh waited its turn may stay bound; its directory then
admits nobody.

*Bridge.* Requests are relayed before the client's handshake is through, so an early one reaches
a session that was not told it is initialized (`bridge.rs:124`).

*Lifecycle.* `start` looks at the pidfile and the port alone, so it forks beside a loaded job
that does not answer yet. A pidfile is removed after the wait whatever it names by then, so a
`start` meanwhile becomes a daemon that nothing names. Install and uninstall act on the state the
service file had before the wait. A daemon that nothing names and that has not opened the
store yet is seen by no look (the condition of `OneOwner`). A loaded job that fails beside an
unnamed holder is taken for the daemon, so a rebuild boots it out and then gives up
(`docs/semantic-retrieval.md:173`, SR10, says nothing is changed). Quitting the app during its
bring-up leaves the child it started; turning Start at Login off drops a child unreaped;
the result of an act that overlaps another replaces what is shown; the app's stop is SIGKILL
(`docs/daemon-lifecycle.md` section 4 says SIGTERM).

*Pairing.* A joiner that stops between `write_join` and its record has a hub entry `hub leave`
does not know. If an older record of the same hub is there still (a leave that stopped before it
removed the record) and the rejoin went through another of the hub's addresses, `hub leave` finds
no entry at the older address, removes the record and says that it left: the entry with its
credential stays (`join.rs:635`, `:669`, `:706`, where `join.rs:623` and `docs/pairing.md`
section 4.6 say that the entry the join wrote goes). It is the exception of `LeavesNothing`, and run
`pairing` reaches it.

## 9. Not modelled, and the plan

Not modelled, with the reason: inference and model download, TLS, file and socket I/O, id
hashing and signatures (no order of their own; what depends on their outcome is modelled);
search, reads and the rest of the diffs (queries over state modelled here); the curation
suggestions (a read-time ranking by similarity); the clients' configuration files, the hooks
and usage counts (edits of one file by one command); MCP schemas and replies, the viewer's page
and the app's windows and menus (presentation); systemd units and linger, exposure
refusals, version drift and status (the Linux and reporting halves of the lifecycle); the
in-memory store (a test double). `define_type` and the type fold, and the bridge's first
handshake, keep little state and are not modelled either. The share of the sources the map
covers stays low for that reason: most lines are queries, formatting, I/O and the tests inside
the source files.

What is left of the plan:

1. Abstract specifications for the other parts, with the step of a refinement proved as for
   `Streams`: a store whose graph is one atomic fold of its log (`OwedLedger`), a proposal that
   is open and then decided once (`Curation`), one owner of the store (`Lifecycle`).
2. Order independence of the proposal fold as theorems of `ProposalFold` alone, beside those of
   the merge of rows.
3. The liveness properties stay with TLC.

Runs are kept few, one per question: a larger instance replaces the ones it absorbs.
