# ProjectRebound: TLA+ models

ProjectRebound brings a discontinued shooter back online. Its own logic is in two
places: the Go backend (`src/Backend/internal`), a control plane over PostgreSQL
that runs matches, rooms, P2P connections, a fleet of UDP relays and accounts,
with the edge relay that forwards the packets; and the C++ payload
(`src/Payload`), injected into the game, which turns it into a dedicated server,
admits players and takes commands from a local tool. This directory holds TLA+
models of both, TLC configurations that check them on small instances, and
TLAPS proofs.

To run: `tlc -workers 2 -config RelayMigration_failover.cfg MCRelayMigration`
(each `<Module>_<name>.cfg` with `MC<Module>`), and `tlapm <Module>_proofs.tla`.

| Module | What it is |
|---|---|
| `RelayMigration` | relay allocations and migrations, the migration sweeper, manual migrations |
| `RelayMigration_proofs`, `RelayRelease_proofs`, `RelayAccounting_proofs` | its theorems: the inductive invariant; what ended connections give back; the capacity count and threshold, the attempts |
| `RelayFleet_proofs` | the tables of `RelayMigration` over nodes that are `NodeLifecycle`s: definition and theorems |
| `NodeLifecycle` | abstract: what the control plane relies on about a node's state |
| `RelayNode`, `RelayNode_proofs` | a node's row, control stream, certificate and administrators; that it implements `NodeLifecycle` |
| `MatchSequence` | abstract: several matches of the same players in one process |
| `MultiMatch`, `MultiMatch_proofs` | the dedicated server: result, vote, seamless travel, commit; that it implements `MatchSequence` |
| `FrozenSeats` | abstract: the seats of a frozen roster |
| `StrictRoster`, `StrictRoster_proofs` | one match attempt: control plane, toolbox, admission policy of the payload; that the policy implements `FrozenSeats` |
| `CommandFramework`, `CommandFramework_proofs` | the named pipe of the payload and its threads |
| `MCRelayMigration`, `MCRelayNode`, `MCMultiMatch`, `MCStrictRoster`, `MCCommandFramework` | instances for TLC |

An operator marked as a mutant is a mistake the code could have made: put in the
place of the definition it varies, it makes TLC find one property of a run
violated (`mutants` in `PROJECT.json`), so that no property holds by the shape of
the model. Every module has its type invariant `TypeOK`, proved for all constants;
the run `operator` repeats it because of `active_allocations`, a count that must
never go below zero.

## The system

| Component | State it keeps | Operations | What is hard about it |
|---|---|---|---|
| Relay registry (`relayregistry`) | `relay_nodes`, `relay_allocations`, `relay_migrations`; an in-memory `ControlHub` of streams | enrol, connect, heartbeat, drain, resume, revoke, schedule, open, close, migrate, sweep | several short transactions per handler; sweeps over lists read earlier; capacity counted in one place and reported from another |
| Match lobby (`matchlobby`) | lobbies, members, `match_attempts`, frozen roster, `match_admission_grants` | create, join, ready, start, allocation, grant, authority reports, heartbeat, complete, sweep | reports that are late or repeated; route and connection generations; a host that is silent and comes back |
| Strict admission (payload, `StrictRosterPolicy`) | the allocation, spent grants, seats | install, start, admit, disconnect, reset | the policy learns of the control plane only through allocations, and of connections only through the engine |
| Dedicated multi-match (payload) | `RuntimeState`: life cycle, vote, travel; the proof of which NetDriver owns which world | result, vote, end game, travel, arrival, commit, fall-back | the engine swaps worlds, ends matches and drops players between any two hooks |
| Command pipe (payload, `CommandFramework`) | a listener thread, a stop event, the current pipe, a fault flag, two mutexes | start, stop, send a response; listen, read, dispatch | any thread may stop it or write while the listener serves, reconnects or fails |
| Connection (`connection`) | `connections`, candidates, path checks; a `Hub` of subscribers | create, candidate, path check, allocate relay, bound, migrating, close, renew, sweep | work after commit (allocation, revocation), stale candidates, fall-back order |
| P2P room (`p2proom`) | `p2p_rooms`, members, invites | create, join, leave, heartbeat, start, running, stale, close | host and member operations race with each other and with sweeps |
| Edge relay (`relayruntime`) | peers, allocations, QoS buckets, an event queue | bind, forward, revoke, drain, sweep, reconnect | packets in any order, two-player binding, bounded queues that drop |
| Authentication (`auth`) | accounts, devices, sessions, refresh tokens | bind, refresh, logout, revoke | rotation and reuse detection, limits on devices |
| Dedicated servers (`gameserver`, `gameserverregistration`) | servers, proofs, assignments | register, heartbeat, assign, release, expire | stale servers and double assignment |
| Virtual network (`vnt`) | nodes, leases, presence | rank, heartbeat, presence, rebind | limits, version policy, leases |
| P2P battle log (`p2pbattlelog`) | reports, decisions, results | submit, decide, finalize | agreement between reports that arrive late, twice or never |
| Meta server (`metaserver`) | gate slots, scheduler queues, loadouts | connect, schedule, apply, save | fairness and bounds of a concurrent queue |
| Downloads and updates (`download`, `update`) | uploads, jobs, releases | lease, verify, publish, roll out | a worker that loses its lease half-way |
| Administration (`admin`) | administrators, sessions, approvals | log in, approve, execute | four eyes, lockout, sessions |
| Invitations, entitlements (`invite`, `entitlement`) | codes and quotas | redeem, grant | a quota under concurrency |

The control plane is one process with goroutines per request, per control
stream and per sweeper. All durable state is in PostgreSQL; a handler is a
sequence of short transactions (`pgx.BeginFunc` or a single statement), with
`FOR UPDATE` locks inside but none held between them. The interactions that
matter are:

* players -> `connection` -> `relayregistry.Schedule`: the last failed path
  check asks for a relay after its own transaction has committed;
* edge -> control stream -> `relayregistry.AllocationOpened` ->
  `connection.RelayBound` -> `p2proom.MarkConnectionEstablished`, then
  `CompleteMigration`: four transactions in three packages;
* `p2proom` close, member leave, sweeps -> `connection.CloseForRoom...` ->
  `RevokeRelay`, after commit;
* the migration sweeper -> `relayregistry` -> `connection.RelayMigrating` and
  `RelayMigrationFailed`;
* an administrator -> `admin.MigrateConnection` -> the same functions as the
  sweeper, from another goroutine;
* `matchlobby` -> toolbox -> command pipe -> `StrictRosterPolicy`, and its
  reports back: two network hops and a local one, each retried;
* the engine -> hooks of the payload -> `DedicatedMultiMatch`, which travels by
  calling back into the engine.

The payload's entry points run on the game thread, the pipe's listener thread and
whatever thread unloads the DLL. Its classes protect themselves by a mutex
(`gMutex`, `StrictRosterPolicy::mutex_`) held for a whole call, except for
`CommandFramework`, whose two mutexes are held for parts of it.

## Properties that make each component correct

* **Relay registry**: one usable allocation and one pending migration per
  connection; a completed migration leaves nothing older behind; a node's count
  follows its rows; ended connections keep no allocation; every timeout is
  handled; a migration that waits for its target is decided. A revoked node stays
  revoked, unless two administrators' orders race; a renewal that got lost is made
  again.
* **Match lobby and strict admission**: a seat is taken exactly while a
  connection of its generation is up; a grant that stands lets its bearer in; a
  route is counted as installed only when it is; an ended attempt stays ended; a
  recovered host is refreshed.
* **Multi-match**: the players of a match are those who travelled to it; a match
  is ended by itself only; every match is followed by another or by the exit;
  nobody is sent home by a server that stays.
* **Command pipe**: no handle or event is used after it was closed; a failure
  ends its own connection and no other; at most one listener, always joined;
  `Stop` comes back and leaves nothing running.
* **Connection**: paths are tried once and in order; a relay only after every
  direct path; a closed connection stays closed.
* **P2P room**: no join after close, one active membership per player, the
  count equals the members, RUNNING only after a connection was established.
* **Edge relay**: a packet is forwarded only between the two bound players of a
  live allocation; a revoked allocation never comes back; limits hold.
* **Authentication**: a refresh token works once; its reuse ends the family.
* **Battle log**: one decision per match, from the reports it had.
* **Meta scheduler**: bounded queues, no starvation of the low class.

## Plan

Done, in this order: `RelayMigration`; `RelayNode` with `NodeLifecycle`;
`MultiMatch` with `MatchSequence`; `StrictRoster` with `FrozenSeats`;
`CommandFramework`. What is left, the most important first:

1. `ConnectionPath`: candidates, the order of direct paths, both reports,
   renewal and expiry. Abstract specification: a set of untried paths that only
   shrinks.
2. `P2PRoom`: rooms, members, heartbeats and the room sweeper, composed with a
   connection (`CloseForRoom`, `ResolveConnectionParticipants`,
   `MarkConnectionEstablished`).
3. `EdgeRelay`: bind, forward, revoke, rate limits; composed with the node's
   control stream.
4. Several control-plane instances, so several migration sweepers, over the
   actions of `RelayMigration`. (That its nodes may be those of `RelayNode` is
   proved in `RelayFleet_proofs`.)
5. The lobby before the start (`matchlobby`), `RefreshRotation` (auth),
   `BattleLogDecision`, `MetaScheduler`, `GameServers`, `VNTNodes`,
   `DownloadJobs`, `InviteQuota`, `FourEyes`.

## RelayMigration

One module for `relayregistry`'s allocations and migrations and the relay half
of `connection`. A state is the database rows plus, for every handler that is
more than one transaction, the position it has reached:

| Variable | Code |
|---|---|
| `node` | `relay_nodes`: state, drain_migrate, active_allocations; `fit` stands for the other columns the scheduler's `WHERE` reads |
| `conn` | `connections.state` |
| `alloc`, `last` | `relay_allocations`, numbered in the order of creation |
| `mig` | `relay_migrations`, keyed by the (unique) new allocation |
| `allocating` | goroutine in `connection.Service.allocateRelay` |
| `opening` | control stream in `relayregistry.Service.AllocationOpened` |
| `revoking` | a committed close whose `RevokeRelay` has not run |
| `manual` | `admin.OnlineService` in its `MigrateConnection` |
| `sweep` | the migration sweeper: phase, list read, step owed |

An action is one transaction: `Schedule`, `BindRelay`, `RevokeRelay`,
`AllocationOpened`, `MigrationForNewAllocation`, `RelayBound`,
`CompleteMigration`, `AllocationClosed`, `PlanMigration` (through `PlanManual`
and `PlanSweep`), `PlanMigrationRetry`, `FailMigrationAttempt`, `RelayMigrating`
(through `Dispatch` and `DispatchManual`), `MarkMigrationDispatched`,
`FailAllocation`, `FailConnectionAllocations`, `RelayMigrationFailed`, and the
reads between them. `NextPhase` reads the next of the sweep's lists. An error
in a sweep sends it back to idle, as the code does.

Abstractions: time is the flag `overdue`, which `BindDeadline` sets at any
moment after a migration exists; leases and TTLs are the flag `fit` or a close
at any moment; addresses, tokens, regions and scores are left out, so the
scheduler may pick any eligible node. `SKIP LOCKED` is `RowsMaySkip`: every
eligible node may be locked. `RoomAnswers` are the outcomes of
`p2proom.MarkConnectionEstablished`. The unique indexes of the tables are *not*
guards: `OneCurrent` and `OneBinding` show that the code never depends on
them. There is one sweeper (one control-plane instance); with it, the branch of
`Schedule` that returns an existing allocation and the errors
`ErrActiveMigration` and `ErrMaxMigrationAttempts` of `PlanMigrationRetry` are
unreachable, which `ScheduledOnce` and `RetriesAreFresh` show; several
instances are left to the plan.

### Runs

Each run uses `MCRelayMigration` (symmetry of nodes and connections).
`MaxAllocs` bounds rows, `MaxNodeEvents` heartbeats, drains, expiries,
`MaxManual` administrator calls, `MaxInterrupts` lost handlers.

| Run | Instance | Shows |
|---|---|---|
| `failover` | 1 connection, 3 nodes, 4 rows, 2 attempts, 2 node events | chains of fail-over, drain and retry never leave two usable allocations (`OneCurrent`), an old one uncollected (`CompletedSupersedes`), or one that a migration made for a connection that has ended (`EndedReleasesMigrations`) |
| `operator` | 1 connection, 3 nodes, 3 rows, 1 attempt, 1 node event, 1 manual migration, 1 lost handler; rooms may refuse, rows may be locked | `TypeOK`, `OneBinding`, `EndedStaysEnded`, `DeadStaysDead` with closes and restarts anywhere between the steps of a migration; `Accounted`: the capacity count follows the rows through every order of close, failure and completion |
| `liveness` | 1 connection, 2 nodes, 3 rows, 2 attempts, 1 manual migration; rooms may refuse, rows may be locked; fair sweeper | `BindingResolves`: the bind deadline ends every migration that nobody completes; `MigrationSettles`: a connection in migration whose target has not opened yet leaves MIGRATING_RELAY, through completion, retry or exhaustion |
| `poison` | violation of `MigratingSettles` with 2 attempts | a row closed by its edge makes the retry, and with it every sweep, fail for ever |

Why the bounds are enough: three nodes give every migration a source, a target
and a second target; four rows are a scheduled allocation, a migration, its
retry and one later migration; two node events are enough to fail the node of an
allocation and then that of its replacement. `liveness` starts migrations by an
administrator (with no node event), so that manual dispatch, the sweeper's list and
its retries all meet; it loses no handler, because a control plane that stops
between `FailMigrationAttempt` and the connection's failure really leaves the
connection in MIGRATING_RELAY (see Divergences). `MigrationSettles` speaks of
migrations whose target is still ALLOCATED, since a stale dispatch moves a
connection whose migration is over and nothing moves it back, and it leaves out a
connection with a row that was closed under its migration, which is what `poison`
shows. A second connection matters only
through node capacity and the sweeper's shared list: there the proofs, which hold
for any number of connections and nodes, take over from the runs. Deadlock is not
checked because an ended connection really has nothing left to do once the bounds
are used up.

### Fairness

`FairSpec` is used by `liveness` and `poison`. The sweeper's ticker
(`migration_sweeper.go`) calls it for ever: weak fairness of `SweepNext`. Time
passes: `BindDeadline`. A handler that has started goes on running in its
goroutine: `RevokeRelay` and the later steps of `AllocationOpened`. Nothing is
assumed of edges, players, nodes or administrators, and no step of an element
chosen from a list is assumed before another.

### Proofs

`RelayMigration_proofs` proves, for all values of the constants allowed by
`ConstantsAssumption`:

* `TypeCorrect`: `Spec => []TypeOK`, action by action. The arithmetic that needs
  care is capacity: `ChargedType` shows that a node that passes the percentage
  test has room for one more.
* `Invariant`: `Spec => []IInv`. `OneCurrent` is not inductive: `PlanMigration`
  preserves it only because a current allocation is the *last* row of its
  connection (`CurrentIsNewest`), and `PlanMigrationRetry` only because the
  failed migration it retries is still the last one (`RetriesAreFresh`), which
  holds because it held nothing (`FailedIsOver`) and nothing was scheduled for
  that connection since (`ScheduledOnce`). The proof has two halves: every step
  either keeps the rows or adds one row (`StepShape`), and both kinds of step
  keep `IInv` (`KeptInv`, `AddedInv`).
* `OneCurrentAlways`, `OneBindingAlways`, `CompletedSupersedesAlways`: the
  invariants that follow.
* `DeadStaysDeadAlways`, `EndedStaysEndedAlways`: the action properties.
* `EndedReleasesMigrationsAlways` (`RelayRelease_proofs`). Neither planner looks at
  the connection, so a migration may create a row for a connection that has ended
  and been revoked. No edge reports such a row, because its tokens are sent to open
  connections only (`OpenedWasOffered`), so nothing completes its migration, and
  the bind deadline takes both away: until then the row is an unoffered one that
  is BINDING (`EndedUnclaimed`), and the sweeper fails a connection only when it
  holds nothing (`FailingHoldsNothing`).
* `AccountedAlways` (`RelayAccounting_proofs`). By counting: each step that is not
  a heartbeat keeps the rows and the counters, lets a set of live rows go and
  releases just those, or inserts one row and charges its node; lemmas about
  cardinality give the sums.
* `CapacityKept`: as long as the heartbeats report what the control plane has
  counted (`ReportsAgree`), the count of each node is exactly its live rows
  (`Exact`) and they never pass the threshold (`WithinThreshold`), whichever
  schedulers and migrations meet. Without that hypothesis a report may replace the
  count by less than is allocated, and the threshold can be passed; the code trusts
  the report.
* `RetriedOnceAlways`: a retry has a higher attempt than every earlier migration of
  its connection, so a timeout is retried once only, although the list of failed
  migrations is read long before they are retried (what it holds is `Newest`, and
  has the highest attempt: `ListedIsHighest`). From it `RetriesBoundedAlways`, by
  counting: `migration_max_attempts` bounds the retries of a connection over its
  whole life, because their attempts are different numbers from 2 to the maximum.

`RelayFleet_proofs` ties `RelayMigration` to `RelayNode`. `RelayMigration` changes
the state of a node in one step, where `RelayNode` shows that an order may be
written long after it was checked, so that a node leaves REVOKED again. `FleetSpec`
is the tables of `RelayMigration` over nodes that do whatever `NodeLifecycle`
allows, with the orders that wait to be written:

* `FleetOneCurrent`, `FleetOneBinding`, `FleetCompletedSupersedes`,
  `FleetReleases`, `FleetRetriedOnce`, `FleetEndedStaysEnded`, `FleetAccounted`,
  `FleetDeadStaysDead`: what is proved of the tables holds over these nodes. The
  reason is that a node's own step changes neither rows nor connections and that
  `IInv` says nothing of a node but its type (`FleetInvariant`).
* `FleetKeepsLifecycle`: each node of the fleet keeps `NodeLifecycle`, so the tables
  never disturb it: no scheduler, sweeper or migration writes a node's state.
* `MigrationIsFleet`: `RelayMigration` is the fleet in which no order waits.

With `RelayNode`'s `Implementation` this is the composition of the two modules: the
row of a node does what `NodeLifecycle` allows, and the tables need no more.

Only model-checked: `BindingResolves` and `MigrationSettles` (liveness is out of
reach of the prover used here).

## RelayNode

One enrolled node: the edge process (`relayruntime/control_client.go`,
`identity.go`), the control plane's side of its stream (`relayregistry/control.go`)
and the statements and orders that write its row (`service.go`, `repository.go`).
`RelayMigration` has the same row with several nodes and no streams; here there is
one node, and everything between its edge and its row.

| Variable | Code |
|---|---|
| `row` | `relay_nodes`: `state`; `cert` for `certificate_fingerprint`; `expired` for `certificate_expires_at <= now`; `age` 1 and 2 for a `last_heartbeat_at` older than `unhealthy_after` and `offline_after` |
| `edge.at`, `edge.slot` | where the process is: between calls of `connectOnce`, in its loop, in `renewIdentity` (from a tick or from `LoadOrEnroll`), ended |
| `edge.drain` | `Runtime.draining` and whether `drainDeadline` is set |
| `edge.cert`, `edge.file`, `edge.due` | `c.identity` in memory; `identity.json`, from which a restart takes it; `certificateRenewalDue` |
| `edge.outage` | the time since `disconnectedAt`, counted in failed dials up to the grace period |
| `edge.reply` | the HTTP answer to a renewal |
| `stream[s]` | a stream: how far its `Connect` handler is (`phase`), the certificate of its TLS session, the row `MarkConnecting` returned, what is on its way to the edge, a report on its way back |
| `admin[i]` | an administrator's call in `changeState` and its publish |
| `reachable` | the network |

The actions of the edge are `Dial` (an attempt that sends Hello) and `DialFails`,
`StreamEnds`, `StreamBreaks`, `HandleControlMessage`, `SendReport`,
`StartRenewal`, `RenewalReply`, `RenewalFails`, `EdgeRestarts`; those of the control
plane `MarkConnecting`, `Register` (with the snapshot), `Heartbeat`, `HandlerEnds`,
`RenewCertificate`, `SweepNodes`, `ControlPlaneRestarts`; those of an administrator
`ReadState`, `ChangeState`, `Publish`. A new stream takes a free slot: two slots
are an edge that reconnects before the control plane has noticed that it left.

Abstractions. The subscription's channel and the gRPC stream behind it are one
queue, `Publish` drops when it holds `HubBuffer` messages; the hub is the set of
open streams. Messages that change nothing here are left out: `KeysetUpdate`,
`CertificateRotation`, allocation reports, telemetry. A report carries figures the
control plane accepts. What is on its way when an outage begins may arrive or
not. Renewal requests are handled while the edge waits for them: one that the
control plane commits after the edge has given up is committed before that
instead. `RenewalReply` has the three outcomes of `renewIdentity`: saved and taken
over; not saved (`Faults` has "disk"), with the old identity in both places, where
`LoadOrEnroll` gives up; saved, and then `UpdateKeyset` refuses the new keyset
("keyset"), so that `identity.json` is ahead of the memory. Enrolment is the initial
state. `drain_migrate_existing` is in
`RelayMigration`.

`NodeLifecycle` is the abstract specification: the state of a node and the orders
that have been given but not carried out. It says what other packages may rely
on: reconnects lead to CONNECTING, reports to READY unless the node drains,
silence to UNHEALTHY or OFFLINE, orders are checked in the state they are given
in, and nothing but an order that was already given leaves REVOKED.
`KeepsLifecycle` is the refinement: `state <- row.state`, `pending <-` the orders
of administrators between `ReadState` and `ChangeState`.

### Runs

| Run | Instance | Shows |
|---|---|---|
| `node_orders` | 2 administrators, 2 orders, 2 slots, 1 renewal, 1 fault (a break, a crash, a restart, a lost reply, a full disk) | `RevokedUnlessRacing`: late heartbeats and Hellos of the stream the edge has left do not undo a revocation; `LostRenewalStaysDue`: wherever a renewal gets lost between the row and `identity.json`, it is asked for again; `KeepsLifecycle` |
| `node_fair` | 1 administrator, 1 order, 2 slots, 1 renewal, 1 break, outage or refused keyset, channels of 1 message, fair | `IdentityKeptOnline`, `RenewsOnline`; `GraceDrains`; `RevocationCutsOff`: a node that stays revoked loses its stream although Shutdown was lost, by a break or by a full channel |
| `node_drain_snapshot` | violation of `SnapshotRestoresDrain`, 1 administrator, 1 break | the snapshot never says DRAINING, because `MarkConnecting` has just written CONNECTING |

Why the bounds are enough: an order can only race with one other order and one
stream change at a time, so two of each, and a fault between them, give every
pair of steps both orders; in `node_fair` a channel holds one message, so that a
snapshot that has not been read makes `Publish` drop the only order, which is what
the 32 places of the code do when they are full; a grace of two dials tells a first
failure from the last. `RenewsOnline` speaks of an edge whose memory and
`identity.json` agree: after a refused keyset they do not, and its Hellos are refused
until it is restarted (see Divergences). Deadlock is not checked: a node whose
process ended is finished.

### Fairness

`EdgeFairness`: `Run` is a loop that redials, the receive goroutine and the ticker
of `connectOnce` go on, a dead transport is noticed, an HTTP call returns (it has a
timeout of 15 s). `ServerFairness`: a handler goes on to its end, an administrator's
call that has been checked too. What needs the network is fair only while it is
`reachable`. Nothing is assumed of the sweeper, of an administrator's wish to
give an order, of time, of the end of an outage, nor of faults.

### Proofs

`RelayNode_proofs` proves, for all constants that `NodeAssumption` allows:

* `TypeCorrect`: `Spec => []TypeOK`. The queue is the part that needs care: every
  step keeps `Seq(Messages)`, and `HandleControlMessage` takes its head.
* `RevokedUnlessRacingAlways`: the edge and time do not touch the state
  (`EdgeKeepsState`), the control plane by itself makes only a `RowStep`
  (`ServerKeepsState`), and an administrator writes only an order that was pending
  (`AdminWrites`).
* `RevokedIsPermanentAlone`: with one administrator REVOKED is permanent. The
  invariant is `NoRace`: an order waits to be written only while the node is not
  revoked, because nobody else could revoke it. With two it fails (see Divergences).
* `Implementation`: `Spec => KeepsLifecycle`; the initial states map to initial
  states and every action to one of the life cycle or to a stutter.
* `IdentityKeptAlways`: if only streams break, networks fail and keysets are refused,
  `IdentityKeptOnline` holds, with the invariant that a reply is "issued" only while
  the edge waits for it and the row is one certificate ahead of the file.
* `LostRenewalStaysDueAlways`, for every fault but a refused keyset, crashes included.
  The invariant (`RenewalAccounted`) adds that memory and file agree and that a
  renewal on its way is due. A refused keyset has to be excluded: if a second renewal
  is then lost and the edge restarts, it starts with the first of the two
  certificates, fresh in its own eyes and superseded in the row.
* `CertificatesFollowAlways`, for every kind and number of faults: no stream holds a
  later certificate than the edge's memory, the memory none later than
  `identity.json`, and the file none later than the row.
  `SupersededKeptOutAlways` follows: a Hello with a superseded certificate is never
  admitted, even when the renewal falls between the Hello and `MarkConnecting`, and
  never becomes good again. Both rest on what a step may do to one stream
  (`StreamStep`) and to the certificates (`CertStep`).
* `RevokedAdmitsNobodyAlways`: while the node is revoked no stream is admitted that
  was not, and a report that is handled ends its stream. This is the half of
  `RevocationCutsOff` that needs no fairness: what is left to TLC is that a report
  comes.
* `GraceSpentAlways`, `GraceRunsOnAlways`: an edge that has been cut off for the
  grace period drains; until then every failed dial counts, and between two dials
  nothing but a restart of the process gives grace back or forgets a drain. This is
  the same half of `GraceDrains`.

Only model-checked: `RenewsOnline`, `RevocationCutsOff`, `GraceDrains` (liveness).

## MultiMatch

`ServerLogic/DedicatedMultiMatch.cpp` with its policy header, the ownership of the
NetDriver (`Network/NetDriverAccess.cpp`) and the hooks that call them. Each call
holds `gMutex` to its end and is one step; the engine is external and acts between
any two calls.

| Variable | Code |
|---|---|
| `world`, `url`, `conn`, `ended`, `sentHome`, `deferred` | the engine: `GWorld` with its GameMode and GameState, `NextURL`, connections with or without a controller, the GameMode whose native `EndMatch` ran last, the return to the main menu, a `SeamlessTravel` that waits for the end of the engine's tick |
| `binding` | `UWorld::NetDriver`, `UNetDriver::World`, and the cached pair of `NetDriverAccess` |
| `life`, `candidates`, `votes`, `voteLeft`, `nextMap`, `elapsed`, `match`, `endReceived`, `endTicks`, `queued`, `dispatched`, `browseFailed`, `source`, `retired`, `activeMap` | `RuntimeState` |
| `rebind` | `g_hookArgumentRebindEnabled` |
| `told`, `late` | for the properties: the players who were told to travel and have stayed since; the `WaitingToEndGame` callbacks taken during a travel |

Actions: `OnShowingMatchResult`, `HandleServerSay` (a vote), `HandleWaitingToEndGame`,
`EndMatch` with `ShouldSuppressRetiredEndMatch`, `SuppressTravelSource`,
`InterceptEngineBrowse`, `OnGameEnginePostTick`, `Tick` (the vote's clock, the
departure, the arrival, the commit, the timeouts, the fall-back),
`AcceptConnection`, `PostLogin`, `OnPlayerDisconnected`; and the engine's
`LeaveWorld`, `EnterWorld`, `BindDriver`, `UrlReplaced`, `NativeBrowse` (a queued URL
that the payload does not own any more), `ConnectionCloses`. Seconds
are ticks; a world has a number, and its GameMode and GameState are known by it;
status JSON and chat texts are left out. `HandleWaitingToEndGame` is taken in every
state but the fall-back, as the code does: one that comes during a travel makes the
server wait to travel again, and depart again from wherever the engine is by then
(see Divergences). `late` counts them and `MaxLate` bounds them. The elapsed travel
time outlives the commit, so that a commit on the tick that reaches the timeout is
followed by the fall-back in the same call (`CommitTooLate`).

`MatchSequence` is the abstract specification: players come and go while a match is
open, none is added on the way to the next, and the alternative is to give the
process up, at the moment of the arrival at the latest (`ArriveTooLate`); a move may be
called off and begin anew (`Reopen`). `KeepsSequence` maps the life cycle to its three
phases, late callbacks included.

### Runs

| Run | Instance | Shows |
|---|---|---|
| `match_sequence` | 2 players, 3 maps, 1 candidate, vote of 2 ticks, travel timeout of 3, up to 5 worlds, 1 late `WaitingToEndGame` | `VotesCount`; as long as no late callback was taken, `CommitKeepsEveryone`, `OwnEnd`, `NobodyStranded`, `DriverProven`; with it, `MatchEnds`: every ended match is followed by another or by the exit, and `KeepsSequence` |
| `match_joiner` | violation of `BrowseFailsForCause` | a player between handshake and `PostLogin` when the travel begins makes the Browse fail, and the server exits although nobody left |

Two players tell one who stays from one who leaves or joins; three maps let the
second match offer another map than the first and the current one. The run offers one
candidate to leave room for the late callback; `match_joiner`, without late callbacks,
offers two, and the proofs any number. Five worlds are the first, a transition
world and a destination, twice. Deadlock is not checked: the bound on worlds ends
the engine.

Fairness: `Tick` only. It is called by the hook of `TickFlush`, which the engine
calls for ever, and counts the travel timeout, so that a world that never comes
ends in the fall-back; no step of the engine or of a player is assumed.

### Proofs

`MultiMatch_proofs` proves for any players, playlist, vote and timeout:
`TypeCorrect`, `VotesCountAlways`, `NobodyStrandedAlways`, `DriverProvenAlways`,
`OwnEndAlways`, `CommitKeepsEveryoneAlways`, and `Implementation`
(`Spec => KeepsSequence`). The inductive invariant `Inv` adds what ties a travel to
its source: at rest there is none (`AtRest`), and on the way nobody is connected
who was not when it began, the world changes only after the dispatch, and from
then on the players here are among those told to go (`OnTheWay`); a late callback
ends this, so that these parts, and four of the properties, say `late = 0`.

`EndInTimeAlways` and `EndPutOffOnlyByLateEndAlways` are the half of `MatchEnds` that
needs no fairness. `TicksLeft` counts what is left of the vote, of the flush that is awaited
and of the travel timeout; from the end of a match it is between 1 and
`VoteDuration + 1 + TravelTimeout`, every `Tick` that neither commits nor exits
lowers it, and one step alone raises it: a `WaitingToEndGame` during the travel. A
player who joins or leaves does not, nor does the engine, nor a repeated
`WaitingToEndGame` before the departure. `MatchEnds` therefore needs a bound on the
late callbacks; any bound will do. The invariant that makes `TicksLeft` a rank is
`Countdown` (a running match has not ended, nothing is left of the vote when the
travel is awaited, a travel is given up before its timeout). Only model-checked:
`MatchEnds`, which adds that ticks come.

## StrictRoster

One match attempt of `matchlobby` from its start to its end, and the policy that
admits its players in the payload of the authority, a dedicated server or the
host of a P2P match.

| Variable | Code |
|---|---|
| `hosting`, `attempt` | `match_attempts`: hosting kind, state, route generation, `payload_route_generation`, freshness of `authority_last_seen_at`, the reconnect deadline |
| `roster` | the frozen members: connection generation and state |
| `issued`, `revoked`, `consumed` | `match_admission_grants` |
| `alloc`, `started`, `used` | `allocation_`, `authorityStarted_`, `usedJtis_` of `StrictRosterPolicy` |
| `links` | the engine's connections, each by the grant it showed |
| `toolbox` | the tool that carries an allocation to the payload and confirms it |
| `admitted` | for the properties: the grants that have let somebody in |

Actions: `ReadAttempt` and `FrozenRoster` (`allocation()` is two reads),
`InstallAllocation`, `PayloadInstalled`; `StartAuthority`, `AuthorityReady`,
`AuthorityHeartbeat`, `ClearMatchAllocation`, `MarkConnected`, `ReportDisconnected`,
`Complete`; `JoinGrant`, `ValidateJoinGrant`, `MarkDisconnected`; `HeartbeatStale`
and `Sweep`. Every transaction, and every call of the policy (which holds
`mutex_`), is one step. Signatures are those of the issuer. Expiry of grants and
allocations is no state: whatever may be used may also never be. The payload is
not restarted within an attempt. The native gate is open, as in the policy's
tests; in the shipped build it is FALSE (`dllmain.cpp:75`), and the platform id
passed at `dllmain.cpp:575` is empty, so that a P2P host would be refused by
`StartAuthority` until both are filled in.

`FrozenSeats` is the abstract specification: a seat is held by one connection, by
leave of one generation issued for it, later than all that have held it.

### Runs

| Run | Instance | Shows |
|---|---|---|
| `admission` | P2P and dedicated, 2 players in 2 teams, 3 grants, 2 recoveries of the host | `SeatTruth`, `ReadyMeansInstalled`, `ValidGrantAdmitted`, `SpentByAdmission`, `ConnectedWasAdmitted`, `EndIsFinal`; `RefreshEnds`; `KeepsSeats` |
| `route_refresh` | violation of `AlwaysRefreshed`, P2P, 2 recoveries | a host that recovers twice before its payload has the first new route can install no allocation any more |

Three grants are two of one player, of different generations or routes, beside
another's; two recoveries are one more than the policy can take at once, which is
what `RefreshEnds` excludes by its last disjunct and `AlwaysRefreshed` does not.
Deadlock is not checked: an ended attempt rests.

Fairness: the toolbox goes on with the allocation it carries, an assumption about a
program outside this repository. Nothing is assumed of players, reports or time.

### Proofs

`StrictRoster_proofs` proves all of the above but `RefreshEnds`, for any players,
teams, routes and grants, with type correctness and `Implementation`
(`Spec => KeepsSeats`). The
inductive invariant ties the three parties: the toolbox is never ahead of the
control plane (`Routes`, `Held`), the payload never ahead of the toolbox
(`Confirmed`, `AllocBehind`), no grant ahead of the roster (`IssuedBehind`,
`Unique`), no admission ahead of the payload (`AdmittedBehind`), and what is left
of the grants at each stage (`NotYet`, `Outstanding`, `EndRevoked`).

Three more theorems have no run of their own. `AdmitsOnceAlways`: no grant lets
anybody in twice, and each admission of a player is by a later grant than all before;
the set of spent JTIs does not give this alone, because it refuses only the very same
grant: against an older one of the same player stands the generation of the seat,
which no installation lowers. `NeverGoesBackAlways`: a policy is only replaced by one
of the same or the next route and no earlier generation, whichever allocation a slow
toolbox carries. `HolderIsLatestAlways`: the connection that holds a seat is the last
one its player was let in by.

## CommandFramework

The pipe by which the toolbox commands the payload
(`Communication/CommandFramework.cpp`). Any thread may call `Start`, `Stop` and
`SendResponse`; the listener thread makes one pipe after the other, serves one
client on each, and its callbacks may call `Stop` themselves. The actions of
`StrictRoster` that arrive over this pipe are its callbacks.

| Variable | Code |
|---|---|
| `at` | where each thread is, between two points where another may come in: the acquisition of a mutex, a wait, or the reading of a flag shared without one |
| `running`, `stopping`, `listenerThread`, `stopEvent`, `hCurrentPipe`, `connectionFaulted`, `lifecycleMutex`, `writeMutex` | the members of the same names; `signalled` is the state of the event |
| `joins` | `threadToJoin` in `Stop` |
| `pipe`, `served` | the `UniqueHandle` of `ListenerLoop`; pipes made so far |
| `frames`, `errors`, `reply` | locals of `ReadClient`: complete frames, `protocolErrors`, what follows the present response |
| `faultedOn` | for the properties: the pipe on which a write failed last |

A thread object is known by its identifier and so is the stop event of the same
`Start`, so that a wait on the event of another start would be seen. `CancelIoEx`
brings back a read that is pending and does nothing to one that is not yet: it is
one step with the release of `writeMutex`. The client, the contents of frames and
the failures of system calls are free choices; the callbacks that `dllmain.cpp`
installs only queue work or call the policy, and return.

### Runs

| Run | Instance | Shows |
|---|---|---|
| `stop` | 2 owners, 2 listeners (2 starts), 2 pipes, 3 calls, reads of 1 frame, 2 protocol errors | `PipeOutlivesUse`, `EventOutlivesWaits`: no handle is used after it was closed; `FaultIsOwn`: the fault flag speaks of the connection that is served; `ListenerOwned`; `StopNeverStuck`: mutexes and joins never wait for each other in a circle; `StopFinishes`; `StopReturns`: whatever the client does; `FaultEnds` |

Two owners let a `Stop`, a `Start` or a response meet a `Stop`; two listeners and
two pipes let what is left of one life or connection meet the next; three calls are
a start, a stop and one more on either side. Deadlock is not checked: a
framework that is stopped rests.

Fairness: each thread is scheduled, callbacks return, and the kernel completes what
has been cancelled and wakes who waits on a set event. For `StopReturns` no
time-out is needed and the client may be silent for ever; owners make a bounded
number of calls, so no thread is kept from a mutex for ever by newcomers.
`FaultEnds` adds that the time-outs expire, without which it is false (see
Divergences).

### Proofs

`CommandFramework_proofs` proves for any number of owners, listeners, pipes, frames
and calls: `TypeCorrect`, `PipeOutlivesUseAlways`, `EventOutlivesWaitsAlways`,
`FaultIsOwnAlways`, `ListenerOwnedAlways`, `StopFinishesAlways`,
`StopNeverStuckAlways`. The inductive
invariant `IInv` says, for the place each thread is in, which mutex it holds
(`Locked`), which places are whose (`Placed`), who will join the one listener that
is alive and that the stop event is its own (`Owned`), that the alias is the open
pipe of the listener that serves (`Aliased`), and that a pipe not yet served has
seen no failure (`Flagged`). `EventOutlivesWaits` needs two of them: an owner in a
write has a pipe, so a listener serves it, so the event is that listener's. Steps
are first sorted by shape (`Shape`): those that only move a thread are handled once
for all.

`StopNeverStuck` is freedom from deadlock: whenever a `Stop` is under way some thread
is `Free`, that is, can go on without the client, without a time-out and without
what another thread holds (ENABLED is out of the prover's reach, so `Free` spells
the guards out). The argument follows the waits: who waits for `lifecycleMutex` waits
for its holder, who can only wait for `writeMutex`; the holder of
`writeMutex` is in a wait that the stop event ends, and so is a listener that is
joined. It needs that the event is set before any of this (`Announced`). Only
model-checked: `StopReturns` and `FaultEnds`.

## Divergences of the code from its documentation

The findings in `PROJECT.json` are runs that TLC violates: `poison`,
`node_drain_snapshot`, `match_joiner`, `route_refresh`. Reading and modelling also
showed the following, which have no run of their own:

* `Schedule` runs after `ReportCheck` has committed and does not lock the
  connection: a close between the two leaves an ALLOCATED row that `RevokeRelay`
  has not seen and nobody releases (`relayregistry/repository.go:423`; against
  `online-architecture.md:315`). `EndedReleasesMigrations` speaks of the rows of
  migrations only and so leaves it out.
* `changeState` reads and checks the row, then writes it in another statement: of
  two administrators, one that has read the row before the other's revocation
  overwrites it (`relayregistry/service.go:365`; against
  `online-architecture.md:397`). `RevokedUnlessRacing` exempts just that order, and
  `RevokedIsPermanentAlone` is the theorem for one administrator.
* `RelayMigrating` never looks at the migration, so a dispatch from a list the
  sweeper has read before an administrator's migration completed puts the
  CONNECTED connection back into MIGRATING_RELAY and sends its players tokens
  again (`connection/service.go:181`; against `relay-migration.md:41`). There it stays
  until it is closed or migrated once more, which is why `MigrationSettles` speaks of
  migrations whose target has not opened yet.
* `FailMigrationAttempt` and the failure of the connection are different
  transactions, and the second is owed only by the sweep that made the first: a
  control plane that stops between them after the last attempt leaves the connection
  in MIGRATING_RELAY (`relayregistry/service.go:554`; against
  `relay-migration.md:27`).
* `RetryableFailedMigrations` compares attempt numbers over all migrations of a
  connection, not over one chain: a timeout of a later migration is hidden by an
  earlier one that used more attempts (`repository.go:901`).
* `Run` clears `drainDeadline` when the grace period ends, so that a node that was
  draining with a deadline is never forced to finish (`control_client.go:61`,
  `runtime.go:145`; against `relay-migration.md:56`).
* A committed renewal whose reply is lost leaves an edge whose Hellos are all
  refused, and renewals are only tried on an accepted stream: it stays out until
  its process is restarted (`control_client.go:147`; against `overview.md:46`).
* `renewIdentity` writes `identity.json` before `UpdateKeyset` has accepted the new
  keyset. When it refuses, `c.identity` is still the old one, which the row no longer
  names: the edge's Hellos are refused until its process is restarted with the file
  (`control_client.go:147`). `IdentityKept` says that the right certificate is in the
  file; `RenewsOnline` leaves this case out.
* Not only Resume ends a drain: a node that was DRAINING becomes READY by a reconnect
  (CONNECTING, then a heartbeat) and by the sweep (UNHEALTHY, then a heartbeat)
  (`control.go`, `repository.go`; against `relay-migration.md:58`).
* A `WaitingToEndGame` during Traveling or LoadingNext is taken as any other
  (`DedicatedMultiMatch.cpp:1077`): the life cycle goes back to WaitingToTravel, new
  players are let in, and the second departure overwrites the source of the first,
  whose `SeamlessTravel` goes on. From then on `CommitKeepsEveryone`, `OwnEnd`,
  `NobodyStranded` and `DriverProven` can fail. Whether the native state machine
  ever calls it that late is decided in the engine.
* A match may be committed and given up in one call: `Tick` tests the travel timeout
  after `CompleteTravelIfReadyLocked`, which does not reset the elapsed time
  (`DedicatedMultiMatch.cpp:1020`).
* `lastConnectedAt` is set when Hello has been sent, so refused Hellos restart the
  grace period: an edge that was revoked without receiving Shutdown goes on
  binding players (`control_client.go:104`; against
  `online-architecture.md:484`).
* "Recovery requires reconnect" (`online-architecture.md:398`): a heartbeat on the
  old stream, or Resume, makes an UNHEALTHY or OFFLINE node READY directly.
* A second `Stop` of the command pipe returns at once while another is joining, so
  its caller may not take the listener for gone (`CommandFramework.cpp:343`; against
  `command-framework.md:112`, "joins deterministically"). `StopFinishes` speaks of
  the one that joins.
* A write that fails on another thread sets the fault flag and cancels the
  listener's read; if the listener has looked at the flag (`CommandFramework.cpp:651`)
  and not yet issued its read, the cancel finds nothing, and the dead connection is
  kept until the idle time-out, for ever if that is configured as none.
* `ShutdownPayloadCommandFramework` finds no framework between its `Start` and its
  publication (`dllmain.cpp:599`, `:913`, `:980`) and leaves the listener running.

## Not modelled

* **The rest of the Go backend** (connection paths, rooms, accounts, servers, VNT,
  battle log, meta server, downloads, administration, invitations) and the edge's
  data plane: next in the plan. Each is mostly one transaction per operation; the
  parts that several handlers share with relays and matches are modelled above.
* **The lobby before its start**: seats, teams, readiness, presence.
* **Late join, replication, loadouts, battle log extraction, client logic** of the
  payload: call sequences into an engine that this repository does not contain;
  what they achieve is decided there.
* **The frame grammar of the pipe** (`CommandProtocol`), its security descriptor and
  the check of the client's user: parsing and system calls without a state of
  their own; their outcomes are free choices of the model.
* **Generated and vendored code** (the engine SDK, JSON, the disassembler), which is
  most of the lines of the repository: no logic of this program.
* **Wrappers, launchers, AdminWeb, HTTP decoding, configuration, deployment files
  and test tools**. `PROJECT.json` lists every component with its status.
