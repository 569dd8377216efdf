--------------------------- MODULE RelayMigration ---------------------------
(***************************************************************************)
(* Relay allocation, fail-over and drain migration of the control plane:   *)
(* Backend/internal/relayregistry (repository, service, migration sweeper) *)
(* together with the relay half of Backend/internal/connection.            *)
(*                                                                         *)
(* PostgreSQL rows are the shared state; a step is one transaction.        *)
(* Between two transactions of one handler every other handler may run, so *)
(* the in-process position of each handler is part of the state too:       *)
(*                                                                         *)
(*   allocating[c]  the goroutine in Service.allocateRelay for connection c*)
(*   opening[a]     the control stream handling AllocationOpened(a)        *)
(*   revoking[c]    a close that has committed but not yet run RevokeRelay *)
(*   manual[c]      an administrator's MigrateConnection                   *)
(*   sweep          the single MigrationSweeper goroutine                  *)
(*                                                                         *)
(* Allocation rows are numbered in creation order.  A migration row is     *)
(* keyed by its new allocation (new_allocation_id is UNIQUE), so both      *)
(* tables share the index 1..last.                                         *)
(***************************************************************************)
EXTENDS Naturals, FiniteSets

CONSTANTS
    Nodes,              \* relay nodes, already enrolled
    Conns,              \* P2P connections
    MaxAllocations,     \* relay_nodes.max_allocations
    CapacityThreshold,  \* capacity_threshold_percent
    MaxAttempts,        \* migration_max_attempts
    RowsMaySkip,        \* TRUE: SKIP LOCKED may hide every eligible node
    RoomAnswers,        \* outcomes MarkConnectionEstablished may have
    Reports,            \* active_allocations values an edge may report
    MaxAllocs,          \* bound on allocation rows
    MaxNodeEvents,      \* bound on heartbeats, drains, expiries of nodes
    MaxManual,          \* bound on administrator migrations
    MaxInterrupts       \* bound on handlers lost to a restart or DB error

ASSUME ConstantsAssumption ==
    /\ IsFiniteSet(Nodes)
    /\ MaxAllocations \in Nat \ {0}
    /\ CapacityThreshold \in 1..100
    /\ MaxAttempts \in 1..10
    /\ RowsMaySkip \in BOOLEAN
    /\ RoomAnswers \in {{TRUE}, {TRUE, FALSE}}
    /\ Reports \subseteq 0..MaxAllocations
    /\ {MaxAllocs, MaxNodeEvents, MaxManual, MaxInterrupts} \subseteq Nat

VARIABLES
    node,        \* relay_nodes
    conn,        \* connections.state
    last,        \* number of rows in alloc and mig
    alloc,       \* relay_allocations
    mig,         \* relay_migrations, by new_allocation_id
    allocating,  \* Conns -> position in Service.allocateRelay
    opening,     \* allocation -> position in Service.AllocationOpened
    revoking,    \* connections whose RevokeRelay is still to run
    manual,      \* Conns -> position in Service.MigrateConnection
    sweep,       \* the migration sweeper
    spent        \* how much of each bound is used up

tables  == <<conn, last, alloc, mig>>
workers == <<allocating, opening, revoking, manual, sweep>>
vars    == <<node, tables, workers, spent>>

-----------------------------------------------------------------------------
(* States *)

NodeStates  == {"CONNECTING", "READY", "DRAINING", "UNHEALTHY", "OFFLINE",
                "REVOKED"}
FailedNode  == {"UNHEALTHY", "OFFLINE", "REVOKED"}
ConnStates  == {"CHECKING_DIRECT", "ALLOCATING_RELAY", "RELAY_BINDING",
                "MIGRATING_RELAY", "CONNECTED", "FAILED", "EXPIRED", "CLOSED"}
Terminal    == {"FAILED", "EXPIRED", "CLOSED"}
Current     == {"ALLOCATED", "BINDING", "ACTIVE"}
Live        == Current \cup {"MIGRATING"}
Dead        == {"CLOSED", "FAILED"}
KeepsOld    == {"RELAY_DRAIN", "ADMIN_MANUAL"}   \* not "RELAY_UNHEALTHY"

AllocIds    == 1..MaxAllocs
Rows        == 1..last

NodeRecord  == [state : NodeStates, fit : BOOLEAN, migrate : BOOLEAN,
                active : 0..MaxAllocations]
AllocRecord == [conn : Conns, node : Nodes, state : Live \cup Dead,
                offered : BOOLEAN]
\* state NONE: the allocation was scheduled, not created by a migration.
\* overdue: bind_deadline has passed.  Both flags are cleared when the state
\* leaves BINDING (no query reads them then).  old_allocation_id and reason
\* are only passed on to players and edges and are left out.
MigRecord   == [state : {"NONE", "BINDING", "COMPLETED", "FAILED"},
                attempt : 0..MaxAttempts, dispatched : BOOLEAN,
                overdue : BOOLEAN]

RowsOf(c)     == {a \in Rows : alloc[a].conn = c}
CurrentOf(c)  == {a \in RowsOf(c) : alloc[a].state \in Current}
LiveOf(c)     == {a \in RowsOf(c) : alloc[a].state \in Live}
BindingOf(c)  == {m \in RowsOf(c) : mig[m].state = "BINDING"}
Newest(a)     == \A b \in Rows : alloc[b].conn = alloc[a].conn => b <= a

-----------------------------------------------------------------------------
(* Capacity *)

\* A node the scheduler's SELECT returns.  fit stands for the row conditions
\* on load_state, protocol version, certificate, lease and egress.
Schedulable(n) ==
    /\ node[n].state = "READY"
    /\ node[n].fit
    /\ node[n].active * 100 < MaxAllocations * CapacityThreshold

\* GREATEST(active - k, 0)
MonusUnclamped(active, k) == active - k   \* mutant: no GREATEST
Monus(active, k) == IF k > active THEN 0 ELSE active - k

\* relay_nodes after the allocations in gone stop counting.
Released(gone) ==
    [n \in Nodes |-> [node[n] EXCEPT !.active =
        Monus(@, Cardinality({a \in gone : alloc[a].node = n}))]]

\* ... and one allocation is added on n.
Charged(nodes, n) == [nodes EXCEPT ![n].active = @ + 1]

\* relay_allocations after every row of gone moves to state s.
Moved(gone, s) ==
    [a \in Rows |-> IF a \in gone THEN [alloc[a] EXCEPT !.state = s]
                                  ELSE alloc[a]]

\* Insert one allocation of c on n, with its migration row, after the table
\* rows has been updated.
Insert(rows, c, n, row) ==
    /\ last < MaxAllocs
    /\ last' = last + 1
    /\ alloc' = [a \in 1..(last + 1) |->
                    IF a = last + 1
                      THEN [conn |-> c, node |-> n, state |-> "ALLOCATED",
                            offered |-> FALSE]
                      ELSE rows[a]]
    /\ mig' = [a \in 1..(last + 1) |-> IF a = last + 1 THEN row ELSE mig[a]]

NoMigration == [state |-> "NONE", attempt |-> 0, dispatched |-> FALSE,
                overdue |-> FALSE]
NewMigration(attempt) ==
    [state |-> "BINDING", attempt |-> attempt, dispatched |-> FALSE,
     overdue |-> FALSE]
Resolved(m, s) ==
    [mig EXCEPT ![m] = [state |-> s, attempt |-> @.attempt,
                        dispatched |-> FALSE, overdue |-> FALSE]]

-----------------------------------------------------------------------------
(* Sweeper positions.  work is the list the phase read; step and subject     *)
(* name the transactions still owed for one element of it.                   *)

Phases == {"idle", "timeouts", "retries", "failed", "dispatch", "drain",
           "drain_dispatch"}
Steps  == {"next", "fail_allocation", "fail_allocations", "fail_connection",
           "mark"}
Idle   == [phase |-> "idle", work |-> {}, step |-> "next", subject |-> 0]

AllocatingSteps == {"idle", "schedule", "bind"}
OpeningSteps    == {"idle", "activated", "plain", "migrating", "bound"}
\* <<"read", 0>> before ActiveAllocationIDForConnection, <<"plan", a>> before
\* PlanMigration(a), <<"dispatch", m>> and <<"mark", m>> after it.
ManualSteps     == {<<"idle", 0>>, <<"read", 0>>}
                       \cup ({"plan", "dispatch", "mark"} \X Rows)

Init ==
    /\ node = [n \in Nodes |-> [state |-> "READY", fit |-> TRUE,
                                migrate |-> FALSE, active |-> 0]]
    /\ conn = [c \in Conns |-> "CHECKING_DIRECT"]
    /\ last = 0
    /\ alloc = [a \in 1..0 |-> 0]
    /\ mig = [a \in 1..0 |-> 0]
    /\ allocating = [c \in Conns |-> "idle"]
    /\ opening = [a \in AllocIds |-> "idle"]
    /\ revoking = {}
    /\ manual = [c \in Conns |-> <<"idle", 0>>]
    /\ sweep = Idle
    /\ spent = [node |-> 0, manual |-> 0, interrupts |-> 0]

-----------------------------------------------------------------------------
(* Relay nodes: one UPDATE each.                                             *)

NodeEvent(n, changed) ==
    /\ spent.node < MaxNodeEvents
    /\ spent' = [spent EXCEPT !.node = @ + 1]
    /\ node' = [node EXCEPT ![n] = changed]
    /\ UNCHANGED <<tables, workers>>

MarkConnecting(n) ==
    /\ node[n].state # "REVOKED"
    /\ NodeEvent(n, [node[n] EXCEPT !.state = "CONNECTING"])

\* The edge's own count replaces active_allocations.
Heartbeat(n, report, fit) ==
    /\ node[n].state # "REVOKED"
    /\ NodeEvent(n, [node[n] EXCEPT
           !.state = IF @ = "DRAINING" THEN "DRAINING" ELSE "READY",
           !.active = report, !.fit = fit])

\* SweepNodes: a heartbeat that is 45 s (90 s) old.  The lease has the same
\* length, so it is over too.
ExpireNode(n, s) ==
    /\ node[n].state \notin {"OFFLINE", "REVOKED"}
    /\ NodeEvent(n, [node[n] EXCEPT !.state = s, !.fit = FALSE])

Drain(n, migrate) ==
    /\ node[n].state = "READY"
    /\ NodeEvent(n, [node[n] EXCEPT !.state = "DRAINING", !.migrate = migrate])

Resume(n) ==
    /\ node[n].state \in {"DRAINING", "UNHEALTHY", "OFFLINE"}
    /\ NodeEvent(n, [node[n] EXCEPT !.state = "READY", !.migrate = FALSE])

Revoke(n) ==
    /\ node[n].state # "REVOKED"
    /\ NodeEvent(n, [node[n] EXCEPT !.state = "REVOKED", !.migrate = FALSE])

NodeNext ==
    \E n \in Nodes :
        \/ MarkConnecting(n)
        \/ \E r \in Reports, f \in BOOLEAN : Heartbeat(n, r, f)
        \/ \E s \in {"UNHEALTHY", "OFFLINE"} : ExpireNode(n, s)
        \/ \E m \in BOOLEAN : Drain(n, m)
        \/ Resume(n)
        \/ Revoke(n)

-----------------------------------------------------------------------------
(* Connections                                                               *)

\* ReportCheck: the last direct path failed; the commit is followed by
\* allocateRelay in the same goroutine.
DirectPathsExhausted(c) ==
    /\ conn[c] = "CHECKING_DIRECT"
    /\ conn' = [conn EXCEPT ![c] = "ALLOCATING_RELAY"]
    /\ allocating' = [allocating EXCEPT ![c] = "schedule"]
    /\ UNCHANGED <<node, last, alloc, mig, opening, revoking, manual, sweep,
                   spent>>

Schedule(c, n) ==
    /\ allocating[c] = "schedule"
    /\ CurrentOf(c) = {}
    /\ Schedulable(n)
    /\ Insert(alloc, c, n, NoMigration)
    /\ node' = Charged(node, n)
    /\ allocating' = [allocating EXCEPT ![c] = "bind"]
    /\ UNCHANGED <<conn, opening, revoking, manual, sweep, spent>>

\* No eligible node (or the room is gone): relay_failed is published and the
\* connection stays in ALLOCATING_RELAY.
ScheduleUnavailable(c) ==
    /\ allocating[c] = "schedule"
    /\ \/ \A n \in Nodes : ~Schedulable(n)
       \/ RowsMaySkip
       \/ FALSE \in RoomAnswers
    /\ allocating' = [allocating EXCEPT ![c] = "idle"]
    /\ UNCHANGED <<node, tables, opening, revoking, manual, sweep, spent>>

\* Second transaction of allocateRelay: the row is locked and its state read
\* again before RELAY_BINDING is stored and the tokens are published.
BindRelay(c) ==
    /\ allocating[c] = "bind"
    /\ allocating' = [allocating EXCEPT ![c] = "idle"]
    /\ IF conn[c] = "ALLOCATING_RELAY"
         THEN /\ conn' = [conn EXCEPT ![c] = "RELAY_BINDING"]
              /\ alloc' = [a \in Rows |->
                    IF alloc[a].conn = c /\ mig[a].state = "NONE"
                      THEN [alloc[a] EXCEPT !.offered = TRUE]
                      ELSE alloc[a]]
         ELSE UNCHANGED <<conn, alloc>>
    /\ UNCHANGED <<node, last, mig, opening, revoking, manual, sweep, spent>>

\* Close by a participant: FAILED and EXPIRED connections become CLOSED too,
\* and RevokeRelay runs again even on a connection that is closed already.
ClientClose(c) ==
    /\ c \notin revoking
    /\ conn' = [conn EXCEPT ![c] = "CLOSED"]
    /\ revoking' = revoking \cup {c}
    /\ UNCHANGED <<node, last, alloc, mig, allocating, opening, manual, sweep,
                   spent>>

\* CloseForRoom, CloseForRoomMember and the administrator's close (CLOSED),
\* and the connection sweeper (EXPIRED): non-terminal rows only.
EndConnection(c, s) ==
    /\ conn[c] \notin Terminal
    /\ conn' = [conn EXCEPT ![c] = s]
    /\ revoking' = revoking \cup {c}
    /\ UNCHANGED <<node, last, alloc, mig, allocating, opening, manual, sweep,
                   spent>>

\* mutant: rows in MIGRATING are forgotten.
RevokeRelayCurrent(c) ==
    /\ c \in revoking
    /\ revoking' = revoking \ {c}
    /\ alloc' = Moved(CurrentOf(c), "CLOSED")
    /\ node' = Released(CurrentOf(c))
    /\ UNCHANGED <<conn, last, mig, allocating, opening, manual, sweep, spent>>
\* CloseConnectionAllocations, owed by each of the closes above.
RevokeRelay(c) ==
    /\ c \in revoking
    /\ revoking' = revoking \ {c}
    /\ alloc' = Moved(LiveOf(c), "CLOSED")
    /\ node' = Released(LiveOf(c))
    /\ UNCHANGED <<conn, last, mig, allocating, opening, manual, sweep, spent>>

ConnNext ==
    \E c \in Conns :
        \/ DirectPathsExhausted(c)
        \/ \E n \in Nodes : Schedule(c, n)
        \/ ScheduleUnavailable(c)
        \/ BindRelay(c)
        \/ ClientClose(c)
        \/ \E s \in {"CLOSED", "EXPIRED"} : EndConnection(c, s)
        \/ RevokeRelay(c)

-----------------------------------------------------------------------------
(* Edge reports: AllocationOpened is four transactions, AllocationClosed one.*)

OpenableUnlessFailed(a) == alloc[a].state # "FAILED"   \* mutant
Openable(a) == alloc[a].state \in {"ALLOCATED", "BINDING"}

\* Both players have bound, so their tokens were published before.
AllocationOpened(a) ==
    /\ opening[a] = "idle"
    /\ alloc[a].offered
    /\ Openable(a)
    /\ alloc' = [alloc EXCEPT ![a].state = "ACTIVE"]
    /\ opening' = [opening EXCEPT ![a] = "activated"]
    /\ UNCHANGED <<node, conn, last, mig, allocating, revoking, manual, sweep,
                   spent>>

MigrationForNewAllocation(a) ==
    /\ opening[a] = "activated"
    /\ opening' = [opening EXCEPT ![a] =
                      IF mig[a].state = "BINDING" THEN "migrating" ELSE "plain"]
    /\ UNCHANGED <<node, tables, allocating, revoking, manual, sweep, spent>>

\* The path is stored before the room is told; a room that refuses makes the
\* handler fail although the connection is already CONNECTED.
RelayBound(a, established) ==
    LET c == alloc[a].conn
        completes == opening[a] = "migrating"
    IN /\ opening[a] \in {"plain", "migrating"}
       /\ IF conn[c] \in {"RELAY_BINDING", "MIGRATING_RELAY"}
            THEN /\ conn' = [conn EXCEPT ![c] = "CONNECTED"]
                 /\ opening' = [opening EXCEPT ![a] =
                        IF completes /\ established THEN "bound" ELSE "idle"]
            ELSE /\ UNCHANGED conn
                 /\ opening' = [opening EXCEPT ![a] =
                        IF completes /\ conn[c] = "CONNECTED"
                          THEN "bound" ELSE "idle"]
       /\ UNCHANGED <<node, last, alloc, mig, allocating, revoking, manual,
                      sweep, spent>>

\* mutant: the drained row, MIGRATING, is forgotten.
SupersededCurrent(a) == CurrentOf(alloc[a].conn) \ {a}
Superseded(a) == LiveOf(alloc[a].conn) \ {a}

CompleteMigration(a) ==
    /\ opening[a] = "bound"
    /\ opening' = [opening EXCEPT ![a] = "idle"]
    /\ IF mig[a].state = "BINDING"
         THEN /\ mig' = Resolved(a, "COMPLETED")
              /\ alloc' = Moved(Superseded(a), "CLOSED")
              /\ node' = Released(Superseded(a))
         ELSE UNCHANGED <<node, alloc, mig>>
    /\ UNCHANGED <<conn, last, allocating, revoking, manual, sweep, spent>>

AllocationClosed(a) ==
    /\ opening[a] = "idle"
    /\ alloc[a].offered
    /\ alloc[a].state \in Live
    /\ alloc' = Moved({a}, "CLOSED")
    /\ node' = Released({a})
    /\ UNCHANGED <<conn, last, mig, workers, spent>>

EdgeNext ==
    \E a \in Rows :
        \/ AllocationOpened(a)
        \/ MigrationForNewAllocation(a)
        \/ \E e \in RoomAnswers : RelayBound(a, e)
        \/ CompleteMigration(a)
        \/ AllocationClosed(a)

-----------------------------------------------------------------------------
(* PlanMigration and its callers                                             *)

Plannable(a, reason) ==
    LET n == alloc[a].node
    IN /\ alloc[a].state \in Current
       /\ \/ node[n].state \in FailedNode
          \/ reason = "RELAY_DRAIN" /\ node[n].state = "DRAINING"
                                    /\ node[n].migrate
          \/ reason = "ADMIN_MANUAL" /\ node[n].state \in {"READY", "DRAINING"}

NeverActiveMigration(c) == TRUE                         \* mutant
NoActiveMigration(c) == BindingOf(c) = {}

\* Only a drained or manually moved allocation keeps counting.
UncountedNever(a, reason) == {}                            \* mutant
Uncounted(a, reason) == IF reason \in KeepsOld THEN {} ELSE {a}

\* The transaction's successful outcome: a is replaced by a new allocation
\* on n.
PlanMigration(a, n, reason) ==
    /\ Plannable(a, reason)
    /\ NoActiveMigration(alloc[a].conn)
    /\ n # alloc[a].node
    /\ Schedulable(n)
    /\ Insert(Moved({a}, IF reason \in KeepsOld THEN "MIGRATING" ELSE "FAILED"),
              alloc[a].conn, n, NewMigration(1))
    /\ node' = Charged(Released(Uncounted(a, reason)), n)

NoTarget(excluded) ==
    RowsMaySkip \/ \A n \in Nodes \ excluded : ~Schedulable(n)

\* mutant: a closed connection is not refused.
CanDispatchClosed(m) == conn[alloc[m].conn] \notin {"FAILED", "EXPIRED"}
CanDispatch(m) ==
    conn[alloc[m].conn] \in {"CONNECTED", "RELAY_BINDING", "MIGRATING_RELAY"}
\* RelayMigrating: the connection is moved and the tokens published.
RelayMigrating(m) ==
    /\ CanDispatch(m)
    /\ conn' = [conn EXCEPT ![alloc[m].conn] = "MIGRATING_RELAY"]
    /\ alloc' = [alloc EXCEPT ![m].offered = TRUE]
MarkMigrationDispatched(m) ==
    mig' = [mig EXCEPT ![m].dispatched = @ \/ mig[m].state = "BINDING"]

\* Administrator: the connection is read CONNECTED through a relay, then its
\* allocation is read; PlanMigration, RelayMigrating and
\* MarkMigrationDispatched follow.
RequestManual(c) ==
    /\ manual[c][1] = "idle"
    /\ spent.manual < MaxManual
    /\ conn[c] = "CONNECTED"
    /\ manual' = [manual EXCEPT ![c] = <<"read", 0>>]
    /\ spent' = [spent EXCEPT !.manual = @ + 1]
    /\ UNCHANGED <<node, tables, allocating, opening, revoking, sweep>>

ReadManual(c) ==
    /\ manual[c][1] = "read"
    /\ \/ \E a \in CurrentOf(c) : manual' = [manual EXCEPT ![c] = <<"plan", a>>]
       \/ /\ CurrentOf(c) = {}
          /\ manual' = [manual EXCEPT ![c] = <<"idle", 0>>]
    /\ UNCHANGED <<node, tables, allocating, opening, revoking, sweep, spent>>

PlanManual(c, n) ==
    /\ manual[c][1] = "plan"
    /\ PlanMigration(manual[c][2], n, "ADMIN_MANUAL")
    /\ manual' = [manual EXCEPT ![c] = <<"dispatch", last + 1>>]
    /\ UNCHANGED <<conn, allocating, opening, revoking, sweep, spent>>

RefuseManual(c) ==
    LET a == manual[c][2]
    IN /\ manual[c][1] = "plan"
       /\ \/ ~Plannable(a, "ADMIN_MANUAL")
          \/ ~NoActiveMigration(c)
          \/ NoTarget({alloc[a].node})
       /\ manual' = [manual EXCEPT ![c] = <<"idle", 0>>]
       /\ UNCHANGED <<node, tables, allocating, opening, revoking, sweep, spent>>

DispatchManual(c) ==
    LET m == manual[c][2]
    IN /\ manual[c][1] = "dispatch"
       /\ \/ /\ RelayMigrating(m)
             /\ manual' = [manual EXCEPT ![c] = <<"mark", m>>]
          \/ /\ ~CanDispatch(m)
             /\ manual' = [manual EXCEPT ![c] = <<"idle", 0>>]
             /\ UNCHANGED <<conn, alloc>>
       /\ UNCHANGED <<node, last, mig, allocating, opening, revoking, sweep,
                      spent>>

MarkManual(c) ==
    /\ manual[c][1] = "mark"
    /\ MarkMigrationDispatched(manual[c][2])
    /\ manual' = [manual EXCEPT ![c] = <<"idle", 0>>]
    /\ UNCHANGED <<node, conn, last, alloc, allocating, opening, revoking,
                   sweep, spent>>

ManualNext ==
    \E c \in Conns :
        \/ RequestManual(c)
        \/ ReadManual(c)
        \/ \E n \in Nodes : PlanManual(c, n)
        \/ RefuseManual(c)
        \/ DispatchManual(c)
        \/ MarkManual(c)

-----------------------------------------------------------------------------
(* The migration sweeper: MigrateFailedRelays, then MigrateDrainRelays.      *)

OverdueDispatched ==          \* mutant: a migration never sent has no timeout
    {m \in Rows : mig[m].state = "BINDING" /\ mig[m].overdue
                                        /\ mig[m].dispatched}
Overdue == {m \in Rows : mig[m].state = "BINDING" /\ mig[m].overdue}

\* mutant: later attempts are not looked for.
RetryableAgain ==
    {m \in Rows :
        /\ mig[m].state = "FAILED"
        /\ mig[m].attempt < MaxAttempts
        /\ conn[alloc[m].conn] \notin Terminal
        /\ BindingOf(alloc[m].conn) = {}}
\* FAILED by timeout, attempts left, no later attempt and nothing BINDING.
Retryable ==
    {m \in Rows :
        /\ mig[m].state = "FAILED"
        /\ mig[m].attempt < MaxAttempts
        /\ conn[alloc[m].conn] \notin Terminal
        /\ \A l \in RowsOf(alloc[m].conn) :
              mig[l].attempt <= mig[m].attempt /\ mig[l].state # "BINDING"}

\* FailedNodeAllocationIDs and DrainingNodeAllocationIDs
ToMigrate(reason) ==
    {a \in Rows : /\ Plannable(a, reason)
                  /\ reason = "RELAY_DRAIN" =>
                        node[alloc[a].node].state = "DRAINING"
                  /\ conn[alloc[a].conn] \notin Terminal
                  /\ BindingOf(alloc[a].conn) = {}}

PendingMigrations ==
    {m \in Rows : mig[m].state = "BINDING" /\ ~mig[m].dispatched}

SweepStill == UNCHANGED <<allocating, opening, revoking, manual, spent>>
At(phase)  == sweep.phase = phase /\ sweep.step = "next"
Enter(phase, list) ==
    sweep' = [phase |-> phase, work |-> list, step |-> "next", subject |-> 0]
Take(x)        == sweep' = [sweep EXCEPT !.work = @ \ {x}]
TakeThen(x, s) == sweep' = [sweep EXCEPT !.work = @ \ {x}, !.step = s,
                                         !.subject = x]
Then(s)        == sweep' = [sweep EXCEPT !.step = s]
Done           == sweep' = [sweep EXCEPT !.step = "next", !.subject = 0]

\* One list is done: read the next.  An error anywhere goes back to idle.
NextPhase ==
    /\ sweep.step = "next"
    /\ sweep.work = {}
    /\ CASE sweep.phase = "idle"     -> Enter("timeouts", Overdue)
         [] sweep.phase = "timeouts" -> Enter("retries", Retryable)
         [] sweep.phase = "retries"  -> Enter("failed", ToMigrate("RELAY_UNHEALTHY"))
         [] sweep.phase = "failed"   -> Enter("dispatch", PendingMigrations)
         [] sweep.phase = "dispatch" -> Enter("drain", ToMigrate("RELAY_DRAIN"))
         [] sweep.phase = "drain"    -> Enter("drain_dispatch", PendingMigrations)
         [] OTHER                    -> sweep' = Idle
    /\ UNCHANGED <<node, tables>>
    /\ SweepStill

ExhaustedLate(m) == mig[m].attempt > MaxAttempts        \* mutant
Exhausted(m) == mig[m].attempt >= MaxAttempts

FailMigrationAttempt(m) ==
    LET gone == IF alloc[m].state \in Live THEN {m} ELSE {}
    IN /\ At("timeouts")
       /\ m \in sweep.work
       /\ IF mig[m].state = "BINDING"
            THEN /\ mig' = Resolved(m, "FAILED")
                 /\ alloc' = Moved(gone, "FAILED")
                 /\ node' = Released(gone)
                 /\ IF Exhausted(m)
                      THEN TakeThen(m, "fail_allocations")
                      ELSE Take(m)
            ELSE /\ Take(m)
                 /\ UNCHANGED <<node, alloc, mig>>
       /\ UNCHANGED <<conn, last>>
       /\ SweepStill

\* Nodes a retry may not use: the last target and every target tried before.
Tried(c) == {alloc[l].node : l \in {k \in RowsOf(c) : mig[k].state # "NONE"}}

PlanMigrationRetry(m, n) ==
    LET c == alloc[m].conn
    IN /\ At("retries")
       /\ m \in sweep.work
       /\ mig[m].attempt < MaxAttempts
       /\ alloc[m].state = "FAILED"
       /\ NoActiveMigration(c)
       /\ n \notin Tried(c)
       /\ Schedulable(n)
       /\ Insert(alloc, c, n, NewMigration(mig[m].attempt + 1))
       /\ node' = Charged(node, n)
       /\ Take(m)
       /\ UNCHANGED conn
       /\ SweepStill

RetryHasNoTarget(m) ==
    LET c == alloc[m].conn
    IN /\ At("retries")
       /\ m \in sweep.work
       /\ alloc[m].state = "FAILED"
       /\ NoActiveMigration(c)
       /\ NoTarget(Tried(c))
       /\ TakeThen(m, "fail_allocations")
       /\ UNCHANGED <<node, tables>>
       /\ SweepStill

\* SELECT ... state = 'FAILED' finds no row: the error ends the whole sweep.
RetryRowMissing(m) ==
    /\ At("retries")
    /\ m \in sweep.work
    /\ alloc[m].state # "FAILED"
    /\ sweep' = Idle
    /\ UNCHANGED <<node, tables>>
    /\ SweepStill

Planning(reason) == IF reason = "RELAY_DRAIN" THEN At("drain") ELSE At("failed")

PlanSweep(a, n, reason) ==
    /\ Planning(reason)
    /\ a \in sweep.work
    /\ PlanMigration(a, n, reason)
    /\ Take(a)
    /\ UNCHANGED conn
    /\ SweepStill

\* ErrActiveMigration: another instance or an administrator was faster.
PlanSkipped(a, reason) ==
    /\ Planning(reason)
    /\ a \in sweep.work
    /\ Plannable(a, reason)
    /\ ~NoActiveMigration(alloc[a].conn)
    /\ Take(a)
    /\ UNCHANGED <<node, tables>>
    /\ SweepStill

PlanHasNoTarget(a, reason) ==
    /\ Planning(reason)
    /\ a \in sweep.work
    /\ Plannable(a, reason)
    /\ NoActiveMigration(alloc[a].conn)
    /\ NoTarget({alloc[a].node})
    /\ TakeThen(a, "fail_allocation")
    /\ UNCHANGED <<node, tables>>
    /\ SweepStill

\* The allocation or its node has changed since the list was read.
PlanRowMissing(a, reason) ==
    /\ Planning(reason)
    /\ a \in sweep.work
    /\ ~Plannable(a, reason)
    /\ sweep' = Idle
    /\ UNCHANGED <<node, tables>>
    /\ SweepStill

Dispatch(m) ==
    /\ At("dispatch") \/ At("drain_dispatch")
    /\ m \in sweep.work
    /\ \/ /\ RelayMigrating(m)
          /\ TakeThen(m, "mark")
       \/ /\ ~CanDispatch(m)
          /\ sweep' = Idle
          /\ UNCHANGED <<conn, alloc>>
    /\ UNCHANGED <<node, last, mig>>
    /\ SweepStill

MarkSwept ==
    /\ sweep.step = "mark"
    /\ MarkMigrationDispatched(sweep.subject)
    /\ Done
    /\ UNCHANGED <<node, conn, last, alloc>>
    /\ SweepStill

FailAllocation ==
    LET gone == {sweep.subject} \cap {a \in Rows : alloc[a].state \in Live}
    IN /\ sweep.step = "fail_allocation"
       /\ alloc' = Moved(gone, "FAILED")
       /\ node' = Released(gone)
       /\ Then("fail_allocations")
       /\ UNCHANGED <<conn, last, mig>>
       /\ SweepStill

FailConnectionAllocations ==
    LET gone == LiveOf(alloc[sweep.subject].conn)
    IN /\ sweep.step = "fail_allocations"
       /\ alloc' = Moved(gone, "FAILED")
       /\ node' = Released(gone)
       /\ Then("fail_connection")
       /\ UNCHANGED <<conn, last, mig>>
       /\ SweepStill

RelayMigrationFailed ==
    LET c == alloc[sweep.subject].conn
    IN /\ sweep.step = "fail_connection"
       /\ conn' = [conn EXCEPT ![c] = IF @ \in Terminal THEN @ ELSE "FAILED"]
       /\ Done
       /\ UNCHANGED <<node, last, alloc, mig>>
       /\ SweepStill

SweepNext ==
    \/ NextPhase
    \/ \E m \in sweep.work :
          \/ FailMigrationAttempt(m)
          \/ \E n \in Nodes : PlanMigrationRetry(m, n)
          \/ RetryHasNoTarget(m)
          \/ RetryRowMissing(m)
          \/ Dispatch(m)
          \/ \E r \in {"RELAY_UNHEALTHY", "RELAY_DRAIN"} :
                \/ \E n \in Nodes : PlanSweep(m, n, r)
                \/ PlanSkipped(m, r)
                \/ PlanHasNoTarget(m, r)
                \/ PlanRowMissing(m, r)
    \/ MarkSwept
    \/ FailAllocation
    \/ FailConnectionAllocations
    \/ RelayMigrationFailed

-----------------------------------------------------------------------------
(* Time, restarts and database errors                                        *)

BindDeadline(m) ==
    /\ mig[m].state = "BINDING"
    /\ ~mig[m].overdue
    /\ mig' = [mig EXCEPT ![m].overdue = TRUE]
    /\ UNCHANGED <<node, conn, last, alloc, workers, spent>>

\* A handler is lost between two of its transactions: its transaction failed,
\* or the process was restarted (then every handler is lost, one after the
\* other).  Nothing resumes it.
Interrupted ==
    /\ spent.interrupts < MaxInterrupts
    /\ spent' = [spent EXCEPT !.interrupts = @ + 1]
    /\ \/ /\ \E c \in Conns : /\ allocating[c] # "idle"
                              /\ allocating' = [allocating EXCEPT ![c] = "idle"]
          /\ UNCHANGED <<opening, revoking, manual, sweep>>
       \/ /\ \E a \in Rows : /\ opening[a] # "idle"
                             /\ opening' = [opening EXCEPT ![a] = "idle"]
          /\ UNCHANGED <<allocating, revoking, manual, sweep>>
       \/ /\ \E c \in revoking : revoking' = revoking \ {c}
          /\ UNCHANGED <<allocating, opening, manual, sweep>>
       \/ /\ \E c \in Conns : /\ manual[c][1] # "idle"
                              /\ manual' = [manual EXCEPT ![c] = <<"idle", 0>>]
          /\ UNCHANGED <<allocating, opening, revoking, sweep>>
       \/ /\ sweep # Idle
          /\ sweep' = Idle
          /\ UNCHANGED <<allocating, opening, revoking, manual>>
    /\ UNCHANGED <<node, tables>>

Next ==
    \/ NodeNext
    \/ ConnNext
    \/ EdgeNext
    \/ ManualNext
    \/ SweepNext
    \/ \E m \in Rows : BindDeadline(m)
    \/ Interrupted

Spec == Init /\ [][Next]_vars

\* The ticker restarts the sweeper for ever, deadlines pass, and a handler
\* that was started runs on.  Edges, players, nodes and administrators owe
\* nothing.
Fairness ==
    /\ WF_vars(SweepNext)
    /\ WF_vars(\E m \in Rows : BindDeadline(m))
    /\ \A c \in Conns : WF_vars(RevokeRelay(c))
    /\ \A a \in AllocIds :
         /\ WF_vars(a \in Rows /\ MigrationForNewAllocation(a))
         /\ WF_vars(a \in Rows /\ \E e \in RoomAnswers : RelayBound(a, e))
         /\ WF_vars(a \in Rows /\ CompleteMigration(a))

FairSpec == Spec /\ Fairness

-----------------------------------------------------------------------------
(* Safety                                                                    *)

\* Types of the rows and of the handler positions.
TypeOK ==
    /\ node \in [Nodes -> NodeRecord]
    /\ conn \in [Conns -> ConnStates]
    /\ last \in 0..MaxAllocs
    /\ alloc \in [Rows -> AllocRecord]
    /\ mig \in [Rows -> MigRecord]
    /\ allocating \in [Conns -> AllocatingSteps]
    /\ opening \in [AllocIds -> OpeningSteps]
    /\ revoking \subseteq Conns
    /\ manual \in [Conns -> ManualSteps]
    /\ sweep \in [phase : Phases, work : SUBSET Rows, step : Steps,
                  subject : 0..last]
    /\ spent \in [node : Nat, manual : Nat, interrupts : Nat]

\* A connection never has two allocations players may use: what the unique
\* index relay_allocations_active_connection_idx would turn into an error in
\* the middle of a sweep can not happen between one sweeper, the
\* administrators, the edges and the closes.
OneCurrent ==
    \A a, b \in Rows : /\ alloc[a].conn = alloc[b].conn
                       /\ alloc[a].state \in Current
                       /\ alloc[b].state \in Current
                       => a = b

\* Nor two migrations waiting for their bind (relay_migrations' unique index).
OneBinding ==
    \A a, b \in Rows : /\ alloc[a].conn = alloc[b].conn
                       /\ mig[a].state = "BINDING"
                       /\ mig[b].state = "BINDING"
                       => a = b

\* A finished migration leaves no older allocation of its connection that
\* still counts against a node, whatever chain of failed attempts led to it.
CompletedSupersedes ==
    \A m \in Rows : mig[m].state = "COMPLETED" =>
        \A a \in RowsOf(alloc[m].conn) : a < m => alloc[a].state \in Dead

\* Nothing of c is still to run: no close, no allocation, no sweep step and
\* no bind deadline.
Settled(c) ==
    /\ c \notin revoking
    /\ allocating[c] = "idle"
    /\ BindingOf(c) = {}
    /\ sweep.step = "next"

\* An ended connection holds no allocation a migration made for it, although
\* neither PlanMigration nor PlanMigrationRetry looks at the connection and
\* its close may fall between any two of their steps.  A lost handler
\* (an interrupt) may leave one.
EndedReleasesMigrations ==
    \A c \in Conns :
        conn[c] \in Terminal /\ Settled(c) /\ spent.interrupts = 0 =>
            \A a \in LiveOf(c) : mig[a].state = "NONE"


\* A connection is scheduled once, after its direct paths are used up, and has
\* no allocation before: Schedule's branch that returns an existing allocation
\* is never taken.
ScheduledOnce ==
    \A c \in Conns :
        /\ conn[c] = "CHECKING_DIRECT" => allocating[c] = "idle"
        /\ conn[c] = "CHECKING_DIRECT" \/ allocating[c] = "schedule" =>
              RowsOf(c) = {}

\* An allocation players may use, and a migration waiting for its bind, is
\* the last one of its connection.
CurrentIsNewest ==
    \A a \in Rows :
        alloc[a].state \in Current \/ mig[a].state = "BINDING" => Newest(a)

\* A failed attempt has no allocation left, and unless it is the last one of
\* its connection a higher attempt exists.
FailedIsOver ==
    \A m \in Rows : mig[m].state = "FAILED" =>
        /\ alloc[m].state \in Dead
        /\ \/ Newest(m)
           \/ \E l \in RowsOf(alloc[m].conn) : mig[l].attempt > mig[m].attempt

\* The retries a sweep has listed do not go stale while it works on them.
RetriesAreFresh ==
    sweep.phase = "retries" =>
        \A m \in sweep.work : mig[m].state = "FAILED" /\ Newest(m)

\* No failed attempt is retried twice: a retry has a higher attempt than every
\* earlier migration of its connection, of whatever chain.
RetriedOnce ==
    \A b \in Rows : mig[b].attempt > 1 =>
        \A a \in RowsOf(alloc[b].conn) : a < b => mig[a].attempt < mig[b].attempt

\* The inductive invariant: it explains OneCurrent and OneBinding.
IInv ==
    /\ TypeOK
    /\ ScheduledOnce
    /\ CurrentIsNewest
    /\ FailedIsOver
    /\ RetriesAreFresh
    /\ CompletedSupersedes

-----------------------------------------------------------------------------
(* Action properties                                                         *)

LiveOn(n) == Cardinality({a \in Rows : alloc[a].node = n
                                       /\ alloc[a].state \in Live})

\* Between two heartbeats a node's active_allocations moves with its live
\* rows, down to zero: no close, failure or completion, in whatever order
\* they meet, releases an allocation twice or forgets to.
Accounted ==
    [][spent'.node = spent.node =>
        \A n \in Nodes : node'[n].active =
            Monus(node[n].active + LiveOn(n)', LiveOn(n))]_vars

\* A connection that has ended is never brought back, by a late bind, a
\* stale dispatch or a migration that was already under way.
EndedStaysEnded ==
    [][\A c \in Conns : conn[c] \in Terminal => conn'[c] \in Terminal]_vars

\* An allocation that is over stays over: no row is used twice.
DeadStaysDead ==
    [][\A a \in Rows : alloc[a].state \in Dead => alloc'[a].state \in Dead]_vars

-----------------------------------------------------------------------------
(* Liveness                                                                  *)

\* Every migration is completed or failed: its timeout is handled although
\* an error anywhere in a sweep abandons the rest of that sweep.
IsBinding(a) == a \in Rows /\ mig[a].state = "BINDING"
BindingResolves == \A a \in AllocIds : IsBinding(a) ~> ~IsBinding(a)

\* A migration whose target is not open yet takes its connection out of
\* MIGRATING_RELAY: it is bound, or its timeouts use up the attempts or the
\* nodes and the connection fails.  Unless a timed-out attempt's allocation was
\* closed before the timeout: that attempt can not be retried (the poison run).
Awaited(m)     == mig[m].state = "BINDING" /\ alloc[m].state = "ALLOCATED"
Unretryable(m) == mig[m].state = "FAILED" /\ alloc[m].state # "FAILED"
MigrationSettles ==
    \A c \in Conns :
        conn[c] = "MIGRATING_RELAY" /\ (\E m \in RowsOf(c) : Awaited(m))
            ~> \/ conn[c] # "MIGRATING_RELAY"
               \/ \E m \in RowsOf(c) : Unretryable(m)

\* "When there are no nodes available or attempts are exhausted, the
\* connection enters FAILED": a connection does not stay MIGRATING_RELAY.
MigratingSettles ==
    \A c \in Conns : conn[c] = "MIGRATING_RELAY" ~> conn[c] # "MIGRATING_RELAY"

=============================================================================
