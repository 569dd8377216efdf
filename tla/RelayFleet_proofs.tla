-------------------------- MODULE RelayFleet_proofs --------------------------
(***************************************************************************)
(* The relay tables with a fleet of nodes that keep NodeLifecycle.         *)
(*                                                                         *)
(* RelayMigration changes the state of a node in one step; in the code an  *)
(* administrator's order is checked in one statement and written in        *)
(* another (Service.changeState), so that a revoked node may be READY      *)
(* again.  RelayNode models that and implements NodeLifecycle.  Here the   *)
(* nodes of RelayMigration are replaced by one NodeLifecycle each: what is *)
(* proved of the tables holds with whatever RelayNode does to its row.     *)
(***************************************************************************)
EXTENDS RelayRelease_proofs, RelayAccounting_proofs

VARIABLE orders      \* by node: the orders that are checked and not written

Life(n) == INSTANCE NodeLifecycle WITH
    state <- node[n].state, pending <- orders[n]

\* One step of a node's life cycle.  A report, or an order, may change the
\* other columns of the row.
FleetEvent(n) ==
    /\ \E changed \in [state : Life(n)!States, fit : BOOLEAN,
                       migrate : BOOLEAN, active : 0..MaxAllocations] :
          node' = [node EXCEPT ![n] = changed]
    /\ \E left \in SUBSET Life(n)!Orders : orders' = [orders EXCEPT ![n] = left]
    /\ [Life(n)!Next]_<<node[n].state, orders[n]>>
    /\ spent' = [spent EXCEPT !.node = @ + 1]
    /\ UNCHANGED <<tables, workers>>

\* The steps of RelayMigration that are not a node's own.
TablesNext ==
    \/ ConnNext
    \/ EdgeNext
    \/ ManualNext
    \/ SweepNext
    \/ \E m \in Rows : BindDeadline(m)
    \/ Interrupted

FleetNext ==
    \/ \E n \in Nodes : FleetEvent(n)
    \/ TablesNext /\ UNCHANGED orders

NoOrders == orders = [n \in Nodes |-> {}]

FleetSpec ==
    /\ Init /\ NoOrders
    /\ [][FleetNext]_<<vars, orders>>

OrdersType == orders \in [Nodes -> SUBSET {"DRAINING", "READY", "REVOKED"}]

-----------------------------------------------------------------------------
(* The fleet keeps the tables' invariants                                    *)

\* A node keeps its type: no step of the life cycle leads to BOOTSTRAPPING.
LEMMA FleetType ==
    ASSUME TypeOK, OrdersType, NEW n \in Nodes, FleetEvent(n)
    PROVE  TypeOK' /\ OrdersType'
<1>1. PICK changed \in [state : Life(n)!States, fit : BOOLEAN,
                        migrate : BOOLEAN, active : 0..MaxAllocations] :
          node' = [node EXCEPT ![n] = changed]
  BY DEF FleetEvent
<1>2. node[n] \in NodeRecord /\ node'[n].state = changed.state
  BY <1>1 DEF TypeOK
<1>3. orders[n] \in SUBSET {"DRAINING", "READY", "REVOKED"}
  BY DEF OrdersType
<1>4. changed.state \in NodeStates
  <2>1. CASE Life(n)!Next
    BY <1>2, <1>3, <2>1
    DEF Life!Next, Life!Connect, Life!Report, Life!Lapse, Life!Give, Life!Obey,
        Life!Forget, Life!Orders, NodeRecord, NodeStates
  <2>2. CASE node'[n].state = node[n].state
    BY <1>2, <2>2 DEF NodeRecord
  <2> QED
    BY <2>1, <2>2 DEF FleetEvent
<1>5. node' \in [Nodes -> NodeRecord]
  BY <1>1, <1>4 DEF TypeOK, NodeRecord
<1>6. OrdersType'
  BY DEF FleetEvent, OrdersType, Life!Orders
<1>7. UNCHANGED <<tables, workers>> /\ spent' = [spent EXCEPT !.node = @ + 1]
  BY DEF FleetEvent
<1> QED
  BY <1>5, <1>6, <1>7 DEF TypeOK, tables, workers, Rows, ManualSteps, MigRecord

\* A step that leaves the tables and the handlers alone keeps the rows.
LEMMA UntouchedKept ==
    ASSUME UNCHANGED <<tables, workers>>
    PROVE  StepKept
  BY SameRowsKept, ConnKept
  DEF tables, workers, SameRows, StepKept, RetriesKept

\* The inductive invariant of RelayMigration is one of the fleet.
LEMMA FleetInvStep ==
    ASSUME IInv, OrdersType, [FleetNext]_<<vars, orders>>
    PROVE  IInv' /\ OrdersType'
<1>1. CASE UNCHANGED <<vars, orders>>
  BY <1>1, InvStep DEF OrdersType
<1>2. ASSUME NEW n \in Nodes, FleetEvent(n) PROVE IInv' /\ OrdersType'
  <2>1. TypeOK' /\ OrdersType'
    BY <1>2, FleetType DEF IInv
  <2>2. StepKept
    BY <1>2, UntouchedKept DEF FleetEvent
  <2> QED
    BY <2>1, <2>2, KeptInv
<1>3. CASE TablesNext /\ UNCHANGED orders
  <2>1. Next
    BY <1>3 DEF TablesNext, Next
  <2> QED
    BY <1>3, <2>1, InvStep DEF OrdersType
<1> QED
  BY <1>1, <1>2, <1>3 DEF FleetNext

LEMMA FleetInvariant == FleetSpec => [](IInv /\ OrdersType)
<1>1. Init /\ NoOrders => IInv /\ OrdersType
  BY InvInit DEF NoOrders, OrdersType
<1>2. IInv /\ OrdersType /\ [FleetNext]_<<vars, orders>>
          => (IInv /\ OrdersType)'
  BY FleetInvStep
<1> QED
  BY <1>1, <1>2, PTL DEF FleetSpec

\* Whatever the nodes do and however late the orders of administrators take
\* effect, a connection has one allocation that players may use, ...
THEOREM FleetOneCurrent == FleetSpec => []OneCurrent
  BY FleetInvariant, IInvOneCurrent, PTL

\* ... and one migration that waits for its bind.
THEOREM FleetOneBinding == FleetSpec => []OneBinding
  BY FleetInvariant, IInvOneCurrent, PTL

\* A migration that is completed has closed all earlier allocations.
THEOREM FleetCompletedSupersedes == FleetSpec => []CompletedSupersedes
<1>1. IInv => CompletedSupersedes
  BY DEF IInv
<1> QED
  BY FleetInvariant, <1>1, PTL

-----------------------------------------------------------------------------
(* Releases and attempts                                                     *)

LEMMA FleetReleaseStep ==
    ASSUME IInv, OrdersType, RInv, [FleetNext]_<<vars, orders>>
    PROVE  RInv'
<1>1. CASE UNCHANGED <<vars, orders>>
  BY <1>1, ReleaseStep
<1>2. ASSUME NEW n \in Nodes, FleetEvent(n) PROVE RInv'
  <2>1. /\ UNCHANGED <<tables, workers>>
        /\ spent'.interrupts = spent.interrupts
    BY <1>2 DEF FleetEvent, IInv, TypeOK
  <2>2. MovesOn
    BY <2>1, Still DEF tables, workers, MovesOn
  <2>3. TypeOK'
    BY <1>2, FleetType DEF IInv
  <2> QED
    BY <2>2, <2>3, MovesOnInv
<1>3. CASE TablesNext /\ UNCHANGED orders
  <2>1. Next
    BY <1>3 DEF TablesNext, Next
  <2> QED
    BY <2>1, ReleaseStep
<1> QED
  BY <1>1, <1>2, <1>3 DEF FleetNext

\* An ended connection gives its relays back, although a node that was
\* revoked while a migration was planned may be READY again when it ends.
THEOREM FleetReleases == FleetSpec => []EndedReleasesMigrations
<1>1. RInv => EndedReleasesMigrations
  BY DEF RInv, EndedUnclaimed, Relinquished, Unclaimed,
         EndedReleasesMigrations, Settled, BindingOf, LiveOf, RowsOf
<1>2. IInv /\ OrdersType /\ RInv /\ [FleetNext]_<<vars, orders>> => RInv'
  BY FleetReleaseStep
<1> QED
  BY ReleaseInit, FleetInvariant, <1>1, <1>2, PTL DEF FleetSpec

LEMMA FleetRetryStep ==
    ASSUME IInv, OrdersType, RetriedOnce, ListedIsHighest,
           [FleetNext]_<<vars, orders>>
    PROVE  RetriedOnce' /\ ListedIsHighest'
<1>1. CASE UNCHANGED <<tables, workers>>
  BY <1>1
  DEF tables, workers, RetriedOnce, ListedIsHighest, RowsOf, Rows
<1>2. CASE TablesNext
  <2>1. Next
    BY <1>2 DEF TablesNext, Next
  <2>2. TypeOK'
    BY FleetInvStep DEF IInv
  <2> QED
    BY <2>1, <2>2, RetryStep
<1> QED
  BY <1>1, <1>2 DEF FleetNext, FleetEvent, vars

\* No failed attempt is retried twice.
THEOREM FleetRetriedOnce == FleetSpec => []RetriedOnce
<1>1. Init => RetriedOnce /\ ListedIsHighest
  BY DEF Init, Rows, Idle, RetriedOnce, ListedIsHighest
<1>2. /\ IInv /\ OrdersType /\ RetriedOnce /\ ListedIsHighest
      /\ [FleetNext]_<<vars, orders>>
      => RetriedOnce' /\ ListedIsHighest'
  BY FleetRetryStep
<1> QED
  BY <1>1, <1>2, FleetInvariant, PTL DEF FleetSpec

-----------------------------------------------------------------------------
(* Action properties                                                         *)

\* No step of the fleet brings an ended connection back.
THEOREM FleetEndedStaysEnded == FleetSpec => EndedStaysEnded
<1>1. IInv /\ [FleetNext]_<<vars, orders>> =>
         [\A c \in Conns : conn[c] \in Terminal => conn'[c] \in Terminal]_vars
  <2> SUFFICES ASSUME IInv, FleetNext
               PROVE  \A c \in Conns : conn[c] \in Terminal =>
                                           conn'[c] \in Terminal
    BY DEF vars
  <2>1. CASE TablesNext
    BY <2>1, EndedStep DEF TablesNext, Next
  <2> QED
    BY <2>1 DEF FleetNext, FleetEvent, tables
<1> QED
  BY FleetInvariant, <1>1, PTL DEF FleetSpec, EndedStaysEnded

\* The counters move with the live rows in every step that is not a node's.
THEOREM FleetAccounted == FleetSpec => Accounted
<1>1. IInv /\ [FleetNext]_<<vars, orders>> =>
          [spent'.node = spent.node =>
               \A n \in Nodes : node'[n].active =
                   Monus(node[n].active + LiveOn(n)', LiveOn(n))]_vars
  <2> SUFFICES ASSUME IInv, FleetNext, spent'.node = spent.node
               PROVE  Balanced
    BY DEF vars, Balanced
  <2>1. TypeOK
    BY DEF IInv
  <2>2. TablesNext
    BY <2>1 DEF FleetNext, FleetEvent, TypeOK
  <2> QED
    BY <2>1, <2>2, AccountedStep DEF TablesNext, Next
<1> QED
  BY FleetInvariant, <1>1, PTL DEF FleetSpec, Accounted

\* No allocation is used again.
THEOREM FleetDeadStaysDead == FleetSpec => DeadStaysDead
<1>1. IInv /\ [FleetNext]_<<vars, orders>> =>
         [\A a \in Rows : alloc[a].state \in Dead =>
                             alloc'[a].state \in Dead]_vars
  <2> SUFFICES ASSUME IInv, FleetNext
               PROVE  \A a \in Rows : alloc[a].state \in Dead =>
                                          alloc'[a].state \in Dead
    BY DEF vars
  <2>1. CASE TablesNext
    BY <2>1, StepShape
    DEF TablesNext, Next, StepKept, RowAdded, RowsKept
  <2> QED
    BY <2>1 DEF FleetNext, FleetEvent, tables
<1> QED
  BY FleetInvariant, <1>1, PTL DEF FleetSpec, DeadStaysDead

-----------------------------------------------------------------------------
(* The tables against the life cycle                                         *)

StatesKept == \A n \in Nodes : node'[n].state = node[n].state

\* Charging and releasing write active_allocations only.
LEMMA ChargedOrReleased ==
    ASSUME TypeOK,
           \/ UNCHANGED node
           \/ \E gone : node' = Released(gone)
           \/ \E n : node' = Charged(node, n)
           \/ \E gone, n : node' = Charged(Released(gone), n)
    PROVE  StatesKept
<1>1. \A n \in Nodes : node[n] \in NodeRecord
  BY DEF TypeOK
<1>2. ASSUME NEW gone
      PROVE  \A n \in Nodes : Released(gone)[n].state = node[n].state
  BY <1>1 DEF Released, NodeRecord
<1>3. ASSUME NEW n, node' = Charged(node, n)
      PROVE  StatesKept
  BY <1>1, <1>3 DEF Charged, StatesKept, TypeOK, NodeRecord
<1>4. ASSUME NEW gone, NEW n, node' = Charged(Released(gone), n)
      PROVE  StatesKept
  BY <1>1, <1>4 DEF Charged, Released, StatesKept, NodeRecord
<1> QED
  BY <1>2, <1>3, <1>4 DEF StatesKept

\* Allocation and migration never write the state of a node.
LEMMA TablesKeepStates ==
    ASSUME TypeOK, TablesNext
    PROVE  StatesKept
<1> USE ChargedOrReleased
<1>1. CASE ConnNext
  BY <1>1
  DEF ConnNext, DirectPathsExhausted, Schedule, ScheduleUnavailable, BindRelay,
      ClientClose, EndConnection, RevokeRelay
<1>2. CASE EdgeNext
  BY <1>2
  DEF EdgeNext, AllocationOpened, MigrationForNewAllocation, RelayBound,
      CompleteMigration, AllocationClosed
<1>3. CASE ManualNext
  BY <1>3
  DEF ManualNext, RequestManual, ReadManual, PlanManual, PlanMigration,
      RefuseManual, DispatchManual, MarkManual
<1>4. CASE SweepNext
  BY <1>4
  DEF SweepNext, NextPhase, FailMigrationAttempt, PlanMigrationRetry,
      RetryHasNoTarget, RetryRowMissing, Dispatch, PlanSweep, PlanMigration,
      PlanSkipped, PlanHasNoTarget, PlanRowMissing, MarkSwept, FailAllocation,
      FailConnectionAllocations, RelayMigrationFailed
<1>5. CASE (\E m \in Rows : BindDeadline(m)) \/ Interrupted
  BY <1>5 DEF BindDeadline, Interrupted
<1> QED
  BY <1>1, <1>2, <1>3, <1>4, <1>5 DEF TablesNext

\* Each node of the fleet lives the life cycle that RelayNode implements:
\* scheduling and migrating on it does not interfere.
THEOREM FleetKeepsLifecycle == FleetSpec => \A n \in Nodes : Life(n)!Spec
<1> SUFFICES ASSUME NEW n \in Nodes PROVE FleetSpec => Life(n)!Spec
  OBVIOUS
<1>1. Init /\ NoOrders => Life(n)!Init
  BY DEF Init, NoOrders, Life!Init, Life!States
<1>2. IInv /\ OrdersType /\ [FleetNext]_<<vars, orders>> =>
          [Life(n)!Next]_<<node[n].state, orders[n]>>
  <2> SUFFICES ASSUME IInv, OrdersType, FleetNext
               PROVE  \/ Life(n)!Next
                      \/ UNCHANGED <<node[n].state, orders[n]>>
    BY DEF vars
  <2>1. CASE FleetEvent(n)
    BY <2>1 DEF FleetEvent
  <2>2. ASSUME NEW k \in Nodes, k # n, FleetEvent(k)
        PROVE  UNCHANGED <<node[n].state, orders[n]>>
    BY <2>2 DEF FleetEvent, IInv, TypeOK, OrdersType
  <2>3. CASE TablesNext /\ UNCHANGED orders
    BY <2>3, TablesKeepStates DEF IInv, StatesKept
  <2> QED
    BY <2>1, <2>2, <2>3 DEF FleetNext
<1> QED
  BY FleetInvariant, <1>1, <1>2, PTL DEF FleetSpec, Life!Spec

-----------------------------------------------------------------------------
(* RelayMigration is such a fleet                                            *)

LEMMA NodeIsFleet ==
    ASSUME TypeOK, NodeNext, NoOrders, NoOrders'
    PROVE  FleetNext
<1>1. PICK n \in Nodes :
          \/ MarkConnecting(n)
          \/ \E r \in Reports, f \in BOOLEAN : Heartbeat(n, r, f)
          \/ \E s \in {"UNHEALTHY", "OFFLINE"} : ExpireNode(n, s)
          \/ \E m \in BOOLEAN : Drain(n, m)
          \/ Resume(n)
          \/ Revoke(n)
  BY DEF NodeNext
<1> DEFINE changed == node'[n]
<1>2. node[n] \in NodeRecord /\ orders[n] = {} /\ orders'[n] = {}
  BY DEF TypeOK, NoOrders
<1>3. /\ node' = [node EXCEPT ![n] = changed]
      /\ spent' = [spent EXCEPT !.node = @ + 1]
      /\ UNCHANGED <<tables, workers>>
  BY <1>1
  DEF TypeOK, MarkConnecting, Heartbeat, ExpireNode, Drain, Resume, Revoke,
      NodeEvent
<1>4. changed \in [state : Life(n)!States, fit : BOOLEAN, migrate : BOOLEAN,
                   active : 0..MaxAllocations]
  <2>1. TypeOK'
    BY TypeNode
  <2> QED
    BY <2>1 DEF TypeOK, NodeRecord, NodeStates, Life!States
<1>5. Life(n)!Next
  <2>1. CASE MarkConnecting(n)
    BY <1>2, <2>1
    DEF MarkConnecting, NodeEvent, TypeOK, NodeRecord, Life!Next, Life!Connect
  <2>2. CASE \E r \in Reports, f \in BOOLEAN : Heartbeat(n, r, f)
    BY <1>2, <2>2
    DEF Heartbeat, NodeEvent, TypeOK, NodeRecord, Life!Next, Life!Report
  <2>3. CASE \E s \in {"UNHEALTHY", "OFFLINE"} : ExpireNode(n, s)
    BY <1>2, <2>3
    DEF ExpireNode, NodeEvent, TypeOK, NodeRecord, Life!Next, Life!Lapse
  <2>4. CASE (\E m \in BOOLEAN : Drain(n, m)) \/ Resume(n) \/ Revoke(n)
    <3>1. \/ node[n].state = "READY" /\ changed.state = "DRAINING"
          \/ /\ node[n].state \in {"DRAINING", "UNHEALTHY", "OFFLINE"}
             /\ changed.state = "READY"
          \/ node[n].state # "REVOKED" /\ changed.state = "REVOKED"
      <4>1. \A k : node' = [node EXCEPT ![n] = k] => changed = k
        BY DEF TypeOK
      <4> QED
        BY <1>2, <2>4, <4>1
        DEF Drain, Resume, Revoke, NodeEvent, NodeRecord
    <3>2. \E order \in Life(n)!Orders :
              Life(n)!Permitted(order, node[n].state) /\ changed.state = order
      BY <3>1 DEF Life!Orders, Life!Permitted
    <3> QED
      BY <1>2, <3>2 DEF Life!Next, Life!Obey
  <2> QED
    BY <1>1, <2>1, <2>2, <2>3, <2>4
<1>6. orders' = [orders EXCEPT ![n] = {}]
  BY DEF NoOrders
<1>7. FleetEvent(n)
  BY <1>3, <1>4, <1>5, <1>6 DEF FleetEvent
<1> QED
  BY <1>7 DEF FleetNext

\* RelayMigration is the fleet whose orders take effect at once.
THEOREM MigrationIsFleet == Spec /\ []NoOrders => FleetSpec
<1>1. TypeOK /\ NoOrders /\ NoOrders' /\ [Next]_vars =>
          [FleetNext]_<<vars, orders>>
  <2> SUFFICES ASSUME TypeOK, NoOrders, NoOrders', Next PROVE FleetNext
    BY DEF NoOrders
  <2>1. UNCHANGED orders
    BY DEF NoOrders
  <2> QED
    BY <2>1, NodeIsFleet DEF Next, TablesNext, FleetNext
<1> QED
  BY TypeCorrect, <1>1, PTL DEF Spec, FleetSpec

=============================================================================
