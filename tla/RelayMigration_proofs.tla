----------------------- MODULE RelayMigration_proofs -----------------------
(***************************************************************************)
(* Proofs about RelayMigration, for every number of nodes, connections,    *)
(* attempts and allocations.                                               *)
(*                                                                         *)
(* Type correctness is proved action by action.  Safety is proved from one *)
(* observation (StepShape): a step either keeps the rows of both tables,   *)
(* which may only get older, or adds one row to one connection that has    *)
(* nothing current.  KeptInv and AddedInv show that both kinds of step     *)
(* keep IInv; OneCurrent, OneBinding, CompletedSupersedes and              *)
(* DeadStaysDead follow from it.                                           *)
(***************************************************************************)
EXTENDS RelayMigration, FiniteSetTheorems, TLAPS

\* GREATEST(active - k, 0) stays within the capacity.
LEMMA MonusRange ==
    ASSUME NEW active \in 0..MaxAllocations, NEW k \in Nat
    PROVE  Monus(active, k) \in 0..MaxAllocations
  BY ConstantsAssumption DEF Monus

\* Sets of rows are finite and have a size.
LEMMA RowsFinite ==
    ASSUME TypeOK, NEW S \in SUBSET Rows
    PROVE  IsFiniteSet(S) /\ Cardinality(S) \in Nat
<1>1. IsFiniteSet(Rows)
  BY FS_Interval DEF TypeOK, Rows, ManualSteps
<1> QED
  BY <1>1, FS_Subset, FS_CardinalityType

\* Releasing rows keeps the node records well typed.
LEMMA ReleasedType ==
    ASSUME TypeOK, NEW gone \in SUBSET Rows
    PROVE  Released(gone) \in [Nodes -> NodeRecord]
<1> SUFFICES ASSUME NEW n \in Nodes
             PROVE  [node[n] EXCEPT !.active = Monus(@, Cardinality(
                        {a \in gone : alloc[a].node = n}))] \in NodeRecord
  BY DEF Released
<1>1. Cardinality({a \in gone : alloc[a].node = n}) \in Nat
  BY RowsFinite
<1>2. node[n] \in NodeRecord
  BY DEF TypeOK
<1>3. Monus(node[n].active, Cardinality({a \in gone : alloc[a].node = n}))
        \in 0..MaxAllocations
  BY <1>1, <1>2, MonusRange DEF NodeRecord
<1> QED
  BY <1>2, <1>3 DEF NodeRecord

\* Releasing rows leaves the nodes that hold none of them alone.
LEMMA ReleasedOthers ==
    ASSUME TypeOK, NEW gone \in SUBSET Rows, NEW n \in Nodes,
           \A a \in gone : alloc[a].node # n
    PROVE  Released(gone)[n].active = node[n].active
<1>1. Cardinality({a \in gone : alloc[a].node = n}) = 0
  BY FS_EmptySet
<1>2. node[n] \in NodeRecord
  BY DEF TypeOK
<1> QED
  BY <1>1, <1>2 DEF Released, Monus, NodeRecord

\* A schedulable node has room for one more allocation.
LEMMA ChargedType ==
    ASSUME TypeOK, NEW nodes \in [Nodes -> NodeRecord], NEW n \in Nodes,
           nodes[n].active = node[n].active, Schedulable(n)
    PROVE  Charged(nodes, n) \in [Nodes -> NodeRecord]
<1>1. node[n].active \in 0..MaxAllocations
  BY DEF TypeOK, NodeRecord
<1>2. MaxAllocations \in Nat /\ CapacityThreshold \in 1..100
  BY ConstantsAssumption
<1>3. MaxAllocations * CapacityThreshold <= MaxAllocations * 100
  BY <1>2
<1>4. node[n].active * 100 < MaxAllocations * CapacityThreshold
  BY DEF Schedulable
<1>5. node[n].active * 100 < MaxAllocations * 100
  BY <1>1, <1>2, <1>3, <1>4
<1>6. node[n].active + 1 \in 0..MaxAllocations
  BY <1>1, <1>2, <1>5
<1> QED
  BY <1>6 DEF Charged, NodeRecord

\* Moving rows to a state keeps the allocation records well typed.
LEMMA MovedType ==
    ASSUME TypeOK, NEW gone \in SUBSET Rows, NEW s \in Live \cup Dead
    PROVE  Moved(gone, s) \in [Rows -> AllocRecord]
  BY DEF TypeOK, Moved, AllocRecord

\* What the types of the handlers depend on the tables for only grows.
LEMMA ManualGrows ==
    ASSUME TypeOK, last' = last + 1
    PROVE  ManualSteps \subseteq ManualSteps'
<1>1. last \in Nat
  BY ConstantsAssumption DEF TypeOK
<1>2. Rows \subseteq Rows'
  BY <1>1 DEF Rows
<1> QED
  BY <1>2 DEF ManualSteps

SweepType == [phase : Phases, work : SUBSET Rows, step : Steps,
              subject : 0..last]

\* ... and so does the type of the sweeper.
LEMMA SweepGrows ==
    ASSUME TypeOK, last' = last + 1, sweep' \in SweepType
    PROVE  sweep' \in SweepType'
<1>1. last \in Nat
  BY ConstantsAssumption DEF TypeOK
<1>2. 0..last \subseteq 0..last' /\ Rows \subseteq Rows'
  BY <1>1 DEF Rows
<1> QED
  BY <1>2 DEF SweepType

\* Inserting a row keeps both tables well typed.
LEMMA InsertType ==
    ASSUME TypeOK, NEW rows \in [Rows -> AllocRecord], NEW c \in Conns,
           NEW n \in Nodes, NEW row \in MigRecord, Insert(rows, c, n, row)
    PROVE  /\ last' \in 0..MaxAllocs
           /\ Rows \subseteq Rows'
           /\ alloc' \in [Rows' -> AllocRecord]
           /\ mig' \in [Rows' -> MigRecord]
<1>1. /\ last \in 0..MaxAllocs /\ last < MaxAllocs /\ last' = last + 1
      /\ MaxAllocs \in Nat
  BY ConstantsAssumption DEF TypeOK, Insert
<1>2. last' \in 0..MaxAllocs /\ Rows' = 1..(last + 1) /\ Rows = 1..last
  BY <1>1 DEF Rows
<1>3. [conn |-> c, node |-> n, state |-> "ALLOCATED", offered |-> FALSE]
        \in AllocRecord
  BY DEF AllocRecord, Live, Current
<1>4. \A a \in Rows' : a # last + 1 => a \in Rows
  BY <1>1, <1>2
<1>5. alloc' \in [Rows' -> AllocRecord]
  BY <1>2, <1>3, <1>4 DEF Insert
<1>6. mig' \in [Rows' -> MigRecord]
  BY <1>2, <1>4 DEF Insert, TypeOK
<1> QED
  BY <1>1, <1>2, <1>5, <1>6

-----------------------------------------------------------------------------
(* Type correctness                                                          *)

\* The initial state is well typed.
LEMMA TypeInit == Init => TypeOK
<1> SUFFICES ASSUME Init PROVE TypeOK
  OBVIOUS
<1>1. MaxAllocations \in Nat /\ MaxAllocs \in Nat
  BY ConstantsAssumption
<1>2. Rows = {} /\ last = 0
  BY DEF Init, Rows
<1>3. node \in [Nodes -> NodeRecord]
  BY <1>1 DEF Init, NodeRecord, NodeStates
<1>4. alloc \in [Rows -> AllocRecord] /\ mig \in [Rows -> MigRecord]
  BY <1>2 DEF Init, Rows
<1>5. conn \in [Conns -> ConnStates]
  BY DEF Init, ConnStates
<1>6. sweep \in [phase : Phases, work : SUBSET Rows, step : Steps,
                 subject : 0..last]
  BY <1>2 DEF Init, Idle, Phases, Steps
<1>7. manual \in [Conns -> ManualSteps]
  BY <1>1 DEF Init, ManualSteps
<1> QED
  BY <1>1, <1>2, <1>3, <1>4, <1>5, <1>6, <1>7
  DEF TypeOK, Init, AllocatingSteps, OpeningSteps

\* A node event keeps the types.
LEMMA TypeNode == TypeOK /\ NodeNext => TypeOK'
<1> SUFFICES ASSUME TypeOK, NodeNext PROVE TypeOK'
  OBVIOUS
<1>1. PICK n \in Nodes :
          \/ MarkConnecting(n)
          \/ \E r \in Reports, f \in BOOLEAN : Heartbeat(n, r, f)
          \/ \E s \in {"UNHEALTHY", "OFFLINE"} : ExpireNode(n, s)
          \/ \E m \in BOOLEAN : Drain(n, m)
          \/ Resume(n)
          \/ Revoke(n)
  BY DEF NodeNext
<1>2. node[n] \in NodeRecord
  BY DEF TypeOK
<1>3. PICK changed \in NodeRecord : NodeEvent(n, changed)
  <2>1. CASE MarkConnecting(n)
    BY <1>2, <2>1 DEF MarkConnecting, NodeRecord, NodeStates
  <2>2. CASE \E r \in Reports, f \in BOOLEAN : Heartbeat(n, r, f)
    BY <1>2, <2>2, ConstantsAssumption DEF Heartbeat, NodeRecord, NodeStates
  <2>3. CASE \E s \in {"UNHEALTHY", "OFFLINE"} : ExpireNode(n, s)
    BY <1>2, <2>3 DEF ExpireNode, NodeRecord, NodeStates
  <2>4. CASE \E m \in BOOLEAN : Drain(n, m)
    BY <1>2, <2>4 DEF Drain, NodeRecord, NodeStates
  <2>5. CASE Resume(n)
    BY <1>2, <2>5 DEF Resume, NodeRecord, NodeStates
  <2>6. CASE Revoke(n)
    BY <1>2, <2>6 DEF Revoke, NodeRecord, NodeStates
  <2> QED
    BY <1>1, <2>1, <2>2, <2>3, <2>4, <2>5, <2>6
<1>4. node' \in [Nodes -> NodeRecord]
  BY <1>3 DEF NodeEvent, TypeOK
<1>5. spent' \in [node : Nat, manual : Nat, interrupts : Nat]
  BY <1>3 DEF NodeEvent, TypeOK
<1>6. UNCHANGED <<tables, workers>>
  BY <1>3 DEF NodeEvent
<1> QED
  BY <1>4, <1>5, <1>6 DEF TypeOK, Rows, ManualSteps, tables, workers

\* A step of the connection handlers keeps the types.
LEMMA TypeConn == TypeOK /\ ConnNext => TypeOK'
<1> SUFFICES ASSUME TypeOK, ConnNext PROVE TypeOK'
  OBVIOUS
<1>1. PICK c \in Conns :
          \/ DirectPathsExhausted(c)
          \/ \E n \in Nodes : Schedule(c, n)
          \/ ScheduleUnavailable(c)
          \/ BindRelay(c)
          \/ ClientClose(c)
          \/ \E s \in {"CLOSED", "EXPIRED"} : EndConnection(c, s)
          \/ RevokeRelay(c)
  BY DEF ConnNext
<1>2. CASE DirectPathsExhausted(c)
  BY <1>2 DEF DirectPathsExhausted, TypeOK, Rows, ManualSteps, ConnStates, AllocatingSteps
<1>3. ASSUME NEW n \in Nodes, Schedule(c, n) PROVE TypeOK'
  <2>1. Insert(alloc, c, n, NoMigration) /\ NoMigration \in MigRecord
    BY <1>3, ConstantsAssumption DEF Schedule, NoMigration, MigRecord
  <2>2. /\ last' \in 0..MaxAllocs /\ Rows \subseteq Rows'
        /\ alloc' \in [Rows' -> AllocRecord] /\ mig' \in [Rows' -> MigRecord]
    BY <2>1, InsertType DEF TypeOK
  <2>3. node' \in [Nodes -> NodeRecord]
    BY <1>3, ChargedType DEF Schedule, TypeOK
  <2>4. allocating' \in [Conns -> AllocatingSteps]
    BY <1>3 DEF Schedule, TypeOK, AllocatingSteps
  <2>5. sweep' \in SweepType'
    BY <1>3, <2>1, SweepGrows DEF Schedule, TypeOK, Insert, SweepType
  <2>6. manual' \in [Conns -> ManualSteps']
    BY <1>3, <2>1, ManualGrows DEF Schedule, TypeOK, Insert
  <2> QED
    BY <1>3, <2>2, <2>3, <2>4, <2>5, <2>6 DEF Schedule, TypeOK, SweepType
<1>4. CASE ScheduleUnavailable(c)
  BY <1>4 DEF ScheduleUnavailable, TypeOK, Rows, ManualSteps, tables, AllocatingSteps
<1>5. CASE BindRelay(c)
  <2>1. alloc' \in [Rows -> AllocRecord]
    <3>1. CASE conn[c] = "ALLOCATING_RELAY"
      <4>1. \A a \in Rows : /\ alloc[a] \in AllocRecord
                            /\ [alloc[a] EXCEPT !.offered = TRUE] \in AllocRecord
        BY DEF TypeOK, AllocRecord
      <4> QED
        BY <1>5, <3>1, <4>1 DEF BindRelay
    <3>2. CASE conn[c] # "ALLOCATING_RELAY"
      BY <1>5, <3>2 DEF BindRelay, TypeOK
    <3> QED
      BY <3>1, <3>2
  <2>2. conn' \in [Conns -> ConnStates]
    BY <1>5 DEF BindRelay, TypeOK, ConnStates
  <2>3. allocating' \in [Conns -> AllocatingSteps]
    BY <1>5 DEF BindRelay, TypeOK, AllocatingSteps
  <2> QED
    BY <1>5, <2>1, <2>2, <2>3 DEF BindRelay, TypeOK, Rows, ManualSteps
<1>6. CASE ClientClose(c)
  BY <1>6 DEF ClientClose, TypeOK, Rows, ManualSteps, ConnStates
<1>7. CASE \E s \in {"CLOSED", "EXPIRED"} : EndConnection(c, s)
  BY <1>7 DEF EndConnection, TypeOK, Rows, ManualSteps, ConnStates
<1>8. CASE RevokeRelay(c)
  <2>1. LiveOf(c) \in SUBSET Rows /\ "CLOSED" \in Live \cup Dead
    BY DEF LiveOf, RowsOf, Dead
  <2>2. node' \in [Nodes -> NodeRecord] /\ alloc' \in [Rows -> AllocRecord]
    BY <1>8, <2>1, ReleasedType, MovedType DEF RevokeRelay
  <2> QED
    BY <1>8, <2>2 DEF RevokeRelay, TypeOK, Rows, ManualSteps
<1> QED
  BY <1>1, <1>2, <1>3, <1>4, <1>5, <1>6, <1>7, <1>8

\* A step of an edge report keeps the types.
LEMMA TypeEdge == TypeOK /\ EdgeNext => TypeOK'
<1> SUFFICES ASSUME TypeOK, EdgeNext PROVE TypeOK'
  OBVIOUS
<1>1. PICK a \in Rows :
          \/ AllocationOpened(a)
          \/ MigrationForNewAllocation(a)
          \/ \E e \in RoomAnswers : RelayBound(a, e)
          \/ CompleteMigration(a)
          \/ AllocationClosed(a)
  BY DEF EdgeNext
<1>2. CASE AllocationOpened(a)
  <2>1. alloc' \in [Rows -> AllocRecord]
    BY <1>2 DEF AllocationOpened, TypeOK, AllocRecord, Live, Current
  <2>2. opening' \in [AllocIds -> OpeningSteps]
    BY <1>2 DEF AllocationOpened, TypeOK, OpeningSteps
  <2> QED
    BY <1>2, <2>1, <2>2 DEF AllocationOpened, TypeOK, Rows, ManualSteps
<1>3. CASE MigrationForNewAllocation(a)
  BY <1>3 DEF MigrationForNewAllocation, TypeOK, Rows, ManualSteps, tables, OpeningSteps
<1>4. CASE \E e \in RoomAnswers : RelayBound(a, e)
  BY <1>4 DEF RelayBound, TypeOK, Rows, ManualSteps, ConnStates, OpeningSteps
<1>5. CASE CompleteMigration(a)
  <2>1. Superseded(a) \in SUBSET Rows /\ "CLOSED" \in Live \cup Dead
    BY DEF Superseded, LiveOf, RowsOf, Dead
  <2>2. Released(Superseded(a)) \in [Nodes -> NodeRecord]
    BY <2>1, ReleasedType
  <2>3. Moved(Superseded(a), "CLOSED") \in [Rows -> AllocRecord]
    BY <2>1, MovedType
  <2>4. Resolved(a, "COMPLETED") \in [Rows -> MigRecord]
    BY DEF Resolved, TypeOK, MigRecord
  <2>5. opening' \in [AllocIds -> OpeningSteps]
    BY <1>5 DEF CompleteMigration, TypeOK, OpeningSteps
  <2> QED
    BY <1>5, <2>2, <2>3, <2>4, <2>5 DEF CompleteMigration, TypeOK, Rows, ManualSteps
<1>6. CASE AllocationClosed(a)
  <2>1. {a} \in SUBSET Rows /\ "CLOSED" \in Live \cup Dead
    BY DEF Dead
  <2>2. node' \in [Nodes -> NodeRecord] /\ alloc' \in [Rows -> AllocRecord]
    BY <1>6, <2>1, ReleasedType, MovedType DEF AllocationClosed
  <2> QED
    BY <1>6, <2>2 DEF AllocationClosed, TypeOK, Rows, ManualSteps, workers
<1> QED
  BY <1>1, <1>2, <1>3, <1>4, <1>5, <1>6

\* RelayMigrating keeps the types it touches.
LEMMA DispatchType ==
    ASSUME TypeOK, NEW m \in Rows, RelayMigrating(m)
    PROVE  conn' \in [Conns -> ConnStates] /\ alloc' \in [Rows -> AllocRecord]
  BY DEF RelayMigrating, TypeOK, ConnStates, AllocRecord

\* MarkMigrationDispatched keeps the type of mig.
LEMMA MarkType ==
    ASSUME TypeOK, NEW m \in Nat, MarkMigrationDispatched(m)
    PROVE  mig' \in [Rows -> MigRecord]
<1>1. CASE m \in Rows
  <2>1. mig[m] \in MigRecord
    BY <1>1 DEF TypeOK
  <2>2. (mig[m].dispatched \/ mig[m].state = "BINDING") \in BOOLEAN
    OBVIOUS
  <2>3. [mig[m] EXCEPT !.dispatched = @ \/ mig[m].state = "BINDING"]
          \in MigRecord
    BY <2>1, <2>2 DEF MigRecord
  <2> QED
    BY <1>1, <2>3 DEF MarkMigrationDispatched, TypeOK
<1>2. CASE m \notin Rows
  BY <1>2 DEF MarkMigrationDispatched, TypeOK
<1> QED
  BY <1>1, <1>2

\* One plan, by whichever caller: the tables and the nodes stay well typed.
LEMMA PlanType ==
    ASSUME TypeOK, NEW a \in Rows, NEW n \in Nodes,
           NEW reason \in {"RELAY_UNHEALTHY", "RELAY_DRAIN", "ADMIN_MANUAL"},
           PlanMigration(a, n, reason)
    PROVE  /\ node' \in [Nodes -> NodeRecord]
           /\ last' = last + 1 /\ last' \in 0..MaxAllocs
           /\ Rows \subseteq Rows'
           /\ alloc' \in [Rows' -> AllocRecord]
           /\ mig' \in [Rows' -> MigRecord]
<1> DEFINE s == IF reason \in KeepsOld THEN "MIGRATING" ELSE "FAILED"
<1>1. alloc[a] \in AllocRecord
  BY DEF TypeOK
<1>2. NewMigration(1) \in MigRecord
  BY ConstantsAssumption DEF NewMigration, MigRecord
<1>3. {a} \in SUBSET Rows /\ s \in Live \cup Dead
  BY DEF Live, Dead
<1>4. Moved({a}, s) \in [Rows -> AllocRecord]
  BY <1>3, MovedType
<1>5. Insert(Moved({a}, s), alloc[a].conn, n, NewMigration(1))
  BY DEF PlanMigration
<1>6. alloc[a].conn \in Conns
  BY <1>1 DEF AllocRecord
<1> HIDE DEF s
<1>7. /\ last' \in 0..MaxAllocs /\ Rows \subseteq Rows'
      /\ alloc' \in [Rows' -> AllocRecord] /\ mig' \in [Rows' -> MigRecord]
  BY <1>2, <1>4, <1>5, <1>6, InsertType
<1>8. Uncounted(a, reason) \in SUBSET Rows
  BY DEF Uncounted
<1>9. \A b \in Uncounted(a, reason) : alloc[b].node # n
  BY DEF Uncounted, PlanMigration
<1>10. Charged(Released(Uncounted(a, reason)), n) \in [Nodes -> NodeRecord]
  BY <1>8, <1>9, ReleasedType, ReleasedOthers, ChargedType DEF PlanMigration
<1> QED
  BY <1>5, <1>7, <1>10 DEF PlanMigration, Insert

\* A step of an administrator keeps the types.
LEMMA TypeManual == TypeOK /\ ManualNext => TypeOK'
<1> SUFFICES ASSUME TypeOK, ManualNext PROVE TypeOK'
  OBVIOUS
<1>1. PICK c \in Conns :
          \/ RequestManual(c)
          \/ ReadManual(c)
          \/ \E n \in Nodes : PlanManual(c, n)
          \/ RefuseManual(c)
          \/ DispatchManual(c)
          \/ MarkManual(c)
  BY DEF ManualNext
<1> DEFINE a == manual[c][2]
<1>2. manual[c] \in ManualSteps
  BY DEF TypeOK
<1>3. CASE RequestManual(c)
  <2>1. manual' \in [Conns -> ManualSteps]
    BY <1>3 DEF RequestManual, TypeOK, ManualSteps
  <2>2. spent' \in [node : Nat, manual : Nat, interrupts : Nat]
    BY <1>3 DEF RequestManual, TypeOK
  <2> QED
    BY <1>3, <2>1, <2>2 DEF RequestManual, TypeOK, Rows, tables, ManualSteps
<1>4. CASE ReadManual(c)
  <2>1. CurrentOf(c) \subseteq Rows
    BY DEF CurrentOf, RowsOf
  <2>2. manual' \in [Conns -> ManualSteps]
    BY <1>4, <2>1 DEF ReadManual, TypeOK, ManualSteps
  <2> QED
    BY <1>4, <2>2 DEF ReadManual, TypeOK, Rows, tables, ManualSteps
<1>5. ASSUME NEW n \in Nodes, PlanManual(c, n) PROVE TypeOK'
  <2>1. PlanMigration(a, n, "ADMIN_MANUAL") /\ a \in Rows
    BY <1>2, <1>5 DEF PlanManual, ManualSteps
  <2>2. /\ node' \in [Nodes -> NodeRecord]
        /\ last' = last + 1 /\ last' \in 0..MaxAllocs
        /\ Rows \subseteq Rows'
        /\ alloc' \in [Rows' -> AllocRecord]
        /\ mig' \in [Rows' -> MigRecord]
    BY <2>1, PlanType
  <2>3. last + 1 \in Rows' /\ ManualSteps \subseteq ManualSteps'
    <3>1. last \in Nat
      BY ConstantsAssumption DEF TypeOK
    <3> QED
      BY <2>2, <3>1, ManualGrows DEF Rows
  <2>4. <<"dispatch", last + 1>> \in ManualSteps'
    BY <2>3 DEF ManualSteps
  <2>5. manual' \in [Conns -> ManualSteps']
    BY <1>5, <2>3, <2>4 DEF PlanManual, TypeOK
  <2>6. sweep' \in SweepType'
    BY <1>5, <2>2, SweepGrows DEF PlanManual, TypeOK, SweepType
  <2> QED
    BY <1>5, <2>2, <2>5, <2>6 DEF PlanManual, TypeOK, SweepType
<1>6. CASE RefuseManual(c)
  <2>1. manual' \in [Conns -> ManualSteps]
    BY <1>6 DEF RefuseManual, TypeOK, ManualSteps
  <2> QED
    BY <1>6, <2>1 DEF RefuseManual, TypeOK, Rows, tables, ManualSteps
<1>7. CASE DispatchManual(c)
  <2>1. a \in Rows /\ <<"mark", a>> \in ManualSteps
        /\ <<"idle", 0>> \in ManualSteps
    BY <1>2, <1>7 DEF DispatchManual, ManualSteps
  <2>2. manual' \in [Conns -> ManualSteps]
    BY <1>7, <2>1 DEF DispatchManual, TypeOK
  <2>3. conn' \in [Conns -> ConnStates] /\ alloc' \in [Rows -> AllocRecord]
    <3>1. CASE RelayMigrating(a)
      BY <2>1, <3>1, DispatchType
    <3>2. CASE UNCHANGED <<conn, alloc>>
      BY <3>2 DEF TypeOK
    <3> QED
      BY <1>7, <3>1, <3>2 DEF DispatchManual
  <2> QED
    BY <1>7, <2>2, <2>3 DEF DispatchManual, TypeOK, Rows, ManualSteps
<1>8. CASE MarkManual(c)
  <2>1. a \in Rows /\ <<"idle", 0>> \in ManualSteps
    BY <1>2, <1>8 DEF MarkManual, ManualSteps
  <2>2. mig' \in [Rows -> MigRecord]
    <3>1. a \in Nat /\ MarkMigrationDispatched(a)
      BY <1>8, <2>1 DEF MarkManual, Rows
    <3> QED
      BY <3>1, MarkType
  <2>3. manual' \in [Conns -> ManualSteps]
    BY <1>8, <2>1 DEF MarkManual, TypeOK
  <2> QED
    BY <1>8, <2>2, <2>3 DEF MarkManual, TypeOK, Rows, ManualSteps
<1> QED
  BY <1>1, <1>3, <1>4, <1>5, <1>6, <1>7, <1>8

\* The sweeper's own bookkeeping keeps its type in every action that leaves
\* the number of rows alone.
LEMMA SweepSteps ==
    ASSUME TypeOK, UNCHANGED last, NEW x,
           \/ Enter("idle", {})  \/ sweep' = Idle
           \/ Take(x)
           \/ x \in sweep.work /\ \E s \in Steps : TakeThen(x, s)
           \/ \E s \in Steps : Then(s)
           \/ Done
    PROVE  sweep' \in SweepType'
<1>1. last \in Nat /\ sweep \in SweepType
  BY ConstantsAssumption DEF TypeOK, SweepType
<1>2. sweep' \in SweepType
  <2>1. sweep.work \subseteq Rows /\ Rows \subseteq 0..last /\ 0 \in 0..last
    BY <1>1 DEF SweepType, Rows
  <2>2. CASE Enter("idle", {}) \/ sweep' = Idle
    BY <2>1, <2>2 DEF Enter, Idle, SweepType, Phases, Steps
  <2>3. CASE Take(x)
    BY <1>1, <2>3 DEF Take, SweepType
  <2>4. CASE x \in sweep.work /\ \E s \in Steps : TakeThen(x, s)
    BY <1>1, <2>1, <2>4 DEF TakeThen, SweepType
  <2>5. CASE \E s \in Steps : Then(s)
    BY <1>1, <2>5 DEF Then, SweepType
  <2>6. CASE Done
    BY <1>1, <2>1, <2>6 DEF Done, SweepType, Steps
  <2> QED
    BY <2>2, <2>3, <2>4, <2>5, <2>6
<1> QED
  BY <1>2 DEF SweepType, Rows

\* An action of the sweeper that inserts no row.
LEMMA SweepFrame ==
    ASSUME TypeOK, SweepStill, UNCHANGED last,
           node' \in [Nodes -> NodeRecord], conn' \in [Conns -> ConnStates],
           alloc' \in [Rows -> AllocRecord], mig' \in [Rows -> MigRecord],
           sweep' \in SweepType'
    PROVE  TypeOK'
  BY DEF TypeOK, SweepStill, SweepType, Rows, ManualSteps

\* ... and one that inserts one.
LEMMA SweepInsertFrame ==
    ASSUME TypeOK, SweepStill, UNCHANGED conn,
           last' = last + 1, last' \in 0..MaxAllocs,
           node' \in [Nodes -> NodeRecord],
           alloc' \in [Rows' -> AllocRecord], mig' \in [Rows' -> MigRecord],
           sweep' \in SweepType
    PROVE  TypeOK'
<1>1. sweep' \in SweepType'
  BY SweepGrows
<1>2. ManualSteps \subseteq ManualSteps'
  BY ManualGrows
<1> QED
  BY <1>1, <1>2 DEF TypeOK, SweepStill, SweepType

\* Reading the next list keeps the types.
LEMMA TypeNextPhase == TypeOK /\ NextPhase => TypeOK'
<1> SUFFICES ASSUME TypeOK, NextPhase PROVE TypeOK'
  OBVIOUS
<1>1. /\ last \in Nat
      /\ Overdue \subseteq Rows /\ Retryable \subseteq Rows
      /\ PendingMigrations \subseteq Rows
      /\ ToMigrate("RELAY_UNHEALTHY") \subseteq Rows
      /\ ToMigrate("RELAY_DRAIN") \subseteq Rows
  BY ConstantsAssumption
  DEF TypeOK, Overdue, Retryable, PendingMigrations, ToMigrate
<1>2. \/ \E p \in Phases, list \in SUBSET Rows : Enter(p, list)
      \/ sweep' = Idle
  BY <1>1 DEF NextPhase, Phases
<1>3. sweep' \in SweepType
  BY <1>1, <1>2 DEF Enter, Idle, SweepType, Phases, Steps
<1>4. UNCHANGED <<node, conn, last, alloc, mig>> /\ SweepStill
  BY DEF NextPhase, tables
<1>5. sweep' \in SweepType'
  BY <1>3, <1>4 DEF SweepType, Rows
<1> QED
  BY <1>4, <1>5, SweepFrame DEF TypeOK

\* A retry keeps the types.
LEMMA TypeRetry ==
    ASSUME TypeOK, NEW m \in Rows, NEW n \in Nodes, PlanMigrationRetry(m, n)
    PROVE  TypeOK'
<1>1. alloc[m] \in AllocRecord /\ mig[m] \in MigRecord
  BY DEF TypeOK
<1>2. alloc[m].conn \in Conns /\ mig[m].attempt + 1 \in 0..MaxAttempts
  BY <1>1, ConstantsAssumption DEF PlanMigrationRetry, AllocRecord, MigRecord
<1>3. NewMigration(mig[m].attempt + 1) \in MigRecord
  BY <1>2 DEF NewMigration, MigRecord
<1>4. Insert(alloc, alloc[m].conn, n, NewMigration(mig[m].attempt + 1))
  BY DEF PlanMigrationRetry
<1>5. /\ last' \in 0..MaxAllocs /\ alloc' \in [Rows' -> AllocRecord]
      /\ mig' \in [Rows' -> MigRecord]
  BY <1>2, <1>3, <1>4, InsertType DEF TypeOK
<1>6. node' \in [Nodes -> NodeRecord]
  BY ChargedType DEF PlanMigrationRetry, TypeOK
<1>7. sweep' \in SweepType
  BY DEF PlanMigrationRetry, Take, TypeOK, SweepType
<1>8. last' = last + 1 /\ UNCHANGED conn /\ SweepStill
  BY <1>4 DEF PlanMigrationRetry, Insert
<1> QED
  BY <1>5, <1>6, <1>7, <1>8, SweepInsertFrame

\* A plan of the sweeper keeps the types.
LEMMA TypePlanSweep ==
    ASSUME TypeOK, NEW a \in Rows, NEW n \in Nodes,
           NEW reason \in {"RELAY_UNHEALTHY", "RELAY_DRAIN"},
           PlanSweep(a, n, reason)
    PROVE  TypeOK'
<1>1. /\ node' \in [Nodes -> NodeRecord]
      /\ last' = last + 1 /\ last' \in 0..MaxAllocs
      /\ alloc' \in [Rows' -> AllocRecord] /\ mig' \in [Rows' -> MigRecord]
  BY PlanType DEF PlanSweep
<1>2. sweep' \in SweepType
  BY DEF PlanSweep, Take, TypeOK, SweepType
<1>3. UNCHANGED conn /\ SweepStill
  BY DEF PlanSweep
<1> QED
  BY <1>1, <1>2, <1>3, SweepInsertFrame

\* Rows are only closed or failed, and stop counting.
LEMMA GoneType ==
    ASSUME TypeOK, NEW gone \in SUBSET Rows, NEW s \in Dead,
           alloc' = Moved(gone, s), node' = Released(gone)
    PROVE  node' \in [Nodes -> NodeRecord] /\ alloc' \in [Rows -> AllocRecord]
  BY ReleasedType, MovedType

\* Failing an attempt keeps the types.
LEMMA TypeFailAttempt ==
    ASSUME TypeOK, NEW m \in Rows, FailMigrationAttempt(m)
    PROVE  TypeOK'
<1> DEFINE gone == IF alloc[m].state \in Live THEN {m} ELSE {}
<1>1. gone \in SUBSET Rows /\ "FAILED" \in Dead
  BY DEF Dead
<1>2. /\ node' \in [Nodes -> NodeRecord] /\ alloc' \in [Rows -> AllocRecord]
      /\ mig' \in [Rows -> MigRecord]
  <2>1. CASE mig[m].state = "BINDING"
    <3>1. alloc' = Moved(gone, "FAILED") /\ node' = Released(gone)
      BY <2>1 DEF FailMigrationAttempt
    <3>2. mig' = Resolved(m, "FAILED")
      BY <2>1 DEF FailMigrationAttempt
    <3>3. mig' \in [Rows -> MigRecord]
      BY <3>2 DEF Resolved, TypeOK, MigRecord
    <3> QED
      BY <1>1, <3>1, <3>3, GoneType
  <2>2. CASE mig[m].state # "BINDING"
    BY <2>2 DEF FailMigrationAttempt, TypeOK
  <2> QED
    BY <2>1, <2>2
<1>3. Take(m) \/ (m \in sweep.work /\ \E s \in Steps : TakeThen(m, s))
  BY DEF FailMigrationAttempt, Steps
<1>4. UNCHANGED <<conn, last>> /\ SweepStill
  BY DEF FailMigrationAttempt
<1>5. sweep' \in SweepType'
  BY <1>3, <1>4, SweepSteps
<1> QED
  BY <1>2, <1>4, <1>5, SweepFrame DEF TypeOK

\* A dispatch of the sweeper keeps the types.
LEMMA TypeDispatch ==
    ASSUME TypeOK, NEW m \in Rows, Dispatch(m)
    PROVE  TypeOK'
<1>1. conn' \in [Conns -> ConnStates] /\ alloc' \in [Rows -> AllocRecord]
  <2>1. CASE RelayMigrating(m)
    BY <2>1, DispatchType
  <2>2. CASE UNCHANGED <<conn, alloc>>
    BY <2>2 DEF TypeOK
  <2> QED
    BY <2>1, <2>2 DEF Dispatch
<1>2. sweep' = Idle \/ (m \in sweep.work /\ \E s \in Steps : TakeThen(m, s))
  BY DEF Dispatch, Steps
<1>3. UNCHANGED <<node, last, mig>> /\ SweepStill
  BY DEF Dispatch
<1>4. sweep' \in SweepType'
  BY <1>2, <1>3, SweepSteps
<1> QED
  BY <1>1, <1>3, <1>4, SweepFrame DEF TypeOK

\* The actions that only move the sweeper on.
LEMMA TypeMoveOn ==
    ASSUME TypeOK, NEW m \in Rows, NEW reason,
           \/ RetryHasNoTarget(m)  \/ RetryRowMissing(m)
           \/ PlanSkipped(m, reason)  \/ PlanHasNoTarget(m, reason)
           \/ PlanRowMissing(m, reason)
    PROVE  TypeOK'
<1>1. /\ UNCHANGED <<node, conn, last, alloc, mig>> /\ SweepStill
      /\ \/ sweep' = Idle  \/ Take(m)
         \/ m \in sweep.work /\ \E s \in Steps : TakeThen(m, s)
  BY DEF RetryHasNoTarget, RetryRowMissing, PlanSkipped, PlanHasNoTarget,
         PlanRowMissing, tables, Steps
<1>2. sweep' \in SweepType'
  BY <1>1, SweepSteps
<1> QED
  BY <1>1, <1>2, SweepFrame DEF TypeOK

\* The owed steps of the sweeper keep the types.
LEMMA TypeOwed ==
    ASSUME TypeOK,
           \/ MarkSwept  \/ FailAllocation  \/ FailConnectionAllocations
           \/ RelayMigrationFailed
    PROVE  TypeOK'
<1>1. /\ UNCHANGED last /\ SweepStill
      /\ Done \/ \E s \in Steps : Then(s)
  BY DEF MarkSwept, FailAllocation, FailConnectionAllocations,
         RelayMigrationFailed, Steps
<1>2. sweep' \in SweepType'
  BY <1>1, SweepSteps
<1>3. /\ node' \in [Nodes -> NodeRecord] /\ conn' \in [Conns -> ConnStates]
      /\ alloc' \in [Rows -> AllocRecord] /\ mig' \in [Rows -> MigRecord]
  <2>1. CASE MarkSwept
    <3>1. sweep.subject \in Nat
      BY DEF TypeOK
    <3>2. mig' \in [Rows -> MigRecord]
      BY <2>1, <3>1, MarkType DEF MarkSwept
    <3> QED
      BY <2>1, <3>2 DEF MarkSwept, TypeOK
  <2>2. CASE FailAllocation
    <3>1. {sweep.subject} \cap {a \in Rows : alloc[a].state \in Live}
            \in SUBSET Rows
      OBVIOUS
    <3> QED
      BY <2>2, <3>1, GoneType DEF FailAllocation, TypeOK, Dead
  <2>3. CASE FailConnectionAllocations
    <3>1. LiveOf(alloc[sweep.subject].conn) \in SUBSET Rows
      BY DEF LiveOf, RowsOf
    <3> QED
      BY <2>3, <3>1, GoneType DEF FailConnectionAllocations, TypeOK, Dead
  <2>4. CASE RelayMigrationFailed
    BY <2>4 DEF RelayMigrationFailed, TypeOK, ConnStates
  <2> QED
    BY <2>1, <2>2, <2>3, <2>4
<1> QED
  BY <1>1, <1>2, <1>3, SweepFrame

\* Every step of the sweeper keeps the types.
LEMMA TypeSweep == TypeOK /\ SweepNext => TypeOK'
<1> SUFFICES ASSUME TypeOK, SweepNext PROVE TypeOK'
  OBVIOUS
<1>1. sweep.work \subseteq Rows
  BY DEF TypeOK
<1> QED
  BY <1>1, TypeNextPhase, TypeFailAttempt, TypeRetry, TypeDispatch,
     TypePlanSweep, TypeMoveOn, TypeOwed DEF SweepNext

\* Deadlines and interrupts keep the types.
LEMMA TypeRest ==
    TypeOK /\ ((\E m \in Rows : BindDeadline(m)) \/ Interrupted) => TypeOK'
<1>1. ASSUME TypeOK, NEW m \in Rows, BindDeadline(m) PROVE TypeOK'
  <2>1. mig' \in [Rows -> MigRecord]
    BY <1>1 DEF BindDeadline, TypeOK, MigRecord
  <2> QED
    BY <1>1, <2>1 DEF BindDeadline, TypeOK, Rows, workers, ManualSteps
<1>2. ASSUME TypeOK, Interrupted PROVE TypeOK'
  <2>1. UNCHANGED <<node, conn, last, alloc, mig>>
    BY <1>2 DEF Interrupted, tables
  <2>2. last \in Nat
    BY <1>2, ConstantsAssumption DEF TypeOK
  <2>3. spent' \in [node : Nat, manual : Nat, interrupts : Nat]
    BY <1>2 DEF Interrupted, TypeOK
  <2>4. /\ allocating' \in [Conns -> AllocatingSteps]
        /\ opening' \in [AllocIds -> OpeningSteps]
        /\ revoking' \subseteq Conns
    BY <1>2 DEF Interrupted, TypeOK, AllocatingSteps, OpeningSteps
  <2>5. manual' \in [Conns -> ManualSteps]
    BY <1>2 DEF Interrupted, TypeOK, ManualSteps
  <2>6. sweep' \in SweepType
    BY <1>2, <2>2 DEF Interrupted, TypeOK, Idle, SweepType, Phases, Steps
  <2> QED
    BY <1>2, <2>1, <2>3, <2>4, <2>5, <2>6
    DEF TypeOK, Rows, ManualSteps, SweepType
<1> QED
  BY <1>1, <1>2

\* Every step keeps the types.
LEMMA TypeStep == TypeOK /\ [Next]_vars => TypeOK'
<1>1. TypeOK /\ UNCHANGED vars => TypeOK'
  BY DEF TypeOK, vars, tables, workers, Rows, ManualSteps
<1> QED
  BY <1>1, TypeNode, TypeConn, TypeEdge, TypeManual, TypeSweep, TypeRest
  DEF Next

\* Every reachable state is well typed: no row, counter or handler position
\* leaves its range, whatever the sizes of the instance.
THEOREM TypeCorrect == Spec => []TypeOK
  BY TypeInit, TypeStep, PTL DEF Spec

-----------------------------------------------------------------------------
(* Safety.  Every step either keeps the rows (they may only get older) or    *)
(* adds one row to one connection; each kind keeps the inductive invariant.  *)

RowsKept ==
    \A a \in Rows :
        /\ alloc'[a].conn = alloc[a].conn
        /\ alloc'[a].state \in Current => alloc[a].state \in Current
        /\ alloc[a].state \in Dead => alloc'[a].state \in Dead

MigrationsKept ==
    \A m \in Rows :
        /\ mig'[m].attempt = mig[m].attempt
        /\ mig'[m].state = "BINDING" => mig[m].state = "BINDING"
        /\ mig'[m].state = "FAILED" =>
              \/ mig[m].state = "FAILED"
              \/ mig[m].state = "BINDING" /\ alloc'[m].state \in Dead
        /\ mig[m].state = "FAILED" => mig'[m].state = "FAILED"
        /\ mig'[m].state = "COMPLETED" =>
              \/ mig[m].state = "COMPLETED"
              \/ \A a \in RowsOf(alloc[m].conn) :
                    a # m => alloc'[a].state \in Dead

Unscheduled(c) == conn[c] = "CHECKING_DIRECT" \/ allocating[c] = "schedule"
NoneUnscheduled ==
    \A c \in Conns :
        /\ Unscheduled(c)' => Unscheduled(c)
        /\ conn'[c] = "CHECKING_DIRECT" =>
              /\ conn[c] = "CHECKING_DIRECT"
              /\ allocating'[c] \in {allocating[c], "idle"}

RetriesKept ==
    sweep'.phase = "retries" =>
        \/ sweep.phase = "retries" /\ sweep'.work \subseteq sweep.work
        \/ sweep'.work \subseteq Retryable

StepKept ==
    /\ last' = last
    /\ RowsKept
    /\ MigrationsKept
    /\ NoneUnscheduled
    /\ RetriesKept

\* One row is added to the rows of c.
RowAdded(c) ==
    /\ last' = last + 1
    /\ RowsKept
    /\ \A m \in Rows : mig'[m] = mig[m]
    /\ alloc'[last + 1].conn = c
    /\ mig'[last + 1].state \in {"NONE", "BINDING"}
    /\ \A a \in RowsOf(c) :
          alloc'[a].state \notin Current /\ mig[a].state # "BINDING"
    /\ \A m \in RowsOf(c) : mig[m].state = "FAILED" /\ Newest(m) =>
          mig'[last + 1].attempt > mig[m].attempt
    /\ ~Unscheduled(c)'
    /\ NoneUnscheduled
    /\ sweep'.phase = "retries" =>
          /\ sweep.phase = "retries" /\ sweep'.work \subseteq sweep.work
          /\ \A m \in sweep'.work : alloc[m].conn # c

\* What a sweep lists as retryable is the last row of its connection.
LEMMA RetryableIsNewest ==
    ASSUME TypeOK, FailedIsOver, NEW m \in Retryable
    PROVE  m \in Rows /\ mig[m].state = "FAILED" /\ Newest(m)
<1>1. \A l \in Rows : mig[l].attempt \in Nat
  BY ConstantsAssumption DEF TypeOK, MigRecord
<1> QED
  BY <1>1 DEF Retryable, FailedIsOver, RowsOf

\* A step that keeps the rows keeps the inductive invariant.
LEMMA KeptInv ==
    ASSUME IInv, TypeOK', StepKept
    PROVE  IInv'
<1>1. Rows' = Rows /\ \A a \in Rows : alloc'[a].conn = alloc[a].conn
  BY DEF StepKept, Rows, RowsKept
<1>2. \A c : RowsOf(c)' = RowsOf(c)
  BY <1>1 DEF RowsOf
<1>3. \A a \in Rows : Newest(a)' <=> Newest(a)
  BY <1>1 DEF Newest
<1>4. ScheduledOnce'
  BY <1>2 DEF IInv, ScheduledOnce, StepKept, NoneUnscheduled, Unscheduled
<1>5. CurrentIsNewest'
  BY <1>1, <1>3
  DEF IInv, CurrentIsNewest, StepKept, RowsKept, MigrationsKept
<1>6. FailedIsOver'
  <2> SUFFICES ASSUME NEW m \in Rows, mig'[m].state = "FAILED"
               PROVE  /\ alloc'[m].state \in Dead
                      /\ \/ Newest(m)
                         \/ \E l \in RowsOf(alloc[m].conn) :
                               mig'[l].attempt > mig'[m].attempt
    BY <1>1, <1>2, <1>3 DEF FailedIsOver
  <2>1. CASE mig[m].state = "FAILED"
    <3>1. alloc'[m].state \in Dead
      BY <2>1 DEF IInv, FailedIsOver, StepKept, RowsKept
    <3>2. \/ Newest(m)
          \/ \E l \in RowsOf(alloc[m].conn) : mig[l].attempt > mig[m].attempt
      BY <2>1 DEF IInv, FailedIsOver
    <3>3. \A l \in Rows : mig'[l].attempt = mig[l].attempt
      BY DEF StepKept, MigrationsKept
    <3> QED
      BY <3>1, <3>2, <3>3 DEF RowsOf
  <2>2. CASE mig[m].state = "BINDING" /\ alloc'[m].state \in Dead
    BY <2>2 DEF IInv, CurrentIsNewest
  <2> QED
    BY <2>1, <2>2 DEF StepKept, MigrationsKept
<1>7. RetriesAreFresh'
  <2> SUFFICES ASSUME sweep'.phase = "retries", NEW m \in sweep'.work
               PROVE  mig'[m].state = "FAILED" /\ Newest(m)'
    BY DEF RetriesAreFresh
  <2>1. m \in Rows /\ mig[m].state = "FAILED" /\ Newest(m)
    <3>1. CASE sweep.phase = "retries" /\ m \in sweep.work
      BY <3>1 DEF IInv, RetriesAreFresh, TypeOK
    <3>2. CASE m \in Retryable
      BY <3>2, RetryableIsNewest DEF IInv
    <3> QED
      BY <3>1, <3>2 DEF StepKept, RetriesKept
  <2> QED
    BY <1>3, <2>1 DEF StepKept, MigrationsKept
<1>8. CompletedSupersedes'
  <2> SUFFICES ASSUME NEW m \in Rows, mig'[m].state = "COMPLETED",
                      NEW a \in RowsOf(alloc[m].conn), a < m
               PROVE  alloc'[a].state \in Dead
    BY <1>1, <1>2 DEF CompletedSupersedes
  <2>1. a \in Rows /\ a # m
    BY DEF RowsOf, Rows
  <2>2. CASE mig[m].state = "COMPLETED"
    BY <2>1, <2>2 DEF IInv, CompletedSupersedes, StepKept, RowsKept
  <2>3. CASE \A b \in RowsOf(alloc[m].conn) :
                b # m => alloc'[b].state \in Dead
    BY <2>1, <2>3
  <2> QED
    BY <2>2, <2>3 DEF StepKept, MigrationsKept
<1> QED
  BY <1>4, <1>5, <1>6, <1>7, <1>8 DEF IInv

\* A step that adds a row to one connection keeps the inductive invariant.
LEMMA AddedInv ==
    ASSUME IInv, TypeOK', NEW c \in Conns, RowAdded(c)
    PROVE  IInv'
<1>1. last \in Nat
  BY ConstantsAssumption DEF IInv, TypeOK
<1> PICK new \in Nat : new = last + 1
  BY <1>1
<1>2. /\ Rows' = Rows \cup {new} /\ new \notin Rows
      /\ \A a \in Rows : a \in Nat /\ a < new
  BY <1>1 DEF Rows, RowAdded
<1>3. \A a \in Rows : alloc'[a].conn = alloc[a].conn
  BY DEF RowAdded, RowsKept
<1>4. alloc'[new].conn = c
  BY DEF RowAdded
<1>5. \A d : RowsOf(d)' = IF d = c THEN RowsOf(d) \cup {new} ELSE RowsOf(d)
  BY <1>2, <1>3, <1>4 DEF RowsOf
<1>6. Newest(new)'
  BY <1>1, <1>2 DEF Newest
<1>7. \A a \in Rows : Newest(a)' <=> Newest(a) /\ alloc[a].conn # c
  BY <1>1, <1>2, <1>3, <1>4 DEF Newest
<1>8. ScheduledOnce'
  <2> SUFFICES ASSUME NEW d \in Conns, Unscheduled(d)' PROVE RowsOf(d)' = {}
    BY DEF IInv, ScheduledOnce, Unscheduled, RowAdded, NoneUnscheduled
  <2>1. d # c /\ Unscheduled(d)
    BY DEF RowAdded, NoneUnscheduled
  <2> QED
    BY <1>5, <2>1 DEF IInv, ScheduledOnce, Unscheduled
<1>9. CurrentIsNewest'
  <2> SUFFICES ASSUME NEW a \in Rows,
                      alloc'[a].state \in Current \/ mig'[a].state = "BINDING"
               PROVE  Newest(a)'
    BY <1>2, <1>6 DEF CurrentIsNewest
  <2>1. alloc[a].conn # c
    BY DEF RowAdded, RowsOf
  <2>2. alloc[a].state \in Current \/ mig[a].state = "BINDING"
    BY DEF RowAdded, RowsKept
  <2> QED
    BY <1>7, <2>1, <2>2 DEF IInv, CurrentIsNewest
<1>10. FailedIsOver'
  <2> SUFFICES ASSUME NEW m \in Rows, mig'[m].state = "FAILED"
               PROVE  /\ alloc'[m].state \in Dead
                      /\ \/ Newest(m)'
                         \/ \E l \in RowsOf(alloc[m].conn)' :
                               mig'[l].attempt > mig'[m].attempt
    <3>1. mig'[new].state # "FAILED"
      BY DEF RowAdded
    <3> QED
      BY <1>2, <3>1 DEF FailedIsOver
  <2>1. mig'[m] = mig[m] /\ mig[m].state = "FAILED"
    BY DEF RowAdded
  <2>2. alloc'[m].state \in Dead
    BY <2>1 DEF IInv, FailedIsOver, RowAdded, RowsKept
  <2>3. CASE \E l \in RowsOf(alloc[m].conn) : mig[l].attempt > mig[m].attempt
    <3>1. PICK l \in RowsOf(alloc[m].conn) : mig[l].attempt > mig[m].attempt
      BY <2>3
    <3>2. mig'[l] = mig[l] /\ l \in RowsOf(alloc[m].conn)'
      BY <1>2, <1>3, <3>1 DEF RowAdded, RowsOf
    <3> QED
      BY <2>1, <2>2, <3>1, <3>2
  <2>4. CASE Newest(m) /\ alloc[m].conn # c
    BY <1>7, <2>2, <2>4
  <2>5. CASE Newest(m) /\ alloc[m].conn = c
    <3>1. mig'[new].attempt > mig[m].attempt
      BY <2>1, <2>5 DEF RowAdded, RowsOf
    <3>2. new \in RowsOf(alloc[m].conn)'
      BY <1>2, <1>3, <1>4, <2>5 DEF RowsOf
    <3> QED
      BY <2>1, <2>2, <3>1, <3>2
  <2> QED
    BY <2>1, <2>3, <2>4, <2>5 DEF IInv, FailedIsOver
<1>11. RetriesAreFresh'
  <2> SUFFICES ASSUME sweep'.phase = "retries", NEW m \in sweep'.work
               PROVE  mig'[m].state = "FAILED" /\ Newest(m)'
    BY DEF RetriesAreFresh
  <2>1. m \in sweep.work /\ sweep.phase = "retries" /\ alloc[m].conn # c
    BY DEF RowAdded
  <2>2. m \in Rows /\ mig[m].state = "FAILED" /\ Newest(m)
    BY <2>1 DEF IInv, RetriesAreFresh, TypeOK
  <2> QED
    BY <1>7, <2>1, <2>2 DEF RowAdded
<1>12. CompletedSupersedes'
  <2> SUFFICES ASSUME NEW m \in Rows, mig'[m].state = "COMPLETED",
                      NEW a \in Rows, alloc[a].conn = alloc[m].conn, a < m
               PROVE  alloc'[a].state \in Dead
    <3>1. mig'[new].state # "COMPLETED"
      BY DEF RowAdded
    <3>2. \A m \in Rows : ~(new < m)
      BY <1>1, <1>2
    <3> QED
      BY <1>2, <1>3, <3>1, <3>2 DEF CompletedSupersedes, RowsOf
  <2>1. mig[m].state = "COMPLETED"
    BY DEF RowAdded
  <2>2. alloc[a].state \in Dead
    BY <2>1 DEF IInv, CompletedSupersedes, RowsOf
  <2> QED
    BY <2>2 DEF RowAdded, RowsKept
<1> QED
  BY <1>8, <1>9, <1>10, <1>11, <1>12 DEF IInv

-----------------------------------------------------------------------------
(* Which step does which.                                                    *)

SameRows == UNCHANGED <<last, alloc, mig>>

\* A step that leaves both tables alone keeps the rows.
LEMMA SameRowsKept ==
    ASSUME SameRows
    PROVE  last' = last /\ RowsKept /\ MigrationsKept
  BY DEF SameRows, RowsKept, MigrationsKept

\* An allocation that only leaves the live states.
LEMMA GoneKept ==
    ASSUME TypeOK, NEW gone, NEW s \in Dead, alloc' = Moved(gone, s)
    PROVE  /\ RowsKept
           /\ \A a \in Rows : a \in gone => alloc'[a].state \in Dead
<1>1. \A a \in Rows : alloc'[a] = IF a \in gone
                                    THEN [alloc[a] EXCEPT !.state = s]
                                    ELSE alloc[a]
  BY DEF Moved
<1>2. \A a \in Rows : alloc[a] \in AllocRecord
  BY DEF TypeOK
<1>3. s \notin Current
  BY DEF Dead, Current
<1>4. \A a \in Rows : a \in gone =>
         alloc'[a].conn = alloc[a].conn /\ alloc'[a].state = s
  BY <1>1, <1>2 DEF AllocRecord
<1> QED
  BY <1>1, <1>3, <1>4 DEF RowsKept

\* ... and one that leaves relay_migrations alone keeps the migrations.
LEMMA SameMigrations ==
    ASSUME mig' = mig PROVE MigrationsKept
  BY DEF MigrationsKept

\* Only NextPhase enters a phase or lengthens its list.
LEMMA SweepWork ==
    ASSUME TypeOK, NEW x,
           \/ Take(x)
           \/ \E s \in Steps : TakeThen(x, s)
           \/ \E s \in Steps : Then(s)
           \/ Done
           \/ sweep' = Idle
           \/ UNCHANGED sweep
    PROVE  sweep'.phase = "retries" =>
               sweep.phase = "retries" /\ sweep'.work \subseteq sweep.work
<1>1. sweep \in SweepType
  BY DEF TypeOK, SweepType
<1>2. CASE Take(x)
  BY <1>1, <1>2 DEF Take, SweepType
<1>3. CASE \E s \in Steps : TakeThen(x, s)
  BY <1>1, <1>3 DEF TakeThen, SweepType
<1>4. CASE \E s \in Steps : Then(s)
  BY <1>1, <1>4 DEF Then, SweepType
<1>5. CASE Done
  BY <1>1, <1>5 DEF Done, SweepType
<1>6. CASE sweep' = Idle
  BY <1>6 DEF Idle
<1> QED
  BY <1>2, <1>3, <1>4, <1>5, <1>6

\* A step that leaves the connections and allocateRelay alone schedules nothing.
LEMMA ConnKept ==
    ASSUME UNCHANGED conn, UNCHANGED allocating
    PROVE  NoneUnscheduled
  BY DEF NoneUnscheduled, Unscheduled

\* Node events keep the rows.
LEMMA NodeKept ==
    ASSUME NodeNext PROVE StepKept
<1>1. UNCHANGED <<tables, workers>>
  BY DEF NodeNext, MarkConnecting, Heartbeat, ExpireNode, Drain, Resume,
         Revoke, NodeEvent
<1> QED
  BY <1>1, SameRowsKept, ConnKept
  DEF tables, workers, SameRows, StepKept, RetriesKept

\* What Insert does to each row.
LEMMA InsertRow ==
    ASSUME TypeOK, NEW rows, NEW c, NEW n, NEW row, Insert(rows, c, n, row)
    PROVE  /\ last' = last + 1
           /\ \A a \in Rows : alloc'[a] = rows[a] /\ mig'[a] = mig[a]
           /\ alloc'[last + 1].conn = c
           /\ mig'[last + 1] = row
<1>1. last \in Nat
  BY ConstantsAssumption DEF TypeOK
<1>2. \A a \in Rows : a \in 1..(last + 1) /\ a # last + 1
  BY <1>1 DEF Rows
<1> QED
  BY <1>1, <1>2 DEF Insert

\* Schedule adds the first row of its connection.
LEMMA ScheduleAdds ==
    ASSUME IInv, NEW c \in Conns, NEW n \in Nodes, Schedule(c, n)
    PROVE  RowAdded(c)
<1>1. TypeOK /\ RowsOf(c) = {} /\ conn[c] # "CHECKING_DIRECT"
  BY DEF IInv, ScheduledOnce, Schedule, AllocatingSteps
<1>2. /\ last' = last + 1
      /\ \A a \in Rows : alloc'[a] = alloc[a] /\ mig'[a] = mig[a]
      /\ alloc'[last + 1].conn = c
      /\ mig'[last + 1] = NoMigration
  BY <1>1, InsertRow DEF Schedule
<1>3. NoneUnscheduled /\ ~Unscheduled(c)'
  BY <1>1 DEF Schedule, TypeOK, NoneUnscheduled, Unscheduled
<1>4. sweep'.phase = "retries" =>
         /\ sweep.phase = "retries" /\ sweep'.work \subseteq sweep.work
         /\ \A m \in sweep'.work : alloc[m].conn # c
  BY <1>1 DEF Schedule, TypeOK, RowsOf
<1> QED
  BY <1>1, <1>2, <1>3, <1>4 DEF RowAdded, RowsKept, NoMigration

\* The connection handlers keep the rows or schedule one.
LEMMA ConnStep ==
    ASSUME IInv, ConnNext
    PROVE  StepKept \/ \E c \in Conns : RowAdded(c)
<1>1. PICK c \in Conns :
          \/ DirectPathsExhausted(c)
          \/ \E n \in Nodes : Schedule(c, n)
          \/ ScheduleUnavailable(c)
          \/ BindRelay(c)
          \/ ClientClose(c)
          \/ \E s \in {"CLOSED", "EXPIRED"} : EndConnection(c, s)
          \/ RevokeRelay(c)
  BY DEF ConnNext
<1>2. TypeOK /\ (conn[c] = "CHECKING_DIRECT" => allocating[c] = "idle")
  BY DEF IInv, ScheduledOnce
<1>3. CASE DirectPathsExhausted(c)
  <2>1. NoneUnscheduled
    BY <1>2, <1>3
    DEF DirectPathsExhausted, TypeOK, NoneUnscheduled, Unscheduled
  <2> QED
    BY <1>3, <2>1, SameRowsKept
    DEF DirectPathsExhausted, SameRows, StepKept, RetriesKept
<1>4. CASE \E n \in Nodes : Schedule(c, n)
  BY <1>4, ScheduleAdds
<1>5. CASE ScheduleUnavailable(c)
  <2>1. NoneUnscheduled
    BY <1>2, <1>5
    DEF ScheduleUnavailable, TypeOK, tables, NoneUnscheduled, Unscheduled
  <2> QED
    BY <1>5, <2>1, SameRowsKept
    DEF ScheduleUnavailable, tables, SameRows, StepKept, RetriesKept
<1>6. CASE BindRelay(c)
  <2>1. NoneUnscheduled
    BY <1>2, <1>6 DEF BindRelay, TypeOK, NoneUnscheduled, Unscheduled
  <2>2. RowsKept
    <3>1. \A a \in Rows : alloc[a] \in AllocRecord
      BY <1>2 DEF TypeOK
    <3>2. \A a \in Rows : alloc'[a].conn = alloc[a].conn
                          /\ alloc'[a].state = alloc[a].state
      BY <1>6, <3>1 DEF BindRelay, AllocRecord
    <3> QED
      BY <3>2 DEF RowsKept
  <2> QED
    BY <1>6, <2>1, <2>2, SameMigrations DEF BindRelay, StepKept, RetriesKept
<1>7. CASE ClientClose(c)
  <2>1. NoneUnscheduled
    BY <1>2, <1>7 DEF ClientClose, TypeOK, NoneUnscheduled, Unscheduled
  <2> QED
    BY <1>7, <2>1, SameRowsKept DEF ClientClose, SameRows, StepKept, RetriesKept
<1>8. CASE \E s \in {"CLOSED", "EXPIRED"} : EndConnection(c, s)
  <2>1. NoneUnscheduled
    BY <1>2, <1>8 DEF EndConnection, TypeOK, NoneUnscheduled, Unscheduled
  <2> QED
    BY <1>8, <2>1, SameRowsKept
    DEF EndConnection, SameRows, StepKept, RetriesKept
<1>9. CASE RevokeRelay(c)
  <2>1. RowsKept
    BY <1>2, <1>9, GoneKept DEF RevokeRelay, Dead
  <2> QED
    BY <1>9, <2>1, SameMigrations, ConnKept
    DEF RevokeRelay, StepKept, RetriesKept
<1> QED
  BY <1>1, <1>3, <1>4, <1>5, <1>6, <1>7, <1>8, <1>9

\* Edge reports keep the rows.
LEMMA EdgeStep ==
    ASSUME TypeOK, EdgeNext
    PROVE  StepKept
<1>1. PICK a \in Rows :
          \/ AllocationOpened(a)
          \/ MigrationForNewAllocation(a)
          \/ \E e \in RoomAnswers : RelayBound(a, e)
          \/ CompleteMigration(a)
          \/ AllocationClosed(a)
  BY DEF EdgeNext
<1>2. CASE AllocationOpened(a)
  <2>1. RowsKept
    <3>1. alloc[a] \in AllocRecord
      BY DEF TypeOK
    <3> QED
      BY <1>2, <3>1
      DEF AllocationOpened, Openable, RowsKept, TypeOK, AllocRecord, Current, Dead
  <2> QED
    BY <1>2, <2>1, SameMigrations, ConnKept
    DEF AllocationOpened, StepKept, RetriesKept
<1>3. CASE MigrationForNewAllocation(a)
  BY <1>3, SameRowsKept, ConnKept
  DEF MigrationForNewAllocation, tables, SameRows, StepKept, RetriesKept
<1>4. CASE \E e \in RoomAnswers : RelayBound(a, e)
  <2>1. NoneUnscheduled
    BY <1>4 DEF RelayBound, TypeOK, NoneUnscheduled, Unscheduled
  <2> QED
    BY <1>4, <2>1, SameRowsKept DEF RelayBound, SameRows, StepKept, RetriesKept
<1>5. CASE CompleteMigration(a)
  <2>1. /\ UNCHANGED <<conn, last, allocating, sweep>>
    BY <1>5 DEF CompleteMigration
  <2>2. CASE mig[a].state = "BINDING"
    <3>1. /\ RowsKept
          /\ \A b \in Rows : b \in Superseded(a) => alloc'[b].state \in Dead
      BY <1>5, <2>2, GoneKept DEF CompleteMigration, Dead
    <3>2. \A b \in RowsOf(alloc[a].conn) : b # a => alloc'[b].state \in Dead
      <4> SUFFICES ASSUME NEW b \in RowsOf(alloc[a].conn), b # a
                   PROVE  alloc'[b].state \in Dead
        OBVIOUS
      <4>1. b \in Rows /\ alloc[b] \in AllocRecord
        BY DEF RowsOf, TypeOK
      <4>2. alloc[b].state \in Live => b \in Superseded(a)
        BY DEF Superseded, LiveOf
      <4> QED
        BY <3>1, <4>1, <4>2 DEF RowsKept, AllocRecord
    <3>3. mig[a] \in MigRecord /\ mig' = Resolved(a, "COMPLETED")
      BY <1>5, <2>2 DEF CompleteMigration, TypeOK
    <3>4. /\ \A m \in Rows : m # a => mig'[m] = mig[m]
          /\ mig'[a].state = "COMPLETED" /\ mig'[a].attempt = mig[a].attempt
      BY <3>3 DEF Resolved, TypeOK
    <3>5. MigrationsKept
      BY <2>2, <3>2, <3>4 DEF MigrationsKept
    <3> QED
      BY <2>1, <3>1, <3>5, ConnKept DEF StepKept, RetriesKept
  <2>3. CASE mig[a].state # "BINDING"
    BY <1>5, <2>1, <2>3, SameRowsKept, ConnKept
    DEF CompleteMigration, SameRows, StepKept, RetriesKept
  <2> QED
    BY <2>2, <2>3
<1>6. CASE AllocationClosed(a)
  <2>1. RowsKept
    BY <1>6, GoneKept DEF AllocationClosed, Dead
  <2> QED
    BY <1>6, <2>1, SameMigrations, ConnKept
    DEF AllocationClosed, workers, StepKept, RetriesKept
<1> QED
  BY <1>1, <1>2, <1>3, <1>4, <1>5, <1>6

\* The current allocation of a connection is its only one, and neither a
\* failed migration nor a retry under way stands in for it.
LEMMA CurrentStandsAlone ==
    ASSUME IInv, NEW a \in Rows, alloc[a].state \in Current,
           NEW c, c = alloc[a].conn
    PROVE  /\ \A b \in RowsOf(c) : alloc[b].state \in Current => b = a
           /\ \A m \in RowsOf(c) : ~(mig[m].state = "FAILED" /\ Newest(m))
           /\ ~Unscheduled(c)
<1>1. last \in Nat /\ c \in Conns
  BY ConstantsAssumption DEF IInv, TypeOK, AllocRecord
<1>2. \A b \in RowsOf(c) : b \in Rows /\ b \in Nat /\ alloc[b].conn = c
  BY <1>1 DEF RowsOf, Rows
<1>3. a \in RowsOf(c) /\ Newest(a)
  BY DEF RowsOf, IInv, CurrentIsNewest
<1>4. \A b \in RowsOf(c) : Newest(b) => b = a
  BY <1>2, <1>3 DEF Newest
<1> QED
  BY <1>1, <1>2, <1>3, <1>4
  DEF IInv, CurrentIsNewest, FailedIsOver, ScheduledOnce, Unscheduled,
      Current, Dead

\* A retry not yet worked on belongs to another connection than any
\* allocation that is current.
LEMMA RetriesElsewhere ==
    ASSUME IInv, NEW a \in Rows, alloc[a].state \in Current,
           sweep.phase = "retries"
    PROVE  \A m \in sweep.work : alloc[m].conn # alloc[a].conn
<1> SUFFICES ASSUME NEW m \in sweep.work, alloc[m].conn = alloc[a].conn
             PROVE  FALSE
  OBVIOUS
<1>1. m \in Rows /\ mig[m].state = "FAILED" /\ Newest(m)
  BY DEF IInv, RetriesAreFresh, TypeOK
<1> QED
  BY <1>1, CurrentStandsAlone DEF RowsOf

\* PlanMigration adds a row to a connection it leaves without a current one.
LEMMA PlanAdds ==
    ASSUME IInv, NEW a \in Rows, NEW n \in Nodes,
           NEW reason \in {"RELAY_UNHEALTHY", "RELAY_DRAIN", "ADMIN_MANUAL"},
           PlanMigration(a, n, reason), UNCHANGED <<conn, allocating>>,
           sweep'.phase = "retries" =>
               sweep.phase = "retries" /\ sweep'.work \subseteq sweep.work
    PROVE  \E c \in Conns : RowAdded(c)
<1> PICK c \in Conns : c = alloc[a].conn
  BY DEF IInv, TypeOK, AllocRecord
<1> DEFINE s == IF reason \in KeepsOld THEN "MIGRATING" ELSE "FAILED"
<1>1. TypeOK /\ alloc[a].state \in Current /\ NoActiveMigration(c)
  BY DEF IInv, PlanMigration, Plannable
<1>2. /\ last' = last + 1
      /\ \A b \in Rows : /\ alloc'[b] = Moved({a}, s)[b]
                          /\ mig'[b] = mig[b]
      /\ alloc'[last + 1].conn = c
      /\ mig'[last + 1] = NewMigration(1)
  BY <1>1, InsertRow DEF PlanMigration
<1>3. /\ \A b \in Rows : b # a => alloc'[b] = alloc[b]
      /\ alloc'[a].conn = c /\ alloc'[a].state = s
  BY <1>1, <1>2 DEF Moved, TypeOK, AllocRecord
<1>4. s \notin Current /\ alloc[a].state \notin Dead
  BY <1>1 DEF Current, Dead
<1>5. RowsKept
  BY <1>1, <1>3, <1>4 DEF RowsKept
<1>6. \A b \in RowsOf(c) :
         alloc'[b].state \notin Current /\ mig[b].state # "BINDING"
  <2>1. \A b \in RowsOf(c) : mig[b].state # "BINDING"
    BY <1>1 DEF NoActiveMigration, BindingOf
  <2>2. \A b \in RowsOf(c) : b # a => alloc'[b].state \notin Current
    BY <1>1, <1>3, CurrentStandsAlone DEF RowsOf
  <2> QED
    BY <1>3, <1>4, <2>1, <2>2
<1>7. ~Unscheduled(c)' /\ NoneUnscheduled
  BY <1>1, CurrentStandsAlone DEF NoneUnscheduled, Unscheduled
<1>8. \A m \in RowsOf(c) : ~(mig[m].state = "FAILED" /\ Newest(m))
  BY <1>1, CurrentStandsAlone
<1>9. sweep'.phase = "retries" =>
         /\ sweep.phase = "retries" /\ sweep'.work \subseteq sweep.work
         /\ \A m \in sweep'.work : alloc[m].conn # c
  BY <1>1, RetriesElsewhere
<1> QED
  BY <1>2, <1>5, <1>6, <1>7, <1>8, <1>9 DEF RowAdded, NewMigration

\* PlanMigrationRetry adds a row of a higher attempt.
LEMMA RetryAdds ==
    ASSUME IInv, NEW m \in sweep.work, NEW n \in Nodes,
           PlanMigrationRetry(m, n)
    PROVE  \E c \in Conns : RowAdded(c)
<1> PICK c \in Conns : c = alloc[m].conn
  BY DEF IInv, TypeOK, AllocRecord, PlanMigrationRetry
<1>1. TypeOK /\ sweep \in SweepType /\ sweep.phase = "retries"
  BY DEF IInv, TypeOK, SweepType, PlanMigrationRetry, At
<1>2. m \in Rows /\ mig[m].state = "FAILED" /\ Newest(m)
  BY <1>1 DEF IInv, RetriesAreFresh, TypeOK
<1>3. last \in Nat /\ c \in Conns /\ mig[m].attempt \in Nat
  BY <1>1, <1>2, ConstantsAssumption DEF TypeOK, AllocRecord, MigRecord
<1>4. \A b \in RowsOf(c) : b \in Rows /\ b \in Nat /\ alloc[b].conn = c
  BY <1>3 DEF RowsOf, Rows
<1>5. m \in RowsOf(c) /\ \A b \in RowsOf(c) : Newest(b) => b = m
  BY <1>2, <1>4 DEF Newest, RowsOf
<1>6. /\ last' = last + 1
      /\ \A b \in Rows : alloc'[b] = alloc[b] /\ mig'[b] = mig[b]
      /\ alloc'[last + 1].conn = c
      /\ mig'[last + 1] = NewMigration(mig[m].attempt + 1)
  BY <1>1, InsertRow DEF PlanMigrationRetry
<1>7. \A b \in RowsOf(c) :
         alloc'[b].state \notin Current /\ mig[b].state # "BINDING"
  <2>1. \A b \in RowsOf(c) : mig[b].state # "BINDING"
    BY DEF PlanMigrationRetry, NoActiveMigration, BindingOf
  <2>2. alloc[m].state \notin Current
    BY DEF PlanMigrationRetry, Current
  <2> QED
    BY <1>4, <1>5, <1>6, <2>1, <2>2 DEF IInv, CurrentIsNewest
<1>8. mig'[last + 1].attempt > mig[m].attempt
  BY <1>3, <1>6 DEF NewMigration
<1>9. ~Unscheduled(c)' /\ NoneUnscheduled
  BY <1>3, <1>5
  DEF IInv, ScheduledOnce, PlanMigrationRetry, SweepStill, NoneUnscheduled,
      Unscheduled
<1>10. /\ sweep'.work \subseteq sweep.work
       /\ \A k \in sweep'.work : alloc[k].conn # c
  <2>1. sweep'.work = sweep.work \ {m}
    BY <1>1 DEF PlanMigrationRetry, Take, SweepType
  <2>2. \A k \in sweep.work : k \in Rows /\ Newest(k)
    BY <1>1 DEF IInv, RetriesAreFresh, TypeOK
  <2> QED
    BY <1>5, <2>1, <2>2 DEF RowsOf
<1> QED
  BY <1>1, <1>5, <1>6, <1>7, <1>8, <1>9, <1>10
  DEF RowAdded, RowsKept, NewMigration

\* MarkMigrationDispatched keeps the migrations.
LEMMA MarkKept ==
    ASSUME TypeOK, NEW m, MarkMigrationDispatched(m)
    PROVE  MigrationsKept
<1>1. \A k \in Rows : mig'[k].state = mig[k].state
                      /\ mig'[k].attempt = mig[k].attempt
  BY DEF MarkMigrationDispatched, TypeOK, MigRecord
<1> QED
  BY <1>1 DEF MigrationsKept

\* RelayMigrating keeps the rows.
LEMMA DispatchKept ==
    ASSUME TypeOK, NEW m \in Rows, RelayMigrating(m), UNCHANGED allocating
    PROVE  RowsKept /\ NoneUnscheduled
<1>1. alloc[m] \in AllocRecord
  BY DEF TypeOK
<1>2. \A a \in Rows : alloc'[a].conn = alloc[a].conn
                      /\ alloc'[a].state = alloc[a].state
  BY <1>1 DEF RelayMigrating, TypeOK, AllocRecord
<1>3. \A c \in Conns : conn'[c] = "CHECKING_DIRECT" =>
                           conn[c] = "CHECKING_DIRECT"
  BY DEF RelayMigrating, TypeOK
<1> QED
  BY <1>2, <1>3 DEF RowsKept, NoneUnscheduled, Unscheduled

\* The administrator keeps the rows or plans one.
LEMMA ManualStep ==
    ASSUME IInv, ManualNext
    PROVE  StepKept \/ \E c \in Conns : RowAdded(c)
<1>1. PICK c \in Conns :
          \/ RequestManual(c)
          \/ ReadManual(c)
          \/ \E n \in Nodes : PlanManual(c, n)
          \/ RefuseManual(c)
          \/ DispatchManual(c)
          \/ MarkManual(c)
  BY DEF ManualNext
<1>2. TypeOK /\ manual[c] \in ManualSteps
  BY DEF IInv, TypeOK
<1>3. CASE RequestManual(c) \/ ReadManual(c) \/ RefuseManual(c)
  BY <1>3, SameRowsKept, ConnKept
  DEF RequestManual, ReadManual, RefuseManual, tables, SameRows, StepKept,
      RetriesKept
<1>4. CASE \E n \in Nodes : PlanManual(c, n)
  <2>1. manual[c][2] \in Rows
    BY <1>2, <1>4 DEF PlanManual, ManualSteps
  <2>2. alloc[manual[c][2]].conn \in Conns
    BY <1>2, <2>1 DEF TypeOK, AllocRecord
  <2> QED
    BY <1>4, <2>1, <2>2, PlanAdds DEF PlanManual
<1>5. CASE DispatchManual(c)
  <2>1. manual[c][2] \in Rows
    BY <1>2, <1>5 DEF DispatchManual, ManualSteps
  <2>2. CASE RelayMigrating(manual[c][2])
    BY <1>2, <1>5, <2>1, <2>2, DispatchKept, SameMigrations
    DEF DispatchManual, StepKept, RetriesKept
  <2>3. CASE UNCHANGED <<conn, alloc>>
    BY <1>5, <2>3, SameRowsKept, ConnKept
    DEF DispatchManual, SameRows, StepKept, RetriesKept
  <2> QED
    BY <1>5, <2>2, <2>3 DEF DispatchManual
<1>6. CASE MarkManual(c)
  <2>1. MigrationsKept
    BY <1>2, <1>6, MarkKept DEF MarkManual
  <2>2. RowsKept
    BY <1>6 DEF MarkManual, RowsKept
  <2> QED
    BY <1>6, <2>1, <2>2, ConnKept DEF MarkManual, StepKept, RetriesKept
<1> QED
  BY <1>1, <1>3, <1>4, <1>5, <1>6

\* A step of the sweeper that neither inserts a row nor reads a list.
LEMMA SweepKept ==
    ASSUME TypeOK, SweepStill, UNCHANGED last, RowsKept, MigrationsKept,
           \A c \in Conns : conn'[c] = "CHECKING_DIRECT" =>
               conn[c] = "CHECKING_DIRECT",
           sweep'.phase = "retries" =>
               sweep.phase = "retries" /\ sweep'.work \subseteq sweep.work
    PROVE  StepKept
  BY DEF SweepStill, StepKept, RetriesKept, NoneUnscheduled, Unscheduled

\* A new list of retries is read from Retryable.
LEMMA NextPhaseKept ==
    ASSUME TypeOK, NextPhase
    PROVE  StepKept
<1>1. RetriesKept
  <2> SUFFICES ASSUME sweep'.phase = "retries"
               PROVE  sweep'.work = Retryable
    BY DEF RetriesKept
  <2> QED
    BY DEF NextPhase, Enter, Idle, TypeOK, Phases
<1> QED
  BY <1>1, SameRowsKept, ConnKept
  DEF NextPhase, SweepStill, tables, SameRows, StepKept

\* A failed attempt ends its allocation in the same transaction.
LEMMA FailAttemptKept ==
    ASSUME TypeOK, NEW m \in Rows, FailMigrationAttempt(m)
    PROVE  StepKept
<1> DEFINE gone == IF alloc[m].state \in Live THEN {m} ELSE {}
<1>1. /\ SweepStill /\ UNCHANGED <<conn, last>>
      /\ Take(m) \/ \E s \in Steps : TakeThen(m, s)
  BY DEF FailMigrationAttempt, Steps
<1>2. sweep'.phase = "retries" =>
         sweep.phase = "retries" /\ sweep'.work \subseteq sweep.work
  BY <1>1, SweepWork
<1>3. RowsKept /\ MigrationsKept
  <2>1. CASE mig[m].state = "BINDING"
    <3>1. alloc' = Moved(gone, "FAILED") /\ mig' = Resolved(m, "FAILED")
      BY <2>1 DEF FailMigrationAttempt
    <3>2. /\ RowsKept
          /\ \A a \in Rows : a \in gone => alloc'[a].state \in Dead
      BY <3>1, GoneKept DEF Dead
    <3>3. alloc'[m].state \in Dead
      <4>1. alloc[m] \in AllocRecord
        BY DEF TypeOK
      <4> QED
        BY <3>2, <4>1 DEF RowsKept, AllocRecord
    <3>4. /\ \A k \in Rows : k # m => mig'[k] = mig[k]
          /\ mig'[m].state = "FAILED" /\ mig'[m].attempt = mig[m].attempt
      BY <3>1 DEF Resolved, TypeOK
    <3>5. MigrationsKept
      BY <2>1, <3>3, <3>4 DEF MigrationsKept
    <3> QED
      BY <3>2, <3>5
  <2>2. CASE mig[m].state # "BINDING"
    BY <1>1, <2>2, SameRowsKept DEF FailMigrationAttempt, SameRows
  <2> QED
    BY <2>1, <2>2
<1> QED
  BY <1>1, <1>2, <1>3, SweepKept

\* A dispatch of the sweeper keeps the rows.
LEMMA SweepDispatchKept ==
    ASSUME TypeOK, NEW m \in Rows, Dispatch(m)
    PROVE  StepKept
<1>1. /\ SweepStill /\ UNCHANGED <<last, mig>>
      /\ sweep' = Idle \/ \E s \in Steps : TakeThen(m, s)
  BY DEF Dispatch, Steps
<1>2. sweep'.phase = "retries" =>
         sweep.phase = "retries" /\ sweep'.work \subseteq sweep.work
  BY <1>1, SweepWork
<1>3. CASE RelayMigrating(m)
  <2>1. RowsKept /\ NoneUnscheduled
    BY <1>1, <1>3, DispatchKept DEF SweepStill
  <2> QED
    BY <1>1, <1>2, <2>1, SameMigrations DEF StepKept, RetriesKept
<1>4. CASE UNCHANGED <<conn, alloc>>
  BY <1>1, <1>2, <1>4, SameRowsKept, SweepKept DEF SameRows
<1> QED
  BY <1>3, <1>4 DEF Dispatch

\* Giving up on an element of a list keeps the rows.
LEMMA MoveOnKept ==
    ASSUME TypeOK, NEW m \in Rows, NEW reason,
           \/ RetryHasNoTarget(m)  \/ RetryRowMissing(m)
           \/ PlanSkipped(m, reason)  \/ PlanHasNoTarget(m, reason)
           \/ PlanRowMissing(m, reason)
    PROVE  StepKept
<1>1. /\ UNCHANGED <<conn, last, alloc, mig>> /\ SweepStill
      /\ Take(m) \/ sweep' = Idle \/ \E s \in Steps : TakeThen(m, s)
  BY DEF RetryHasNoTarget, RetryRowMissing, PlanSkipped, PlanHasNoTarget,
         PlanRowMissing, tables, Steps
<1>2. sweep'.phase = "retries" =>
         sweep.phase = "retries" /\ sweep'.work \subseteq sweep.work
  BY <1>1, SweepWork
<1> QED
  BY <1>1, <1>2, SameRowsKept, SweepKept DEF SameRows

\* The owed steps of the sweeper keep the rows.
LEMMA OwedKept ==
    ASSUME TypeOK,
           \/ MarkSwept  \/ FailAllocation  \/ FailConnectionAllocations
           \/ RelayMigrationFailed
    PROVE  StepKept
<1>1. /\ UNCHANGED last /\ SweepStill
      /\ Done \/ \E s \in Steps : Then(s)
  BY DEF MarkSwept, FailAllocation, FailConnectionAllocations,
         RelayMigrationFailed, Steps
<1>2. sweep'.phase = "retries" =>
         sweep.phase = "retries" /\ sweep'.work \subseteq sweep.work
  BY <1>1, SweepWork
<1>3. RowsKept /\ MigrationsKept
  <2>1. CASE MarkSwept
    <3>1. MigrationsKept
      BY <2>1, MarkKept DEF MarkSwept
    <3> QED
      BY <2>1, <3>1 DEF MarkSwept, RowsKept
  <2>2. CASE FailAllocation
    BY <2>2, GoneKept, SameMigrations DEF FailAllocation, Dead
  <2>3. CASE FailConnectionAllocations
    BY <2>3, GoneKept, SameMigrations DEF FailConnectionAllocations, Dead
  <2>4. CASE RelayMigrationFailed
    BY <2>4, SameRowsKept DEF RelayMigrationFailed, SameRows
  <2> QED
    BY <2>1, <2>2, <2>3, <2>4
<1>4. \A c \in Conns : conn'[c] = "CHECKING_DIRECT" =>
                           conn[c] = "CHECKING_DIRECT"
  BY DEF MarkSwept, FailAllocation, FailConnectionAllocations,
         RelayMigrationFailed, TypeOK
<1> QED
  BY <1>1, <1>2, <1>3, <1>4, SweepKept

\* The sweeper keeps the rows, plans one or retries one.
LEMMA SweepStep ==
    ASSUME IInv, SweepNext
    PROVE  StepKept \/ \E c \in Conns : RowAdded(c)
<1>1. TypeOK /\ sweep.work \subseteq Rows
  BY DEF IInv, TypeOK
<1>2. CASE NextPhase
  BY <1>1, <1>2, NextPhaseKept
<1>3. ASSUME NEW m \in sweep.work, FailMigrationAttempt(m)
      PROVE  StepKept
  BY <1>1, <1>3, FailAttemptKept
<1>4. ASSUME NEW m \in sweep.work, NEW n \in Nodes, PlanMigrationRetry(m, n)
      PROVE  \E c \in Conns : RowAdded(c)
  BY <1>4, RetryAdds
<1>5. ASSUME NEW m \in sweep.work, Dispatch(m)
      PROVE  StepKept
  BY <1>1, <1>5, SweepDispatchKept
<1>6. ASSUME NEW m \in sweep.work,
             NEW r \in {"RELAY_UNHEALTHY", "RELAY_DRAIN"}, NEW n \in Nodes,
             PlanSweep(m, n, r)
      PROVE  \E c \in Conns : RowAdded(c)
  <2>1. sweep'.phase = "retries" =>
           sweep.phase = "retries" /\ sweep'.work \subseteq sweep.work
    BY <1>1, <1>6, SweepWork DEF PlanSweep
  <2> QED
    BY <1>1, <1>6, <2>1, PlanAdds DEF PlanSweep, SweepStill
<1>7. ASSUME NEW m \in sweep.work, NEW r,
             \/ RetryHasNoTarget(m)  \/ RetryRowMissing(m)
             \/ PlanSkipped(m, r)  \/ PlanHasNoTarget(m, r)
             \/ PlanRowMissing(m, r)
      PROVE  StepKept
  BY <1>1, <1>7, MoveOnKept
<1>8. CASE \/ MarkSwept  \/ FailAllocation  \/ FailConnectionAllocations
           \/ RelayMigrationFailed
  BY <1>1, <1>8, OwedKept
<1> QED
  BY <1>2, <1>3, <1>4, <1>5, <1>6, <1>7, <1>8 DEF SweepNext

\* A deadline that passes keeps the rows.
LEMMA DeadlineKept ==
    ASSUME TypeOK, NEW m \in Rows, BindDeadline(m)
    PROVE  StepKept
<1>1. UNCHANGED <<last, alloc, conn, allocating, sweep>>
  BY DEF BindDeadline, workers
<1>2. \A k \in Rows : mig'[k].state = mig[k].state
                      /\ mig'[k].attempt = mig[k].attempt
  BY DEF BindDeadline, TypeOK, MigRecord
<1> QED
  BY <1>1, <1>2, ConnKept
  DEF StepKept, RowsKept, MigrationsKept, RetriesKept

\* A lost handler keeps the rows.
LEMMA InterruptedKept ==
    ASSUME TypeOK, Interrupted
    PROVE  StepKept
<1>1. UNCHANGED <<conn, last, alloc, mig>>
  BY DEF Interrupted, tables
<1>2. \A c \in Conns : allocating'[c] \in {allocating[c], "idle"}
  BY DEF Interrupted, TypeOK
<1>3. RetriesKept
  BY DEF Interrupted, RetriesKept, Idle
<1> QED
  BY <1>1, <1>2, <1>3, SameRowsKept
  DEF SameRows, StepKept, NoneUnscheduled, Unscheduled

\* Every step keeps the rows or adds one.
LEMMA StepShape ==
    ASSUME IInv, [Next]_vars
    PROVE  StepKept \/ \E c \in Conns : RowAdded(c)
<1>1. CASE UNCHANGED vars
  BY <1>1, SameRowsKept, ConnKept
  DEF vars, tables, workers, SameRows, StepKept, RetriesKept
<1>2. TypeOK
  BY DEF IInv
<1>3. CASE Next
  BY <1>2, <1>3, NodeKept, ConnStep, EdgeStep, ManualStep, SweepStep,
     DeadlineKept, InterruptedKept DEF Next
<1> QED
  BY <1>1, <1>3

-----------------------------------------------------------------------------
(* The results                                                               *)

\* The initial state satisfies the inductive invariant.
LEMMA InvInit == Init => IInv
<1> SUFFICES ASSUME Init PROVE IInv
  OBVIOUS
<1>1. TypeOK
  BY TypeInit
<1>2. Rows = {} /\ last = 0
  BY DEF Init, Rows
<1> QED
  BY <1>1, <1>2
  DEF IInv, Init, Idle, ScheduledOnce, CurrentIsNewest, FailedIsOver,
      RetriesAreFresh, CompletedSupersedes, RowsOf

\* Every step keeps the inductive invariant.
LEMMA InvStep == IInv /\ [Next]_vars => IInv'
<1> SUFFICES ASSUME IInv, [Next]_vars PROVE IInv'
  OBVIOUS
<1>1. TypeOK'
  BY TypeStep DEF IInv
<1> QED
  BY <1>1, StepShape, KeptInv, AddedInv

\* The inductive invariant holds in every reachable state: a connection is
\* scheduled once, what players may use is its last row, a failed attempt
\* holds nothing and is followed only by higher attempts, the retries a sweep
\* has listed stay fresh, and a completed migration has superseded all before
\* it.
THEOREM Invariant == Spec => []IInv
  BY InvInit, InvStep, PTL DEF Spec

\* Two newest rows of one connection are the same row.
LEMMA IInvOneCurrent == IInv => OneCurrent /\ OneBinding
<1> SUFFICES ASSUME IInv PROVE OneCurrent /\ OneBinding
  OBVIOUS
<1>1. \A a \in Rows : a \in Nat
  BY ConstantsAssumption DEF Rows, IInv, TypeOK
<1>2. \A a, b \in Rows : Newest(a) /\ Newest(b)
                           /\ alloc[a].conn = alloc[b].conn => a = b
  BY <1>1 DEF Newest
<1> QED
  BY <1>2 DEF IInv, CurrentIsNewest, OneCurrent, OneBinding

\* However many connections, nodes and attempts there are, no connection ever
\* has two allocations that players may use: Schedule, PlanMigration and
\* PlanMigrationRetry never run into relay_allocations' unique index.
THEOREM OneCurrentAlways == Spec => []OneCurrent
  BY Invariant, IInvOneCurrent, PTL

\* Nor two migrations waiting for their bind.
THEOREM OneBindingAlways == Spec => []OneBinding
  BY Invariant, IInvOneCurrent, PTL

\* A completed migration has closed every earlier allocation of its
\* connection, whatever failed attempts came between.
THEOREM CompletedSupersedesAlways == Spec => []CompletedSupersedes
<1>1. IInv => CompletedSupersedes
  BY DEF IInv
<1> QED
  BY Invariant, <1>1, PTL

\* An allocation that is CLOSED or FAILED never counts again.
THEOREM DeadStaysDeadAlways == Spec => DeadStaysDead
<1>1. IInv /\ [Next]_vars =>
         [\A a \in Rows : alloc[a].state \in Dead =>
                             alloc'[a].state \in Dead]_vars
  BY StepShape DEF StepKept, RowAdded, RowsKept
<1> QED
  BY Invariant, <1>1, PTL DEF Spec, DeadStaysDead

\* No step brings an ended connection back.
LEMMA EndedStep ==
    ASSUME IInv, Next
    PROVE  \A c \in Conns : conn[c] \in Terminal => conn'[c] \in Terminal
<1> SUFFICES ASSUME NEW c \in Conns, conn[c] \in Terminal
             PROVE  conn'[c] \in Terminal
  OBVIOUS
<1>1. TypeOK
  BY DEF IInv
<1>2. CASE UNCHANGED conn
  BY <1>2
<1>3. CASE ConnNext
  BY <1>1, <1>3
  DEF ConnNext, DirectPathsExhausted, Schedule, ScheduleUnavailable,
      BindRelay, ClientClose, EndConnection, RevokeRelay, tables, TypeOK,
      Terminal
<1>4. CASE EdgeNext
  BY <1>1, <1>4
  DEF EdgeNext, AllocationOpened, MigrationForNewAllocation, RelayBound,
      CompleteMigration, AllocationClosed, tables, TypeOK, Terminal
<1>5. ASSUME NEW m, RelayMigrating(m) PROVE conn'[c] \in Terminal
  BY <1>1, <1>5 DEF RelayMigrating, CanDispatch, TypeOK, Terminal
<1>6. CASE ManualNext
  BY <1>2, <1>5, <1>6
  DEF ManualNext, RequestManual, ReadManual, PlanManual, RefuseManual,
      DispatchManual, MarkManual, tables
<1>7. CASE RelayMigrationFailed
  BY <1>1, <1>7 DEF RelayMigrationFailed, TypeOK, Terminal
<1>8. CASE SweepNext
  BY <1>2, <1>5, <1>7, <1>8
  DEF SweepNext, NextPhase, FailMigrationAttempt, PlanMigrationRetry,
      RetryHasNoTarget, RetryRowMissing, Dispatch, PlanSweep, PlanSkipped,
      PlanHasNoTarget, PlanRowMissing, MarkSwept, FailAllocation,
      FailConnectionAllocations, tables
<1>9. CASE NodeNext \/ (\E m \in Rows : BindDeadline(m)) \/ Interrupted
  BY <1>2, <1>9
  DEF NodeNext, MarkConnecting, Heartbeat, ExpireNode, Drain, Resume,
      Revoke, NodeEvent, BindDeadline, Interrupted, tables
<1> QED
  BY <1>3, <1>4, <1>6, <1>8, <1>9 DEF Next

\* A connection that has ended is never brought back.
THEOREM EndedStaysEndedAlways == Spec => EndedStaysEnded
<1>1. IInv /\ [Next]_vars =>
         [\A c \in Conns : conn[c] \in Terminal => conn'[c] \in Terminal]_vars
  BY EndedStep
<1> QED
  BY Invariant, <1>1, PTL DEF Spec, EndedStaysEnded

=============================================================================
