----------------------- MODULE RelayAccounting_proofs -----------------------
(***************************************************************************)
(* That a node's active_allocations moves with its live rows, for every    *)
(* number of nodes, connections, attempts and allocations: each step that  *)
(* is not a node's own UPDATE keeps the rows and the counters, lets some   *)
(* live rows go and releases just those, or inserts one row and charges    *)
(* its node.  With heartbeats that agree with the count, the live rows of a*)
(* node never pass the threshold.  And the attempts: no failed migration is*)
(* retried twice, and the maximum bounds the retries of a connection.      *)
(***************************************************************************)
EXTENDS RelayMigration_proofs

\* The rows of n that count against it.
LiveRows(n)  == {a \in Rows : alloc[a].node = n /\ alloc[a].state \in Live}
On(gone, n)  == {a \in gone : alloc[a].node = n}

\* The counters move with the rows.
Balanced ==
    \A n \in Nodes : node'[n].active =
        Monus(node[n].active + LiveOn(n)', LiveOn(n))

-----------------------------------------------------------------------------
(* Counting                                                                  *)

\* Live rows and counters are numbers.
LEMMA Counted ==
    ASSUME TypeOK, NEW n \in Nodes
    PROVE  /\ LiveOn(n) = Cardinality(LiveRows(n))
           /\ IsFiniteSet(LiveRows(n)) /\ Cardinality(LiveRows(n)) \in Nat
           /\ node[n].active \in Nat
<1>1. LiveRows(n) \in SUBSET Rows
  BY DEF LiveRows
<1>2. node[n].active \in Nat
  BY ConstantsAssumption DEF TypeOK, NodeRecord
<1> QED
  BY <1>1, <1>2, RowsFinite DEF LiveOn, LiveRows

\* Taking rows out of a set and releasing them comes to the same.
LEMMA Balance ==
    ASSUME NEW S, IsFiniteSet(S), NEW G \in SUBSET S, NEW active \in Nat
    PROVE  Monus(active + Cardinality(S \ G), Cardinality(S)) =
               Monus(active, Cardinality(G))
<1>1. /\ IsFiniteSet(G) /\ Cardinality(G) \in Nat /\ Cardinality(S) \in Nat
      /\ Cardinality(G) <= Cardinality(S)
  BY FS_Subset, FS_CardinalityType
<1>2. S \cap G = G
  OBVIOUS
<1>3. Cardinality(S \ G) = Cardinality(S) - Cardinality(G)
  BY <1>2, FS_Difference
<1> QED
  BY <1>1, <1>3 DEF Monus

\* Nothing taken, nothing released.
LEMMA SameBalance ==
    ASSUME NEW active \in Nat, NEW k \in Nat
    PROVE  Monus(active + k, k) = active /\ Monus(active, 0) = active
  BY DEF Monus

\* A step that keeps the rows' liveness and the counters.
LEMMA SameCount ==
    ASSUME TypeOK, UNCHANGED <<node, last>>,
           \A a \in Rows : /\ alloc'[a].node = alloc[a].node
                           /\ alloc'[a].state \in Live <=>
                                  alloc[a].state \in Live
    PROVE  Balanced
<1> SUFFICES ASSUME NEW n \in Nodes
             PROVE  node[n].active =
                        Monus(node[n].active + LiveOn(n)', LiveOn(n))
  BY DEF Balanced
<1>1. LiveOn(n)' = LiveOn(n)
  BY DEF LiveOn, Rows
<1> QED
  BY <1>1, Counted, SameBalance

\* A step that lets live rows go and releases them.
LEMMA GoneCount ==
    ASSUME TypeOK, NEW gone \in SUBSET Rows, NEW s \in Dead, UNCHANGED last,
           \A a \in gone : alloc[a].state \in Live,
           alloc' = Moved(gone, s), node' = Released(gone)
    PROVE  Balanced
<1> SUFFICES ASSUME NEW n \in Nodes
             PROVE  node'[n].active =
                        Monus(node[n].active + LiveOn(n)', LiveOn(n))
  BY DEF Balanced
<1>1. \A a \in Rows : /\ alloc'[a].node = alloc[a].node
                      /\ alloc'[a].state = IF a \in gone THEN s
                                                         ELSE alloc[a].state
  BY DEF Moved, TypeOK, AllocRecord
<1>2. s \notin Live
  BY DEF Dead, Live, Current
<1>3. On(gone, n) \in SUBSET LiveRows(n)
  BY DEF On, LiveRows
<1>4. LiveRows(n)' = LiveRows(n) \ On(gone, n)
  BY <1>1, <1>2 DEF LiveRows, On, Rows
<1>5. LiveOn(n)' = Cardinality(LiveRows(n) \ On(gone, n))
  BY <1>4 DEF LiveOn, LiveRows
<1>6. node'[n].active = Monus(node[n].active, Cardinality(On(gone, n)))
  BY DEF Released, On, TypeOK, NodeRecord
<1> QED
  BY <1>3, <1>5, <1>6, Counted, Balance

\* A step that inserts a live row on n, charges n, and releases rows that go
\* on other nodes.
LEMMA InsertCount ==
    ASSUME TypeOK, NEW gone \in SUBSET Rows, NEW n \in Nodes,
           \A a \in gone : alloc[a].state \in Live /\ alloc[a].node # n,
           last' = last + 1,
           \A a \in Rows : /\ alloc'[a].node = alloc[a].node
                           /\ alloc'[a].state \in Live <=>
                                  alloc[a].state \in Live /\ a \notin gone,
           alloc'[last + 1].node = n, alloc'[last + 1].state \in Live,
           \A k \in Nodes : node'[k].active =
               Monus(node[k].active, Cardinality(On(gone, k)))
                   + (IF k = n THEN 1 ELSE 0)
    PROVE  Balanced
<1> SUFFICES ASSUME NEW k \in Nodes
             PROVE  node'[k].active =
                        Monus(node[k].active + LiveOn(k)', LiveOn(k))
  BY DEF Balanced
<1>1. last \in Nat
  BY ConstantsAssumption DEF TypeOK
<1>2. Rows' = Rows \cup {last + 1} /\ last + 1 \notin Rows
  BY <1>1 DEF Rows
<1>3. /\ LiveOn(k)' = Cardinality(LiveRows(k)')
      /\ Cardinality(LiveRows(k)) \in Nat /\ IsFiniteSet(LiveRows(k))
      /\ LiveOn(k) = Cardinality(LiveRows(k)) /\ node[k].active \in Nat
  BY Counted DEF LiveOn, LiveRows
<1>4. CASE k = n
  <2>1. Cardinality(On(gone, k)) = 0
    <3>1. On(gone, k) = {}
      BY <1>4 DEF On
    <3> QED
      BY <3>1, FS_EmptySet
  <2>2. LiveRows(k)' = LiveRows(k) \cup {last + 1}
    BY <1>2, <1>4 DEF LiveRows
  <2>3. last + 1 \notin LiveRows(k)
    BY <1>2 DEF LiveRows
  <2>4. Cardinality(LiveRows(k) \cup {last + 1}) = Cardinality(LiveRows(k)) + 1
    BY <1>3, <2>3, FS_AddElement
  <2>5. node'[k].active = Monus(node[k].active, 0) + 1
    BY <1>4, <2>1
  <2>6. node'[k].active = node[k].active + 1
    BY <1>3, <2>5, SameBalance
  <2>7. LiveOn(k)' = LiveOn(k) + 1
    BY <1>3, <2>2, <2>4
  <2> QED
    BY <1>3, <2>6, <2>7 DEF Monus
<1>5. CASE k # n
  <2>1. On(gone, k) \in SUBSET LiveRows(k)
    BY DEF On, LiveRows
  <2>2. LiveRows(k)' = LiveRows(k) \ On(gone, k)
    BY <1>2, <1>5 DEF LiveRows, On
  <2>3. node'[k].active = Monus(node[k].active, Cardinality(On(gone, k)))
    <3>1. /\ IsFiniteSet(On(gone, k)) /\ Cardinality(On(gone, k)) \in Nat
      BY <1>3, <2>1, FS_Subset, FS_CardinalityType
    <3> QED
      BY <1>3, <1>5, <3>1 DEF Monus
  <2> QED
    BY <1>3, <2>1, <2>2, <2>3, Balance
<1> QED
  BY <1>4, <1>5

-----------------------------------------------------------------------------
(* Every step counts                                                         *)

\* Only the node, state and number of rows matter.
LEMMA StillCount ==
    ASSUME TypeOK, UNCHANGED <<node, last, alloc>>
    PROVE  Balanced
BY SameCount

\* An inserted row is live, on the node it was inserted for.
LEMMA InsertedOn ==
    ASSUME TypeOK, NEW rows, NEW c, NEW n, NEW row, Insert(rows, c, n, row)
    PROVE  /\ last' = last + 1
           /\ \A a \in Rows : alloc'[a] = rows[a]
           /\ alloc'[last + 1].node = n /\ alloc'[last + 1].state \in Live
<1>1. last \in Nat
  BY ConstantsAssumption DEF TypeOK
<1>2. last + 1 \in 1..(last + 1)
  BY <1>1
<1>3. alloc'[last + 1] = [conn |-> c, node |-> n, state |-> "ALLOCATED",
                          offered |-> FALSE]
  BY <1>2 DEF Insert
<1> QED
  BY <1>3, InsertRow DEF Live, Current

\* Schedule and PlanMigrationRetry: a row on n, charged to it.
LEMMA ChargeCount ==
    ASSUME TypeOK, NEW c, NEW n \in Nodes, NEW row, Insert(alloc, c, n, row),
           node' = Charged(node, n)
    PROVE  Balanced
<1>1. /\ last' = last + 1
      /\ \A a \in Rows : alloc'[a] = alloc[a]
      /\ alloc'[last + 1].node = n /\ alloc'[last + 1].state \in Live
  BY InsertedOn
<1>2. \A k \in Nodes : node'[k].active =
          Monus(node[k].active, Cardinality(On({}, k)))
              + (IF k = n THEN 1 ELSE 0)
  <2> SUFFICES ASSUME NEW k \in Nodes
               PROVE  node'[k].active = Monus(node[k].active, 0)
                                            + (IF k = n THEN 1 ELSE 0)
    BY FS_EmptySet DEF On
  <2>1. node[k].active \in Nat
    BY Counted
  <2>2. node'[k].active = node[k].active + (IF k = n THEN 1 ELSE 0)
    BY <2>1 DEF Charged, TypeOK, NodeRecord
  <2> QED
    BY <2>1, <2>2, SameBalance
<1> QED
  BY <1>1, <1>2, InsertCount

\* PlanMigration: the old row stays live, or it fails and is released; the
\* new one is on another node.
LEMMA PlanCount ==
    ASSUME TypeOK, NEW a \in Rows, NEW n \in Nodes,
           NEW reason \in {"RELAY_UNHEALTHY", "RELAY_DRAIN", "ADMIN_MANUAL"},
           PlanMigration(a, n, reason)
    PROVE  Balanced
<1> DEFINE s == IF reason \in KeepsOld THEN "MIGRATING" ELSE "FAILED"
           gone == Uncounted(a, reason)
<1>1. /\ last' = last + 1
      /\ \A b \in Rows : alloc'[b] = Moved({a}, s)[b]
      /\ alloc'[last + 1].node = n /\ alloc'[last + 1].state \in Live
  BY InsertedOn DEF PlanMigration
<1>2. /\ \A b \in Rows : alloc'[b].node = alloc[b].node
      /\ \A b \in Rows : b # a => alloc'[b] = alloc[b]
      /\ alloc'[a].state = s
  BY <1>1 DEF Moved, TypeOK, AllocRecord
<1>3. alloc[a].state \in Live /\ alloc[a].node # n
  BY DEF PlanMigration, Plannable, Live
<1>4. /\ gone \in SUBSET Rows
      /\ \A b \in gone : alloc[b].state \in Live /\ alloc[b].node # n
  BY <1>3 DEF Uncounted
<1>5. \A b \in Rows : alloc'[b].state \in Live <=>
                          alloc[b].state \in Live /\ b \notin gone
  BY <1>2, <1>3 DEF Uncounted, Live, Current
<1>6. \A k \in Nodes : node'[k].active =
          Monus(node[k].active, Cardinality(On(gone, k)))
              + (IF k = n THEN 1 ELSE 0)
  <2> SUFFICES ASSUME NEW k \in Nodes
               PROVE  node'[k].active =
                          Monus(node[k].active, Cardinality(On(gone, k)))
                              + (IF k = n THEN 1 ELSE 0)
    OBVIOUS
  <2>1. Released(gone) \in [Nodes -> NodeRecord]
    BY <1>4, ReleasedType
  <2>2. Released(gone)[k].active =
            Monus(node[k].active, Cardinality(On(gone, k)))
    BY DEF Released, On, TypeOK, NodeRecord
  <2>3. Released(gone)[k].active \in Nat
    BY <2>1, ConstantsAssumption DEF NodeRecord
  <2>4. node' = Charged(Released(gone), n)
    BY DEF PlanMigration
  <2> QED
    BY <2>1, <2>2, <2>3, <2>4 DEF Charged, NodeRecord
<1> QED
  BY <1>1, <1>2, <1>4, <1>5, <1>6, InsertCount

\* RelayMigrating touches no state a counter is about.
LEMMA DispatchCount ==
    ASSUME TypeOK, NEW m \in Rows, RelayMigrating(m), UNCHANGED <<node, last>>
    PROVE  Balanced
<1>1. \A a \in Rows : /\ alloc'[a].node = alloc[a].node
                      /\ alloc'[a].state = alloc[a].state
  BY DEF RelayMigrating, TypeOK, AllocRecord
<1> QED
  BY <1>1, SameCount

\* A step of the connection handlers counts.
LEMMA ConnCount ==
    ASSUME TypeOK, ConnNext
    PROVE  Balanced
<1>1. PICK c \in Conns :
          \/ DirectPathsExhausted(c)
          \/ \E n \in Nodes : Schedule(c, n)
          \/ ScheduleUnavailable(c)
          \/ BindRelay(c)
          \/ ClientClose(c)
          \/ \E s \in {"CLOSED", "EXPIRED"} : EndConnection(c, s)
          \/ RevokeRelay(c)
  BY DEF ConnNext
<1>2. CASE \/ DirectPathsExhausted(c)
           \/ ScheduleUnavailable(c)
           \/ ClientClose(c)
           \/ \E s \in {"CLOSED", "EXPIRED"} : EndConnection(c, s)
  BY <1>2, StillCount
  DEF DirectPathsExhausted, ScheduleUnavailable, ClientClose, EndConnection,
      tables
<1>3. ASSUME NEW n \in Nodes, Schedule(c, n) PROVE Balanced
  BY <1>3, ChargeCount DEF Schedule
<1>4. CASE BindRelay(c)
  <2>1. \A a \in Rows : /\ alloc'[a].node = alloc[a].node
                        /\ alloc'[a].state = alloc[a].state
    BY <1>4 DEF BindRelay, TypeOK, AllocRecord
  <2> QED
    BY <1>4, <2>1, SameCount DEF BindRelay
<1>5. CASE RevokeRelay(c)
  <2>1. /\ LiveOf(c) \in SUBSET Rows
        /\ \A a \in LiveOf(c) : alloc[a].state \in Live
    BY DEF LiveOf, RowsOf
  <2> QED
    BY <1>5, <2>1, GoneCount DEF RevokeRelay, Dead
<1> QED
  BY <1>1, <1>2, <1>3, <1>4, <1>5

\* A step of an edge report counts.
LEMMA EdgeCount ==
    ASSUME TypeOK, EdgeNext
    PROVE  Balanced
<1>1. PICK a \in Rows :
          \/ AllocationOpened(a)
          \/ MigrationForNewAllocation(a)
          \/ \E e \in RoomAnswers : RelayBound(a, e)
          \/ CompleteMigration(a)
          \/ AllocationClosed(a)
  BY DEF EdgeNext
<1>2. CASE AllocationOpened(a)
  <2>1. \A b \in Rows : /\ alloc'[b].node = alloc[b].node
                        /\ alloc'[b].state \in Live <=>
                               alloc[b].state \in Live
    BY <1>2 DEF AllocationOpened, Openable, TypeOK, AllocRecord, Live, Current
  <2> QED
    BY <1>2, <2>1, SameCount DEF AllocationOpened
<1>3. CASE \/ MigrationForNewAllocation(a)
           \/ \E e \in RoomAnswers : RelayBound(a, e)
  BY <1>3, StillCount DEF MigrationForNewAllocation, RelayBound, tables
<1>4. CASE CompleteMigration(a)
  <2>1. CASE mig[a].state = "BINDING"
    <3>1. /\ Superseded(a) \in SUBSET Rows
          /\ \A b \in Superseded(a) : alloc[b].state \in Live
      BY DEF Superseded, LiveOf, RowsOf
    <3> QED
      BY <1>4, <2>1, <3>1, GoneCount DEF CompleteMigration, Dead
  <2>2. CASE mig[a].state # "BINDING"
    BY <1>4, <2>2, StillCount DEF CompleteMigration
  <2> QED
    BY <2>1, <2>2
<1>5. CASE AllocationClosed(a)
  BY <1>5, GoneCount DEF AllocationClosed, Dead
<1> QED
  BY <1>1, <1>2, <1>3, <1>4, <1>5

\* A step of an administrator's migration counts.
LEMMA ManualCount ==
    ASSUME TypeOK, ManualNext
    PROVE  Balanced
<1>1. PICK c \in Conns :
          \/ RequestManual(c)
          \/ ReadManual(c)
          \/ \E n \in Nodes : PlanManual(c, n)
          \/ RefuseManual(c)
          \/ DispatchManual(c)
          \/ MarkManual(c)
  BY DEF ManualNext
<1>2. manual[c] \in ManualSteps
  BY DEF TypeOK
<1>3. CASE RequestManual(c) \/ ReadManual(c) \/ RefuseManual(c) \/ MarkManual(c)
  BY <1>3, StillCount
  DEF RequestManual, ReadManual, RefuseManual, MarkManual, tables
<1>4. ASSUME NEW n \in Nodes, PlanManual(c, n) PROVE Balanced
  <2>1. manual[c][2] \in Rows
    BY <1>2, <1>4 DEF PlanManual, ManualSteps
  <2> QED
    BY <1>4, <2>1, PlanCount DEF PlanManual
<1>5. CASE DispatchManual(c)
  <2>1. manual[c][2] \in Rows
    BY <1>2, <1>5 DEF DispatchManual, ManualSteps
  <2> QED
    BY <1>5, <2>1, DispatchCount, StillCount DEF DispatchManual
<1> QED
  BY <1>1, <1>3, <1>4, <1>5

\* A step of the sweeper counts.
LEMMA SweepCount ==
    ASSUME TypeOK, SweepNext
    PROVE  Balanced
<1>1. sweep.work \subseteq Rows
  BY DEF TypeOK
<1>2. CASE NextPhase \/ MarkSwept \/ RelayMigrationFailed
  BY <1>2, StillCount DEF NextPhase, MarkSwept, RelayMigrationFailed, tables
<1>3. ASSUME NEW m \in sweep.work, FailMigrationAttempt(m) PROVE Balanced
  <2> DEFINE gone == IF alloc[m].state \in Live THEN {m} ELSE {}
  <2>1. CASE mig[m].state = "BINDING"
    <3>1. gone \in SUBSET Rows /\ \A a \in gone : alloc[a].state \in Live
      BY <1>1
    <3>2. alloc' = Moved(gone, "FAILED") /\ node' = Released(gone)
          /\ UNCHANGED last
      BY <1>3, <2>1 DEF FailMigrationAttempt
    <3> QED
      BY <3>1, <3>2, GoneCount DEF Dead
  <2>2. CASE mig[m].state # "BINDING"
    BY <1>3, <2>2, StillCount DEF FailMigrationAttempt
  <2> QED
    BY <2>1, <2>2
<1>4. ASSUME NEW m \in sweep.work, NEW n \in Nodes, PlanMigrationRetry(m, n)
      PROVE  Balanced
  BY <1>4, ChargeCount DEF PlanMigrationRetry
<1>5. ASSUME NEW m \in sweep.work, Dispatch(m) PROVE Balanced
  BY <1>1, <1>5, DispatchCount, StillCount DEF Dispatch
<1>6. ASSUME NEW m \in sweep.work,
             NEW r \in {"RELAY_UNHEALTHY", "RELAY_DRAIN"}, NEW n \in Nodes,
             PlanSweep(m, n, r)
      PROVE  Balanced
  BY <1>1, <1>6, PlanCount DEF PlanSweep
<1>7. ASSUME NEW m, NEW r,
             \/ RetryHasNoTarget(m)  \/ RetryRowMissing(m)
             \/ PlanSkipped(m, r)  \/ PlanHasNoTarget(m, r)
             \/ PlanRowMissing(m, r)
      PROVE  Balanced
  BY <1>7, StillCount
  DEF RetryHasNoTarget, RetryRowMissing, PlanSkipped, PlanHasNoTarget,
      PlanRowMissing, tables
<1>8. CASE FailAllocation
  BY <1>8, GoneCount DEF FailAllocation, Dead
<1>9. CASE FailConnectionAllocations
  <2> DEFINE gone == LiveOf(alloc[sweep.subject].conn)
  <2>1. gone \in SUBSET Rows /\ \A a \in gone : alloc[a].state \in Live
    BY DEF LiveOf, RowsOf
  <2>2. alloc' = Moved(gone, "FAILED") /\ node' = Released(gone)
        /\ UNCHANGED last
    BY <1>9 DEF FailConnectionAllocations
  <2> QED
    BY <2>1, <2>2, GoneCount DEF Dead
<1> QED
  BY <1>2, <1>3, <1>4, <1>5, <1>6, <1>7, <1>8, <1>9 DEF SweepNext

-----------------------------------------------------------------------------
(* The result                                                                *)

\* A step that is not a node's own UPDATE is balanced.
LEMMA AccountedStep ==
    ASSUME TypeOK, Next, spent'.node = spent.node
    PROVE  Balanced
<1>1. CASE NodeNext
  <2>1. spent' = [spent EXCEPT !.node = @ + 1]
    BY <1>1
    DEF NodeNext, MarkConnecting, Heartbeat, ExpireNode, Drain, Resume,
        Revoke, NodeEvent
  <2> QED
    BY <2>1 DEF TypeOK
<1>2. CASE (\E m \in Rows : BindDeadline(m)) \/ Interrupted
  BY <1>2, StillCount DEF BindDeadline, Interrupted, tables
<1> QED
  BY <1>1, <1>2, ConnCount, EdgeCount, ManualCount, SweepCount DEF Next

\* In every step that is not a node's own UPDATE, a node's counter moves with
\* its live rows, down to zero: no close, failure, completion or migration
\* releases an allocation twice or forgets one, for every number of nodes,
\* connections, attempts and allocations.
THEOREM AccountedAlways == Spec => Accounted
<1>1. TypeOK /\ [Next]_vars =>
          [spent'.node = spent.node =>
               \A n \in Nodes : node'[n].active =
                   Monus(node[n].active + LiveOn(n)', LiveOn(n))]_vars
  BY AccountedStep DEF Balanced
<1> QED
  BY TypeCorrect, <1>1, PTL DEF Spec, Accounted

-----------------------------------------------------------------------------
(* Capacity.  The count is wrong by what the edges report only.              *)

\* A report repeats the count that the control plane has.
ReportsAgree ==
    [][spent'.node # spent.node =>
          \A n \in Nodes : node'[n].active = node[n].active]_vars

\* The count of a node is the number of its live rows, ...
Exact == \A n \in Nodes : node[n].active = LiveOn(n)

\* ... and these pass the percentage of the capacity by less than one.
WithinThreshold ==
    \A n \in Nodes :
        LiveOn(n) * 100 < MaxAllocations * CapacityThreshold + 100

\* A counter is raised by one only, and only on a node the scheduler accepts.
Charges ==
    \A n \in Nodes :
        \/ node'[n].active <= node[n].active
        \/ Schedulable(n) /\ node'[n].active = node[n].active + 1

\* Releasing rows raises no counter.
LEMMA ReleasedLess ==
    ASSUME TypeOK, NEW gone \in SUBSET Rows, NEW n \in Nodes
    PROVE  /\ Released(gone)[n].active <= node[n].active
           /\ Released(gone)[n].active \in Nat
<1>1. {a \in gone : alloc[a].node = n} \in SUBSET Rows
  OBVIOUS
<1>2. Cardinality({a \in gone : alloc[a].node = n}) \in Nat
  BY <1>1, RowsFinite
<1>3. node[n] \in NodeRecord /\ node[n].active \in Nat
  BY ConstantsAssumption DEF TypeOK, NodeRecord
<1>4. Released(gone)[n].active =
          Monus(node[n].active, Cardinality({a \in gone : alloc[a].node = n}))
  BY <1>3 DEF Released, NodeRecord
<1> QED
  BY <1>2, <1>3, <1>4 DEF Monus

\* A step that charges a node, or none.
LEMMA ChargeOnce ==
    ASSUME TypeOK, NEW gone \in SUBSET Rows, NEW n \in Nodes, Schedulable(n),
           \A a \in gone : alloc[a].node # n,
           node' = Charged(Released(gone), n)
    PROVE  Charges
<1> SUFFICES ASSUME NEW k \in Nodes
             PROVE  \/ node'[k].active <= node[k].active
                    \/ Schedulable(k) /\ node'[k].active = node[k].active + 1
  BY DEF Charges
<1>1. Released(gone) \in [Nodes -> NodeRecord]
  BY ReleasedType
<1>2. node'[k].active = Released(gone)[k].active + (IF k = n THEN 1 ELSE 0)
  BY <1>1, ReleasedLess DEF Charged, NodeRecord
<1>3. CASE k = n
  BY <1>2, <1>3, ReleasedOthers
<1>4. CASE k # n
  BY <1>2, <1>4, ReleasedLess
<1> QED
  BY <1>3, <1>4

\* Releasing nothing changes nothing.
LEMMA ReleasedNone ==
    ASSUME TypeOK
    PROVE  Released({}) = node
<1>1. \A n \in Nodes : {a \in {} : alloc[a].node = n} = {}
  OBVIOUS
<1>2. Cardinality({}) = 0
  BY FS_EmptySet
<1>3. \A n \in Nodes : node[n] \in NodeRecord /\ node[n].active \in Nat
  BY ConstantsAssumption DEF TypeOK, NodeRecord
<1>4. \A n \in Nodes : Monus(node[n].active, 0) = node[n].active
  BY <1>3, SameBalance
<1>5. \A n \in Nodes : Released({})[n] = node[n]
  BY <1>1, <1>2, <1>3, <1>4 DEF Released, NodeRecord
<1> QED
  BY <1>5 DEF Released, TypeOK

\* A step whose counters are released or not at all.
LEMMA ReleaseOnly ==
    ASSUME TypeOK,
           UNCHANGED node \/ \E gone \in SUBSET Rows : node' = Released(gone)
    PROVE  Charges
<1>1. \A n \in Nodes : node[n].active \in Nat
  BY ConstantsAssumption DEF TypeOK, NodeRecord
<1> QED
  BY <1>1, ReleasedLess DEF Charges

\* PlanMigration charges the target, whichever reason it has.
LEMMA PlanCharges ==
    ASSUME TypeOK, NEW a \in Rows, NEW n \in Nodes, NEW reason,
           PlanMigration(a, n, reason)
    PROVE  Charges
<1> DEFINE gone == Uncounted(a, reason)
<1>1. gone \in SUBSET Rows /\ \A b \in gone : alloc[b].node # n
  BY DEF PlanMigration, Uncounted
<1>2. node' = Charged(Released(gone), n) /\ Schedulable(n)
  BY DEF PlanMigration
<1> QED
  BY <1>1, <1>2, ChargeOnce

\* Schedule and PlanMigrationRetry charge the node they choose.
LEMMA ChosenCharges ==
    ASSUME TypeOK, NEW n \in Nodes, Schedulable(n), node' = Charged(node, n)
    PROVE  Charges
  BY ReleasedNone, ChargeOnce

\* No step but a node's own raises a counter past the threshold.
LEMMA StepCharges ==
    ASSUME TypeOK, [Next]_vars, ~NodeNext
    PROVE  Charges
<1> USE ReleaseOnly
<1>1. CASE ConnNext
  <2>1. ASSUME NEW c \in Conns, NEW n \in Nodes, Schedule(c, n) PROVE Charges
    BY <2>1, ChosenCharges DEF Schedule
  <2>2. ASSUME NEW c \in Conns, RevokeRelay(c) PROVE Charges
    BY <2>2 DEF RevokeRelay, LiveOf, RowsOf
  <2> QED
    BY <1>1, <2>1, <2>2
    DEF ConnNext, DirectPathsExhausted, ScheduleUnavailable, BindRelay,
        ClientClose, EndConnection
<1>2. CASE EdgeNext
  <2>1. ASSUME NEW a \in Rows, CompleteMigration(a) PROVE Charges
    BY <2>1 DEF CompleteMigration, Superseded, LiveOf, RowsOf
  <2>2. ASSUME NEW a \in Rows, AllocationClosed(a) PROVE Charges
    BY <2>2 DEF AllocationClosed
  <2> QED
    BY <1>2, <2>1, <2>2
    DEF EdgeNext, AllocationOpened, MigrationForNewAllocation, RelayBound
<1>3. CASE ManualNext
  <2>1. ASSUME NEW c \in Conns, NEW n \in Nodes, PlanManual(c, n) PROVE Charges
    <3>1. manual[c][2] \in Rows
      BY <2>1 DEF TypeOK, PlanManual, ManualSteps
    <3> QED
      BY <2>1, <3>1, PlanCharges DEF PlanManual
  <2> QED
    BY <1>3, <2>1
    DEF ManualNext, RequestManual, ReadManual, RefuseManual, DispatchManual,
        MarkManual
<1>4. CASE SweepNext
  <2>1. sweep.work \subseteq Rows
    BY DEF TypeOK
  <2>2. ASSUME NEW m \in sweep.work, NEW n \in Nodes, PlanMigrationRetry(m, n)
        PROVE  Charges
    BY <2>2, ChosenCharges DEF PlanMigrationRetry
  <2>3. ASSUME NEW m \in sweep.work,
               NEW r \in {"RELAY_UNHEALTHY", "RELAY_DRAIN"}, NEW n \in Nodes,
               PlanSweep(m, n, r)
        PROVE  Charges
    BY <2>1, <2>3, PlanCharges DEF PlanSweep
  <2>4. ASSUME NEW m \in sweep.work, FailMigrationAttempt(m) PROVE Charges
    BY <2>1, <2>4 DEF FailMigrationAttempt
  <2>5. CASE FailAllocation \/ FailConnectionAllocations
    BY <2>5 DEF FailAllocation, FailConnectionAllocations, LiveOf, RowsOf
  <2> QED
    BY <1>4, <2>2, <2>3, <2>4, <2>5
    DEF SweepNext, NextPhase, RetryHasNoTarget, RetryRowMissing, Dispatch,
        PlanSkipped, PlanHasNoTarget, PlanRowMissing, MarkSwept,
        RelayMigrationFailed
<1>5. CASE (\E m \in Rows : BindDeadline(m)) \/ Interrupted \/ UNCHANGED vars
  BY <1>5 DEF BindDeadline, Interrupted, vars
<1> QED
  BY <1>1, <1>2, <1>3, <1>4, <1>5 DEF Next

\* Counts and counters are numbers, before a step and after it.
Numbers == \A n \in Nodes : LiveOn(n) \in Nat /\ node[n].active \in Nat
LEMMA NumbersAlways == TypeOK => Numbers
  BY Counted DEF Numbers

\* A node's own UPDATE is counted in spent and moves no allocation.
LEMMA NodeStep ==
    ASSUME TypeOK, NodeNext
    PROVE  spent'.node # spent.node /\ UNCHANGED <<last, alloc>>
<1>1. spent' = [spent EXCEPT !.node = @ + 1] /\ UNCHANGED <<last, alloc>>
  BY DEF NodeNext, MarkConnecting, Heartbeat, ExpireNode, Drain, Resume, Revoke,
         NodeEvent, tables
<1> QED
  BY <1>1 DEF TypeOK

\* As long as the edges report what the control plane has counted, no order of
\* scheduling, migration, failure and close makes the count of a node differ
\* from its live allocations, nor lets them pass the threshold: two
\* schedulers, or a scheduler and a migration, never share the last place.
THEOREM CapacityKept == Spec /\ ReportsAgree => [](Exact /\ WithinThreshold)
<1> DEFINE Agree == spent'.node # spent.node =>
                        \A n \in Nodes : node'[n].active = node[n].active
           Below == \A n \in Nodes :
                        node[n].active * 100
                            < MaxAllocations * CapacityThreshold + 100
<1>1. Init => Exact /\ Below
  <2> SUFFICES ASSUME Init, NEW n \in Nodes
               PROVE  node[n].active = LiveOn(n)
                      /\ node[n].active * 100
                             < MaxAllocations * CapacityThreshold + 100
    BY DEF Exact
  <2>1. Rows = {} /\ node[n].active = 0
    BY DEF Init, Rows
  <2>2. LiveOn(n) = 0
    BY <2>1, FS_EmptySet DEF LiveOn
  <2> QED
    BY <2>1, <2>2, ConstantsAssumption
<1>2. TypeOK /\ TypeOK' /\ Exact /\ Below /\ [Next]_vars /\ [Agree]_vars
          => Exact' /\ Below'
  <2> SUFFICES ASSUME TypeOK, TypeOK', Exact, Below, [Next]_vars, [Agree]_vars
               PROVE  Exact' /\ Below'
    OBVIOUS
  <2>1. \A n \in Nodes : /\ node[n].active \in Nat /\ node'[n].active \in Nat
                         /\ LiveOn(n) \in Nat /\ LiveOn(n)' \in Nat
    <3>1. Numbers
      BY NumbersAlways
    <3>2. Numbers'
      BY NumbersAlways, PTL
    <3> QED
      BY <3>1, <3>2 DEF Numbers
  <2>2. CASE NodeNext
    <3>1. \A n \in Nodes : node'[n].active = node[n].active
      BY <2>2, NodeStep DEF vars
    <3>2. \A n \in Nodes : LiveOn(n)' = LiveOn(n)
      BY <2>2, NodeStep DEF LiveOn, Rows
    <3> QED
      BY <3>1, <3>2 DEF Exact
  <2>3. CASE ~NodeNext
    <3>1. Balanced
      <4>1. CASE UNCHANGED vars
        BY <4>1, StillCount DEF vars, tables
      <4>2. CASE Next
        BY <2>3, <4>2, StillCount, ConnCount, EdgeCount, ManualCount, SweepCount
        DEF Next, BindDeadline, Interrupted, tables
      <4> QED
        BY <4>1, <4>2
    <3>2. Exact'
      BY <2>1, <3>1 DEF Exact, Balanced, Monus
    <3>3. Below'
      BY <2>1, <2>3, StepCharges, ConstantsAssumption DEF Charges, Schedulable
    <3> QED
      BY <3>2, <3>3
  <2> QED
    BY <2>2, <2>3
<1>3. Exact /\ Below => WithinThreshold
  BY DEF Exact, WithinThreshold
<1> QED
  BY <1>1, <1>2, <1>3, TypeCorrect, PTL DEF Spec, ReportsAgree

-----------------------------------------------------------------------------
(* Attempts                                                                  *)

\* What a sweep has listed for a retry is the highest attempt of its
\* connection, until it is retried.
ListedIsHighest ==
    sweep.phase = "retries" =>
        \A m \in sweep.work : \A l \in RowsOf(alloc[m].conn) :
            mig[l].attempt <= mig[m].attempt

\* A row is added with attempt 0 or 1, or as the retry of a listed one.
FirstOrRetry ==
    \/ mig'[last + 1].attempt \in {0, 1}
    \/ /\ sweep.phase = "retries"
       /\ \E m \in sweep.work :
             /\ alloc'[last + 1].conn = alloc[m].conn
             /\ mig'[last + 1].attempt = mig[m].attempt + 1

LEMMA AddedAttempt ==
    ASSUME IInv, [Next]_vars, last' # last
    PROVE  FirstOrRetry
<1>1. TypeOK /\ sweep.work \subseteq Rows
  BY DEF IInv, TypeOK
<1>2. ASSUME NEW c \in Conns, NEW n \in Nodes, Schedule(c, n)
      PROVE  FirstOrRetry
  BY <1>1, <1>2, InsertRow DEF Schedule, NoMigration, FirstOrRetry
<1>3. ASSUME NEW a \in Rows, NEW n \in Nodes, NEW reason,
             PlanMigration(a, n, reason)
      PROVE  FirstOrRetry
  BY <1>1, <1>3, InsertRow DEF PlanMigration, NewMigration, FirstOrRetry
<1>4. ASSUME NEW m \in sweep.work, NEW n \in Nodes, PlanMigrationRetry(m, n)
      PROVE  FirstOrRetry
  BY <1>1, <1>4, InsertRow
  DEF PlanMigrationRetry, At, NewMigration, FirstOrRetry
<1>5. CASE ConnNext
  BY <1>2, <1>5
  DEF ConnNext, DirectPathsExhausted, ScheduleUnavailable, BindRelay,
      ClientClose, EndConnection, RevokeRelay, tables
<1>6. CASE ManualNext
  <2>1. ASSUME NEW c \in Conns, NEW n \in Nodes, PlanManual(c, n)
        PROVE  FirstOrRetry
    <3>1. manual[c][2] \in Rows
      BY <1>1, <2>1 DEF TypeOK, PlanManual, ManualSteps
    <3> QED
      BY <1>3, <2>1, <3>1 DEF PlanManual
  <2> QED
    BY <1>6, <2>1
    DEF ManualNext, RequestManual, ReadManual, RefuseManual, DispatchManual,
        MarkManual, tables
<1>7. CASE SweepNext
  <2>1. ASSUME NEW m \in sweep.work,
               NEW r \in {"RELAY_UNHEALTHY", "RELAY_DRAIN"}, NEW n \in Nodes,
               PlanSweep(m, n, r)
        PROVE  FirstOrRetry
    BY <1>1, <1>3, <2>1 DEF PlanSweep
  <2> QED
    BY <1>4, <1>7, <2>1
    DEF SweepNext, NextPhase, FailMigrationAttempt, RetryHasNoTarget,
        RetryRowMissing, Dispatch, PlanSkipped, PlanHasNoTarget,
        PlanRowMissing, MarkSwept, FailAllocation, FailConnectionAllocations,
        RelayMigrationFailed, tables
<1> QED
  BY <1>5, <1>6, <1>7
  DEF Next, NodeNext, MarkConnecting, Heartbeat, ExpireNode, Drain, Resume,
      Revoke, NodeEvent, EdgeNext, AllocationOpened, MigrationForNewAllocation,
      RelayBound, CompleteMigration, AllocationClosed, BindDeadline,
      Interrupted, tables, vars

\* Attempts are numbers, and stay what they are.
Attempts == \A m \in Rows : mig[m].attempt \in 0..MaxAttempts
LEMMA AttemptsAlways == TypeOK => Attempts
  BY DEF TypeOK, MigRecord, Attempts

\* A step keeps the order of attempts.
LEMMA RetryStep ==
    ASSUME IInv, TypeOK', RetriedOnce, ListedIsHighest, [Next]_vars
    PROVE  RetriedOnce' /\ ListedIsHighest'
<1>1. TypeOK /\ last \in Nat
  BY ConstantsAssumption DEF IInv, TypeOK
<1>2. /\ Attempts /\ Attempts' /\ MaxAttempts \in Nat
  <2>1. Attempts'
    BY AttemptsAlways, PTL
  <2> QED
    BY <1>1, <2>1, AttemptsAlways, ConstantsAssumption
<1>3. CASE StepKept
  <2>1. /\ Rows' = Rows
        /\ \A a \in Rows : /\ alloc'[a].conn = alloc[a].conn
                           /\ mig'[a].attempt = mig[a].attempt
        /\ \A c : RowsOf(c)' = RowsOf(c)
    BY <1>3 DEF StepKept, RowsKept, MigrationsKept, Rows, RowsOf
  <2>2. RetriedOnce'
    BY <2>1 DEF RetriedOnce, RowsOf
  <2>3. ListedIsHighest'
    <3> SUFFICES ASSUME sweep'.phase = "retries", NEW m \in sweep'.work,
                        NEW l \in RowsOf(alloc[m].conn)'
                 PROVE  mig'[l].attempt <= mig'[m].attempt
      BY DEF ListedIsHighest
    <3>1. m \in Rows /\ l \in RowsOf(alloc[m].conn) /\ l \in Rows
      BY <2>1 DEF TypeOK, RowsOf
    <3>2. CASE sweep.phase = "retries" /\ m \in sweep.work
      BY <2>1, <3>1, <3>2 DEF ListedIsHighest
    <3>3. CASE m \in Retryable
      BY <2>1, <3>1, <3>3 DEF Retryable
    <3> QED
      BY <1>3, <3>2, <3>3 DEF StepKept, RetriesKept
  <2> QED
    BY <2>2, <2>3
<1>4. ASSUME NEW c \in Conns, RowAdded(c)
      PROVE  RetriedOnce' /\ ListedIsHighest'
  <2>1. /\ Rows' = Rows \cup {last + 1} /\ last + 1 \notin Rows
        /\ \A a \in Rows : /\ alloc'[a].conn = alloc[a].conn
                           /\ mig'[a].attempt = mig[a].attempt
                           /\ a < last + 1 /\ a \in Nat
        /\ alloc'[last + 1].conn = c
        /\ \A d : RowsOf(d)' = RowsOf(d) \cup (IF d = c THEN {last + 1} ELSE {})
    BY <1>1, <1>4 DEF RowAdded, RowsKept, Rows, RowsOf
  <2>2. mig'[last + 1].attempt > 1 =>
            \A a \in RowsOf(c) : mig[a].attempt < mig'[last + 1].attempt
    <3>1. FirstOrRetry
      BY <1>1, <1>4, AddedAttempt DEF RowAdded
    <3>2. sweep.work \subseteq Rows
      BY <1>1 DEF TypeOK
    <3> QED
      BY <1>2, <2>1, <3>1, <3>2 DEF FirstOrRetry, ListedIsHighest, Attempts, RowsOf
  <2>3. RetriedOnce'
    <3> SUFFICES ASSUME NEW b \in Rows', mig'[b].attempt > 1,
                        NEW a \in RowsOf(alloc[b].conn)', a < b
                 PROVE  mig'[a].attempt < mig'[b].attempt
      BY DEF RetriedOnce
    <3>1. CASE b \in Rows
      <4>1. a \in RowsOf(alloc[b].conn)
        BY <1>1, <2>1, <3>1 
      <4> QED
        BY <2>1, <3>1, <4>1 DEF RetriedOnce, RowsOf
    <3>2. CASE b = last + 1
      <4>1. a \in RowsOf(c)
        BY <1>1, <2>1, <3>2
      <4> QED
        BY <2>1, <2>2, <3>2, <4>1 DEF RowsOf
    <3> QED
      BY <2>1, <3>1, <3>2
  <2>4. ListedIsHighest'
    <3> SUFFICES ASSUME sweep'.phase = "retries", NEW m \in sweep'.work,
                        NEW l \in RowsOf(alloc[m].conn)'
                 PROVE  mig'[l].attempt <= mig'[m].attempt
      BY DEF ListedIsHighest
    <3>1. /\ sweep.phase = "retries" /\ m \in sweep.work /\ m \in Rows
          /\ alloc[m].conn # c
      BY <1>1, <1>4 DEF RowAdded, TypeOK
    <3>2. l \in RowsOf(alloc[m].conn) /\ l \in Rows
      BY <2>1, <3>1 DEF RowsOf
    <3> QED
      BY <2>1, <3>1, <3>2 DEF ListedIsHighest
  <2> QED
    BY <2>3, <2>4
<1> QED
  BY <1>3, <1>4, StepShape

\* Whatever happens to the chains of a connection, a failed attempt is never
\* retried twice: an administrator's migration, or a new failure of a node,
\* between two sweeps starts no second line of attempts.
THEOREM RetriedOnceAlways == Spec => []RetriedOnce
<1>1. Init => RetriedOnce /\ ListedIsHighest
  BY DEF Init, Rows, Idle, RetriedOnce, ListedIsHighest
<1>2. IInv /\ TypeOK' /\ RetriedOnce /\ ListedIsHighest /\ [Next]_vars
          => RetriedOnce' /\ ListedIsHighest'
  BY RetryStep
<1> QED
  BY <1>1, <1>2, TypeCorrect, Invariant, PTL DEF Spec

\* The retries of a connection, over all its migrations.
Retries(c) == {m \in RowsOf(c) : mig[m].attempt > 1}
RetriesBounded == \A c \in Conns : Cardinality(Retries(c)) <= MaxAttempts - 1

\* So migration_max_attempts bounds the retries of a connection over its whole
\* life, not those of one fail-over: RetryableFailedMigrations compares the
\* attempts of all migrations of the connection.
THEOREM RetriesBoundedAlways == Spec => []RetriesBounded
<1>1. TypeOK /\ RetriedOnce => RetriesBounded
  <2> SUFFICES ASSUME TypeOK, RetriedOnce, NEW c \in Conns
               PROVE  Cardinality(Retries(c)) <= MaxAttempts - 1
    BY DEF RetriesBounded
  <2> DEFINE number == [m \in Retries(c) |-> mig[m].attempt]
  <2>1. MaxAttempts \in Nat \ {0} /\ last \in Nat
    BY ConstantsAssumption DEF TypeOK
  <2>2. \A m \in Retries(c) : /\ m \in Rows /\ m \in Nat
                              /\ m \in RowsOf(c) /\ alloc[m].conn = c
                              /\ mig[m].attempt \in 2..MaxAttempts
    BY <2>1, AttemptsAlways DEF Retries, RowsOf, Rows, Attempts
  <2>3. number \in Injection(Retries(c), 2..MaxAttempts)
    <3>1. number \in [Retries(c) -> 2..MaxAttempts]
      BY <2>2
    <3>2. ASSUME NEW a \in Retries(c), NEW b \in Retries(c),
                 mig[a].attempt = mig[b].attempt
          PROVE  a = b
      <4>1. ~(a < b) /\ ~(b < a)
        BY <2>1, <2>2, <3>2 DEF RetriedOnce
      <4> QED
        BY <2>2, <4>1
    <3> QED
      BY <3>1, <3>2 DEF Injection, IsInjective
  <2>4. IsFiniteSet(2..MaxAttempts) /\ Cardinality(2..MaxAttempts) = MaxAttempts - 1
    BY <2>1, FS_Interval
  <2> QED
    BY <2>3, <2>4, FS_Injection
<1> QED
  BY <1>1, TypeCorrect, RetriedOnceAlways, PTL

=============================================================================
