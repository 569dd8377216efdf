------------------------ MODULE RelayRelease_proofs ------------------------
(***************************************************************************)
(* That ended connections give their relays back, for every number of      *)
(* nodes, connections, attempts and allocations.                           *)
(*                                                                         *)
(* Neither PlanMigration nor PlanMigrationRetry looks at the connection,   *)
(* so a migration may create an allocation for a connection that has ended *)
(* and whose RevokeRelay has run.  No edge reports such an allocation,     *)
(* because its tokens are sent to open connections only, and so nothing    *)
(* completes its migration: the bind deadline takes both away.             *)
(***************************************************************************)
EXTENDS RelayMigration_proofs

\* An edge reports only allocations whose tokens were published.
OpenedWasOffered ==
    \A a \in AllocIds : opening[a] # "idle" => a \in Rows /\ alloc[a].offered

\* A step the sweeper owes is about a row.
OwedHasSubject == sweep.step # "next" => sweep.subject \in Rows

\* The connection a sweep is about to fail has nothing left.
FailingHoldsNothing ==
    sweep.step = "fail_connection" => LiveOf(alloc[sweep.subject].conn) = {}

\* Once RevokeRelay has run for an ended connection, what a migration holds
\* for it waits for a bind that never comes.
Unclaimed(a) == \/ mig[a].state = "NONE"
                \/ mig[a].state = "BINDING" /\ ~alloc[a].offered
Relinquished(c) == conn[c] \in Terminal /\ c \notin revoking
EndedUnclaimed ==
    spent.interrupts = 0 =>
        \A c \in Conns : Relinquished(c) => \A a \in LiveOf(c) : Unclaimed(a)

RInv ==
    /\ OpenedWasOffered
    /\ OwedHasSubject
    /\ FailingHoldsNothing
    /\ EndedUnclaimed

-----------------------------------------------------------------------------
(* What a step does to rows, handlers and the sweeper                        *)

RowMovesOn(a) ==
    /\ alloc'[a].conn = alloc[a].conn
    /\ alloc'[a].state \in Live => alloc[a].state \in Live
    /\ alloc[a].offered => alloc'[a].offered
    /\ alloc'[a].offered => \/ alloc[a].offered
                            \/ mig[a].state = "NONE"
                            \/ conn[alloc[a].conn] \notin Terminal
    /\ \/ mig'[a].state = mig[a].state
       \/ alloc'[a].state \notin Live
       \/ mig[a].state = "BINDING" /\ alloc[a].offered

RowsMoveOn == \A a \in Rows : RowMovesOn(a)

RowAppears ==
    /\ last' = last + 1
    /\ mig'[last + 1].state \in {"NONE", "BINDING"}
    /\ ~alloc'[last + 1].offered
    /\ \/ sweep.step = "next"
       \/ RowsOf(alloc'[last + 1].conn) = {}
       \/ CurrentOf(alloc'[last + 1].conn) # {}

NothingLeft(c) ==
    last' = last /\ \A a \in RowsOf(c) : alloc'[a].state \notin Live

SweepMovesOn ==
    \/ sweep'.step = "next"
    \/ sweep'.step = sweep.step /\ sweep'.subject = sweep.subject
    \/ /\ sweep'.subject \in Rows
       /\ sweep'.step = "fail_connection" =>
              NothingLeft(alloc[sweep'.subject].conn)

ConnsMoveOn ==
    \A c \in Conns : Relinquished(c)' /\ spent'.interrupts = 0 =>
        Relinquished(c) \/ NothingLeft(c)

EdgesMoveOn ==
    \A a \in AllocIds : opening'[a] # "idle" =>
        opening[a] # "idle" \/ (a \in Rows /\ alloc[a].offered)

MovesOn ==
    /\ last' = last \/ RowAppears
    /\ RowsMoveOn
    /\ SweepMovesOn
    /\ ConnsMoveOn
    /\ EdgesMoveOn
    /\ spent'.interrupts = 0 => spent.interrupts = 0

\* A step that moves on keeps the invariant.
LEMMA MovesOnInv ==
    ASSUME IInv, TypeOK', RInv, MovesOn
    PROVE  RInv'
<1>1. last \in Nat /\ TypeOK
  BY ConstantsAssumption DEF IInv, TypeOK
<1>2. /\ Rows \subseteq Rows'
      /\ last' = last => Rows' = Rows
      /\ last' = last + 1 => Rows' = Rows \cup {last + 1}
  BY <1>1 DEF Rows, MovesOn, RowAppears
<1>3. \A a \in Rows : RowMovesOn(a)
  BY DEF MovesOn, RowsMoveOn
<1>4. OpenedWasOffered'
  BY <1>2, <1>3
  DEF OpenedWasOffered, RInv, MovesOn, EdgesMoveOn, RowMovesOn, AllocIds
<1>5. OwedHasSubject'
  BY <1>2 DEF OwedHasSubject, RInv, MovesOn, SweepMovesOn
<1>6. FailingHoldsNothing'
  <2> SUFFICES ASSUME sweep'.step = "fail_connection",
                      NEW b \in Rows',
                      alloc'[b].conn = alloc'[sweep'.subject].conn,
                      alloc'[b].state \in Live
               PROVE  FALSE
    BY DEF FailingHoldsNothing, LiveOf, RowsOf
  <2>1. CASE /\ sweep.step = "fail_connection"
             /\ sweep'.subject = sweep.subject
    <3> DEFINE s == sweep.subject
    <3>1. s \in Rows /\ alloc'[s].conn = alloc[s].conn
      BY <1>3, <2>1 DEF RInv, OwedHasSubject, RowMovesOn
    <3>2. \A a \in Rows : alloc[a].conn = alloc[s].conn =>
                              alloc[a].state \notin Live
      BY <2>1 DEF RInv, FailingHoldsNothing, LiveOf, RowsOf
    <3>3. b \notin Rows
      BY <1>3, <2>1, <3>1, <3>2 DEF RowMovesOn
    <3>4. RowAppears /\ b = last + 1
      BY <1>2, <3>3 DEF MovesOn, RowAppears
    <3>5. RowsOf(alloc[s].conn) = {} \/ CurrentOf(alloc[s].conn) # {}
      BY <2>1, <3>1, <3>4 DEF RowAppears
    <3> QED
      BY <3>1, <3>2, <3>5 DEF RowsOf, CurrentOf, Live
  <2>2. CASE /\ sweep'.subject \in Rows
             /\ NothingLeft(alloc[sweep'.subject].conn)
    BY <1>2, <1>3, <2>2 DEF NothingLeft, RowsOf, RowMovesOn
  <2> QED
    BY <2>1, <2>2 DEF MovesOn, SweepMovesOn
<1>7. EndedUnclaimed'
  <2> SUFFICES ASSUME spent'.interrupts = 0, NEW c \in Conns, Relinquished(c)',
                      NEW a \in Rows', alloc'[a].conn = c,
                      alloc'[a].state \in Live
               PROVE  Unclaimed(a)'
    BY DEF EndedUnclaimed, LiveOf, RowsOf
  <2>1. CASE a \notin Rows
    <3>1. RowAppears /\ a = last + 1
      BY <1>2, <2>1 DEF MovesOn, RowAppears
    <3> QED
      BY <3>1 DEF RowAppears, Unclaimed
  <2>2. CASE a \in Rows
    <3>1. alloc[a].conn = c /\ alloc[a].state \in Live
      BY <1>3, <2>2 DEF RowMovesOn
    <3>2. CASE NothingLeft(c)
      BY <2>2, <3>1, <3>2 DEF NothingLeft, RowsOf
    <3>3. CASE Relinquished(c)
      <4>1. Unclaimed(a)
        BY <2>2, <3>1, <3>3 DEF RInv, EndedUnclaimed, MovesOn, LiveOf, RowsOf
      <4> QED
        BY <1>3, <2>2, <3>1, <3>3, <4>1 DEF RowMovesOn, Unclaimed, Relinquished
    <3> QED
      BY <3>2, <3>3 DEF MovesOn, ConnsMoveOn
  <2> QED
    BY <2>1, <2>2
<1> QED
  BY <1>4, <1>5, <1>6, <1>7 DEF RInv

-----------------------------------------------------------------------------
(* Every step moves on                                                       *)

\* What is left alone moves on.
LEMMA Still ==
    /\ UNCHANGED <<alloc, mig>> => RowsMoveOn
    /\ UNCHANGED sweep => SweepMovesOn
    /\ UNCHANGED <<conn, revoking>> => ConnsMoveOn
    /\ UNCHANGED opening => EdgesMoveOn
BY DEF RowsMoveOn, RowMovesOn, SweepMovesOn, ConnsMoveOn, Relinquished,
       EdgesMoveOn

\* Rows that only leave the live states move on.
LEMMA GoneMovesOn ==
    ASSUME TypeOK, NEW gone, NEW s \in Dead, alloc' = Moved(gone, s),
           \A a \in Rows : \/ mig'[a].state = mig[a].state
                           \/ alloc'[a].state \notin Live
                           \/ mig[a].state = "BINDING" /\ alloc[a].offered
    PROVE  /\ RowsMoveOn
           /\ \A a \in Rows : a \in gone => alloc'[a].state \notin Live
<1>1. \A a \in Rows : /\ alloc[a] \in AllocRecord
                      /\ alloc'[a] = IF a \in gone
                                       THEN [alloc[a] EXCEPT !.state = s]
                                       ELSE alloc[a]
  BY DEF TypeOK, Moved
<1>2. s \notin Live
  BY DEF Dead, Live, Current
<1>3. \A a \in Rows : /\ alloc'[a].conn = alloc[a].conn
                      /\ alloc'[a].offered = alloc[a].offered
                      /\ alloc'[a].state = IF a \in gone THEN s
                                                         ELSE alloc[a].state
  BY <1>1 DEF AllocRecord
<1> QED
  BY <1>2, <1>3 DEF RowsMoveOn, RowMovesOn

\* A row is inserted for c, offered to nobody yet.
LEMMA Inserted ==
    ASSUME TypeOK, NEW rows, NEW c, NEW n, NEW row, Insert(rows, c, n, row)
    PROVE  /\ last' = last + 1
           /\ \A a \in Rows : alloc'[a] = rows[a] /\ mig'[a] = mig[a]
           /\ alloc'[last + 1].conn = c /\ ~alloc'[last + 1].offered
           /\ mig'[last + 1] = row
<1>1. last \in Nat
  BY ConstantsAssumption DEF TypeOK
<1>2. last + 1 \in 1..(last + 1)
  BY <1>1
<1>3. alloc'[last + 1] = [conn |-> c, node |-> n, state |-> "ALLOCATED",
                          offered |-> FALSE]
  BY <1>2 DEF Insert
<1> QED
  BY <1>3, InsertRow

\* A step of the connection handlers moves on.
LEMMA ConnMovesOn ==
    ASSUME IInv, RInv, ConnNext
    PROVE  MovesOn
<1>1. PICK c \in Conns :
          \/ DirectPathsExhausted(c)
          \/ \E n \in Nodes : Schedule(c, n)
          \/ ScheduleUnavailable(c)
          \/ BindRelay(c)
          \/ ClientClose(c)
          \/ \E s \in {"CLOSED", "EXPIRED"} : EndConnection(c, s)
          \/ RevokeRelay(c)
  BY DEF ConnNext
<1>2. TypeOK
  BY DEF IInv
<1>3. CASE DirectPathsExhausted(c)
  <2>1. ConnsMoveOn
    BY <1>2, <1>3
    DEF DirectPathsExhausted, TypeOK, ConnsMoveOn, Relinquished, Terminal
  <2> QED
    BY <1>3, <2>1, Still DEF DirectPathsExhausted, MovesOn
<1>4. ASSUME NEW n \in Nodes, Schedule(c, n) PROVE MovesOn
  <2>1. /\ last' = last + 1
        /\ \A a \in Rows : alloc'[a] = alloc[a] /\ mig'[a] = mig[a]
        /\ alloc'[last + 1].conn = c /\ ~alloc'[last + 1].offered
        /\ mig'[last + 1] = NoMigration
    BY <1>2, <1>4, Inserted DEF Schedule
  <2>2. RowsOf(c) = {}
    BY <1>4 DEF IInv, ScheduledOnce, Schedule
  <2>3. RowAppears
    BY <2>1, <2>2 DEF RowAppears, NoMigration
  <2>4. RowsMoveOn
    BY <2>1 DEF RowsMoveOn, RowMovesOn
  <2> QED
    BY <1>4, <2>3, <2>4, Still DEF Schedule, MovesOn
<1>5. CASE ScheduleUnavailable(c)
  BY <1>5, Still DEF ScheduleUnavailable, tables, MovesOn
<1>6. CASE BindRelay(c)
  <2>1. \A a \in Rows : alloc[a] \in AllocRecord
    BY <1>2 DEF TypeOK
  <2>2. RowsMoveOn
    BY <1>6, <2>1 DEF BindRelay, RowsMoveOn, RowMovesOn, AllocRecord
  <2>3. ConnsMoveOn
    BY <1>2, <1>6
    DEF BindRelay, TypeOK, ConnsMoveOn, Relinquished, Terminal
  <2> QED
    BY <1>6, <2>2, <2>3, Still DEF BindRelay, MovesOn
<1>7. CASE ClientClose(c)
  <2>1. ConnsMoveOn
    BY <1>2, <1>7 DEF ClientClose, TypeOK, ConnsMoveOn, Relinquished
  <2> QED
    BY <1>7, <2>1, Still DEF ClientClose, MovesOn
<1>8. CASE \E s \in {"CLOSED", "EXPIRED"} : EndConnection(c, s)
  <2>1. ConnsMoveOn
    BY <1>2, <1>8 DEF EndConnection, TypeOK, ConnsMoveOn, Relinquished
  <2> QED
    BY <1>8, <2>1, Still DEF EndConnection, MovesOn
<1>9. CASE RevokeRelay(c)
  <2>1. /\ RowsMoveOn
        /\ \A a \in Rows : a \in LiveOf(c) => alloc'[a].state \notin Live
    BY <1>2, <1>9, GoneMovesOn DEF RevokeRelay, Dead
  <2>2. NothingLeft(c)
    BY <1>9, <2>1
    DEF RevokeRelay, NothingLeft, RowsMoveOn, RowMovesOn, LiveOf, RowsOf
  <2>3. ConnsMoveOn
    BY <1>9, <2>2 DEF RevokeRelay, ConnsMoveOn, Relinquished
  <2> QED
    BY <1>9, <2>1, <2>3, Still DEF RevokeRelay, MovesOn
<1> QED
  BY <1>1, <1>3, <1>4, <1>5, <1>6, <1>7, <1>8, <1>9

\* A step of an edge report moves on: only what was offered is completed.
LEMMA EdgeMovesOn ==
    ASSUME TypeOK, RInv, EdgeNext
    PROVE  MovesOn
<1>1. PICK a \in Rows :
          \/ AllocationOpened(a)
          \/ MigrationForNewAllocation(a)
          \/ \E e \in RoomAnswers : RelayBound(a, e)
          \/ CompleteMigration(a)
          \/ AllocationClosed(a)
  BY DEF EdgeNext
<1>2. /\ a \in AllocIds /\ alloc[a] \in AllocRecord
      /\ opening[a] # "idle" => alloc[a].offered
  <2>1. a \in AllocIds
    BY ConstantsAssumption DEF TypeOK, Rows, AllocIds
  <2>2. alloc[a] \in AllocRecord
    BY DEF TypeOK
  <2> QED BY <2>1, <2>2 DEF RInv, OpenedWasOffered
<1>3. EdgesMoveOn
  BY <1>1, <1>2
  DEF AllocationOpened, MigrationForNewAllocation, RelayBound,
      CompleteMigration, AllocationClosed, workers, TypeOK, EdgesMoveOn
<1>4. CASE AllocationOpened(a)
  <2>1. RowsMoveOn
    BY <1>2, <1>4
    DEF AllocationOpened, Openable, TypeOK, AllocRecord, RowsMoveOn,
        RowMovesOn, Live, Current
  <2> QED
    BY <1>3, <1>4, <2>1, Still DEF AllocationOpened, MovesOn
<1>5. CASE MigrationForNewAllocation(a)
  BY <1>3, <1>5, Still DEF MigrationForNewAllocation, tables, MovesOn
<1>6. CASE \E e \in RoomAnswers : RelayBound(a, e)
  <2>1. ConnsMoveOn
    BY <1>6 DEF RelayBound, TypeOK, ConnsMoveOn, Relinquished, Terminal
  <2> QED
    BY <1>3, <1>6, <2>1, Still DEF RelayBound, MovesOn
<1>7. CASE CompleteMigration(a)
  <2>1. CASE mig[a].state = "BINDING"
    <3>1. alloc[a].offered
      BY <1>2, <1>7 DEF CompleteMigration
    <3>2. mig' = Resolved(a, "COMPLETED")
      BY <1>7, <2>1 DEF CompleteMigration
    <3>3. \A b \in Rows : b # a => mig'[b] = mig[b]
      BY <3>2 DEF Resolved, TypeOK
    <3>4. RowsMoveOn
      BY <1>7, <2>1, <3>1, <3>3, GoneMovesOn DEF CompleteMigration, Dead
    <3> QED
      BY <1>3, <1>7, <3>4, Still DEF CompleteMigration, MovesOn
  <2>2. CASE mig[a].state # "BINDING"
    BY <1>3, <1>7, <2>2, Still DEF CompleteMigration, MovesOn
  <2> QED
    BY <2>1, <2>2
<1>8. CASE AllocationClosed(a)
  <2>1. RowsMoveOn
    BY <1>8, GoneMovesOn DEF AllocationClosed, Dead
  <2> QED
    BY <1>3, <1>8, <2>1, Still DEF AllocationClosed, workers, MovesOn
<1> QED
  BY <1>1, <1>4, <1>5, <1>6, <1>7, <1>8

\* PlanMigration moves on: the connection it inserts for had a current row.
LEMMA PlanMovesOn ==
    ASSUME TypeOK, NEW a \in Rows, NEW n, NEW reason,
           PlanMigration(a, n, reason)
    PROVE  RowsMoveOn /\ RowAppears
<1> DEFINE s == IF reason \in KeepsOld THEN "MIGRATING" ELSE "FAILED"
<1>1. /\ last' = last + 1
      /\ \A b \in Rows : alloc'[b] = Moved({a}, s)[b] /\ mig'[b] = mig[b]
      /\ alloc'[last + 1].conn = alloc[a].conn /\ ~alloc'[last + 1].offered
      /\ mig'[last + 1] = NewMigration(1)
  BY Inserted DEF PlanMigration
<1>2. /\ \A b \in Rows : b # a => alloc'[b] = alloc[b]
      /\ alloc'[a].conn = alloc[a].conn
      /\ alloc'[a].offered = alloc[a].offered
  BY <1>1 DEF Moved, TypeOK, AllocRecord
<1>3. alloc[a].state \in Current /\ a \in CurrentOf(alloc[a].conn)
  BY DEF PlanMigration, Plannable, CurrentOf, RowsOf
<1>4. RowsMoveOn
  BY <1>1, <1>2, <1>3 DEF RowsMoveOn, RowMovesOn, Live
<1>5. RowAppears
  BY <1>1, <1>3 DEF RowAppears, NewMigration
<1> QED
  BY <1>4, <1>5

\* RelayMigrating offers a row of an open connection.
LEMMA DispatchMovesOn ==
    ASSUME TypeOK, NEW m \in Rows, RelayMigrating(m),
           UNCHANGED <<mig, revoking>>
    PROVE  RowsMoveOn /\ ConnsMoveOn
<1>1. alloc[m] \in AllocRecord
  BY DEF TypeOK
<1>2. \A a \in Rows : /\ alloc'[a].conn = alloc[a].conn
                      /\ alloc'[a].state = alloc[a].state
                      /\ alloc'[a].offered = (alloc[a].offered \/ a = m)
  BY <1>1 DEF RelayMigrating, TypeOK, AllocRecord
<1>3. conn[alloc[m].conn] \notin Terminal
  BY DEF RelayMigrating, CanDispatch, Terminal
<1>4. ConnsMoveOn
  BY DEF RelayMigrating, TypeOK, ConnsMoveOn, Relinquished, Terminal
<1> QED
  BY <1>2, <1>3, <1>4 DEF RowsMoveOn, RowMovesOn

\* MarkMigrationDispatched changes no state.
LEMMA MarkMovesOn ==
    ASSUME TypeOK, NEW m, MarkMigrationDispatched(m), UNCHANGED alloc
    PROVE  RowsMoveOn
<1>1. \A k \in Rows : mig'[k].state = mig[k].state
  BY DEF MarkMigrationDispatched, TypeOK, MigRecord
<1> QED
  BY <1>1 DEF RowsMoveOn, RowMovesOn

\* A step of an administrator's migration moves on.
LEMMA ManualMovesOn ==
    ASSUME TypeOK, ManualNext
    PROVE  MovesOn
<1>1. PICK c \in Conns :
          \/ RequestManual(c)
          \/ ReadManual(c)
          \/ \E n \in Nodes : PlanManual(c, n)
          \/ RefuseManual(c)
          \/ DispatchManual(c)
          \/ MarkManual(c)
  BY DEF ManualNext
<1>2. manual[c] \in ManualSteps
  BY DEF TypeOK
<1>3. CASE RequestManual(c)
  <2>1. spent'.interrupts = spent.interrupts
    BY <1>3 DEF RequestManual, TypeOK
  <2> QED
    BY <1>3, <2>1, Still DEF RequestManual, tables, MovesOn
<1>4. CASE ReadManual(c) \/ RefuseManual(c)
  BY <1>4, Still DEF ReadManual, RefuseManual, tables, MovesOn
<1>5. ASSUME NEW n \in Nodes, PlanManual(c, n) PROVE MovesOn
  <2>1. manual[c][2] \in Rows
    BY <1>2, <1>5 DEF PlanManual, ManualSteps
  <2>2. RowsMoveOn /\ RowAppears
    BY <1>5, <2>1, PlanMovesOn DEF PlanManual
  <2> QED
    BY <1>5, <2>2, Still DEF PlanManual, MovesOn
<1>6. CASE DispatchManual(c)
  <2>1. manual[c][2] \in Rows
    BY <1>2, <1>6 DEF DispatchManual, ManualSteps
  <2>2. RowsMoveOn /\ ConnsMoveOn
    BY <1>6, <2>1, DispatchMovesOn, Still DEF DispatchManual
  <2> QED
    BY <1>6, <2>2, Still DEF DispatchManual, MovesOn
<1>7. CASE MarkManual(c)
  <2>1. RowsMoveOn
    BY <1>7, MarkMovesOn DEF MarkManual
  <2> QED
    BY <1>7, <2>1, Still DEF MarkManual, MovesOn
<1> QED
  BY <1>1, <1>3, <1>4, <1>5, <1>6, <1>7

\* How the sweeper's position moves on: only FailConnectionAllocations goes
\* on to failing the connection.
LEMMA PositionMovesOn ==
    ASSUME TypeOK, OwedHasSubject,
           \/ sweep' = Idle
           \/ sweep.step = "next" /\ \E m : Take(m)
           \/ \E m \in Rows, s \in Steps \ {"fail_connection"} : TakeThen(m, s)
           \/ sweep.step # "next" /\ Then("fail_allocations")
           \/ Done
    PROVE  SweepMovesOn
<1>1. sweep \in SweepType
  BY DEF TypeOK, SweepType
<1>2. CASE sweep' = Idle
  BY <1>2 DEF Idle, SweepMovesOn
<1>3. ASSUME NEW m, sweep.step = "next", Take(m) PROVE SweepMovesOn
  BY <1>1, <1>3 DEF Take, SweepType, SweepMovesOn
<1>4. ASSUME NEW m \in Rows, NEW s \in Steps \ {"fail_connection"},
             TakeThen(m, s)
      PROVE  SweepMovesOn
  BY <1>1, <1>4 DEF TakeThen, SweepType, SweepMovesOn
<1>5. CASE sweep.step # "next" /\ Then("fail_allocations")
  BY <1>1, <1>5 DEF OwedHasSubject, Then, SweepType, SweepMovesOn
<1>6. CASE Done
  BY <1>1, <1>6 DEF Done, SweepType, SweepMovesOn
<1> QED
  BY <1>2, <1>3, <1>4, <1>5, <1>6

\* A failed attempt has given its allocation back.
LEMMA FailAttemptMovesOn ==
    ASSUME TypeOK, OwedHasSubject, NEW m \in Rows, FailMigrationAttempt(m)
    PROVE  MovesOn
<1> DEFINE gone == IF alloc[m].state \in Live THEN {m} ELSE {}
<1>1. SweepMovesOn
  BY PositionMovesOn DEF FailMigrationAttempt, At, Steps
<1>2. RowsMoveOn
  <2>1. CASE mig[m].state = "BINDING"
    <3>1. alloc' = Moved(gone, "FAILED") /\ mig' = Resolved(m, "FAILED")
      BY <2>1 DEF FailMigrationAttempt
    <3>2. alloc'[m].state \notin Live
      BY <3>1 DEF Moved, TypeOK, AllocRecord, Live, Current
    <3>3. \A k \in Rows : k # m => mig'[k] = mig[k]
      BY <3>1 DEF Resolved, TypeOK
    <3> QED
      BY <3>1, <3>2, <3>3, GoneMovesOn DEF Dead
  <2>2. CASE mig[m].state # "BINDING"
    BY <2>2, Still DEF FailMigrationAttempt
  <2> QED
    BY <2>1, <2>2
<1> QED
  BY <1>1, <1>2, Still DEF FailMigrationAttempt, SweepStill, MovesOn

\* Giving up on an element of a list moves on.
LEMMA MoveOnMovesOn ==
    ASSUME TypeOK, OwedHasSubject, NEW m \in Rows, NEW reason,
           \/ RetryHasNoTarget(m)  \/ RetryRowMissing(m)
           \/ PlanSkipped(m, reason)  \/ PlanHasNoTarget(m, reason)
           \/ PlanRowMissing(m, reason)
    PROVE  MovesOn
<1>1. /\ UNCHANGED <<conn, last, alloc, mig>> /\ SweepStill
      /\ \/ sweep' = Idle
         \/ sweep.step = "next" /\ Take(m)
         \/ \E s \in Steps \ {"fail_connection"} : TakeThen(m, s)
  BY DEF RetryHasNoTarget, RetryRowMissing, PlanSkipped, PlanHasNoTarget,
         PlanRowMissing, Planning, At, tables, Steps
<1>2. SweepMovesOn
  BY <1>1, PositionMovesOn
<1> QED
  BY <1>1, <1>2, Still DEF SweepStill, MovesOn

\* The steps the sweeper owes move on: the connection is failed only after
\* all it held.
LEMMA OwedMovesOn ==
    ASSUME TypeOK, RInv,
           \/ MarkSwept  \/ FailAllocation  \/ FailConnectionAllocations
           \/ RelayMigrationFailed
    PROVE  MovesOn
<1>1. OwedHasSubject /\ FailingHoldsNothing
  BY DEF RInv
<1>2. CASE MarkSwept
  <2>1. RowsMoveOn
    BY <1>2, MarkMovesOn DEF MarkSwept
  <2>2. SweepMovesOn
    BY <1>1, <1>2, PositionMovesOn DEF MarkSwept
  <2> QED
    BY <1>2, <2>1, <2>2, Still DEF MarkSwept, SweepStill, MovesOn
<1>3. CASE FailAllocation
  <2>1. RowsMoveOn
    BY <1>3, GoneMovesOn DEF FailAllocation, Dead
  <2>2. SweepMovesOn
    BY <1>1, <1>3, PositionMovesOn DEF FailAllocation
  <2> QED
    BY <1>3, <2>1, <2>2, Still DEF FailAllocation, SweepStill, MovesOn
<1>4. CASE FailConnectionAllocations
  <2> DEFINE c == alloc[sweep.subject].conn
  <2>1. /\ RowsMoveOn
        /\ \A a \in Rows : a \in LiveOf(c) => alloc'[a].state \notin Live
    BY <1>4, GoneMovesOn DEF FailConnectionAllocations, Dead
  <2>2. NothingLeft(c)
    BY <1>4, <2>1
    DEF FailConnectionAllocations, NothingLeft, RowsMoveOn, RowMovesOn,
        LiveOf, RowsOf
  <2>3. sweep.subject \in Rows /\ sweep'.subject = sweep.subject
    BY <1>1, <1>4
    DEF OwedHasSubject, FailConnectionAllocations, Then, TypeOK
  <2>4. SweepMovesOn
    BY <2>2, <2>3 DEF SweepMovesOn
  <2> QED
    BY <1>4, <2>1, <2>4, Still
    DEF FailConnectionAllocations, SweepStill, MovesOn
<1>5. CASE RelayMigrationFailed
  <2> DEFINE c == alloc[sweep.subject].conn
  <2>1. NothingLeft(c)
    BY <1>1, <1>5
    DEF FailingHoldsNothing, RelayMigrationFailed, NothingLeft, LiveOf, RowsOf
  <2>2. ConnsMoveOn
    BY <1>5, <2>1
    DEF RelayMigrationFailed, SweepStill, TypeOK, ConnsMoveOn, Relinquished
  <2>3. SweepMovesOn
    BY <1>1, <1>5, PositionMovesOn DEF RelayMigrationFailed
  <2> QED
    BY <1>5, <2>2, <2>3, Still DEF RelayMigrationFailed, SweepStill, MovesOn
<1> QED
  BY <1>2, <1>3, <1>4, <1>5

\* A step of the sweeper moves on.
LEMMA SweeperMovesOn ==
    ASSUME TypeOK, RInv, SweepNext
    PROVE  MovesOn
<1>1. sweep.work \subseteq Rows /\ OwedHasSubject
  BY DEF TypeOK, RInv
<1>2. CASE NextPhase
  <2>1. sweep'.step = "next"
    BY <1>2 DEF NextPhase, Enter, Idle
  <2> QED
    BY <1>2, <2>1, Still
    DEF NextPhase, SweepStill, tables, SweepMovesOn, MovesOn
<1>3. ASSUME NEW m \in sweep.work, FailMigrationAttempt(m) PROVE MovesOn
  BY <1>1, <1>3, FailAttemptMovesOn
<1>4. ASSUME NEW m \in sweep.work, NEW n \in Nodes, PlanMigrationRetry(m, n)
      PROVE  MovesOn
  <2>1. /\ last' = last + 1
        /\ \A a \in Rows : alloc'[a] = alloc[a] /\ mig'[a] = mig[a]
        /\ ~alloc'[last + 1].offered
        /\ mig'[last + 1] = NewMigration(mig[m].attempt + 1)
    BY <1>4, Inserted DEF PlanMigrationRetry
  <2>2. RowsMoveOn
    BY <2>1 DEF RowsMoveOn, RowMovesOn
  <2>3. RowAppears
    BY <1>4, <2>1 DEF RowAppears, NewMigration, PlanMigrationRetry, At
  <2>4. SweepMovesOn
    BY <1>1, <1>4, PositionMovesOn DEF PlanMigrationRetry, At
  <2> QED
    BY <1>4, <2>2, <2>3, <2>4, Still
    DEF PlanMigrationRetry, SweepStill, MovesOn
<1>5. ASSUME NEW m \in sweep.work, Dispatch(m) PROVE MovesOn
  <2>1. RowsMoveOn /\ ConnsMoveOn
    BY <1>1, <1>5, DispatchMovesOn, Still DEF Dispatch, SweepStill
  <2>2. SweepMovesOn
    BY <1>1, <1>5, PositionMovesOn DEF Dispatch, Steps
  <2> QED
    BY <1>5, <2>1, <2>2, Still DEF Dispatch, SweepStill, MovesOn
<1>6. ASSUME NEW m \in sweep.work,
             NEW r \in {"RELAY_UNHEALTHY", "RELAY_DRAIN"}, NEW n \in Nodes,
             PlanSweep(m, n, r)
      PROVE  MovesOn
  <2>1. RowsMoveOn /\ RowAppears
    BY <1>1, <1>6, PlanMovesOn DEF PlanSweep
  <2>2. SweepMovesOn
    BY <1>1, <1>6, PositionMovesOn DEF PlanSweep, Planning, At
  <2> QED
    BY <1>6, <2>1, <2>2, Still DEF PlanSweep, SweepStill, MovesOn
<1>7. ASSUME NEW m \in sweep.work, NEW r,
             \/ RetryHasNoTarget(m)  \/ RetryRowMissing(m)
             \/ PlanSkipped(m, r)  \/ PlanHasNoTarget(m, r)
             \/ PlanRowMissing(m, r)
      PROVE  MovesOn
  BY <1>1, <1>7, MoveOnMovesOn
<1>8. CASE \/ MarkSwept  \/ FailAllocation  \/ FailConnectionAllocations
           \/ RelayMigrationFailed
  BY <1>8, OwedMovesOn
<1> QED
  BY <1>2, <1>3, <1>4, <1>5, <1>6, <1>7, <1>8 DEF SweepNext

\* A node event, a deadline that passes and a lost handler move on.
LEMMA RestMovesOn ==
    ASSUME TypeOK, NodeNext \/ (\E m \in Rows : BindDeadline(m)) \/ Interrupted
    PROVE  MovesOn
<1>1. CASE NodeNext
  <2>1. /\ UNCHANGED <<tables, workers>>
        /\ spent'.interrupts = spent.interrupts
    BY <1>1
    DEF NodeNext, MarkConnecting, Heartbeat, ExpireNode, Drain, Resume,
        Revoke, NodeEvent, TypeOK
  <2> QED
    BY <2>1, Still DEF tables, workers, MovesOn
<1>2. ASSUME NEW m \in Rows, BindDeadline(m) PROVE MovesOn
  <2>1. \A k \in Rows : mig'[k].state = mig[k].state
    BY <1>2 DEF BindDeadline, TypeOK, MigRecord
  <2>2. RowsMoveOn
    BY <1>2, <2>1 DEF BindDeadline, RowsMoveOn, RowMovesOn
  <2> QED
    BY <1>2, <2>2, Still DEF BindDeadline, workers, MovesOn
<1>3. CASE Interrupted
  <2>1. spent'.interrupts # 0
    BY <1>3 DEF Interrupted, TypeOK
  <2>2. ConnsMoveOn
    BY <2>1 DEF ConnsMoveOn
  <2>3. EdgesMoveOn
    BY <1>3, Still DEF Interrupted, EdgesMoveOn, TypeOK
  <2>4. SweepMovesOn
    BY <1>3, Still DEF Interrupted, Idle, SweepMovesOn
  <2> QED
    BY <1>3, <2>1, <2>2, <2>3, <2>4, Still DEF Interrupted, tables, MovesOn
<1> QED
  BY <1>1, <1>2, <1>3

\* Every step moves on.
LEMMA StepMovesOn ==
    ASSUME IInv, RInv, [Next]_vars
    PROVE  MovesOn
<1>1. CASE UNCHANGED vars
  BY <1>1, Still DEF vars, tables, workers, MovesOn
<1>2. TypeOK
  BY DEF IInv
<1>3. CASE Next
  BY <1>2, <1>3, ConnMovesOn, EdgeMovesOn, ManualMovesOn, SweeperMovesOn,
     RestMovesOn DEF Next
<1> QED
  BY <1>1, <1>3

-----------------------------------------------------------------------------
(* The result                                                                *)

\* The initial state satisfies the invariant.
LEMMA ReleaseInit == Init => RInv
<1> SUFFICES ASSUME Init PROVE RInv
  OBVIOUS
<1>1. Rows = {}
  BY DEF Init, Rows
<1> QED
  BY <1>1
  DEF Init, Idle, RInv, OpenedWasOffered, OwedHasSubject, FailingHoldsNothing,
      EndedUnclaimed, LiveOf, RowsOf

\* Every step keeps it.
LEMMA ReleaseStep == IInv /\ RInv /\ [Next]_vars => RInv'
<1> SUFFICES ASSUME IInv, RInv, [Next]_vars PROVE RInv'
  OBVIOUS
<1>1. TypeOK'
  BY TypeStep DEF IInv
<1> QED
  BY <1>1, StepMovesOn, MovesOnInv

\* Once the bind deadlines of an ended connection have been handled, nothing
\* a migration made for it counts against a node any more, in whatever order
\* its close, its migrations, its edges and the sweeper ran, and for every
\* number of nodes, attempts and connections.
THEOREM EndedReleasesMigrationsAlways == Spec => []EndedReleasesMigrations
<1>1. RInv => EndedReleasesMigrations
  BY DEF RInv, EndedUnclaimed, Relinquished, Unclaimed,
         EndedReleasesMigrations, Settled, BindingOf, LiveOf, RowsOf
<1> QED
  BY ReleaseInit, ReleaseStep, Invariant, <1>1, PTL DEF Spec

=============================================================================
