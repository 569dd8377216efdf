--------------------------- MODULE RelayNode_proofs ---------------------------
(***************************************************************************)
(* Safety of one relay node, for any number of administrators and streams, *)
(* any kinds and number of faults.                                         *)
(***************************************************************************)
EXTENDS RelayNode, TLAPS

-----------------------------------------------------------------------------
(* Type correctness *)

(* What is left of the streams when one end goes away is well typed. *)
LEMMA StreamsType ==
    ASSUME TypeOK, NEW s \in Slots
    PROVE  /\ NoStream \in StreamType
           /\ Dropped(s) \in [Slots -> StreamType]
           /\ Returned(s) \in [Slots -> StreamType]
  <1>1. NoStream \in StreamType
    BY DEF NoStream, StreamType, Phases, RowStates, Messages, Commands
  <1>2. stream[s] \in StreamType
    BY DEF TypeOK
  <1>3. [stream[s] EXCEPT !.queue = <<>>] \in StreamType
    <2> DEFINE Q == Seq(Messages)
    <2>1. <<>> \in Q
      OBVIOUS
    <2>2. stream[s] \in [phase : Phases, cert : Nat, snap : RowStates,
                         queue : Q, beat : BOOLEAN]
      BY <1>2 DEF StreamType
    <2> HIDE DEF Q
    <2>3. [stream[s] EXCEPT !.queue = <<>>]
             \in [phase : Phases, cert : Nat, snap : RowStates,
                  queue : Q, beat : BOOLEAN]
      BY <2>1, <2>2
    <2> QED BY <2>3 DEF Q, StreamType
  <1>4. [[stream[s] EXCEPT !.phase = "closed"] EXCEPT !.beat = FALSE]
          \in StreamType
    BY <1>2 DEF StreamType, Phases
  <1>5. Dropped(s) \in [Slots -> StreamType]
    BY <1>1, <1>2, <1>3 DEF Dropped, TypeOK, StreamType
  <1>6. Returned(s) \in [Slots -> StreamType]
    BY <1>1, <1>2, <1>4 DEF Returned, TypeOK, StreamType, Phases
  <1> QED BY <1>1, <1>5, <1>6

(* A control message leaves a well typed edge, which may have stopped. *)
LEMMA HandledType ==
    ASSUME TypeOK, NEW message \in Messages, NEW snap
    PROVE  Handled(edge, message, snap) \in EdgeType
  BY DEF Handled, TypeOK, EdgeType, Messages, Commands, Drains, EdgeAt

(* The edge is well typed after an attempt that had sent Hello. *)
LEMMA AfterHelloType ==
    ASSUME NodeAssumption, NEW e \in EdgeType
    PROVE  AfterHello(e) \in EdgeType
  <1>1. "idle" \in EdgeAt /\ 0 \in 0..GraceAttempts
    BY DEF EdgeAt, NodeAssumption
  <1> QED BY <1>1 DEF AfterHello, EdgeType

(* A fault is counted. *)
LEMMA FaultType ==
    ASSUME TypeOK, NEW kind, Fault(kind)
    PROVE  spent' \in SpentType
  BY DEF Fault, TypeOK, SpentType

(* Steps of the edge are well typed. *)
LEMMA EdgeStepType ==
    ASSUME TypeOK, NodeAssumption, EdgeNext
    PROVE  TypeOK'
  <1> USE DEF TypeOK
  <1>1. ASSUME NEW s \in Slots, Dial(s) PROVE TypeOK'
    BY <1>1, StreamsType DEF Dial, EdgeType, EdgeAt, StreamType, NoStream, Phases
  <1>2. CASE DialFails
    <2>1. PICK lasts : lasts = IF edge.outage < GraceAttempts
                                THEN edge.outage + 1 ELSE GraceAttempts
      OBVIOUS
    <2>2. lasts \in 0..GraceAttempts
      BY <2>1 DEF EdgeType, NodeAssumption
    <2>3. edge' = [edge EXCEPT !.outage = lasts,
                               !.drain = IF lasts = GraceAttempts THEN "open"
                                                                  ELSE @]
      BY <1>2, <2>1 DEF DialFails
    <2>4. edge' \in EdgeType
      BY <2>2, <2>3 DEF EdgeType, Drains
    <2> QED BY <1>2, <2>4 DEF DialFails
  <1>3. CASE StreamEnds
    <2>1. edge.slot \in Slots
      BY DEF EdgeType
    <2> QED BY <1>3, <2>1, StreamsType, AfterHelloType DEF StreamEnds
  <1>4. CASE StreamBreaks
    <2>1. edge.slot \in Slots
      BY DEF EdgeType
    <2>2. spent' \in SpentType
      BY <1>4, FaultType DEF StreamBreaks
    <2> QED BY <1>4, <2>1, <2>2, StreamsType, AfterHelloType DEF StreamBreaks
  <1>5. CASE HandleControlMessage
    <2>1. edge.slot \in Slots
      BY DEF EdgeType
    <2>2. stream[edge.slot] \in StreamType
      BY <2>1
    <2>3. /\ Head(stream[edge.slot].queue) \in Messages
          /\ Tail(stream[edge.slot].queue) \in Seq(Messages)
      BY <1>5, <2>2 DEF HandleControlMessage, StreamType
    <2>4. edge' \in EdgeType
      BY <1>5, <2>3, HandledType DEF HandleControlMessage
    <2>5. [stream EXCEPT ![edge.slot].queue = Tail(@)] \in [Slots -> StreamType]
      BY <2>1, <2>2, <2>3 DEF StreamType
    <2>6. stream' \in [Slots -> StreamType]
      BY <1>5, <2>1, <2>5, StreamsType DEF HandleControlMessage
    <2> QED BY <1>5, <2>4, <2>6 DEF HandleControlMessage
  <1>6. CASE SendReport
    BY <1>6 DEF SendReport, EdgeType, StreamType
  <1>7. CASE StartRenewal
    BY <1>7 DEF StartRenewal, EdgeType, EdgeAt
  <1>8. CASE RenewalReply
    <2>1. edge.slot \in Slots
      BY DEF EdgeType
    <2>2. AfterHello(edge) \in EdgeType
      BY AfterHelloType
    <2>3. row.cert \in Nat \ {0}
      BY DEF RowType
    <2>4. PICK at \in EdgeAt : at = IF edge.at = "starting" THEN "stopped" ELSE "idle"
      BY DEF EdgeAt
    <2>5. PICK left \in EdgeType : left = [AfterHello(edge) EXCEPT !.reply = "none"]
      BY <2>2 DEF EdgeType
    <2>6. edge' \in EdgeType
      <3>1. CASE edge' = [left EXCEPT !.cert = row.cert, !.file = row.cert,
                                      !.due = FALSE]
        BY <2>3, <3>1 DEF EdgeType
      <3>2. CASE edge' = [left EXCEPT !.at = at]
        BY <2>4, <3>2 DEF EdgeType
      <3>3. CASE edge' = [left EXCEPT !.file = row.cert]
        BY <2>3, <3>3 DEF EdgeType
      <3> QED BY <1>8, <2>4, <2>5, <3>1, <3>2, <3>3 DEF RenewalReply
    <2>7. spent' \in SpentType
      BY <1>8, FaultType DEF RenewalReply
    <2> QED BY <1>8, <2>1, <2>6, <2>7, StreamsType DEF RenewalReply
  <1>9. CASE RenewalFails
    <2>1. edge.slot \in Slots
      BY DEF EdgeType
    <2>2. spent' \in SpentType
      BY <1>9, FaultType DEF RenewalFails
    <2>3. edge' \in EdgeType
      <3>1. PICK at \in {"idle", "stopped"} :
              edge' = [AfterHello(edge) EXCEPT !.at = at, !.reply = "none"]
        BY <1>9 DEF RenewalFails
      <3>2. AfterHello(edge) \in EdgeType /\ at \in EdgeAt
        BY AfterHelloType DEF EdgeAt
      <3> QED BY <3>1, <3>2 DEF EdgeType
    <2> QED BY <1>9, <2>1, <2>2, <2>3, StreamsType DEF RenewalFails
  <1>10. CASE EdgeRestarts
    <2>1. edge.slot \in Slots
      BY DEF EdgeType
    <2>2. spent' \in SpentType
      BY <1>10, FaultType DEF EdgeRestarts
    <2>3. edge' \in EdgeType
      <3>1. PICK due \in BOOLEAN : due = (edge.due /\ edge.file = edge.cert)
        OBVIOUS
      <3>2. PICK at \in EdgeAt : at = IF due THEN "starting" ELSE "idle"
        BY DEF EdgeAt
      <3>3. edge' = [edge EXCEPT !.at = at, !.cert = edge.file, !.due = due,
                                 !.drain = "none", !.outage = 0, !.reply = "none"]
        BY <1>10, <3>1, <3>2 DEF EdgeRestarts
      <3>5. "none" \in Drains /\ 0 \in 0..GraceAttempts
        BY DEF Drains, NodeAssumption
      <3> HIDE DEF TypeOK
      <3>4. edge \in EdgeType
        BY DEF TypeOK
      <3> QED BY <3>3, <3>4, <3>5 DEF EdgeType
    <2> QED BY <1>10, <2>1, <2>2, <2>3, StreamsType DEF EdgeRestarts
  <1> QED BY <1>1, <1>2, <1>3, <1>4, <1>5, <1>6, <1>7, <1>8, <1>9, <1>10
          DEF EdgeNext

(* A row whose state and age are set is well typed. *)
LEMMA RowSet ==
    ASSUME NEW r \in RowType, NEW state \in RowStates
    PROVE  [r EXCEPT !.state = state, !.age = 0] \in RowType
  <1> DEFINE Ages == 0..2
  <1>1. r \in [state : RowStates, cert : Nat \ {0}, expired : BOOLEAN,
               age : Ages]
    BY DEF RowType
  <1>2. 0 \in Ages
    OBVIOUS
  <1> HIDE DEF Ages
  <1>3. [r EXCEPT !.state = state, !.age = 0]
          \in [state : RowStates, cert : Nat \ {0}, expired : BOOLEAN,
               age : Ages]
    BY <1>1, <1>2
  <1> QED BY <1>3 DEF Ages, RowType

(* Steps of the control plane are well typed. *)
LEMMA ServerStepType ==
    ASSUME TypeOK, ServerNext
    PROVE  TypeOK'
  <1> USE DEF TypeOK
  <1>1. ASSUME NEW s \in Slots, MarkConnecting(s) PROVE TypeOK'
    <2>1. CASE stream' = Returned(s) /\ UNCHANGED row
      BY <1>1, <2>1, StreamsType DEF MarkConnecting
    <2>2. CASE /\ row' = [row EXCEPT !.state = "CONNECTING", !.age = 0]
               /\ stream' = [stream EXCEPT ![s].phase = "marked",
                                           ![s].snap = row'.state]
      <3>1. row' \in RowType
        <4>1. "CONNECTING" \in RowStates
          BY DEF RowStates
        <4>2. row' = [row EXCEPT !.state = "CONNECTING", !.age = 0]
          BY <2>2
        <4>3. row \in RowType
          OBVIOUS
        <4> HIDE DEF TypeOK
        <4> QED BY <4>1, <4>2, <4>3, RowSet
      <3>2. "marked" \in Phases /\ row'.state \in RowStates
        BY <3>1 DEF Phases, RowType
      <3>3. stream[s] \in StreamType
        OBVIOUS
      <3>4. [stream[s] EXCEPT !.phase = "marked", !.snap = row'.state]
              \in StreamType
        BY <3>2, <3>3 DEF StreamType
      <3>5. stream' = [stream EXCEPT ![s] =
                        [@ EXCEPT !.phase = "marked", !.snap = row'.state]]
        <4>1. PICK snap : snap = row'.state
          OBVIOUS
        <4>2. stream' = [stream EXCEPT ![s].phase = "marked", ![s].snap = snap]
          BY <2>2, <4>1
        <4>3. stream' = [stream EXCEPT ![s] =
                          [@ EXCEPT !.phase = "marked", !.snap = snap]]
          BY <3>3, <4>2
        <4> QED BY <4>1, <4>3
      <3>6. stream' \in [Slots -> StreamType]
        BY <3>4, <3>5
      <3> QED BY <1>1, <3>1, <3>6 DEF MarkConnecting
    <2> QED BY <1>1, <2>1, <2>2 DEF MarkConnecting
  <1>2. ASSUME NEW s \in Slots, Register(s) PROVE TypeOK'
    <2>1. PICK q : q = IF EdgeIsOn(s)
                        THEN Append(stream[s].queue, "ConfigSnapshot")
                        ELSE stream[s].queue
      OBVIOUS
    <2>2. stream[s] \in StreamType /\ "open" \in Phases
      BY DEF Phases
    <2>3. q \in Seq(Messages)
      BY <2>1, <2>2 DEF StreamType, Messages
    <2>4. [stream[s] EXCEPT !.phase = "open", !.queue = q] \in StreamType
      BY <2>2, <2>3 DEF StreamType
    <2>5. stream' = [stream EXCEPT ![s] =
                        [@ EXCEPT !.phase = "open", !.queue = q]]
      <3>1. stream' = [stream EXCEPT ![s].phase = "open", ![s].queue = q]
        BY <1>2, <2>1 DEF Register
      <3> QED BY <2>2, <3>1
    <2>6. stream' \in [Slots -> StreamType]
      BY <2>4, <2>5
    <2> QED BY <1>2, <2>6 DEF Register
  <1>3. ASSUME NEW s \in Slots, Heartbeat(s) PROVE TypeOK'
    <2>1. row' \in RowType
      <3>1. CASE row.state # "REVOKED"
        <4>1. PICK state : state = IF row.state = "DRAINING" THEN "DRAINING"
                                                             ELSE "READY"
          OBVIOUS
        <4>2. row' = [row EXCEPT !.age = 0, !.state = state]
          BY <1>3, <3>1, <4>1 DEF Heartbeat
        <4> QED BY <4>1, <4>2, RowSet DEF RowStates
      <3>2. CASE row.state = "REVOKED"
        BY <1>3, <3>2 DEF Heartbeat
      <3> QED BY <3>1, <3>2
    <2>2. [stream EXCEPT ![s].beat = FALSE] \in [Slots -> StreamType]
      BY DEF StreamType
    <2> QED BY <1>3, <2>1, <2>2, StreamsType DEF Heartbeat
  <1>4. ASSUME NEW s \in Slots, HandlerEnds(s) PROVE TypeOK'
    BY <1>4, StreamsType DEF HandlerEnds
  <1>5. CASE RenewCertificate
    <2>1. edge' \in EdgeType
      BY <1>5 DEF RenewCertificate, EdgeType
    <2>2. row' \in RowType
      <3>1. PICK cert \in Nat \ {0} : cert = row.cert + 1
        BY DEF RowType
      <3>2. \/ row' = [row EXCEPT !.cert = cert, !.expired = FALSE]
            \/ UNCHANGED row
        BY <1>5, <3>1 DEF RenewCertificate
      <3> HIDE DEF TypeOK
      <3>3. row \in RowType
        BY DEF TypeOK
      <3> QED BY <3>2, <3>3 DEF RowType
    <2> QED BY <1>5, <2>1, <2>2 DEF RenewCertificate
  <1>6. CASE ControlPlaneRestarts
    <2>1. spent' \in SpentType
      BY <1>6, FaultType DEF ControlPlaneRestarts
    <2>2. edge' \in EdgeType
      BY <1>6 DEF ControlPlaneRestarts, EdgeType
    <2>3. stream' \in [Slots -> StreamType]
      <3> SUFFICES ASSUME NEW s \in Slots PROVE stream'[s] \in StreamType
        BY <1>6 DEF ControlPlaneRestarts
      <3>1. stream[s] \in StreamType /\ NoStream \in StreamType
        BY StreamsType
      <3> QED BY <1>6, <3>1 DEF ControlPlaneRestarts, StreamType, Phases
    <2>4. admin' \in [Admins -> AdminType]
      BY <1>6 DEF ControlPlaneRestarts, NoOrder, AdminType, Orders
    <2> QED BY <1>6, <2>1, <2>2, <2>3, <2>4 DEF ControlPlaneRestarts
  <1>7. CASE SweepNodes
    BY <1>7 DEF SweepNodes, RowType, RowStates
  <1> QED BY <1>1, <1>2, <1>3, <1>4, <1>5, <1>6, <1>7 DEF ServerNext

(* Steps of administrators are well typed. *)
LEMMA AdminStepType ==
    ASSUME TypeOK, AdminNext
    PROVE  TypeOK'
  <1> USE DEF TypeOK
  <1>1. PICK i \in Admins :
              \/ \E order \in Orders : ReadState(i, order)
              \/ ChangeState(i)
              \/ Publish(i)
    BY DEF AdminNext
  <1>2. ASSUME NEW order \in Orders, ReadState(i, order) PROVE TypeOK'
    BY <1>2 DEF ReadState, AdminType, SpentType
  <1>3. CASE ChangeState(i)
    BY <1>3 DEF ChangeState, AdminType, RowType, RowStates, Orders
  <1>4. CASE Publish(i)
    <2>1. CommandOf(admin[i].order) \in Messages
      BY DEF CommandOf, AdminType, Orders, Messages, Commands
    <2>2. stream' \in [Slots -> StreamType]
      <3> SUFFICES ASSUME NEW s \in Slots PROVE stream'[s] \in StreamType
        BY <1>4 DEF Publish
      <3>1. stream[s] \in StreamType
        OBVIOUS
      <3>2. [stream[s] EXCEPT !.queue = Append(@, CommandOf(admin[i].order))]
              \in StreamType
        <4>1. Append(stream[s].queue, CommandOf(admin[i].order))
                \in Seq(Messages)
          BY <2>1, <3>1 DEF StreamType
        <4> QED BY <3>1, <4>1 DEF StreamType
      <3> QED BY <1>4, <3>1, <3>2 DEF Publish
    <2> QED BY <1>4, <2>2 DEF Publish, NoOrder, AdminType, Orders
  <1> QED BY <1>1, <1>2, <1>3, <1>4

(* Steps of time and the network are well typed. *)
LEMMA TimeStepType ==
    ASSUME TypeOK, TimeNext
    PROVE  TypeOK'
  <1> USE DEF TypeOK
  <1>1. CASE HeartbeatAges
    BY <1>1 DEF HeartbeatAges, RowType
  <1>2. CASE CertificateDue
    <2>1. edge' \in EdgeType
      BY <1>2 DEF CertificateDue, EdgeType
    <2>2. spent' \in SpentType
      BY <1>2 DEF CertificateDue, SpentType
    <2> QED BY <1>2, <2>1, <2>2 DEF CertificateDue
  <1>3. CASE CertificateExpires
    BY <1>3 DEF CertificateExpires, RowType
  <1>4. CASE OutageBegins
    BY <1>4, FaultType DEF OutageBegins
  <1>5. CASE OutageEnds
    BY <1>5 DEF OutageEnds
  <1> QED BY <1>1, <1>2, <1>3, <1>4, <1>5 DEF TimeNext

(* The initial state is well typed. *)
LEMMA InitType ==
    ASSUME NodeAssumption, Init
    PROVE  TypeOK
  <1>1. row \in RowType /\ spent \in SpentType /\ reachable \in BOOLEAN
    BY DEF Init, RowType, RowStates, SpentType
  <1>2. edge \in EdgeType
    BY DEF Init, EdgeType, EdgeAt, Drains, NodeAssumption
  <1>3. stream \in [Slots -> StreamType]
    BY DEF Init, NoStream, StreamType, Phases, RowStates, Messages
  <1>4. admin \in [Admins -> AdminType]
    BY DEF Init, NoOrder, AdminType, Orders
  <1> QED BY <1>1, <1>2, <1>3, <1>4 DEF TypeOK

(* Row, edge, streams and orders keep their shape. *)
THEOREM TypeCorrect == Spec => []TypeOK
  <1>1. Init => TypeOK
    BY InitType, NodeAssumption
  <1>2. TypeOK /\ [Next]_vars => TypeOK'
    <2>1. ASSUME TypeOK, UNCHANGED vars PROVE TypeOK'
      BY <2>1 DEF vars, TypeOK
    <2> QED BY <2>1, EdgeStepType, ServerStepType, AdminStepType, TimeStepType,
               NodeAssumption DEF Next
  <1> QED BY <1>1, <1>2, PTL DEF Spec

-----------------------------------------------------------------------------
(* The state of the row and the orders that may still be written *)

Pending == {order \in Orders : Writing(order)}

(* A step of the edge or of time changes neither the state nor the orders. *)
LEMMA EdgeKeepsState ==
    ASSUME TypeOK, EdgeNext \/ TimeNext
    PROVE  row'.state = row.state /\ admin' = admin
  <1>1. row \in RowType
    BY DEF TypeOK
  <1>2. ASSUME EdgeNext PROVE row' = row /\ admin' = admin
    BY <1>2 DEF EdgeNext, Dial, DialFails, StreamEnds, StreamBreaks,
                HandleControlMessage, SendReport, StartRenewal, RenewalReply,
                RenewalFails, EdgeRestarts
  <1>3. ASSUME TimeNext PROVE row'.state = row.state /\ admin' = admin
    BY <1>1, <1>3 DEF TimeNext, HeartbeatAges, CertificateDue,
                      CertificateExpires, OutageBegins, OutageEnds, RowType
  <1> QED BY <1>2, <1>3

(* What a step of the control plane that leaves the orders alone may do to  *)
(* the state: connect, report, lapse or nothing.                            *)
RowStep ==
    \/ row'.state = row.state
    \/ row.state # "REVOKED" /\ row'.state = "CONNECTING"
    \/ /\ row.state # "REVOKED"
       /\ row'.state = IF row.state = "DRAINING" THEN "DRAINING" ELSE "READY"
    \/ /\ row.state \notin {"OFFLINE", "REVOKED"}
       /\ row'.state \in {"UNHEALTHY", "OFFLINE"}

(* The control plane by itself makes a RowStep; a restart forgets orders. *)
LEMMA ServerKeepsState ==
    ASSUME TypeOK, ServerNext
    PROVE  /\ RowStep
           /\ \/ admin' = admin
              \/ row'.state = row.state /\ admin' = [i \in Admins |-> NoOrder]
  <1>1. row \in RowType
    BY DEF TypeOK
  <1>2. ASSUME NEW s \in Slots, MarkConnecting(s)
        PROVE  RowStep /\ admin' = admin
    BY <1>1, <1>2 DEF MarkConnecting, RowStep, RowType
  <1>3. ASSUME NEW s \in Slots, Register(s) \/ HandlerEnds(s)
        PROVE  RowStep /\ admin' = admin
    BY <1>3 DEF Register, HandlerEnds, RowStep
  <1>4. ASSUME NEW s \in Slots, Heartbeat(s)
        PROVE  RowStep /\ admin' = admin
    BY <1>1, <1>4 DEF Heartbeat, RowStep, RowType
  <1>5. ASSUME RenewCertificate PROVE RowStep /\ admin' = admin
    BY <1>1, <1>5 DEF RenewCertificate, RowStep, RowType
  <1>6. ASSUME ControlPlaneRestarts
        PROVE  row'.state = row.state /\ admin' = [i \in Admins |-> NoOrder]
    BY <1>6 DEF ControlPlaneRestarts
  <1>7. ASSUME SweepNodes PROVE RowStep /\ admin' = admin
    BY <1>1, <1>7 DEF SweepNodes, RowStep, RowType
  <1>8. row'.state = row.state => RowStep
    BY DEF RowStep
  <1> QED BY <1>2, <1>3, <1>4, <1>5, <1>6, <1>7, <1>8 DEF ServerNext

(* An administrator writes only an order that was pending. *)
LEMMA AdminWrites ==
    ASSUME TypeOK, NEW i \in Admins, ChangeState(i)
    PROVE  /\ admin[i].order \in Orders /\ Writing(admin[i].order)
           /\ row'.state = admin[i].order
  <1>1. admin[i] \in AdminType /\ row \in RowType
    BY DEF TypeOK
  <1> QED BY <1>1 DEF ChangeState, Writing, AdminType, RowType

(* The other two steps of an administrator do not touch the row. *)
LEMMA AdminKeepsState ==
    ASSUME NEW i \in Admins,
           Publish(i) \/ \E order \in Orders : ReadState(i, order)
    PROVE  row' = row
  BY DEF Publish, ReadState

(* RevokedUnlessRacing for one step. *)
LEMMA RevokedStep ==
    ASSUME TypeOK, [Next]_vars, row.state = "REVOKED", row'.state # "REVOKED"
    PROVE  \E order \in Orders : Writing(order) /\ row'.state = order
  <1>1. CASE UNCHANGED vars
    BY <1>1 DEF vars
  <1>2. CASE EdgeNext \/ TimeNext
    BY <1>2, EdgeKeepsState
  <1>3. CASE ServerNext
    BY <1>3, ServerKeepsState DEF RowStep
  <1>4. CASE AdminNext
    BY <1>4, AdminWrites, AdminKeepsState DEF AdminNext
  <1> QED BY <1>1, <1>2, <1>3, <1>4 DEF Next

(* Nothing the edge, the sweeper, a renewal or a restart does brings back a *)
(* revoked node: only an order given before the revocation.                 *)
THEOREM RevokedUnlessRacingAlways == Spec => RevokedUnlessRacing
  <1>1. TypeOK /\ [Next]_vars =>
          [row.state = "REVOKED" /\ row'.state # "REVOKED"
             => \E order \in Orders : Writing(order) /\ row'.state = order]_vars
    BY RevokedStep
  <1> QED BY <1>1, TypeCorrect, PTL DEF Spec, RevokedUnlessRacing

-----------------------------------------------------------------------------
(* One administrator at a time *)

(* Whoever passed the checks of changeState may still rely on them. *)
NoRace == \A i \in Admins : admin[i].at = "write" => row.state # "REVOKED"

(* One administrator keeps NoRace, and so never undoes a revocation. *)
LEMMA NoRaceStep ==
    ASSUME \A i, j \in Admins : i = j,
           TypeOK, NoRace, [Next]_vars
    PROVE  NoRace' /\ (row.state = "REVOKED" => row'.state = "REVOKED")
  <1>1. row.state = "REVOKED" => row'.state = "REVOKED"
    BY RevokedStep DEF NoRace, Writing
  <1>2. CASE UNCHANGED vars
    BY <1>1, <1>2 DEF vars, NoRace
  <1>3. CASE EdgeNext \/ TimeNext
    BY <1>1, <1>3, EdgeKeepsState DEF NoRace
  <1>4. CASE ServerNext
    BY <1>1, <1>4, ServerKeepsState DEF NoRace, NoOrder, RowStep
  <1>5. CASE AdminNext
    <2>1. PICK i \in Admins :
                \/ \E order \in Orders : ReadState(i, order)
                \/ ChangeState(i)
                \/ Publish(i)
      BY <1>5 DEF AdminNext
    <2>2. admin \in [Admins -> AdminType]
      BY DEF TypeOK
    <2>3. ASSUME NEW order \in Orders, ReadState(i, order) PROVE NoRace'
      BY <2>3 DEF ReadState, Permitted, NoRace
    <2>4. CASE ChangeState(i)
      BY <2>2, <2>4 DEF ChangeState, NoRace, AdminType
    <2>5. CASE Publish(i)
      BY <2>2, <2>5 DEF Publish, NoRace, NoOrder, AdminType
    <2> QED BY <1>1, <2>1, <2>3, <2>4, <2>5
  <1> QED BY <1>1, <1>2, <1>3, <1>4, <1>5 DEF Next

(* With one administrator a revocation is permanent. *)
THEOREM RevokedIsPermanentAlone ==
    ASSUME \A i, j \in Admins : i = j
    PROVE  Spec => RevokedIsPermanent
  <1>1. Init => NoRace
    BY DEF Init, NoRace, NoOrder
  <1>2. TypeOK /\ NoRace /\ [Next]_vars =>
          NoRace' /\ [row.state = "REVOKED" => row'.state = "REVOKED"]_vars
    BY NoRaceStep
  <1> QED BY <1>1, <1>2, TypeCorrect, PTL DEF Spec, RevokedIsPermanent

-----------------------------------------------------------------------------
(* RelayNode implements NodeLifecycle *)

(* Orders that are not touched stay pending. *)
LEMMA PendingKept ==
    ASSUME admin' = admin
    PROVE  Pending' = Pending
  BY DEF Pending, Writing

(* The steps of an administrator are Give, Obey and nothing. *)
LEMMA AdminImplements ==
    ASSUME TypeOK, NEW i \in Admins,
           \/ \E order \in Orders : ReadState(i, order)
           \/ ChangeState(i)
           \/ Publish(i)
    PROVE  Lifecycle!Next \/ (row'.state = row.state /\ Pending' = Pending)
  <1>1. admin \in [Admins -> AdminType] /\ admin[i] \in AdminType
    BY DEF TypeOK
  <1>2. ASSUME NEW order \in Orders, ReadState(i, order)
        PROVE  Lifecycle!Give(order)
    <2>1. Lifecycle!Permitted(order, row.state)
      BY <1>2 DEF ReadState, Permitted, Lifecycle!Permitted
    <2>2. /\ admin[i].at = "idle"
          /\ admin' = [admin EXCEPT ![i] = [at |-> "write", order |-> order]]
      BY <1>2 DEF ReadState
    <2>3. \A o \in Orders : Writing(o)' <=> Writing(o) \/ o = order
      BY <1>1, <2>2 DEF Writing
    <2>4. Pending' = Pending \cup {order}
      BY <2>3 DEF Pending
    <2> QED BY <1>2, <2>1, <2>4, AdminKeepsState
            DEF Lifecycle!Give, Pending
  <1>3. ASSUME ChangeState(i)
        PROVE  \E order \in Orders : Lifecycle!Obey(order)
    <2>1. PICK order \in Orders : order = admin[i].order
      BY <1>1 DEF AdminType
    <2>2. Writing(order) /\ row'.state = order
      BY <1>3, <2>1, AdminWrites
    <2>3. admin' = [admin EXCEPT ![i] = [@ EXCEPT !.at = "publish"]]
      BY <1>1, <1>3 DEF ChangeState
    <2>4. \A o \in Orders \ {order} : Writing(o)' <=> Writing(o)
      BY <1>1, <2>1, <2>3 DEF Writing, AdminType
    <2>5. Pending' \in {Pending, Pending \ {order}}
      BY <2>2, <2>4 DEF Pending
    <2> QED BY <2>2, <2>5 DEF Lifecycle!Obey, Pending
  <1>4. ASSUME Publish(i)
        PROVE  row'.state = row.state /\ Pending' = Pending
    <2>1. /\ admin[i].at = "publish"
          /\ admin' = [admin EXCEPT ![i] = NoOrder]
      BY <1>4 DEF Publish
    <2>2. \A o \in Orders : Writing(o)' <=> Writing(o)
      BY <1>1, <2>1 DEF Writing, NoOrder
    <2> QED BY <1>4, <2>2, AdminKeepsState DEF Pending
  <1> QED BY <1>2, <1>3, <1>4 DEF Lifecycle!Next, Lifecycle!Orders, Orders

(* Every step is one of NodeLifecycle or none. *)
LEMMA StepImplements ==
    ASSUME TypeOK, [Next]_vars
    PROVE  Lifecycle!Next \/ (row'.state = row.state /\ Pending' = Pending)
  <1>1. CASE UNCHANGED vars
    BY <1>1, PendingKept DEF vars
  <1>2. CASE EdgeNext \/ TimeNext
    BY <1>2, EdgeKeepsState, PendingKept
  <1>3. CASE ServerNext
    <2>1. CASE admin' = admin
      <3>1. Pending' = Pending
        BY <2>1, PendingKept
      <3> QED BY <1>3, <3>1, ServerKeepsState
              DEF RowStep, Pending, Lifecycle!Next, Lifecycle!Connect,
                  Lifecycle!Report, Lifecycle!Lapse
    <2>2. CASE /\ row'.state = row.state
               /\ admin' = [i \in Admins |-> NoOrder]
      <3>1. Pending' = {}
        BY <2>2 DEF Pending, Writing, NoOrder
      <3> QED BY <2>2, <3>1 DEF Pending, Lifecycle!Next, Lifecycle!Forget
    <2> QED BY <1>3, <2>1, <2>2, ServerKeepsState
  <1>4. CASE AdminNext
    BY <1>4, AdminImplements DEF AdminNext
  <1> QED BY <1>1, <1>2, <1>3, <1>4 DEF Next

(* The row, seen by the rest of the control plane, keeps the life cycle of  *)
(* NodeLifecycle: streams, renewals and restarts add nothing to it.         *)
THEOREM Implementation == Spec => KeepsLifecycle
  <1>1. Init => Lifecycle!Init
    BY DEF Init, Lifecycle!Init, Lifecycle!States, NoOrder, Writing
  <1>2. TypeOK /\ [Next]_vars =>
          [Lifecycle!Next]_<<row.state, {order \in Orders : Writing(order)}>>
    BY StepImplements DEF Pending
  <1> QED BY <1>1, <1>2, TypeCorrect, PTL
          DEF Spec, KeepsLifecycle, Lifecycle!Spec

-----------------------------------------------------------------------------
(* Certificates *)

(* Only the end of a renewal and a restart of the edge change what the edge *)
(* holds, and only a due certificate is renewed.                            *)
LEMMA QuietEdgeStep ==
    ASSUME TypeOK, EdgeNext, ~RenewalReply, ~EdgeRestarts
    PROVE  /\ UNCHANGED <<row, reachable>>
           /\ edge'.cert = edge.cert /\ edge'.file = edge.file
           /\ edge'.due = edge.due
           /\ edge'.reply = edge.reply \/ (RenewalFails /\ edge'.reply = "none")
           /\ edge'.at \in Renewals => edge.due \/ edge'.at = edge.at
           /\ edge.at \in Renewals => edge'.at = edge.at \/ edge'.reply = "none"
  <1> DEFINE Same == /\ edge'.cert = edge.cert /\ edge'.file = edge.file
                     /\ edge'.due = edge.due
             Reply == edge'.reply = edge.reply \/ (RenewalFails /\ edge'.reply = "none")
             At == /\ edge'.at \in Renewals => edge.due \/ edge'.at = edge.at
                   /\ edge.at \in Renewals => edge'.at = edge.at \/ edge'.reply = "none"
  <1>1. edge \in EdgeType
    BY DEF TypeOK
  <1>2. UNCHANGED <<row, reachable>>
    BY DEF EdgeNext, Dial, DialFails, StreamEnds, StreamBreaks, HandleControlMessage,
           SendReport, StartRenewal, RenewalFails
  <1> SUFFICES Same /\ Reply /\ At
    BY <1>2
  <1>3. ASSUME NEW s \in Slots, Dial(s) PROVE Same /\ Reply /\ At
    <2>1. edge'.at = "open" /\ edge'.reply = edge.reply /\ Same /\ edge.at = "idle"
      BY <1>1, <1>3 DEF Dial, EdgeType
    <2> QED BY <2>1 DEF Renewals
  <1>4. CASE DialFails
    <2>1. PICK lasts, drain : edge' = [edge EXCEPT !.outage = lasts, !.drain = drain]
      BY <1>4 DEF DialFails
    <2> QED BY <1>1, <2>1 DEF EdgeType
  <1>5. CASE StreamEnds \/ StreamBreaks
    <2>1. edge'.at = "idle" /\ edge.at = "open" /\ edge'.reply = edge.reply /\ Same
      BY <1>1, <1>5 DEF StreamEnds, StreamBreaks, AfterHello, EdgeType
    <2> QED BY <2>1 DEF Renewals
  <1>6. CASE HandleControlMessage
    <2>1. PICK message, snap : edge' = Handled(edge, message, snap)
                               /\ message \in Messages
      <3>1. stream[edge.slot] \in StreamType
        BY <1>1 DEF TypeOK, EdgeType
      <3>2. Head(stream[edge.slot].queue) \in Messages
        BY <1>6, <3>1 DEF HandleControlMessage, StreamType
      <3> QED BY <1>6, <3>2 DEF HandleControlMessage
    <2>2. Same /\ edge'.reply = edge.reply /\ edge'.at \in {edge.at, "stopped"}
      BY <1>1, <2>1 DEF Handled, EdgeType, Messages, Commands
    <2>3. edge.at = "open"
      BY <1>6 DEF HandleControlMessage
    <2> QED BY <2>2, <2>3 DEF Renewals
  <1>7. CASE SendReport
    BY <1>7 DEF SendReport
  <1>8. CASE StartRenewal
    <2>1. edge.due /\ edge.at = "open" /\ edge'.reply = edge.reply /\ Same
      BY <1>1, <1>8 DEF StartRenewal, EdgeType
    <2> QED BY <2>1 DEF Renewals
  <1>9. CASE RenewalFails
    <2>1. PICK at \in {"idle", "stopped"} :
             edge' = [AfterHello(edge) EXCEPT !.at = at, !.reply = "none"]
      BY <1>9 DEF RenewalFails
    <2>2. edge'.at = at /\ edge'.reply = "none" /\ Same
      BY <1>1, <2>1 DEF AfterHello, EdgeType
    <2> QED BY <1>9, <2>2 DEF Renewals
  <1> QED BY <1>2, <1>3, <1>4, <1>5, <1>6, <1>7, <1>8, <1>9 DEF EdgeNext

(* What the end of a renewal makes of the edge: renewed, not saved (disk),  *)
(* saved but not taken over (keyset).                                       *)
LEMMA RenewalReplied ==
    ASSUME TypeOK, RenewalReply
    PROVE  /\ UNCHANGED <<row, reachable>> /\ edge.at \in Renewals
           /\ edge'.reply = "none" /\ edge'.at \notin Renewals
           /\ \/ edge'.cert = row.cert /\ edge'.file = row.cert /\ ~edge'.due
              \/ /\ Fault("disk") /\ edge'.due = edge.due
                 /\ edge'.cert = edge.cert /\ edge'.file = edge.file
              \/ /\ Fault("keyset") /\ edge'.due = edge.due
                 /\ edge'.cert = edge.cert /\ edge'.file = row.cert
  <1>1. edge \in EdgeType
    BY DEF TypeOK
  <1>2. PICK at \in {"idle", "stopped"} :
           at = IF edge.at = "starting" THEN "stopped" ELSE "idle"
    OBVIOUS
  <1>3. PICK left : left = [AfterHello(edge) EXCEPT !.reply = "none"]
    OBVIOUS
  <1>4. /\ left \in [at : {"idle"}, slot : Slots, drain : Drains,
                     cert : {edge.cert}, file : {edge.file}, due : {edge.due},
                     outage : {0}, reply : {"none"}]
    BY <1>1, <1>3 DEF AfterHello, EdgeType
  <1>5. \/ edge' = [left EXCEPT !.cert = row.cert, !.file = row.cert, !.due = FALSE]
        \/ Fault("disk") /\ edge' = [left EXCEPT !.at = at]
        \/ Fault("keyset") /\ edge' = [left EXCEPT !.file = row.cert]
    BY <1>2, <1>3 DEF RenewalReply
  <1> QED BY <1>4, <1>5 DEF RenewalReply, Renewals

(* What a restart of the edge leaves of it. *)
LEMMA EdgeRestarted ==
    ASSUME TypeOK, EdgeRestarts
    PROVE  /\ UNCHANGED <<row, reachable>>
           /\ edge'.reply = "none" /\ edge'.outage = 0
           /\ edge'.cert = edge.file /\ edge'.file = edge.file
           /\ edge'.due = (edge.due /\ edge.file = edge.cert)
           /\ edge'.at \in Renewals => edge'.due
  <1>1. edge \in EdgeType
    BY DEF TypeOK
  <1>2. PICK due \in BOOLEAN : due = (edge.due /\ edge.file = edge.cert)
    OBVIOUS
  <1>3. PICK at : at = IF due THEN "starting" ELSE "idle"
    OBVIOUS
  <1>4. edge' = [edge EXCEPT !.at = at, !.cert = edge.file, !.due = due,
                             !.drain = "none", !.outage = 0, !.reply = "none"]
    BY <1>2, <1>3 DEF EdgeRestarts
  <1> QED BY <1>1, <1>2, <1>3, <1>4 DEF EdgeRestarts, EdgeType, Renewals

(* Only RenewCertificate changes the certificate of the row, and only       *)
(* ControlPlaneRestarts else touches the edge from outside.                 *)
LEMMA QuietServerStep ==
    ASSUME TypeOK, ServerNext, ~RenewCertificate, ~ControlPlaneRestarts
    PROVE  row'.cert = row.cert /\ UNCHANGED <<edge, reachable>>
  <1>1. row \in RowType
    BY DEF TypeOK
  <1>2. ASSUME NEW s \in Slots, MarkConnecting(s)
        PROVE  row'.cert = row.cert /\ UNCHANGED <<edge, reachable>>
    <2>1. \/ row' = row
          \/ row' = [row EXCEPT !.state = "CONNECTING", !.age = 0]
      BY <1>2 DEF MarkConnecting
    <2> QED BY <1>1, <1>2, <2>1 DEF MarkConnecting, RowType
  <1>3. ASSUME NEW s \in Slots, Heartbeat(s)
        PROVE  row'.cert = row.cert /\ UNCHANGED <<edge, reachable>>
    <2>1. \/ row' = row
          \/ \E state : row' = [row EXCEPT !.age = 0, !.state = state]
      BY <1>3 DEF Heartbeat
    <2> QED BY <1>1, <1>3, <2>1 DEF Heartbeat, RowType
  <1>4. ASSUME NEW s \in Slots, Register(s) \/ HandlerEnds(s)
        PROVE  row'.cert = row.cert /\ UNCHANGED <<edge, reachable>>
    BY <1>4 DEF Register, HandlerEnds
  <1>5. CASE SweepNodes
    <2>1. PICK state : row' = [row EXCEPT !.state = state]
      BY <1>5 DEF SweepNodes
    <2> QED BY <1>1, <1>5, <2>1 DEF SweepNodes, RowType
  <1> QED BY <1>2, <1>3, <1>4, <1>5 DEF ServerNext

(* A renewal at the control plane: the row goes one certificate further, or *)
(* is refused.                                                              *)
LEMMA Renewed ==
    ASSUME TypeOK, RenewCertificate
    PROVE  /\ edge.at \in Renewals /\ edge.reply = "none"
           /\ edge'.at = edge.at /\ edge'.due = edge.due
           /\ edge'.cert = edge.cert /\ edge'.file = edge.file
           /\ reachable' = reachable
           /\ \/ row'.cert = row.cert + 1 /\ edge'.reply = "issued"
              \/ row'.cert = row.cert /\ edge'.reply = "failed"
  <1>1. row \in RowType /\ edge \in EdgeType
    BY DEF TypeOK
  <1>2. PICK cert : cert = row.cert + 1
    OBVIOUS
  <1>3. \/ /\ row' = [row EXCEPT !.cert = cert, !.expired = FALSE]
           /\ edge' = [edge EXCEPT !.reply = "issued"]
        \/ row' = row /\ edge' = [edge EXCEPT !.reply = "failed"]
    BY <1>2 DEF RenewCertificate
  <1> QED BY <1>1, <1>2, <1>3 DEF RenewCertificate, RowType, EdgeType

(* IdentityKept is not inductive: a reply is on its way only while the edge *)
(* waits for it, nothing takes it away, and what is renewed was due.        *)
ReplyAccounted ==
    /\ reachable
    /\ edge.reply = "issued" =>
          edge.at \in Renewals /\ row.cert = edge.file + 1
    /\ edge.reply # "issued" => row.cert = edge.file
    /\ edge.at \in Renewals => edge.due
    /\ edge.cert = edge.file \/ edge.due

(* As long as only transports of streams and keysets fail, ReplyAccounted is*)
(* kept.                                                                    *)
LEMMA ReplyStep ==
    ASSUME Faults \subseteq {"break", "outage", "keyset"},
           TypeOK, ReplyAccounted, [Next]_vars, reachable'
    PROVE  ReplyAccounted'
  <1>1. row \in RowType /\ edge \in EdgeType
    BY DEF TypeOK
  <1>2. \A kind \in {"lost", "crash", "restart", "disk"} : ~Fault(kind)
    BY DEF Fault
  <1>3. CASE UNCHANGED vars
    BY <1>3 DEF vars, ReplyAccounted
  <1>4. CASE EdgeNext
    <2>1. ~EdgeRestarts
      BY <1>2 DEF EdgeRestarts
    <2>2. CASE RenewalReply
      <3>1. ~Fault("disk")
        BY <1>2
      <3> QED BY <2>2, <3>1, RenewalReplied DEF ReplyAccounted
    <2>3. CASE ~RenewalReply
      <3>1. RenewalFails => edge.reply = "failed"
        BY <1>2 DEF RenewalFails, ReplyAccounted
      <3> QED BY <1>4, <2>1, <2>3, <3>1, QuietEdgeStep DEF ReplyAccounted
    <2> QED BY <2>2, <2>3
  <1>5. CASE ServerNext
    <2>1. ~ControlPlaneRestarts
      BY <1>2 DEF ControlPlaneRestarts
    <2>2. CASE RenewCertificate
      BY <2>2, Renewed DEF ReplyAccounted
    <2>3. CASE ~RenewCertificate
      BY <1>5, <2>1, <2>3, QuietServerStep DEF ReplyAccounted
    <2> QED BY <2>2, <2>3
  <1>6. CASE AdminNext
    <2>1. row'.cert = row.cert /\ UNCHANGED <<edge, reachable>>
      BY <1>1, <1>6 DEF AdminNext, ReadState, ChangeState, Publish, RowType
    <2> QED BY <2>1 DEF ReplyAccounted
  <1>7. CASE TimeNext
    <2>1. ~OutageBegins
      BY DEF OutageBegins
    <2> QED BY <1>1, <1>7, <2>1
            DEF TimeNext, HeartbeatAges, CertificateDue, CertificateExpires,
                OutageEnds, ReplyAccounted, RowType, EdgeType
  <1> QED BY <1>3, <1>4, <1>5, <1>6, <1>7 DEF Next

(* The control plane never locks out an edge whose streams break, and whose *)
(* keysets are refused, however often: only a lost reply, a full disk, an   *)
(* outage or a crash can.                                                   *)
THEOREM IdentityKeptAlways ==
    ASSUME Faults \subseteq {"break", "outage", "keyset"}
    PROVE  Spec => IdentityKeptOnline
  <1>1. Init => ReplyAccounted
    BY DEF Init, ReplyAccounted, Renewals
  <1>2. TypeOK /\ ReplyAccounted /\ [Next]_vars /\ reachable'
          => ReplyAccounted'
    BY ReplyStep
  <1>3. ReplyAccounted => IdentityKept
    BY DEF ReplyAccounted, IdentityKept
  <1> QED BY <1>1, <1>2, <1>3, TypeCorrect, PTL DEF Spec, IdentityKeptOnline

(* LostRenewalStaysDue is not inductive: what is renewed was due, and memory*)
(* and identity.json change together or not at all.                         *)
RenewalAccounted ==
    /\ LostRenewalStaysDue
    /\ edge.at \in Renewals => edge.due
    /\ edge.cert = edge.file

(* Every step keeps RenewalAccounted, unless a keyset is refused. *)
LEMMA RenewalAccountedStep ==
    ASSUME "keyset" \notin Faults, TypeOK, RenewalAccounted, [Next]_vars
    PROVE  RenewalAccounted'
  <1> USE DEF RenewalAccounted, LostRenewalStaysDue
  <1>1. row \in RowType /\ edge \in EdgeType
    BY DEF TypeOK
  <1>2. CASE UNCHANGED vars
    BY <1>2 DEF vars
  <1>3. CASE EdgeNext
    <2>1. ~Fault("keyset")
      BY DEF Fault
    <2>2. CASE RenewalReply
      BY <2>1, <2>2, RenewalReplied
    <2>3. CASE EdgeRestarts
      BY <2>3, EdgeRestarted
    <2>4. CASE ~RenewalReply /\ ~EdgeRestarts
      BY <1>3, <2>4, QuietEdgeStep
    <2> QED BY <2>2, <2>3, <2>4
  <1>4. CASE ServerNext
    <2>1. CASE RenewCertificate
      BY <2>1, Renewed
    <2>2. CASE ControlPlaneRestarts
      <3>1. PICK reply : edge' = [edge EXCEPT !.reply = reply]
        BY <2>2 DEF ControlPlaneRestarts
      <3> QED BY <1>1, <2>2, <3>1 DEF ControlPlaneRestarts, EdgeType
    <2>3. CASE ~RenewCertificate /\ ~ControlPlaneRestarts
      BY <1>4, <2>3, QuietServerStep
    <2> QED BY <2>1, <2>2, <2>3
  <1>5. CASE AdminNext
    <2>1. row'.cert = row.cert /\ UNCHANGED edge
      BY <1>1, <1>5 DEF AdminNext, ReadState, ChangeState, Publish, RowType
    <2> QED BY <2>1
  <1>6. CASE TimeNext
    BY <1>1, <1>6 DEF TimeNext, HeartbeatAges, CertificateDue, CertificateExpires,
                      OutageBegins, OutageEnds, RowType, EdgeType
  <1> QED BY <1>2, <1>3, <1>4, <1>5, <1>6 DEF Next

(* A renewal that the edge did not get, or could not save, is asked for     *)
(* again, whatever replies, processes and writes are lost.  (A keyset that  *)
(* is refused, then a second renewal lost, then a crash: the edge starts    *)
(* with the first of the two certificates, which is not due.)               *)
THEOREM LostRenewalStaysDueAlways ==
    ASSUME "keyset" \notin Faults
    PROVE  Spec => []LostRenewalStaysDue
  <1>1. Init => RenewalAccounted
    BY DEF Init, RenewalAccounted, LostRenewalStaysDue, Renewals
  <1>2. TypeOK /\ RenewalAccounted /\ [Next]_vars => RenewalAccounted'
    BY RenewalAccountedStep
  <1>3. RenewalAccounted => LostRenewalStaysDue
    BY DEF RenewalAccounted
  <1> QED BY <1>1, <1>2, <1>3, TypeCorrect, PTL DEF Spec

-----------------------------------------------------------------------------
(* What a step does to a stream *)

(* A stream begins with the certificate of the edge, is marked with that of *)
(* the row, is registered, loses a report only when it is answered, ends.   *)
StreamStep(s) ==
    \/ stream'[s] = NoStream
    \/ /\ stream[s].phase = "none" /\ stream'[s].phase = "hello"
       /\ stream'[s].cert = edge.cert
    \/ /\ stream'[s].cert = stream[s].cert
       /\ \/ stream'[s].phase = stream[s].phase /\ (stream[s].beat => stream'[s].beat)
          \/ stream'[s].phase = stream[s].phase /\ row.state # "REVOKED"
          \/ stream'[s].phase = "closed"
          \/ stream[s].phase = "marked" /\ stream'[s].phase = "open"
             /\ (stream[s].beat => stream'[s].beat)
          \/ stream[s].phase = "hello" /\ stream'[s].phase = "marked"
             /\ stream[s].cert = row.cert /\ row.state # "REVOKED"

(* A stream that is dropped by the edge, or that its handler leaves.        *)
LEMMA LeftStream ==
    ASSUME TypeOK, NEW s \in Slots, NEW t \in Slots
    PROVE  /\ stream' = Dropped(s) => StreamStep(t)
           /\ stream' = Returned(s) => StreamStep(t)
           /\ stream' = stream => StreamStep(t)
  <1>1. stream \in [Slots -> StreamType] /\ stream[s] \in StreamType
    BY DEF TypeOK
  <1>2. \A x : stream' = [stream EXCEPT ![s] = x] => stream'[t] = IF t = s THEN x ELSE stream[t]
    BY <1>1
  <1>3. ASSUME stream'[t] = stream[t] PROVE StreamStep(t)
    BY <1>3 DEF StreamStep
  <1>4. ASSUME stream' = Dropped(s) PROVE StreamStep(t)
    <2>1. \/ stream' = [stream EXCEPT ![s] = [stream[s] EXCEPT !.queue = <<>>]]
          \/ stream' = [stream EXCEPT ![s] = NoStream]
      BY <1>1, <1>4 DEF Dropped
    <2>2. \/ stream'[t] = stream[t]
          \/ stream'[t] = NoStream
          \/ t = s /\ stream'[t] = [stream[s] EXCEPT !.queue = <<>>]
      BY <1>2, <2>1
    <2> QED BY <1>1, <1>3, <2>2 DEF StreamStep, StreamType
  <1>5. ASSUME stream' = Returned(s) PROVE StreamStep(t)
    <2>1. \/ stream' = [stream EXCEPT ![s] = [stream[s] EXCEPT !.phase = "closed", !.beat = FALSE]]
          \/ stream' = [stream EXCEPT ![s] = NoStream]
      BY <1>1, <1>5 DEF Returned
    <2>2. \/ stream'[t] = stream[t]
          \/ stream'[t] = NoStream
          \/ t = s /\ stream'[t] = [stream[s] EXCEPT !.phase = "closed", !.beat = FALSE]
      BY <1>2, <2>1
    <2> QED BY <1>1, <1>3, <2>2 DEF StreamStep, StreamType
  <1> QED BY <1>3, <1>4, <1>5

LEMMA EdgeStreamStep ==
    ASSUME TypeOK, EdgeNext, NEW t \in Slots
    PROVE  StreamStep(t)
  <1>1. /\ stream \in [Slots -> StreamType] /\ edge.slot \in Slots
        /\ stream[t] \in StreamType /\ stream[edge.slot] \in StreamType
    BY DEF TypeOK, EdgeType
  <1>2. ASSUME NEW s \in Slots, Dial(s) PROVE StreamStep(t)
    <2>1. stream' = [stream EXCEPT ![s] = [NoStream EXCEPT !.phase = "hello", !.cert = edge.cert]]
          /\ stream[s].phase = "none"
      BY <1>2 DEF Dial
    <2>2. CASE t = s
      BY <1>1, <2>1, <2>2 DEF StreamStep, NoStream
    <2>3. CASE t # s
      BY <1>1, <2>1, <2>3 DEF StreamStep
    <2> QED BY <2>2, <2>3
  <1>3. CASE stream' \in {stream, Dropped(edge.slot)}
    BY <1>1, <1>3, LeftStream
  <1>4. CASE HandleControlMessage
    <2>1. CASE stream' = Dropped(edge.slot)
      BY <1>3, <2>1
    <2>2. CASE stream' = [stream EXCEPT ![edge.slot].queue = Tail(@)]
      BY <1>1, <2>2 DEF StreamStep, StreamType
    <2> QED BY <1>4, <2>1, <2>2 DEF HandleControlMessage
  <1>5. CASE SendReport
    BY <1>1, <1>5 DEF SendReport, StreamStep, StreamType
  <1>6. CASE DialFails \/ StartRenewal
    BY <1>3, <1>6 DEF DialFails, StartRenewal
  <1>7. CASE StreamEnds \/ StreamBreaks
    BY <1>3, <1>7 DEF StreamEnds, StreamBreaks
  <1>8. CASE RenewalReply \/ RenewalFails \/ EdgeRestarts
    BY <1>3, <1>8 DEF RenewalReply, RenewalFails, EdgeRestarts
  <1> QED BY <1>2, <1>4, <1>5, <1>6, <1>7, <1>8 DEF EdgeNext

LEMMA ServerStreamStep ==
    ASSUME TypeOK, ServerNext, NEW t \in Slots
    PROVE  StreamStep(t)
  <1>1. stream \in [Slots -> StreamType] /\ stream[t] \in StreamType
    BY DEF TypeOK
  <1>2. ASSUME NEW s \in Slots, MarkConnecting(s) PROVE StreamStep(t)
    <2>1. CASE stream' = Returned(s)
      BY <2>1, LeftStream
    <2>2. CASE /\ stream[s].cert = row.cert /\ row.state # "REVOKED"
               /\ stream' = [stream EXCEPT ![s].phase = "marked", ![s].snap = row'.state]
      <3>1. stream'[s].phase = "marked" /\ stream'[s].cert = stream[s].cert
        <4>1. stream[s] \in StreamType
          BY <1>1
        <4>2. stream'[s] = [stream[s] EXCEPT !.phase = "marked", !.snap = row'.state]
          BY <1>1, <2>2
        <4> QED BY <4>1, <4>2 DEF StreamType
      <3>2. t # s => stream'[t] = stream[t]
        BY <1>1, <2>2
      <3>3. stream[s].phase = "hello"
        BY <1>2 DEF MarkConnecting
      <3> QED BY <2>2, <3>1, <3>2, <3>3 DEF StreamStep
    <2> QED BY <1>2, <2>1, <2>2 DEF MarkConnecting
  <1>3. ASSUME NEW s \in Slots, Register(s) PROVE StreamStep(t)
    <2>1. PICK queue : stream' = [stream EXCEPT ![s] = [@ EXCEPT !.phase = "open", !.queue = queue]]
      <3>1. stream' = [stream EXCEPT ![s].phase = "open",
                         ![s].queue = IF EdgeIsOn(s) THEN Append(@, "ConfigSnapshot") ELSE @]
        BY <1>3 DEF Register
      <3> QED BY <1>1, <3>1 DEF StreamType
    <2> QED BY <1>1, <1>3, <2>1 DEF Register, StreamStep, StreamType
  <1>4. ASSUME NEW s \in Slots, Heartbeat(s) PROVE StreamStep(t)
    <2>1. CASE stream' = Returned(s)
      BY <2>1, LeftStream
    <2>2. CASE row.state # "REVOKED" /\ stream' = [stream EXCEPT ![s].beat = FALSE]
      BY <1>1, <2>2 DEF StreamStep, StreamType
    <2> QED BY <1>4, <2>1, <2>2 DEF Heartbeat
  <1>5. ASSUME NEW s \in Slots, HandlerEnds(s) PROVE StreamStep(t)
    BY <1>1, <1>5 DEF HandlerEnds, StreamStep
  <1>6. CASE RenewCertificate \/ SweepNodes
    BY <1>6, LeftStream DEF RenewCertificate, SweepNodes
  <1>7. CASE ControlPlaneRestarts
    <2>1. \/ stream'[t] = NoStream
          \/ stream'[t] = [stream[t] EXCEPT !.phase = "closed", !.beat = FALSE]
      BY <1>7 DEF ControlPlaneRestarts
    <2> QED BY <1>1, <2>1 DEF StreamStep, StreamType
  <1> QED BY <1>2, <1>3, <1>4, <1>5, <1>6, <1>7 DEF ServerNext

LEMMA EveryStreamStep ==
    ASSUME TypeOK, [Next]_vars, NEW t \in Slots
    PROVE  StreamStep(t)
  <1>1. stream \in [Slots -> StreamType] /\ stream[t] \in StreamType
    BY DEF TypeOK
  <1>2. CASE stream' = stream
    BY <1>2, LeftStream
  <1>3. CASE AdminNext
    <2>1. CASE stream' = stream
      BY <1>2, <2>1
    <2>2. ASSUME NEW i \in Admins, Publish(i) PROVE StreamStep(t)
      <3>1. stream'[t] = IF /\ stream[t].phase = "open" /\ EdgeIsOn(t)
                            /\ Len(stream[t].queue) < HubBuffer
                         THEN [stream[t] EXCEPT
                                 !.queue = Append(@, CommandOf(admin[i].order))]
                         ELSE stream[t]
        BY <2>2 DEF Publish
      <3>2. PICK queue : stream'[t] \in {stream[t], [stream[t] EXCEPT !.queue = queue]}
        BY <3>1
      <3> QED BY <1>1, <3>2 DEF StreamStep, StreamType
    <2> QED BY <1>3, <2>1, <2>2 DEF AdminNext, ReadState, ChangeState
  <1>4. CASE TimeNext \/ UNCHANGED vars
    BY <1>2, <1>4 DEF TimeNext, HeartbeatAges, CertificateDue, CertificateExpires,
                      OutageBegins, OutageEnds, vars
  <1> QED BY <1>3, <1>4, EdgeStreamStep, ServerStreamStep DEF Next

(* Once a node is revoked it gets no further stream, and the next report on *)
(* one it still has ends it: the half of RevocationCutsOff that needs no    *)
(* fairness, for Shutdown orders that are lost too (MarkConnecting,         *)
(* Heartbeat, ControlServer.Connect).                                       *)
AdmittedStreams == {s \in Slots : stream[s].phase \in {"marked", "open"}}

RevokedAdmitsNobody ==
    [][row.state = "REVOKED" =>
         /\ AdmittedStreams' \subseteq AdmittedStreams
         /\ \A s \in AdmittedStreams :
               stream[s].beat /\ ~stream'[s].beat => s \notin AdmittedStreams']_vars

(* No interleaving of Hellos, reports and orders gives a revoked node a     *)
(* stream that it did not have.                                             *)
THEOREM RevokedAdmitsNobodyAlways == Spec => RevokedAdmitsNobody
  <1>1. ASSUME TypeOK, [Next]_vars, row.state = "REVOKED"
        PROVE  /\ AdmittedStreams' \subseteq AdmittedStreams
               /\ \A s \in AdmittedStreams :
                     stream[s].beat /\ ~stream'[s].beat => s \notin AdmittedStreams'
    <2>1. \A s \in Slots : StreamStep(s)
      BY <1>1, EveryStreamStep
    <2> QED BY <1>1, <2>1 DEF StreamStep, AdmittedStreams, NoStream
  <1>2. TypeOK /\ [Next]_vars =>
          [row.state = "REVOKED" =>
             /\ AdmittedStreams' \subseteq AdmittedStreams
             /\ \A s \in AdmittedStreams :
                   stream[s].beat /\ ~stream'[s].beat => s \notin AdmittedStreams']_vars
    BY <1>1
  <1> QED BY <1>2, TypeCorrect, PTL DEF Spec, RevokedAdmitsNobody

-----------------------------------------------------------------------------
(* Superseded certificates, whatever replies and processes are lost *)

(* A certificate moves from the row to identity.json, to the edge's memory  *)
(* and to its streams: nobody ever holds one that the row does not know of, *)
(* however many renewals were lost (RenewCertificate, renewIdentity,        *)
(* EdgeRestarts).                                                           *)
CertificatesFollow ==
    /\ edge.cert <= edge.file /\ edge.file <= row.cert
    /\ edge.reply = "issued" => edge.file < row.cert
    /\ \A s \in Slots : stream[s].cert <= edge.cert

(* What a step does to the certificates of the row and of the edge.         *)
CertStep ==
    \/ /\ row'.cert = row.cert /\ edge'.cert = edge.cert /\ edge'.file = edge.file
       /\ edge'.reply = "issued" => edge.reply = "issued"
    \/ row'.cert = row.cert + 1 /\ edge'.cert = edge.cert /\ edge'.file = edge.file
    \/ /\ row'.cert = row.cert /\ edge'.reply = "none"
       /\ edge'.file \in {edge.file, row.cert}
       /\ edge'.cert \in {edge.cert, edge'.file}

LEMMA EdgeCertStep ==
    ASSUME TypeOK, EdgeNext
    PROVE  CertStep
  <1>1. CASE RenewalReply
    BY <1>1, RenewalReplied DEF CertStep
  <1>2. CASE EdgeRestarts
    BY <1>2, EdgeRestarted DEF CertStep
  <1>3. CASE ~RenewalReply /\ ~EdgeRestarts
    BY <1>3, QuietEdgeStep DEF CertStep
  <1> QED BY <1>1, <1>2, <1>3

LEMMA ServerCertStep ==
    ASSUME TypeOK, ServerNext
    PROVE  CertStep
  <1>1. CASE RenewCertificate
    BY <1>1, Renewed DEF CertStep
  <1>2. CASE ControlPlaneRestarts
    <2>1. edge \in EdgeType
      BY DEF TypeOK
    <2>2. PICK reply \in {edge.reply, "failed"} : edge' = [edge EXCEPT !.reply = reply]
      BY <1>2 DEF ControlPlaneRestarts
    <2> QED BY <1>2, <2>1, <2>2 DEF ControlPlaneRestarts, CertStep, EdgeType
  <1>3. CASE ~RenewCertificate /\ ~ControlPlaneRestarts
    BY <1>3, QuietServerStep DEF CertStep
  <1> QED BY <1>1, <1>2, <1>3

LEMMA EveryCertStep ==
    ASSUME TypeOK, [Next]_vars
    PROVE  CertStep
  <1>1. edge \in EdgeType /\ row \in RowType
    BY DEF TypeOK
  <1>2. CASE AdminNext
    <2>1. row'.cert = row.cert /\ edge' = edge
      BY <1>1, <1>2 DEF AdminNext, ReadState, ChangeState, Publish, RowType
    <2> QED BY <2>1 DEF CertStep
  <1>3. CASE TimeNext
    BY <1>1, <1>3 DEF TimeNext, HeartbeatAges, CertificateDue, CertificateExpires,
                      OutageBegins, OutageEnds, CertStep, RowType, EdgeType
  <1>4. CASE UNCHANGED vars
    BY <1>4 DEF vars, CertStep
  <1> QED BY <1>2, <1>3, <1>4, EdgeCertStep, ServerCertStep DEF Next

LEMMA FollowStep ==
    ASSUME TypeOK, CertificatesFollow, [Next]_vars
    PROVE  CertificatesFollow' /\ row'.cert >= row.cert
  <1>1. /\ edge.cert \in Nat /\ edge.file \in Nat /\ row.cert \in Nat
        /\ \A s \in Slots : stream[s].cert \in Nat
    BY DEF TypeOK, EdgeType, RowType, StreamType
  <1>2. CertStep
    BY EveryCertStep
  <1>3. /\ edge'.cert \in Nat /\ edge'.file \in Nat /\ row'.cert \in Nat
        /\ edge.cert <= edge'.cert /\ row.cert <= row'.cert
        /\ edge'.cert <= edge'.file /\ edge'.file <= row'.cert
        /\ edge'.reply = "issued" => edge'.file < row'.cert
    BY <1>1, <1>2 DEF CertStep, CertificatesFollow
  <1>4. ASSUME NEW s \in Slots PROVE stream'[s].cert <= edge'.cert
    <2>1. stream'[s].cert \in {0, edge.cert, stream[s].cert}
      BY EveryStreamStep DEF StreamStep, NoStream
    <2>2. stream[s].cert <= edge.cert
      BY DEF CertificatesFollow
    <2> QED BY <1>1, <1>3, <2>1, <2>2
  <1> QED BY <1>3, <1>4 DEF CertificatesFollow

(* CertificatesFollow is inductive, for every kind and number of faults.    *)
THEOREM CertificatesFollowAlways == Spec => []CertificatesFollow
  <1>1. Init => CertificatesFollow
    BY DEF Init, CertificatesFollow, NoStream
  <1>2. TypeOK /\ CertificatesFollow /\ [Next]_vars => CertificatesFollow'
    BY FollowStep
  <1> QED BY <1>1, <1>2, TypeCorrect, PTL DEF Spec

(* A Hello with a certificate that has been superseded is never let in, not *)
(* even when the renewal happens between the Hello and MarkConnecting, and  *)
(* no later step makes the certificate good again.                          *)
Superseded(s) == stream[s].cert < row.cert

SupersededKeptOut ==
    [][\A s \in Slots :
         stream[s].phase = "hello" /\ Superseded(s) =>
           /\ s \notin AdmittedStreams'
           /\ stream'[s] = NoStream \/ Superseded(s)']_vars

(* MarkConnecting compares with the row as it is then, and the row only     *)
(* goes forward.                                                            *)
THEOREM SupersededKeptOutAlways == Spec => SupersededKeptOut
  <1> DEFINE KeptOut(s) == stream[s].phase = "hello" /\ Superseded(s) =>
                             /\ s \notin AdmittedStreams'
                             /\ stream'[s] = NoStream \/ Superseded(s)'
  <1>1. ASSUME TypeOK, CertificatesFollow, [Next]_vars, NEW s \in Slots
        PROVE  KeptOut(s)
    <2>1. row.cert <= row'.cert /\ row'.cert \in Nat
      <3>1. TypeOK'
        BY <1>1, EdgeStepType, ServerStepType, AdminStepType, TimeStepType,
           NodeAssumption DEF Next, vars, TypeOK
      <3> QED BY <1>1, <3>1, FollowStep DEF TypeOK, RowType
    <2>2. stream[s].cert \in Nat /\ row.cert \in Nat
      BY <1>1 DEF TypeOK, StreamType, RowType
    <2>3. StreamStep(s)
      BY <1>1, EveryStreamStep
    <2> QED BY <2>1, <2>2, <2>3 DEF StreamStep, Superseded, AdmittedStreams, NoStream
  <1>2. TypeOK /\ CertificatesFollow /\ [Next]_vars => [\A s \in Slots : KeptOut(s)]_vars
    BY <1>1
  <1> QED BY <1>2, TypeCorrect, CertificatesFollowAlways, PTL DEF Spec, SupersededKeptOut

-----------------------------------------------------------------------------
(* The grace of an edge that is cut off *)

(* When the outage has filled the grace period the edge drains ...          *)
GraceSpent ==
    edge.at = "idle" /\ edge.outage = GraceAttempts => edge.drain # "none"

(* ... and until it is restarted nothing but an answer puts that off: every *)
(* failed attempt counts, and no drain is forgotten between two attempts.   *)
GraceRunsOn ==
    [][/\ edge.at = "idle" /\ edge'.at = "idle"
       /\ ~reachable /\ ~EdgeRestarts
       => /\ edge'.outage >= edge.outage
          /\ edge.drain # "none" => edge'.drain # "none"
          /\ DialFails => edge'.drain # "none" \/ edge'.outage = edge.outage + 1]_vars

(* What an edge between two attempts has come through.                      *)
IdleStep ==
    edge'.at = "idle" =>
        \/ edge'.outage = 0
        \/ /\ edge.at = "idle"
           /\ edge'.outage = edge.outage /\ edge'.drain = edge.drain
        \/ /\ edge.at = "idle" /\ edge'.outage >= edge.outage
           /\ edge'.outage = GraceAttempts => edge'.drain = "open"
           /\ edge'.drain \in {edge.drain, "open"}

LEMMA DialFailsStep ==
    ASSUME TypeOK, DialFails
    PROVE  /\ edge'.outage >= edge.outage /\ edge.at = "idle"
           /\ edge'.outage = GraceAttempts => edge'.drain = "open"
           /\ edge'.drain \in {edge.drain, "open"}
           /\ edge'.drain = "open" \/ edge'.outage = edge.outage + 1
  <1>1. edge \in EdgeType /\ GraceAttempts \in Nat
    BY NodeAssumption DEF TypeOK
  <1>2. PICK lasts : lasts = IF edge.outage < GraceAttempts
                               THEN edge.outage + 1 ELSE GraceAttempts
    OBVIOUS
  <1>3. edge' = [edge EXCEPT !.outage = lasts,
                             !.drain = IF lasts = GraceAttempts THEN "open" ELSE @]
    BY <1>2 DEF DialFails
  <1>4. edge'.outage = lasts
        /\ edge'.drain = IF lasts = GraceAttempts THEN "open" ELSE edge.drain
    BY <1>1, <1>3 DEF EdgeType
  <1>5. edge.outage \in 0..GraceAttempts
    BY <1>1 DEF EdgeType
  <1>6. lasts >= edge.outage /\ (lasts = GraceAttempts \/ lasts = edge.outage + 1)
    BY <1>1, <1>2, <1>5
  <1> QED BY <1>4, <1>6 DEF DialFails

LEMMA EveryIdleStep ==
    ASSUME TypeOK, [Next]_vars
    PROVE  IdleStep /\ (edge.at = "idle" /\ ~EdgeRestarts /\ ~DialFails =>
                           edge'.outage = edge.outage /\ edge'.drain = edge.drain)
  <1> DEFINE Stands == edge'.outage = edge.outage /\ edge'.drain = edge.drain
  <1>1. edge \in EdgeType
    BY DEF TypeOK
  <1>2. ASSUME edge'.at = edge.at, Stands
        PROVE  IdleStep /\ Stands
    BY <1>2 DEF IdleStep
  <1>3. CASE DialFails
    BY <1>3, DialFailsStep DEF IdleStep
  <1>4. CASE EdgeRestarts
    BY <1>4, EdgeRestarted DEF IdleStep
  <1>5. ASSUME NEW s \in Slots, Dial(s) PROVE IdleStep /\ Stands
    <2>1. edge'.at = "open" /\ Stands
      BY <1>1, <1>5 DEF Dial, EdgeType
    <2> QED BY <2>1 DEF IdleStep
  <1>6. CASE StreamEnds \/ StreamBreaks
    <2>1. edge.at = "open" /\ edge'.outage = 0
      BY <1>1, <1>6 DEF StreamEnds, StreamBreaks, AfterHello, EdgeType
    <2> QED BY <2>1 DEF IdleStep
  <1>7. CASE HandleControlMessage
    <2>1. PICK message, snap : edge' = Handled(edge, message, snap)
                               /\ message \in Messages
      <3>1. stream[edge.slot] \in StreamType
        BY <1>1 DEF TypeOK, EdgeType
      <3>2. Head(stream[edge.slot].queue) \in Messages
        BY <1>7, <3>1 DEF HandleControlMessage, StreamType
      <3> QED BY <1>7, <3>2 DEF HandleControlMessage
    <2>2. edge.at = "open"
      BY <1>7 DEF HandleControlMessage
    <2>3. edge'.at \in {"open", "stopped"}
      BY <1>1, <2>1, <2>2 DEF Handled, EdgeType, Messages, Commands
    <2> QED BY <2>2, <2>3 DEF IdleStep
  <1>8. CASE SendReport
    BY <1>2, <1>8 DEF SendReport
  <1>9. CASE StartRenewal
    <2>1. edge.at = "open" /\ edge'.at = "renewing"
      BY <1>1, <1>9 DEF StartRenewal, EdgeType
    <2> QED BY <2>1 DEF IdleStep
  <1>10. CASE RenewalReply
    <2>1. AfterHello(edge).outage = 0
      BY <1>1 DEF AfterHello, EdgeType
    <2>2. DOMAIN AfterHello(edge) = DOMAIN edge /\ "outage" \in DOMAIN edge
      BY <1>1 DEF AfterHello, EdgeType
    <2>3. edge.at # "idle" /\ edge'.outage = 0
      BY <1>10, <2>1, <2>2 DEF RenewalReply, Renewals
    <2> QED BY <2>3 DEF IdleStep
  <1>11. CASE RenewalFails
    <2>1. PICK at : edge' = [AfterHello(edge) EXCEPT !.at = at, !.reply = "none"]
      BY <1>11 DEF RenewalFails
    <2>2. edge.at # "idle" /\ edge'.outage = 0
      BY <1>1, <1>11, <2>1 DEF RenewalFails, AfterHello, EdgeType, Renewals
    <2> QED BY <2>2 DEF IdleStep
  <1>12. CASE ServerNext
    <2>1. edge' = edge \/ \E reply : edge' = [edge EXCEPT !.reply = reply]
      BY <1>12 DEF ServerNext, MarkConnecting, Register, Heartbeat, HandlerEnds,
                   RenewCertificate, ControlPlaneRestarts, SweepNodes
    <2>2. edge'.at = edge.at /\ Stands
      BY <1>1, <2>1 DEF EdgeType
    <2> QED BY <1>2, <2>2
  <1>13. CASE AdminNext \/ UNCHANGED vars
    BY <1>2, <1>13 DEF AdminNext, ReadState, ChangeState, Publish, vars
  <1>14. CASE TimeNext
    <2>1. edge' = edge \/ edge' = [edge EXCEPT !.due = TRUE]
      BY <1>14 DEF TimeNext, HeartbeatAges, CertificateDue, CertificateExpires,
                   OutageBegins, OutageEnds
    <2>2. edge'.at = edge.at /\ Stands
      BY <1>1, <2>1 DEF EdgeType
    <2> QED BY <1>2, <2>2
  <1> QED BY <1>3, <1>4, <1>5, <1>6, <1>7, <1>8, <1>9, <1>10, <1>11, <1>12, <1>13, <1>14
          DEF Next, EdgeNext

(* An edge that has been cut off for the grace period drains (Run).         *)
THEOREM GraceSpentAlways == Spec => []GraceSpent
  <1>1. Init => GraceSpent
    BY NodeAssumption DEF Init, GraceSpent
  <1>2. TypeOK /\ GraceSpent /\ [Next]_vars => GraceSpent'
    BY EveryIdleStep, NodeAssumption DEF IdleStep, GraceSpent
  <1> QED BY <1>1, <1>2, TypeCorrect, PTL DEF Spec

(* The grace period is reached after GraceAttempts failed attempts: the half*)
(* of GraceDrains that needs no fairness.                                   *)
THEOREM GraceRunsOnAlways == Spec => GraceRunsOn
  <1> DEFINE RunsOn ==
        /\ edge.at = "idle" /\ edge'.at = "idle"
        /\ ~reachable /\ ~EdgeRestarts
        => /\ edge'.outage >= edge.outage
           /\ edge.drain # "none" => edge'.drain # "none"
           /\ DialFails => edge'.drain # "none" \/ edge'.outage = edge.outage + 1
  <1>1. ASSUME TypeOK, [Next]_vars PROVE RunsOn
    <2>1. CASE DialFails
      BY <1>1, <2>1, DialFailsStep
    <2>2. CASE ~DialFails
      <3>1. edge.outage \in Nat
        BY <1>1, NodeAssumption DEF TypeOK, EdgeType
      <3> QED BY <1>1, <2>2, <3>1, EveryIdleStep
    <2> QED BY <2>1, <2>2
  <1>2. TypeOK /\ [Next]_vars => [RunsOn]_vars
    BY <1>1
  <1> QED BY <1>2, TypeCorrect, PTL DEF Spec, GraceRunsOn

=============================================================================
