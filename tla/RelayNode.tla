------------------------------ MODULE RelayNode ------------------------------
(***************************************************************************)
(* The life of one enrolled relay node: its row in relay_nodes, the control*)
(* stream between the edge process and the control plane, the orders of    *)
(* administrators, the renewal of its certificate and the node sweeper.    *)
(*                                                                         *)
(*   Backend/internal/relayregistry  control.go, service.go, repository.go *)
(*   Backend/internal/relayruntime   control_client.go, identity.go        *)
(*                                                                         *)
(* A step of the control plane is one database statement or one message    *)
(* handled.  An administrator's order is three steps (read and check,      *)
(* write, publish), a new stream two (MarkConnecting, Register), and other *)
(* handlers run between them.  The edge works on one stream at a time, but *)
(* the control plane may not have noticed yet that it left an earlier one. *)
(*                                                                         *)
(* stream[s].queue is everything on its way to the edge: the subscription's*)
(* channel in ControlHub and then the gRPC stream.  KeysetUpdate and       *)
(* CertificateRotation change nothing modelled here and are left out.      *)
(***************************************************************************)
EXTENDS Naturals, Sequences, FiniteSets

CONSTANTS
    Admins,         \* administrators who may act at the same time
    Slots,          \* control streams that may exist at the same time
    HubBuffer,      \* capacity of a subscription's channel
    GraceAttempts,  \* failed dials that fill control_disconnect_grace_seconds
    Faults,         \* kinds of fault that may happen
    MaxOrders,      \* bound on administrators' orders
    MaxRenewals,    \* bound on certificates that become due
    MaxFaults       \* bound on faults

(* disk: saveIdentity fails; keyset: UpdateKeyset refuses; restart: of the  *)
(* control plane; crash: of the edge.                                       *)
FaultKinds == {"break", "outage", "lost", "crash", "restart", "disk", "keyset"}

ASSUME NodeAssumption ==
    /\ HubBuffer \in Nat \ {0}
    /\ GraceAttempts \in Nat \ {0, 1}
    /\ Faults \subseteq FaultKinds
    /\ {MaxOrders, MaxRenewals, MaxFaults} \subseteq Nat

VARIABLES
    row,        \* relay_nodes: state, fingerprint, expiry, heartbeat's age
    edge,       \* the edge: cert of its memory, file of identity.json
    stream,     \* Slots -> a control stream
    admin,      \* Admins -> position in Service.changeState and its caller
    reachable,  \* the edge can reach the control plane
    spent       \* how much of each bound is used up

vars == <<row, edge, stream, admin, reachable, spent>>

-----------------------------------------------------------------------------
(* States *)

RowStates == {"BOOTSTRAPPING", "CONNECTING", "READY", "DRAINING",
              "UNHEALTHY", "OFFLINE", "REVOKED"}
Orders    == {"DRAINING", "READY", "REVOKED"}    \* Drain, Resume, Revoke
Commands  == {"EnterDrain", "ExitDrain", "Shutdown"}
Messages  == Commands \cup {"ConfigSnapshot"}

(* hello: Hello sent; marked: MarkConnecting done; open: in the hub, in the *)
(* receive loop; closed: the handler returned, the edge has not noticed.    *)
Phases  == {"none", "hello", "marked", "open", "closed"}
Running == {"hello", "marked", "open"}

Drains == {"none", "open", "deadline"}    \* draining without, with a deadline

(* idle: between two calls of connectOnce; renewing: in renewIdentity from  *)
(* a heartbeat tick; starting: in renewIdentity from LoadOrEnroll.          *)
EdgeAt   == {"idle", "open", "renewing", "starting", "stopped"}
OnStream == {"open", "renewing"}
Renewals == {"renewing", "starting"}

NoStream == [phase |-> "none", cert |-> 0, snap |-> "CONNECTING",
             queue |-> <<>>, beat |-> FALSE]
NoOrder  == [at |-> "idle", order |-> "READY"]

(* After Enroll: the certificate of the row is the one in identity.json. *)
Init ==
    /\ row = [state |-> "BOOTSTRAPPING", cert |-> 1, expired |-> FALSE,
              age |-> 0]
    /\ \E s \in Slots :
          edge = [at |-> "idle", slot |-> s, drain |-> "none", cert |-> 1,
                  file |-> 1, due |-> FALSE, outage |-> 0, reply |-> "none"]
    /\ stream = [s \in Slots |-> NoStream]
    /\ admin = [i \in Admins |-> NoOrder]
    /\ reachable = TRUE
    /\ spent = [orders |-> 0, renewals |-> 0, faults |-> 0]

EdgeIsOn(s) == edge.at \in OnStream /\ edge.slot = s

Fault(kind) ==
    /\ kind \in Faults
    /\ spent.faults < MaxFaults
    /\ spent' = [spent EXCEPT !.faults = @ + 1]

-----------------------------------------------------------------------------
(* The edge: ControlClient.Run and connectOnce *)

(* The edge drops its stream; the handler may go on for a while. *)
Dropped(s) ==
    IF stream[s].phase \in Running
    THEN [stream EXCEPT ![s].queue = <<>>]
    ELSE [stream EXCEPT ![s] = NoStream]

(* Run after an error of an attempt that had sent Hello: lastConnectedAt is *)
(* after disconnectedAt, so the outage starts now.                          *)
AfterHello(e) == [e EXCEPT !.at = "idle", !.outage = 0]

(* An attempt that gets as far as Hello. *)
Dial(s) ==
    /\ edge.at = "idle" /\ reachable
    /\ stream[s].phase = "none"
    /\ edge' = [edge EXCEPT !.at = "open", !.slot = s]
    /\ stream' = [stream EXCEPT ![s] =
                    [NoStream EXCEPT !.phase = "hello", !.cert = edge.cert]]
    /\ UNCHANGED <<row, admin, reachable, spent>>

(* mutant: every failed attempt starts the outage anew *)
DialFailsAnew ==
    /\ edge.at = "idle" /\ ~reachable
    /\ edge' = [edge EXCEPT !.outage = 1]
    /\ UNCHANGED <<row, stream, admin, reachable, spent>>
(* An attempt that does not: the outage goes on, and when it has lasted the *)
(* grace period, Run calls SetDraining(TRUE), which clears any deadline.    *)
DialFails ==
    /\ edge.at = "idle" /\ ~reachable
    /\ LET lasts == IF edge.outage < GraceAttempts THEN edge.outage + 1
                                                   ELSE GraceAttempts
       IN  edge' = [edge EXCEPT !.outage = lasts,
                                !.drain = IF lasts = GraceAttempts THEN "open"
                                                                   ELSE @]
    /\ UNCHANGED <<row, stream, admin, reachable, spent>>

(* The edge sees that the handler returned; what is queued is lost, or may  *)
(* have been received before.                                               *)
StreamEnds ==
    /\ edge.at = "open" /\ stream[edge.slot].phase = "closed" /\ reachable
    /\ edge' = AfterHello(edge)
    /\ stream' = Dropped(edge.slot)
    /\ UNCHANGED <<row, admin, reachable, spent>>

(* The transport fails under the stream. *)
StreamBreaks ==
    /\ edge.at = "open"
    /\ \/ Fault("break")
       \/ ~reachable /\ UNCHANGED spent
    /\ edge' = AfterHello(edge)
    /\ stream' = Dropped(edge.slot)
    /\ UNCHANGED <<row, admin, reachable>>

(* enterDrain, SetDraining: what a message makes of the edge.  A node that  *)
(* Drain put into DRAINING has a deadline, so both drain messages carry it. *)
Handled(e, message, snap) ==
    CASE message = "EnterDrain" -> [e EXCEPT !.drain = "deadline"]
      [] message = "ExitDrain"  -> [e EXCEPT !.drain = "none"]
      [] message = "Shutdown"   -> [e EXCEPT !.drain = "open", !.at = "stopped"]
      [] message = "ConfigSnapshot" ->
            [e EXCEPT !.drain = IF snap = "DRAINING" THEN "deadline"
                                                     ELSE "none"]

HandleControlMessage ==
    LET here == stream[edge.slot]
        next == Handled(edge, Head(here.queue), here.snap)
    IN  /\ edge.at = "open"
        /\ here.queue # <<>>
        /\ edge' = next
        /\ stream' = IF next.at = "stopped"
                     THEN Dropped(edge.slot)
                     ELSE [stream EXCEPT ![edge.slot].queue = Tail(@)]
        /\ UNCHANGED <<row, admin, reachable, spent>>

(* A heartbeat tick. *)
SendReport ==
    /\ edge.at = "open" /\ ~edge.due
    /\ stream[edge.slot].phase \in Running
    /\ ~stream[edge.slot].beat
    /\ stream' = [stream EXCEPT ![edge.slot].beat = TRUE]
    /\ UNCHANGED <<row, edge, admin, reachable, spent>>

StartRenewal ==
    /\ edge.at = "open" /\ edge.due
    /\ edge' = [edge EXCEPT !.at = "renewing"]
    /\ UNCHANGED <<row, stream, admin, reachable, spent>>

(* mutant: the renewed certificate is saved nowhere *)
RenewalReplyForgotten ==
    /\ edge.at \in Renewals /\ edge.reply = "issued"
    /\ edge' = [AfterHello(edge) EXCEPT !.due = FALSE, !.reply = "none"]
    /\ stream' = IF edge.at = "renewing" THEN Dropped(edge.slot) ELSE stream
    /\ UNCHANGED <<row, admin, reachable, spent>>
(* mutant: c.identity is renewed before identity.json is written *)
RenewalReplyRemembered ==
    /\ edge.at \in Renewals /\ edge.reply = "issued"
    /\ LET renewed == [AfterHello(edge) EXCEPT !.cert = row.cert,
                                               !.due = FALSE, !.reply = "none"]
       IN  \/ edge' = [renewed EXCEPT !.file = row.cert] /\ UNCHANGED spent
           \/ Fault("disk") /\ edge' = renewed
    /\ stream' = IF edge.at = "renewing" THEN Dropped(edge.slot) ELSE stream
    /\ UNCHANGED <<row, admin, reachable>>
(* renewIdentity returns.  identity.json is written, UpdateKeyset checks the*)
(* new keyset, c.identity is replaced and the stream is left, whatever is   *)
(* still on its way.  An error of the first two leaves the stream as well,  *)
(* with the old c.identity; LoadOrEnroll, which has no keyset to check yet, *)
(* gives up.  A crash after the file was written is this step and then      *)
(* EdgeRestarts; one before it, EdgeRestarts alone.                         *)
RenewalReply ==
    LET left == [AfterHello(edge) EXCEPT !.reply = "none"]
    IN  /\ edge.at \in Renewals /\ edge.reply = "issued"
        /\ \/ /\ edge' = [left EXCEPT !.cert = row.cert, !.file = row.cert,
                                        !.due = FALSE]
              /\ UNCHANGED spent
           \/ /\ Fault("disk")
              /\ edge' = [left EXCEPT !.at = IF edge.at = "starting"
                                              THEN "stopped" ELSE "idle"]
           \/ /\ edge.at = "renewing" /\ Fault("keyset")
              /\ edge' = [left EXCEPT !.file = row.cert]
        /\ stream' = IF edge.at = "renewing" THEN Dropped(edge.slot) ELSE stream
        /\ UNCHANGED <<row, admin, reachable>>

(* The request is refused, or the request or its reply is lost.  At start   *)
(* the process goes on only if its certificate is valid for 5 minutes.      *)
RenewalFails ==
    /\ edge.at \in Renewals
    /\ \/ /\ edge.reply = "failed" \/ ~reachable
          /\ UNCHANGED spent
       \/ Fault("lost")
    /\ \E at \in {"idle", "stopped"} :
          /\ at = "stopped" => edge.at = "starting"
          /\ edge' = [AfterHello(edge) EXCEPT !.at = at, !.reply = "none"]
    /\ stream' = IF edge.at = "renewing" THEN Dropped(edge.slot) ELSE stream
    /\ UNCHANGED <<row, admin, reachable>>

(* The process dies and is started again: a new Runtime, LoadOrEnroll with  *)
(* the certificate of identity.json, which is not due yet when only the file*)
(* has it.                                                                  *)
EdgeRestarts ==
    /\ Fault("crash")
    /\ LET due == edge.due /\ edge.file = edge.cert
       IN  edge' = [edge EXCEPT !.at = IF due THEN "starting" ELSE "idle",
                                !.cert = edge.file, !.due = due,
                                !.drain = "none", !.outage = 0,
                                !.reply = "none"]
    /\ stream' = IF edge.at \in OnStream THEN Dropped(edge.slot) ELSE stream
    /\ UNCHANGED <<row, admin, reachable>>

-----------------------------------------------------------------------------
(* The control plane: ControlServer.Connect and the handlers it calls *)

(* Connect returns; the edge may still be on the stream. *)
Returned(s) ==
    IF EdgeIsOn(s)
    THEN [stream EXCEPT ![s].phase = "closed", ![s].beat = FALSE]
    ELSE [stream EXCEPT ![s] = NoStream]

(* mutant: the UPDATE does not test the state *)
MarkConnectingRevoked(s) ==
    /\ stream[s].phase = "hello"
    /\ stream[s].cert = row.cert /\ ~row.expired
    /\ row' = [row EXCEPT !.state = "CONNECTING", !.age = 0]
    /\ stream' = [stream EXCEPT ![s].phase = "marked",
                                ![s].snap = row'.state]
    /\ UNCHANGED <<edge, admin, reachable, spent>>
(* UPDATE ... WHERE fingerprint, expiry and state allow it. *)
MarkConnecting(s) ==
    /\ stream[s].phase = "hello"
    /\ IF stream[s].cert = row.cert /\ ~row.expired /\ row.state # "REVOKED"
       THEN /\ row' = [row EXCEPT !.state = "CONNECTING", !.age = 0]
            /\ stream' = [stream EXCEPT ![s].phase = "marked",
                                        ![s].snap = row'.state]
       ELSE /\ stream' = Returned(s)
            /\ UNCHANGED row
    /\ UNCHANGED <<edge, admin, reachable, spent>>

(* hub.Register, then the snapshot of the row MarkConnecting returned. *)
Register(s) ==
    /\ stream[s].phase = "marked"
    /\ stream' = [stream EXCEPT ![s].phase = "open",
                    ![s].queue = IF EdgeIsOn(s)
                                 THEN Append(@, "ConfigSnapshot") ELSE @]
    /\ UNCHANGED <<row, edge, admin, reachable, spent>>

(* mutant: a refused heartbeat does not end the stream *)
HeartbeatIgnored(s) ==
    /\ stream[s].phase = "open" /\ stream[s].beat
    /\ IF row.state # "REVOKED"
       THEN row' = [row EXCEPT !.age = 0,
                      !.state = IF @ = "DRAINING" THEN "DRAINING" ELSE "READY"]
       ELSE UNCHANGED row
    /\ stream' = [stream EXCEPT ![s].beat = FALSE]
    /\ UNCHANGED <<edge, admin, reachable, spent>>
Heartbeat(s) ==
    /\ stream[s].phase = "open" /\ stream[s].beat
    /\ IF row.state # "REVOKED"
       THEN /\ row' = [row EXCEPT !.age = 0,
                         !.state = IF @ = "DRAINING" THEN "DRAINING"
                                                     ELSE "READY"]
            /\ stream' = [stream EXCEPT ![s].beat = FALSE]
       ELSE /\ stream' = Returned(s)
            /\ UNCHANGED row
    /\ UNCHANGED <<edge, admin, reachable, spent>>

(* The handler notices that the edge is gone. *)
HandlerEnds(s) ==
    /\ stream[s].phase \in Running /\ ~EdgeIsOn(s)
    /\ stream' = [stream EXCEPT ![s] = NoStream]
    /\ UNCHANGED <<row, edge, admin, reachable, spent>>

(* The HTTP request of renewIdentity; the UPDATE tests the state again. *)
RenewCertificate ==
    /\ edge.at \in Renewals /\ edge.reply = "none"
    /\ IF row.state # "REVOKED"
       THEN /\ row' = [row EXCEPT !.cert = @ + 1, !.expired = FALSE]
            /\ edge' = [edge EXCEPT !.reply = "issued"]
       ELSE /\ edge' = [edge EXCEPT !.reply = "failed"]
            /\ UNCHANGED row
    /\ UNCHANGED <<stream, admin, reachable, spent>>

(* Every handler of the control plane is lost, the HTTP reply to a renewal   *)
(* perhaps too; the row is not.                                             *)
ControlPlaneRestarts ==
    /\ Fault("restart")
    /\ \E reply \in {edge.reply, "failed"} :
          /\ reply # edge.reply => edge.at \in Renewals
          /\ edge' = [edge EXCEPT !.reply = reply]
    /\ stream' = [s \in Slots |->
                    IF stream[s].phase = "none" \/ ~EdgeIsOn(s) THEN NoStream
                    ELSE [stream[s] EXCEPT !.phase = "closed", !.beat = FALSE]]
    /\ admin' = [i \in Admins |-> NoOrder]
    /\ UNCHANGED <<row, reachable>>

(* mutant: the sweep takes revoked nodes too *)
SweepNodesRevoked ==
    /\ row.state # "OFFLINE"
    /\ row.age >= 1 \/ row.expired
    /\ row' = [row EXCEPT !.state = IF row.age = 2 \/ row.expired
                                    THEN "OFFLINE" ELSE "UNHEALTHY"]
    /\ UNCHANGED <<edge, stream, admin, reachable, spent>>
SweepNodes ==
    /\ row.state \notin {"OFFLINE", "REVOKED"}
    /\ row.age >= 1 \/ row.expired
    /\ row' = [row EXCEPT !.state = IF row.age = 2 \/ row.expired
                                    THEN "OFFLINE" ELSE "UNHEALTHY"]
    /\ UNCHANGED <<edge, stream, admin, reachable, spent>>

-----------------------------------------------------------------------------
(* Administrators: Service.Drain, Resume, Revoke *)

Permitted(order, state) ==
    /\ state # "REVOKED"
    /\ order = "READY" => state \in {"DRAINING", "UNHEALTHY", "OFFLINE"}
    /\ order = "DRAINING" => state = "READY"

(* changeState: Get and the checks. *)
ReadState(i, order) ==
    /\ admin[i].at = "idle"
    /\ spent.orders < MaxOrders
    /\ Permitted(order, row.state)
    /\ admin' = [admin EXCEPT ![i] = [at |-> "write", order |-> order]]
    /\ spent' = [spent EXCEPT !.orders = @ + 1]
    /\ UNCHANGED <<row, edge, stream, reachable>>

(* The UPDATE has no condition on the state. *)
ChangeState(i) ==
    /\ admin[i].at = "write"
    /\ row' = [row EXCEPT !.state = admin[i].order]
    /\ admin' = [admin EXCEPT ![i].at = "publish"]
    /\ UNCHANGED <<edge, stream, reachable, spent>>

CommandOf(order) ==
    CASE order = "DRAINING" -> "EnterDrain"
      [] order = "READY"    -> "ExitDrain"
      [] order = "REVOKED"  -> "Shutdown"

(* ControlHub.Publish: every subscription whose channel has room. *)
Publish(i) ==
    /\ admin[i].at = "publish"
    /\ stream' = [s \in Slots |->
                    IF /\ stream[s].phase = "open" /\ EdgeIsOn(s)
                       /\ Len(stream[s].queue) < HubBuffer
                    THEN [stream[s] EXCEPT
                            !.queue = Append(@, CommandOf(admin[i].order))]
                    ELSE stream[s]]
    /\ admin' = [admin EXCEPT ![i] = NoOrder]
    /\ UNCHANGED <<row, edge, reachable, spent>>

-----------------------------------------------------------------------------
(* Time and the network *)

(* unhealthy_after (1) and offline_after (2) since the last heartbeat. *)
HeartbeatAges ==
    /\ row.age < 2
    /\ row' = [row EXCEPT !.age = @ + 1]
    /\ UNCHANGED <<edge, stream, admin, reachable, spent>>

(* The last quarter of the certificate's life begins. *)
CertificateDue ==
    /\ ~edge.due /\ edge.at \in {"idle", "open"}
    /\ spent.renewals < MaxRenewals
    /\ edge' = [edge EXCEPT !.due = TRUE]
    /\ spent' = [spent EXCEPT !.renewals = @ + 1]
    /\ UNCHANGED <<row, stream, admin, reachable>>

CertificateExpires ==
    /\ edge.due /\ edge.cert = row.cert /\ ~row.expired
    /\ row' = [row EXCEPT !.expired = TRUE]
    /\ UNCHANGED <<edge, stream, admin, reachable, spent>>

OutageBegins ==
    /\ reachable /\ Fault("outage")
    /\ reachable' = FALSE
    /\ UNCHANGED <<row, edge, stream, admin>>

OutageEnds ==
    /\ ~reachable
    /\ reachable' = TRUE
    /\ UNCHANGED <<row, edge, stream, admin, spent>>

-----------------------------------------------------------------------------
EdgeNext ==
    \/ \E s \in Slots : Dial(s)
    \/ DialFails
    \/ StreamEnds
    \/ StreamBreaks
    \/ HandleControlMessage
    \/ SendReport
    \/ StartRenewal
    \/ RenewalReply
    \/ RenewalFails
    \/ EdgeRestarts

ServerNext ==
    \/ \E s \in Slots : \/ MarkConnecting(s)
                        \/ Register(s)
                        \/ Heartbeat(s)
                        \/ HandlerEnds(s)
    \/ RenewCertificate
    \/ ControlPlaneRestarts
    \/ SweepNodes

AdminNext ==
    \E i \in Admins : \/ \E order \in Orders : ReadState(i, order)
                      \/ ChangeState(i)
                      \/ Publish(i)

TimeNext ==
    \/ HeartbeatAges
    \/ CertificateDue
    \/ CertificateExpires
    \/ OutageBegins
    \/ OutageEnds

Next == EdgeNext \/ ServerNext \/ AdminNext \/ TimeNext

Spec == Init /\ [][Next]_vars

(***************************************************************************)
(* Fairness.  Run's loop redials, the receive goroutines and the ticker of *)
(* a stream go on, handlers run to their end, a dead transport is noticed. *)
(* Nothing is assumed of administrators before they start, of the sweeper, *)
(* of time, or of the end of an outage; what is on its way when an outage  *)
(* begins may arrive or not.                                               *)
(***************************************************************************)
EdgeFairness ==
    /\ \A s \in Slots : WF_vars(Dial(s))
    /\ WF_vars(DialFails)
    /\ WF_vars(StreamEnds)
    /\ WF_vars(~reachable /\ StreamBreaks)
    /\ WF_vars(reachable /\ HandleControlMessage)
    /\ WF_vars(SendReport)
    /\ WF_vars(StartRenewal)
    /\ WF_vars(reachable /\ RenewalReply)
    /\ WF_vars((edge.reply = "failed" \/ ~reachable) /\ RenewalFails)

ServerFairness ==
    /\ \A s \in Slots : /\ WF_vars(reachable /\ MarkConnecting(s))
                        /\ WF_vars(Register(s))
                        /\ WF_vars(reachable /\ Heartbeat(s))
                        /\ WF_vars(HandlerEnds(s))
    /\ WF_vars(reachable /\ RenewCertificate)
    /\ \A i \in Admins : WF_vars(ChangeState(i)) /\ WF_vars(Publish(i))

FairSpec == Spec /\ EdgeFairness /\ ServerFairness

-----------------------------------------------------------------------------
(* Types *)

RowType    == [state : RowStates, cert : Nat \ {0}, expired : BOOLEAN,
               age : 0..2]
EdgeType   == [at : EdgeAt, slot : Slots, drain : Drains, cert : Nat \ {0},
               file : Nat \ {0}, due : BOOLEAN, outage : 0..GraceAttempts,
               reply : {"none", "issued", "failed"}]
StreamType == [phase : Phases, cert : Nat, snap : RowStates,
               queue : Seq(Messages), beat : BOOLEAN]
AdminType  == [at : {"idle", "write", "publish"}, order : Orders]
SpentType  == [orders : Nat, renewals : Nat, faults : Nat]

(* The shape of the state of the control plane and of the edge. *)
TypeOK ==
    /\ row \in RowType
    /\ edge \in EdgeType
    /\ stream \in [Slots -> StreamType]
    /\ admin \in [Admins -> AdminType]
    /\ reachable \in BOOLEAN
    /\ spent \in SpentType

-----------------------------------------------------------------------------
(* Safety *)

Writing(order) ==
    \E i \in Admins : admin[i].at = "write" /\ admin[i].order = order

(* No reconnect, late heartbeat, renewal or sweep brings a revoked node     *)
(* back: only an administrator whose checks ran before the revocation.      *)
RevokedUnlessRacing ==
    [][row.state = "REVOKED" /\ row'.state # "REVOKED"
         => \E order \in Orders : Writing(order) /\ row'.state = order]_vars

(* online-architecture.md:397, "`REVOKED` is permanent". *)
RevokedIsPermanent ==
    [][row.state = "REVOKED" => row'.state = "REVOKED"]_vars

(* relay-migration.md:56, "`ConfigSnapshot` restores the persisted drain    *)
(* state when the node reconnects": the snapshot of a node that was DRAINING*)
(* when its Hello was accepted says so.                                     *)
SnapshotRestoresDrain ==
    [][\A s \in Slots :
         /\ stream[s].phase = "hello" /\ stream'[s].phase = "marked"
         /\ row.state = "DRAINING"
         => stream'[s].snap = "DRAINING"]_vars

(* Seen from the rest of the control plane, the row keeps the life cycle of *)
(* NodeLifecycle, whatever streams, renewals and restarts do to it.         *)
Lifecycle == INSTANCE NodeLifecycle WITH
    state   <- row.state,
    pending <- {order \in Orders : Writing(order)}

KeepsLifecycle == Lifecycle!Spec

(* The certificate the row names is in identity.json, or the reply that     *)
(* brings it is on its way; an edge that works with another one renews again*)
(* on its next heartbeat tick.                                              *)
IdentityKept ==
    /\ \/ row.cert = edge.file
       \/ /\ edge.at \in Renewals /\ edge.reply = "issued"
          /\ row.cert = edge.file + 1
    /\ edge.cert = edge.file \/ edge.due

(* While the edge can reach the control plane, IdentityKept holds: the      *)
(* control plane never locks out, beyond a restart, an edge whose streams   *)
(* merely break or whose Runtime refuses a keyset.                          *)
IdentityKeptOnline == []reachable => []IdentityKept

(* A renewal that got lost between the row and identity.json (reply lost,   *)
(* disk full, a crash at either side of the write) is asked for again: the  *)
(* edge, restarted or not, never takes the old certificate for a fresh one. *)
LostRenewalStaysDue == edge.file # row.cert => edge.due

-----------------------------------------------------------------------------
(* Liveness *)

Registered(s) == stream[s].phase = "open" /\ EdgeIsOn(s)

(* overview.md:46: a renewal that was started ends with the edge back on a  *)
(* registered stream, without a restart, unless the node was revoked, the   *)
(* network fails or its Runtime refuses the keyset.                         *)
RenewsOnline ==
    [](reachable /\ edge.cert = edge.file) =>
      (edge.at = "renewing"
         ~> \/ edge.at = "open" /\ Registered(edge.slot) /\ ~edge.due
            \/ row.state = "REVOKED" \/ edge.at = "stopped")

(* A revoked node loses its control stream even when Shutdown never reaches *)
(* it, because heartbeats and Hellos are refused.                           *)
RevocationCutsOff ==
    <>[](row.state = "REVOKED") => <>[](\A s \in Slots : ~Registered(s))

(* An edge that can not reach the control plane ends up draining and goes on*)
(* draining, whatever it was doing when the outage began (Run's grace).     *)
GraceDrains ==
    <>[](~reachable) => <>[](edge.drain # "none" \/ edge.at = "stopped")
=============================================================================
