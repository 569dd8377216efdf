---------------------------- MODULE NodeLifecycle ----------------------------
(***************************************************************************)
(* What the rest of the control plane may rely on about the state of one   *)
(* relay node, without streams, heartbeats' ages or certificates.  An order*)
(* of an administrator is permitted in the state it is given in, and takes *)
(* effect later, in whatever state the node has by then.                   *)
(***************************************************************************)
VARIABLES
    state,     \* relay_nodes.state
    pending    \* orders that passed their checks and are not written yet

States == {"BOOTSTRAPPING", "CONNECTING", "READY", "DRAINING",
           "UNHEALTHY", "OFFLINE", "REVOKED"}

\* Drain, Resume and Revoke, named by the state they lead to.
Orders == {"DRAINING", "READY", "REVOKED"}

Permitted(order, s) ==
    /\ s # "REVOKED"
    /\ order = "READY" => s \in {"DRAINING", "UNHEALTHY", "OFFLINE"}
    /\ order = "DRAINING" => s = "READY"

Init == state \in States \ {"REVOKED"} /\ pending = {}

\* The edge says Hello, or reports.
Connect ==
    /\ state # "REVOKED"
    /\ state' = "CONNECTING"
    /\ UNCHANGED pending

Report ==
    /\ state # "REVOKED"
    /\ state' = IF state = "DRAINING" THEN "DRAINING" ELSE "READY"
    /\ UNCHANGED pending

\* No report for long enough.
Lapse ==
    /\ state \notin {"OFFLINE", "REVOKED"}
    /\ state' \in {"UNHEALTHY", "OFFLINE"}
    /\ UNCHANGED pending

Give(order) ==
    /\ Permitted(order, state)
    /\ pending' = pending \cup {order}
    /\ UNCHANGED state

\* Another administrator may have given the same order.
Obey(order) ==
    /\ order \in pending \/ Permitted(order, state)
    /\ state' = order
    /\ pending' \in {pending, pending \ {order}}

\* The control plane restarts before the orders are written.
Forget ==
    /\ pending' = {}
    /\ UNCHANGED state

Next ==
    \/ Connect
    \/ Report
    \/ Lapse
    \/ \E order \in Orders : Give(order) \/ Obey(order)
    \/ Forget

Spec == Init /\ [][Next]_<<state, pending>>
=============================================================================
