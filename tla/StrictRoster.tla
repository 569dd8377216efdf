---------------------------- MODULE StrictRoster ----------------------------
(***************************************************************************)
(* Strict admission of one match attempt.  The control plane freezes the   *)
(* roster, signs an allocation for the authority of the match and grants   *)
(* for its players; the policy in the payload of the authority installs the*)
(* allocation and lets the bearers of grants take their frozen seats.      *)
(*                                                                         *)
(*   Payload/Admission/StrictRosterPolicy.h        the policy              *)
(*   Payload/dllmain.cpp                           its pipe commands       *)
(*   Backend/internal/matchlobby/service.go        the attempt             *)
(*   Backend/internal/matchlobby/sweeper.go        its time-outs           *)
(*                                                                         *)
(* Every transaction, and every call of the policy (which holds mutex_), is*)
(* one step; an allocation is read in two.  The toolbox that carries the   *)
(* allocation to the payload and reports the connections is external: its  *)
(* reports come late, twice, in any order or never.  A grant is known by   *)
(* its player, its connection generation and its route generation, which   *)
(* no two have in common.  Signatures are taken to be those of the issuer.  *)
(* The expiry of grants and allocations is no state: what has expired is what*)
(* nobody uses any more, and whoever may use something here may also never. *)
(***************************************************************************)
EXTENDS Integers, FiniteSets

CONSTANTS
    Players,
    Host,            \* the owner of a P2P lobby
    TeamOne,         \* the others are team 2
    HostingKinds,    \* subset of {"P2P", "DEDICATED"}
    MaxRoute,        \* bound on the recoveries of the host
    MaxGrants        \* bound on the grants that are issued

ASSUME RosterAssumption ==
    /\ Host \in Players
    /\ TeamOne \subseteq Players
    /\ HostingKinds \subseteq {"P2P", "DEDICATED"}
    /\ MaxRoute \in Nat /\ MaxGrants \in Nat

VARIABLES
    (* the control plane *)
    hosting,     \* match_attempts.hosting_kind
    attempt,     \* state, route, payloadRoute (0 for NULL), fresh
                 \* (authority_last_seen_at), reconnecting (the deadline is set)
    roster,      \* Players -> generation and connection state
    issued, revoked, consumed,               \* the grants
    (* the payload *)
    alloc,       \* allocation_: route (0 for none), generations, the players
                 \* whose seat is connected
    started,     \* authorityStarted_
    used,        \* usedJtis_
    links,       \* the connections of the game, by the grant of each
    (* the toolbox *)
    toolbox,     \* what it does, and the allocation it holds
    (* for the properties only *)
    admitted     \* the grants that have let somebody in

rosterVars == <<roster, issued, revoked, consumed>>
policyVars == <<alloc, started, used>>
vars == <<hosting, attempt, rosterVars, policyVars, links, toolbox, admitted>>

Grants == [player : Players, generation : Nat, route : Nat]
Active == {"PROVISIONING", "CONNECTING", "RUNNING"}
Ended  == attempt.state \notin Active

IsHost(p) == hosting = "P2P" /\ p = Host
Remote    == {p \in Players : ~IsHost(p)}
Teams     == {TeamOne, Players \ TeamOne}

NoAllocation ==
    [route |-> 0, gen |-> [p \in Players |-> 0], connected |-> {}]

Idle == [step |-> "idle", route |-> 0, gen |-> [p \in Players |-> 0]]

(* Start has frozen the roster; the deadline of a P2P host already runs.     *)
Init ==
    /\ hosting \in HostingKinds
    /\ attempt = [state |-> "PROVISIONING", route |-> 1, payloadRoute |-> 0,
                  fresh |-> FALSE, reconnecting |-> hosting = "P2P"]
    /\ roster = [p \in Players |-> [gen |-> 1, state |-> "RESERVED"]]
    /\ issued = {} /\ revoked = {} /\ consumed = {}
    /\ alloc = NoAllocation
    /\ started = FALSE
    /\ used = {}
    /\ links = {}
    /\ toolbox = Idle
    /\ admitted = {}

-----------------------------------------------------------------------------
(* The toolbox brings an allocation to the payload *)

(* allocation() reads the attempt and then, in no transaction, the roster.   *)
ReadAttempt ==
    /\ toolbox.step = "idle"
    /\ ~Ended
    /\ toolbox' = [toolbox EXCEPT !.step = "reading", !.route = attempt.route]
    /\ UNCHANGED <<hosting, attempt, rosterVars, policyVars, links, admitted>>

FrozenRoster ==
    /\ toolbox.step = "reading"
    /\ toolbox' = [toolbox EXCEPT !.step = "install",
                                  !.gen = [p \in Players |-> roster[p].gen]]
    /\ UNCHANGED <<hosting, attempt, rosterVars, policyVars, links, admitted>>

Snapshot(connected) ==
    [route |-> toolbox.route, gen |-> toolbox.gen, connected |-> connected]

(* Mutant: every other route counts as a conflict.                           *)
ConflictsOtherRoute ==
    \/ toolbox.route # alloc.route
    \/ \E p \in Players : toolbox.gen[p] < alloc.gen[p]

Conflicts ==
    \/ toolbox.route \notin {alloc.route, alloc.route + 1}
    \/ \E p \in Players : toolbox.gen[p] < alloc.gen[p]

(* Another attempt, or none, was installed before: ResetLocked.              *)
InstallFirst ==
    /\ alloc.route = 0
    /\ alloc' = Snapshot({})
    /\ started' = FALSE
    /\ used' = {}

(* The same route: only key and expiry are replaced, not the generations.    *)
InstallRenewal ==
    /\ alloc.route # 0 /\ ~Conflicts
    /\ toolbox.route = alloc.route
    /\ UNCHANGED policyVars

InstallRoute ==
    /\ alloc.route # 0 /\ ~Conflicts
    /\ toolbox.route = alloc.route + 1
    /\ alloc' = Snapshot(IF started /\ hosting = "P2P" THEN {Host} ELSE {})
    /\ UNCHANGED <<started, used>>

InstallAllocation ==
    /\ toolbox.step = "install"
    /\ \/ /\ InstallFirst \/ InstallRenewal \/ InstallRoute
          /\ toolbox' = [toolbox EXCEPT !.step = "confirm", !.gen = Idle.gen]
       \/ /\ alloc.route # 0 /\ Conflicts
          /\ toolbox' = Idle
          /\ UNCHANGED policyVars
    /\ UNCHANGED <<hosting, attempt, rosterVars, links, admitted>>

(* Mutant: the route of the confirmation is not compared.                    *)
InstalledAnyRoute ==
    /\ toolbox.step = "confirm"
    /\ attempt' = IF ~Ended THEN [attempt EXCEPT !.payloadRoute = attempt.route]
                            ELSE attempt
    /\ toolbox' = Idle
    /\ UNCHANGED <<hosting, rosterVars, policyVars, links, admitted>>

(* The answer of PayloadInstalled: accepted, stale or no longer active.      *)
PayloadInstalled ==
    /\ toolbox.step = "confirm"
    /\ attempt' = IF ~Ended /\ toolbox.route = attempt.route
                  THEN [attempt EXCEPT !.payloadRoute = attempt.route]
                  ELSE attempt
    /\ toolbox' = Idle
    /\ UNCHANGED <<hosting, rosterVars, policyVars, links, admitted>>

(* With the platform identity of the local player, as the policy asks.       *)
StartAuthority ==
    /\ alloc.route # 0
    /\ started' = TRUE
    /\ alloc' = [alloc EXCEPT !.connected =
                    IF hosting = "P2P" THEN @ \cup {Host} ELSE @]
    /\ UNCHANGED <<hosting, attempt, rosterVars, used, links, toolbox, admitted>>

(* The toolbox publishes readiness once the payload has accepted.            *)
AuthorityReady ==
    /\ started
    /\ attempt.state = "PROVISIONING"
    /\ attempt.payloadRoute = attempt.route
    /\ hosting = "P2P" => attempt.reconnecting
    /\ attempt' = [attempt EXCEPT !.state = "CONNECTING", !.fresh = TRUE,
                                  !.reconnecting = FALSE]
    /\ roster' = [p \in Players |->
                    IF IsHost(p) THEN [roster[p] EXCEPT !.state = "CONNECTED"]
                    ELSE roster[p]]
    /\ UNCHANGED <<hosting, issued, revoked, consumed, policyVars,
                   links, toolbox, admitted>>

ClearMatchAllocation ==
    /\ Ended
    /\ alloc.route # 0
    /\ alloc' = NoAllocation
    /\ started' = FALSE
    /\ used' = {}
    /\ toolbox' = [Idle EXCEPT !.step = "done"]
    /\ UNCHANGED <<hosting, attempt, rosterVars, links, admitted>>

-----------------------------------------------------------------------------
(* Grants *)

GrantOf(p) ==
    [player |-> p, generation |-> roster'[p].gen, route |-> attempt.route]

Earlier(p) == {g \in issued : g.player = p}

(* Mutant: a grant while the payload still has the previous route.           *)
JoinGrantUnrefreshed(p) ==
    /\ attempt.state \in {"CONNECTING", "RUNNING"}
    /\ ~attempt.reconnecting
    /\ attempt.fresh
    /\ ~IsHost(p)
    /\ Cardinality(issued) < MaxGrants
    /\ roster' = [roster EXCEPT
                    ![p].gen = IF Earlier(p) # {} THEN @ + 1 ELSE @,
                    ![p].state = "CONNECTING"]
    /\ revoked' = revoked \cup Earlier(p)
    /\ issued' = issued \cup {GrantOf(p)}
    /\ UNCHANGED <<hosting, attempt, consumed, policyVars, links, toolbox, admitted>>

JoinGrant(p) ==
    /\ attempt.state \in {"CONNECTING", "RUNNING"}
    /\ ~attempt.reconnecting
    /\ attempt.fresh
    /\ attempt.payloadRoute = attempt.route
    /\ ~IsHost(p)
    /\ Cardinality(issued) < MaxGrants
    /\ roster' = [roster EXCEPT
                    ![p].gen = IF Earlier(p) # {} THEN @ + 1 ELSE @,
                    ![p].state = "CONNECTING"]
    /\ revoked' = revoked \cup Earlier(p)
    /\ issued' = issued \cup {GrantOf(p)}
    /\ UNCHANGED <<hosting, attempt, consumed, policyVars, links, toolbox, admitted>>

(* Mutant: the generation of the seat is not compared.                       *)
AdmissibleAnyGeneration(g) ==
    started /\ alloc.route # 0 /\ g.route = alloc.route /\ g.player \in Remote

(* What is asked of a grant before its JTI is spent.                         *)
Admissible(g) ==
    /\ started
    /\ alloc.route # 0
    /\ g.route = alloc.route
    /\ g.player \in Remote
    /\ g.generation >= alloc.gen[g.player]

(* Mutant: a connected seat is taken for later generations too.              *)
SeatTakenForAll(g) == g.player \in alloc.connected

SeatTaken(g) ==
    g.player \in alloc.connected /\ g.generation = alloc.gen[g.player]

(* A refusal at the seat spends the JTI all the same.                        *)
ValidateJoinGrant(g) ==
    /\ Admissible(g)
    /\ g \notin used
    /\ used' = used \cup {g}
    /\ IF SeatTaken(g)
       THEN UNCHANGED <<alloc, links, admitted>>
       ELSE /\ alloc' = [alloc EXCEPT !.gen[g.player] = g.generation,
                                     !.connected = @ \cup {g.player}]
            /\ links' = links \cup {g}
            /\ admitted' = admitted \cup {g}
    /\ UNCHANGED <<hosting, attempt, rosterVars, started, toolbox>>

(* Mutant: any disconnect of the player frees the seat.                      *)
DisconnectedAny(g) ==
    /\ links' = links \ {g}
    /\ alloc' = [alloc EXCEPT !.connected = @ \ {g.player}]
    /\ UNCHANGED <<hosting, attempt, rosterVars, started, used, toolbox, admitted>>

(* A connection of the game closes, replaced or lost.                        *)
MarkDisconnected(g) ==
    /\ links' = links \ {g}
    /\ alloc' = IF alloc.route # 0 /\ alloc.gen[g.player] = g.generation
                THEN [alloc EXCEPT !.connected = @ \ {g.player}]
                ELSE alloc
    /\ UNCHANGED <<hosting, attempt, rosterVars, started, used, toolbox, admitted>>

-----------------------------------------------------------------------------
(* Reports to the control plane *)

(* The grant is consumed and the player of the current generation connected,*)
(* or neither.  A repeated report changes nothing.                          *)
MarkConnected(g) ==
    /\ attempt.state \in {"CONNECTING", "RUNNING"}
    /\ g \notin revoked \cup consumed
    /\ g.route = attempt.route
    /\ g.generation = roster[g.player].gen
    /\ consumed' = consumed \cup {g}
    /\ roster' = [roster EXCEPT ![g.player].state = "CONNECTED"]
    /\ attempt' = IF \A p \in Players : roster'[p].state = "CONNECTED"
                  THEN [attempt EXCEPT !.state = "RUNNING"]
                  ELSE attempt
    /\ UNCHANGED <<hosting, issued, revoked, policyVars, links,
                   toolbox, admitted>>

ReportDisconnected(g) ==
    /\ attempt.state \in {"CONNECTING", "RUNNING"}
    /\ roster[g.player] = [gen |-> g.generation, state |-> "CONNECTED"]
    /\ roster' = [roster EXCEPT ![g.player].state = "DISCONNECTED"]
    /\ UNCHANGED <<hosting, attempt, issued, revoked, consumed,
                   policyVars, links, toolbox, admitted>>

(* Heartbeats stop for longer than authorityHeartbeatStale.                  *)
HeartbeatStale ==
    /\ attempt.fresh
    /\ attempt' = [attempt EXCEPT !.fresh = FALSE]
    /\ UNCHANGED <<hosting, rosterVars, policyVars, links, toolbox, admitted>>

(* Mutant: the recovery leaves the players connected.                        *)
RecoveredConnected(p) ==
    [gen   |-> roster[p].gen + 1,
     state |-> IF IsHost(p) THEN "CONNECTED" ELSE roster[p].state]

Recovered(p) ==
    [gen   |-> roster[p].gen + 1,
     state |-> IF IsHost(p) THEN "CONNECTED"
               ELSE IF roster[p].state = "CONNECTED" THEN "DISCONNECTED"
               ELSE roster[p].state]

(* A host that is back gets a new route, and all seats a new generation.     *)
AuthorityHeartbeat ==
    /\ attempt.state \in {"CONNECTING", "RUNNING"}
    /\ IF attempt.reconnecting
       THEN /\ attempt.route < MaxRoute
            /\ attempt' = [attempt EXCEPT !.fresh = TRUE, !.reconnecting = FALSE,
                                          !.route = @ + 1, !.payloadRoute = 0]
            /\ roster' = [p \in Players |-> Recovered(p)]
            /\ revoked' = issued
       ELSE /\ attempt' = [attempt EXCEPT !.fresh = TRUE]
            /\ UNCHANGED <<roster, revoked>>
    /\ UNCHANGED <<hosting, issued, consumed, policyVars, links,
                   toolbox, admitted>>

-----------------------------------------------------------------------------
(* The end *)

(* Complete(success, ...); Complete with a failure code, and                 *)
(* FailClosedDisabledAttempts, end in ABORTED.                               *)
Complete(state) ==
    /\ attempt.state \in (IF state = "COMPLETED" THEN {"RUNNING"} ELSE Active)
    /\ attempt' = [attempt EXCEPT !.state = state]
    /\ revoked' = issued
    /\ UNCHANGED <<hosting, roster, issued, consumed, policyVars, links,
                   toolbox, admitted>>

TeamsPresent ==
    \A team \in Teams : \E p \in team : roster[p].state = "CONNECTED"

(* One sweep, which looks at its deadlines one after the other.              *)
AfterDedicated(provisioningOver) ==
    IF /\ hosting = "DEDICATED"
       /\ \/ attempt.state = "PROVISIONING" /\ provisioningOver
          \/ attempt.state \in {"CONNECTING", "RUNNING"} /\ ~attempt.fresh
    THEN "ABORTED"
    ELSE attempt.state

(* Mutant: the window is looked at in every state.                           *)
WindowAnyState(state, windowOver) ==
    IF windowOver
    THEN IF TeamsPresent THEN "RUNNING" ELSE "ABORTED"
    ELSE state

AfterWindow(state, windowOver) ==
    IF state = "CONNECTING" /\ windowOver
    THEN IF TeamsPresent THEN "RUNNING" ELSE "ABORTED"
    ELSE state

HostSilent(state) ==
    hosting = "P2P" /\ state \in {"CONNECTING", "RUNNING"} /\ ~attempt.fresh

Sweep ==
    /\ \E provisioningOver, windowOver, deadlineOver \in BOOLEAN :
          LET state   == AfterWindow(AfterDedicated(provisioningOver), windowOver)
              waiting == attempt.reconnecting \/ HostSilent(state)
              gone    == /\ hosting = "P2P" /\ state \in Active
                         /\ waiting /\ deadlineOver
          IN attempt' = [attempt EXCEPT
                            !.state = IF gone THEN "ABORTED" ELSE state,
                            !.reconnecting = waiting]
    /\ revoked' = IF attempt'.state = "ABORTED" THEN issued ELSE revoked
    /\ UNCHANGED <<hosting, roster, issued, consumed, policyVars, links,
                   toolbox, admitted>>

-----------------------------------------------------------------------------

Toolbox ==
    \/ ReadAttempt
    \/ FrozenRoster
    \/ InstallAllocation
    \/ PayloadInstalled

Authority ==
    \/ StartAuthority
    \/ AuthorityReady
    \/ AuthorityHeartbeat
    \/ ClearMatchAllocation
    \/ \E g \in admitted : MarkConnected(g)
    \/ \E g \in admitted \ links : ReportDisconnected(g)
    \/ \E state \in {"COMPLETED", "ABORTED"} : Complete(state)

Client ==
    \/ \E p \in Players : JoinGrant(p)
    \/ \E g \in issued : ValidateJoinGrant(g)
    \/ \E g \in links : MarkDisconnected(g)

Time ==
    \/ HeartbeatStale
    \/ Sweep

Next == Toolbox \/ Authority \/ Client \/ Time

Spec     == Init /\ [][Next]_vars
FairSpec == Spec /\ WF_vars(Toolbox)

-----------------------------------------------------------------------------
(* Properties *)

TypeOK ==
    /\ hosting \in {"P2P", "DEDICATED"}
    /\ attempt \in [state : Active \cup {"COMPLETED", "ABORTED"}, route : Nat,
                    payloadRoute : Nat, fresh : BOOLEAN, reconnecting : BOOLEAN]
    /\ roster \in [Players -> [gen : Nat, state : {"RESERVED", "CONNECTING",
                                                   "CONNECTED", "DISCONNECTED"}]]
    /\ issued \subseteq Grants /\ revoked \subseteq issued
    /\ consumed \subseteq issued
    /\ alloc \in [route : Nat, gen : [Players -> Nat],
                  connected : SUBSET Players]
    /\ started \in BOOLEAN
    /\ used \subseteq issued
    /\ links \subseteq admitted
    /\ admitted \subseteq issued
    /\ toolbox \in [step : {"idle", "reading", "install", "confirm", "done"},
                    route : Nat, gen : [Players -> Nat]]

(* A seat is connected exactly while a connection of its generation is up:   *)
(* the late disconnect of a connection that was replaced, or of an earlier   *)
(* route, frees nobody else's seat, and no seat stays taken by a ghost.      *)
SeatTruth ==
    alloc.route # 0 =>
        \A p \in Remote :
            p \in alloc.connected <=>
                \E g \in links : g.player = p /\ g.generation = alloc.gen[p]

(* When the control plane counts the current route as installed, the payload*)
(* has it, whatever an allocation read before a recovery installs later     *)
(* (docs/api/external.md:199).                                              *)
ReadyMeansInstalled ==
    ~Ended /\ attempt.payloadRoute = attempt.route =>
        alloc.route = attempt.route

(* A grant that the control plane stands by opens its seat: no reinstalled   *)
(* allocation, spent JTI, earlier generation or ghost shuts its bearer out.  *)
ValidGrantAdmitted ==
    \A g \in issued \ (revoked \cup used) : Admissible(g) /\ ~SeatTaken(g)

(* A JTI is spent only by letting its bearer in.                             *)
SpentByAdmission == used \subseteq admitted

(* The control plane takes a player for connected only in the generation     *)
(* that the payload has let in.                                              *)
ConnectedWasAdmitted ==
    \A p \in Remote : roster[p].state = "CONNECTED" =>
        \E g \in admitted : g.player = p /\ g.generation = roster[p].gen

(* Whoever ends the attempt takes back every grant, and nothing late - a     *)
(* report, a heartbeat, a sweep - revives it or grants again.                *)
EndIsFinal ==
    [][/\ Ended' => revoked' = issued'
       /\ Ended => attempt'.state = attempt.state /\ issued' = issued]_vars

(* The policy keeps the seats of FrozenSeats.                                *)
Seats == INSTANCE FrozenSeats WITH
    issued   <- [p \in Players |-> roster[p].gen],
    admitted <- [p \in Players |->
                    {g.generation : g \in {h \in admitted : h.player = p}}],
    holder   <- [p \in Players |->
                    IF p \in Remote \cap alloc.connected THEN alloc.gen[p] ELSE 0]

KeepsSeats == Seats!Spec

Refreshing == attempt.payloadRoute # attempt.route

(* A recovered host is refreshed, as long as it is one route ahead of the    *)
(* payload at most (external.md:199, "temporarily clears this condition").   *)
RefreshEnds ==
    Refreshing ~>
        (~Refreshing \/ Ended \/ attempt.route > alloc.route + 1)

(* However often the host has recovered: what the document says, for a host   *)
(* whose heartbeats go on.                                                   *)
AlwaysRefreshed ==
    Refreshing ~> \/ ~Refreshing \/ Ended
                  \/ ~attempt.fresh \/ attempt.reconnecting

=============================================================================
