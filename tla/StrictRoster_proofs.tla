------------------------- MODULE StrictRoster_proofs -------------------------
(* Proofs about StrictRoster.  Inv adds to the invariants what ties the three *)
(* parties together: the toolbox is never ahead of the control plane (Routes, *)
(* Held), the payload never ahead of the toolbox (Confirmed, AllocBehind), no *)
(* grant ahead of the roster (IssuedBehind, Unique) and no admission ahead of *)
(* the payload (AdmittedBehind); and what is left of the grants at each stage *)
(* of the attempt (NotYet, Outstanding, EndRevoked).                          *)
EXTENDS StrictRoster, TLAPS

(* The toolbox never holds a route that the control plane has not reached.   *)
Routes ==
    /\ attempt.route > 0
    /\ toolbox.route <= attempt.route
    /\ toolbox.step \in {"reading", "install", "confirm"} => toolbox.route > 0

(* An allocation that was read after a recovery is ahead of all the grants   *)
(* of the routes before it.                                                  *)
Held ==
    toolbox.step = "install" =>
        /\ \A p \in Players : toolbox.gen[p] <= roster[p].gen
        /\ \A g \in issued : g.route < toolbox.route =>
                                 g.generation < toolbox.gen[g.player]

(* What it confirms is what the payload has.                                 *)
Confirmed == toolbox.step = "confirm" => alloc.route = toolbox.route

Done == toolbox.step = "done" => alloc.route = 0 /\ Ended

(* The generations of the policy are not ahead of those of the roster.       *)
AllocBehind == \A p \in Players : alloc.gen[p] <= roster[p].gen

(* Nor are those of the grants, and a recovery leaves all of them behind.    *)
IssuedBehind ==
    \A g \in issued :
        /\ g.player \in Remote
        /\ g.generation <= roster[g.player].gen
        /\ g.route <= attempt.route
        /\ g.route < attempt.route => g.generation < roster[g.player].gen

(* A player and a generation name one grant.                                 *)
Unique == \A g, h \in issued :
    g.player = h.player /\ g.generation = h.generation => g = h

(* Generation 0 is nobody's.                                                 *)
Positive == /\ \A p \in Players : roster[p].gen > 0
            /\ \A g \in issued : g.generation > 0

(* Nobody is let in before the first allocation.                             *)
Cleared == alloc.route = 0 /\ toolbox.step # "done" => admitted = {}

(* Who was let in is in the JTIs, and not ahead of the policy.               *)
AdmittedBehind ==
    alloc.route # 0 =>
        /\ admitted \subseteq used
        /\ \A g \in admitted : /\ g.route <= alloc.route
                               /\ g.generation <= alloc.gen[g.player]

(* Grants are issued in a started match only, and stand only for the present *)
(* route, the latest generation and until the end.                           *)
Started == attempt.state \in {"CONNECTING", "RUNNING"} => started /\ alloc.route # 0
NotYet == attempt.state = "PROVISIONING" => issued = {}
EndRevoked == Ended => revoked = issued
Outstanding == \A g \in issued \ revoked :
    /\ g.route = attempt.route /\ attempt.payloadRoute = attempt.route
    /\ g.generation = roster[g.player].gen

Inv ==
    /\ TypeOK
    /\ Routes
    /\ Held
    /\ Confirmed
    /\ Done
    /\ AllocBehind
    /\ IssuedBehind
    /\ Unique
    /\ Positive
    /\ Cleared
    /\ AdmittedBehind
    /\ Started
    /\ NotYet
    /\ EndRevoked
    /\ Outstanding
    /\ SeatTruth
    /\ ReadyMeansInstalled
    /\ SpentByAdmission
    /\ ConnectedWasAdmitted

USE DEF vars, rosterVars, policyVars, Ended, Active, IsHost, Remote

-----------------------------------------------------------------------------
(* What the invariant says of a grant *)

(* A grant that was issued is one.                                           *)
LEMMA GrantType ==
    ASSUME TypeOK, NEW g \in issued
    PROVE  g.player \in Players /\ g.generation \in Nat /\ g.route \in Nat
BY DEF TypeOK, Grants

(* Two grants of a player have different generations, so a seat that is taken*)
(* in the generation of a grant is taken by the grant, which is spent.       *)
LEMMA SeatFree ==
    ASSUME Inv, NEW g \in issued, Admissible(g), g \notin used
    PROVE  ~SeatTaken(g)
<1> SUFFICES ASSUME SeatTaken(g) PROVE FALSE
  OBVIOUS
<1>1. g.player \in Remote /\ alloc.route # 0
  BY DEF Admissible
<1>2. PICK h \in links : h.player = g.player /\ h.generation = alloc.gen[g.player]
  BY <1>1 DEF Inv, SeatTruth, SeatTaken
<1>3. h \in issued /\ h \in admitted
  BY DEF Inv, TypeOK
<1>4. h = g
  BY <1>2, <1>3 DEF Inv, Unique, SeatTaken
<1> QED BY <1>1, <1>3, <1>4 DEF Inv, AdmittedBehind

-----------------------------------------------------------------------------
(* The invariant *)

(* The initial states.                                                       *)
LEMMA InitInv == Init => Inv
<1> SUFFICES ASSUME Init PROVE Inv
  OBVIOUS
<1>1. TypeOK
  BY RosterAssumption DEF Init, TypeOK, NoAllocation, Idle
<1> QED
  BY <1>1 DEF Init, Inv, NoAllocation, Idle, Routes, Held, Confirmed, Done,
     AllocBehind, IssuedBehind, Unique, Positive, Cleared, AdmittedBehind,
     Started, NotYet, EndRevoked, Outstanding, SeatTruth,
     ReadyMeansInstalled, SpentByAdmission, ConnectedWasAdmitted

(* The toolbox reads the attempt.                                            *)
LEMMA ReadAttemptInv ==
    ASSUME Inv, ReadAttempt
    PROVE  Inv'
<1>1. TypeOK'
  BY DEF Inv, TypeOK, ReadAttempt
<1>2. Routes'
  BY DEF Inv, TypeOK, ReadAttempt, Routes
<1>3. Held'
  BY DEF Inv, TypeOK, ReadAttempt, Held
<1>4. Confirmed'
  BY DEF Inv, TypeOK, ReadAttempt, Confirmed
<1>5. Done'
  BY DEF Inv, TypeOK, ReadAttempt, Done
<1>6. Cleared'
  BY DEF Inv, TypeOK, ReadAttempt, Cleared
<1>7. (AllocBehind /\ IssuedBehind /\ Unique /\ Positive /\
       AdmittedBehind /\ Started /\ NotYet /\ EndRevoked /\ Outstanding
       /\ SeatTruth /\ ReadyMeansInstalled /\ SpentByAdmission /\
       ConnectedWasAdmitted)'
  BY DEF Inv, ReadAttempt, AllocBehind, IssuedBehind, Unique, Positive,
     AdmittedBehind, Started, NotYet, EndRevoked, Outstanding, SeatTruth,
     ReadyMeansInstalled, SpentByAdmission, ConnectedWasAdmitted
<1> QED BY <1>1, <1>2, <1>3, <1>4, <1>5, <1>6, <1>7 DEF Inv

(* The toolbox reads the roster, which no later grant of an older route
   catches. *)
LEMMA FrozenRosterInv ==
    ASSUME Inv, FrozenRoster
    PROVE  Inv'
<1>1. TypeOK'
  BY DEF Inv, TypeOK, FrozenRoster
<1>2. Routes'
  BY DEF Inv, TypeOK, FrozenRoster, Routes
<1>3. Held'
  BY DEF Inv, TypeOK, FrozenRoster, Held, Grants, IssuedBehind, Routes
<1>4. Confirmed'
  BY DEF Inv, TypeOK, FrozenRoster, Confirmed
<1>5. Done'
  BY DEF Inv, TypeOK, FrozenRoster, Done
<1>6. Cleared'
  BY DEF Inv, TypeOK, FrozenRoster, Cleared
<1>7. (AllocBehind /\ IssuedBehind /\ Unique /\ Positive /\
       AdmittedBehind /\ Started /\ NotYet /\ EndRevoked /\ Outstanding
       /\ SeatTruth /\ ReadyMeansInstalled /\ SpentByAdmission /\
       ConnectedWasAdmitted)'
  BY DEF Inv, FrozenRoster, AllocBehind, IssuedBehind, Unique, Positive,
     AdmittedBehind, Started, NotYet, EndRevoked, Outstanding, SeatTruth,
     ReadyMeansInstalled, SpentByAdmission, ConnectedWasAdmitted
<1> QED BY <1>1, <1>2, <1>3, <1>4, <1>5, <1>6, <1>7 DEF Inv

(* The first allocation.                                                     *)
LEMMA InstallFirstInv ==
    ASSUME Inv, InstallAllocation, InstallFirst
    PROVE  Inv'
<1>0. /\ toolbox.step = "install" /\ alloc.route = 0
      /\ alloc' = [route |-> toolbox.route, gen |-> toolbox.gen, connected |-> {}]
      /\ toolbox' = [toolbox EXCEPT !.step = "confirm", !.gen = Idle.gen]
      /\ used' = {} /\ started' = FALSE
      /\ UNCHANGED <<hosting, attempt, rosterVars, links, admitted>>
  BY DEF InstallAllocation, InstallFirst, InstallRenewal, InstallRoute,
     Snapshot
<1>1. TypeOK'
  <2>1. alloc' \in [route : Nat, gen : [Players -> Nat], connected : SUBSET Players]
    BY <1>0 DEF Inv, TypeOK, Idle
  <2>2. toolbox' \in [step : {"idle", "reading", "install", "confirm", "done"},
                      route : Nat, gen : [Players -> Nat]]
    BY <1>0 DEF Inv, TypeOK, Idle
  <2> QED BY <1>0, <2>1, <2>2 DEF Inv, TypeOK, Idle
<1>2. Routes'
  BY <1>0 DEF Inv, TypeOK, Idle, Routes
<1>3. Held'
  BY <1>0 DEF Inv, TypeOK, Idle, Held
<1>4. Confirmed'
  BY <1>0 DEF Inv, TypeOK, Idle, Confirmed
<1>5. Done'
  BY <1>0 DEF Inv, TypeOK, Idle, Done
<1>6. AllocBehind'
  BY <1>0 DEF Inv, Held, AllocBehind
<1>7. Cleared'
  BY <1>0 DEF Inv, TypeOK, Idle, Cleared
<1>8. AdmittedBehind'
  BY <1>0 DEF Inv, Cleared, AdmittedBehind
<1>9. Started'
  BY <1>0 DEF Inv, TypeOK, Idle, Started
<1>10. SeatTruth'
  BY <1>0 DEF Inv, TypeOK, Cleared, SeatTruth
<1>11. ReadyMeansInstalled'
  BY <1>0 DEF Inv, TypeOK, Routes, ReadyMeansInstalled
<1>12. SpentByAdmission'
  BY <1>0 DEF Inv, TypeOK, Idle, SpentByAdmission
<1>13. (IssuedBehind /\ Unique /\ Positive /\ NotYet /\ EndRevoked /\
       Outstanding /\ ConnectedWasAdmitted)'
  BY <1>0 DEF Inv, Idle, IssuedBehind, Unique, Positive, NotYet, EndRevoked,
     Outstanding, ConnectedWasAdmitted
<1> QED BY <1>1, <1>2, <1>3, <1>4, <1>5, <1>6, <1>7, <1>8, <1>9, <1>10,
     <1>11, <1>12, <1>13 DEF Inv

(* A renewal, or a refusal, leaves the policy as it is.                      *)
LEMMA InstallOtherInv ==
    ASSUME Inv, InstallAllocation, ~InstallFirst, ~InstallRoute
    PROVE  Inv'
<1>0. /\ toolbox.step = "install"
      /\ \/ toolbox' = Idle
         \/ /\ toolbox.route = alloc.route
            /\ toolbox' = [toolbox EXCEPT !.step = "confirm", !.gen = Idle.gen]
      /\ UNCHANGED <<hosting, attempt, rosterVars, policyVars, links, admitted>>
  BY DEF InstallAllocation, InstallRenewal
<1>t. /\ toolbox' \in [step : {"idle", "confirm"}, route : Nat, gen : [Players -> Nat]]
      /\ toolbox'.route \in {0, toolbox.route}
      /\ toolbox'.step = "confirm" =>
            toolbox'.route = toolbox.route /\ toolbox.route = alloc.route
  <2>1. CASE toolbox' = Idle
    BY <2>1 DEF Idle
  <2>2. CASE /\ toolbox.route = alloc.route
             /\ toolbox' = [toolbox EXCEPT !.step = "confirm", !.gen = Idle.gen]
    BY <2>2 DEF Inv, TypeOK, Idle
  <2> QED BY <1>0, <2>1, <2>2
<1>1. TypeOK'
  BY <1>0, <1>t DEF Inv, TypeOK
<1>2. Routes'
  BY <1>0, <1>t DEF Inv, TypeOK, Routes
<1>3. Held'
  BY <1>0, <1>t DEF Inv, TypeOK, Held
<1>4. Confirmed'
  BY <1>0, <1>t DEF Inv, TypeOK, Confirmed
<1>5. Done'
  BY <1>0, <1>t DEF Inv, TypeOK, Done
<1>6. Cleared'
  BY <1>0, <1>t DEF Inv, TypeOK, Cleared
<1>7. (AllocBehind /\ IssuedBehind /\ Unique /\ Positive /\
       AdmittedBehind /\ Started /\ NotYet /\ EndRevoked /\ Outstanding
       /\ SeatTruth /\ ReadyMeansInstalled /\ SpentByAdmission /\
       ConnectedWasAdmitted)'
  BY <1>0, <1>t DEF Inv, AllocBehind, IssuedBehind, Unique, Positive,
     AdmittedBehind, Started, NotYet, EndRevoked, Outstanding, SeatTruth,
     ReadyMeansInstalled, SpentByAdmission, ConnectedWasAdmitted
<1> QED BY <1>1, <1>2, <1>3, <1>4, <1>5, <1>6, <1>7 DEF Inv

(* The allocation of the next route frees all seats, and is ahead of all
   who were let in. *)
LEMMA InstallRouteInv ==
    ASSUME Inv, InstallAllocation, InstallRoute
    PROVE  Inv'
<1>0. /\ toolbox.step = "install" /\ alloc.route # 0
      /\ toolbox.route = alloc.route + 1
      /\ \A p \in Players : ~(toolbox.gen[p] < alloc.gen[p])
      /\ toolbox' = [toolbox EXCEPT !.step = "confirm", !.gen = Idle.gen]
      /\ UNCHANGED <<hosting, attempt, rosterVars, started, used, links, admitted>>
  BY DEF InstallAllocation, InstallRoute, Conflicts, InstallFirst, InstallRenewal
<1>a. PICK seats : /\ alloc' = [route |-> toolbox.route, gen |-> toolbox.gen,
                                connected |-> seats]
                   /\ seats \subseteq Players /\ seats \cap Remote = {}
  BY RosterAssumption DEF InstallAllocation, InstallRoute, Snapshot,
     InstallFirst, InstallRenewal
<1>1. TypeOK'
  <2>1. alloc' \in [route : Nat, gen : [Players -> Nat], connected : SUBSET Players]
    BY <1>0, <1>a DEF Inv, TypeOK, Idle
  <2>2. toolbox' \in [step : {"idle", "reading", "install", "confirm", "done"},
                      route : Nat, gen : [Players -> Nat]]
    BY <1>0, <1>a DEF Inv, TypeOK, Idle
  <2> QED BY <1>0, <1>a, <2>1, <2>2 DEF Inv, TypeOK, Idle
<1>2. Routes'
  BY <1>0, <1>a DEF Inv, TypeOK, Idle, Routes
<1>3. Held'
  BY <1>0, <1>a DEF Inv, TypeOK, Idle, Held
<1>4. Confirmed'
  BY <1>0, <1>a DEF Inv, TypeOK, Idle, Confirmed
<1>5. Done'
  BY <1>0, <1>a DEF Inv, TypeOK, Idle, Done
<1>6. AllocBehind'
  BY <1>0, <1>a DEF Inv, Held, AllocBehind
<1>7. Cleared'
  BY <1>0, <1>a DEF Inv, TypeOK, Idle, Cleared
<1>8. AdmittedBehind'
  <2> SUFFICES ASSUME NEW h \in admitted
               PROVE  h.route <= alloc'.route /\ h.generation <= alloc'.gen[h.player]
    BY <1>0, <1>a DEF Inv, AdmittedBehind
  <2>1. h \in issued /\ h.player \in Players /\ h.generation \in Nat /\ h.route \in Nat
    BY GrantType DEF Inv, TypeOK
  <2>2. h.route <= alloc.route /\ h.generation <= alloc.gen[h.player]
    BY <1>0 DEF Inv, AdmittedBehind
  <2>3. ~(toolbox.gen[h.player] < alloc.gen[h.player])
    BY <1>0, <2>1
  <2>4. alloc.route \in Nat /\ toolbox.gen[h.player] \in Nat /\ alloc.gen[h.player] \in Nat
    BY <2>1 DEF Inv, TypeOK
  <2> QED BY <1>0, <1>a, <2>1, <2>2, <2>3, <2>4
<1>9. Started'
  BY <1>0, <1>a DEF Inv, TypeOK, Idle, Started
<1>10. SeatTruth'
  <2>1. ASSUME NEW h \in links
        PROVE  h.generation < toolbox.gen[h.player]
    <3>1. h \in issued /\ h \in admitted /\ h.route \in Nat
      BY GrantType DEF Inv, TypeOK
    <3>2. h.route <= alloc.route /\ alloc.route \in Nat
      BY <1>0, <3>1 DEF Inv, TypeOK, AdmittedBehind
    <3>3. h.route < toolbox.route
      BY <1>0, <3>1, <3>2
    <3> QED BY <1>0, <3>1, <3>3 DEF Inv, Held
  <2>2. ASSUME NEW h \in links
        PROVE  h.generation # toolbox.gen[h.player]
    <3>1. h.generation \in Nat /\ toolbox.gen[h.player] \in Nat
      BY GrantType DEF Inv, TypeOK
    <3> QED BY <2>1, <3>1
  <2>3. ASSUME NEW p \in Remote
        PROVE  p \notin alloc'.connected
    BY <1>0, <1>a, <2>3
  <2> QED BY <1>0, <1>a, <2>2, <2>3 DEF SeatTruth
<1>11. ReadyMeansInstalled'
  BY <1>0 DEF Inv, TypeOK, Routes, ReadyMeansInstalled
<1>12. (IssuedBehind /\ Unique /\ Positive /\ NotYet /\ EndRevoked /\
       Outstanding /\ SpentByAdmission /\ ConnectedWasAdmitted)'
  BY <1>0, <1>a DEF Inv, Idle, IssuedBehind, Unique, Positive, NotYet,
     EndRevoked, Outstanding, SpentByAdmission, ConnectedWasAdmitted
<1> QED BY <1>1, <1>2, <1>3, <1>4, <1>5, <1>6, <1>7, <1>8, <1>9, <1>10,
     <1>11, <1>12 DEF Inv

(* The confirmation counts for the present route only.                       *)
LEMMA PayloadInstalledInv ==
    ASSUME Inv, PayloadInstalled
    PROVE  Inv'
<1>1. TypeOK'
  <2>1. attempt' \in [state : Active \cup {"COMPLETED", "ABORTED"}, route : Nat,
                      payloadRoute : Nat, fresh : BOOLEAN, reconnecting : BOOLEAN]
    BY DEF Inv, TypeOK, PayloadInstalled, Idle
  <2>2. toolbox' \in [step : {"idle", "reading", "install", "confirm", "done"},
                      route : Nat, gen : [Players -> Nat]]
    BY DEF Inv, TypeOK, PayloadInstalled, Idle
  <2> QED BY <2>1, <2>2 DEF Inv, TypeOK, PayloadInstalled, Idle
<1>2. Routes'
  BY DEF Inv, TypeOK, PayloadInstalled, Idle, Routes
<1>3. Held'
  BY DEF Inv, TypeOK, PayloadInstalled, Idle, Held
<1>4. Confirmed'
  BY DEF Inv, TypeOK, PayloadInstalled, Idle, Confirmed
<1>5. Done'
  BY DEF Inv, TypeOK, PayloadInstalled, Idle, Done
<1>6. Started'
  BY DEF Inv, TypeOK, PayloadInstalled, Idle, Started
<1>7. NotYet'
  BY DEF Inv, TypeOK, PayloadInstalled, Idle, NotYet
<1>8. EndRevoked'
  BY DEF Inv, TypeOK, PayloadInstalled, Idle, EndRevoked
<1>9. Outstanding'
  BY DEF Inv, TypeOK, PayloadInstalled, Idle, Outstanding
<1>10. Cleared'
  BY DEF Inv, TypeOK, PayloadInstalled, Idle, Cleared
<1>11. ReadyMeansInstalled'
  BY DEF Inv, TypeOK, PayloadInstalled, Confirmed, ReadyMeansInstalled
<1>12. IssuedBehind'
  BY DEF Inv, TypeOK, PayloadInstalled, Idle, IssuedBehind
<1>13. (AllocBehind /\ Unique /\ Positive /\ AdmittedBehind /\ SeatTruth
       /\ SpentByAdmission /\ ConnectedWasAdmitted)'
  BY DEF Inv, PayloadInstalled, Idle, AllocBehind, Unique, Positive,
     AdmittedBehind, SeatTruth, SpentByAdmission, ConnectedWasAdmitted
<1> QED BY <1>1, <1>2, <1>3, <1>4, <1>5, <1>6, <1>7, <1>8, <1>9, <1>10,
     <1>11, <1>12, <1>13 DEF Inv

(* The seat of the host is not a remote one.                                 *)
LEMMA StartAuthorityInv ==
    ASSUME Inv, StartAuthority
    PROVE  Inv'
<1>1. TypeOK'
  BY RosterAssumption DEF Inv, TypeOK, StartAuthority
<1>2. Started'
  BY RosterAssumption DEF Inv, TypeOK, StartAuthority, Started
<1>3. AllocBehind'
  BY RosterAssumption DEF Inv, TypeOK, StartAuthority, AllocBehind
<1>4. Confirmed'
  BY RosterAssumption DEF Inv, TypeOK, StartAuthority, Confirmed
<1>5. Done'
  BY RosterAssumption DEF Inv, TypeOK, StartAuthority, Done
<1>6. Cleared'
  BY RosterAssumption DEF Inv, TypeOK, StartAuthority, Cleared
<1>7. AdmittedBehind'
  BY RosterAssumption DEF Inv, TypeOK, StartAuthority, AdmittedBehind
<1>8. SeatTruth'
  BY RosterAssumption DEF Inv, TypeOK, StartAuthority, SeatTruth
<1>9. ReadyMeansInstalled'
  BY RosterAssumption DEF Inv, TypeOK, StartAuthority, ReadyMeansInstalled
<1>10. (Routes /\ Held /\ IssuedBehind /\ Unique /\ Positive /\ NotYet /\
       EndRevoked /\ Outstanding /\ SpentByAdmission /\
       ConnectedWasAdmitted)'
  BY DEF Inv, StartAuthority, Routes, Held, IssuedBehind, Unique, Positive,
     NotYet, EndRevoked, Outstanding, SpentByAdmission, ConnectedWasAdmitted
<1> QED BY <1>1, <1>2, <1>3, <1>4, <1>5, <1>6, <1>7, <1>8, <1>9, <1>10
     DEF Inv

(* The attempt becomes connectable.                                          *)
LEMMA AuthorityReadyInv ==
    ASSUME Inv, AuthorityReady
    PROVE  Inv'
<1>1. TypeOK'
  <2>1. attempt' \in [state : Active \cup {"COMPLETED", "ABORTED"}, route : Nat,
                      payloadRoute : Nat, fresh : BOOLEAN, reconnecting : BOOLEAN]
    BY DEF Inv, TypeOK, AuthorityReady
  <2>2. roster' \in [Players -> [gen : Nat, state : {"RESERVED", "CONNECTING",
                                             "CONNECTED", "DISCONNECTED"}]]
    BY DEF Inv, TypeOK, AuthorityReady
  <2> QED BY <2>1, <2>2 DEF Inv, TypeOK, AuthorityReady
<1>2. Held'
  BY DEF Inv, TypeOK, AuthorityReady, Held
<1>3. AllocBehind'
  BY DEF Inv, TypeOK, AuthorityReady, AllocBehind
<1>4. IssuedBehind'
  BY DEF Inv, TypeOK, AuthorityReady, IssuedBehind
<1>5. Started'
  BY DEF Inv, TypeOK, AuthorityReady, Started, Routes, ReadyMeansInstalled
<1>6. NotYet'
  BY DEF Inv, TypeOK, AuthorityReady, NotYet
<1>7. EndRevoked'
  BY DEF Inv, TypeOK, AuthorityReady, EndRevoked
<1>8. Outstanding'
  BY DEF Inv, TypeOK, AuthorityReady, Outstanding, NotYet
<1>9. Done'
  BY DEF Inv, TypeOK, AuthorityReady, Done
<1>10. Routes'
  BY DEF Inv, TypeOK, AuthorityReady, Routes
<1>11. ReadyMeansInstalled'
  BY DEF Inv, TypeOK, AuthorityReady, ReadyMeansInstalled
<1>12. ConnectedWasAdmitted'
  BY DEF Inv, TypeOK, AuthorityReady, ConnectedWasAdmitted
<1>13. Positive'
  BY DEF Inv, TypeOK, AuthorityReady, Positive
<1>14. (Confirmed /\ Unique /\ Cleared /\ AdmittedBehind /\ SeatTruth /\
       SpentByAdmission)'
  BY DEF Inv, AuthorityReady, Confirmed, Unique, Cleared, AdmittedBehind,
     SeatTruth, SpentByAdmission
<1> QED BY <1>1, <1>2, <1>3, <1>4, <1>5, <1>6, <1>7, <1>8, <1>9, <1>10,
     <1>11, <1>12, <1>13, <1>14 DEF Inv

(* The payload forgets an attempt that has ended.                            *)
LEMMA ClearInv ==
    ASSUME Inv, ClearMatchAllocation
    PROVE  Inv'
<1>1. TypeOK'
  BY DEF Inv, TypeOK, ClearMatchAllocation, NoAllocation, Idle
<1>2. Routes'
  BY DEF Inv, TypeOK, ClearMatchAllocation, NoAllocation, Idle, Routes
<1>3. Held'
  BY DEF Inv, TypeOK, ClearMatchAllocation, NoAllocation, Idle, Held
<1>4. Confirmed'
  BY DEF Inv, TypeOK, ClearMatchAllocation, NoAllocation, Idle, Confirmed
<1>5. Done'
  BY DEF Inv, TypeOK, ClearMatchAllocation, NoAllocation, Idle, Done
<1>6. AllocBehind'
  BY DEF Inv, TypeOK, ClearMatchAllocation, NoAllocation, Idle, AllocBehind
<1>7. Cleared'
  BY DEF Inv, TypeOK, ClearMatchAllocation, NoAllocation, Idle, Cleared
<1>8. AdmittedBehind'
  BY DEF Inv, TypeOK, ClearMatchAllocation, NoAllocation, Idle, AdmittedBehind
<1>9. Started'
  BY DEF Inv, TypeOK, ClearMatchAllocation, NoAllocation, Idle, Started
<1>10. SeatTruth'
  BY DEF Inv, TypeOK, ClearMatchAllocation, NoAllocation, Idle, SeatTruth
<1>11. ReadyMeansInstalled'
  BY DEF Inv, TypeOK, ClearMatchAllocation, NoAllocation, Idle,
     ReadyMeansInstalled
<1>12. SpentByAdmission'
  BY DEF Inv, TypeOK, ClearMatchAllocation, NoAllocation, Idle,
     SpentByAdmission
<1>13. (IssuedBehind /\ Unique /\ Positive /\ NotYet /\ EndRevoked /\
       Outstanding /\ ConnectedWasAdmitted)'
  BY DEF Inv, ClearMatchAllocation, NoAllocation, Idle, IssuedBehind,
     Unique, Positive, NotYet, EndRevoked, Outstanding, ConnectedWasAdmitted
<1> QED BY <1>1, <1>2, <1>3, <1>4, <1>5, <1>6, <1>7, <1>8, <1>9, <1>10,
     <1>11, <1>12, <1>13 DEF Inv

(* A new grant is of a new generation, and takes back the earlier ones.      *)
LEMMA JoinGrantInv ==
    ASSUME Inv, NEW q \in Players, JoinGrant(q)
    PROVE  Inv'
<1>1. TypeOK'
  <2>1. roster' \in [Players -> [gen : Nat, state : {"RESERVED", "CONNECTING",
                                                   "CONNECTED", "DISCONNECTED"}]]
    <3>1. roster[q].gen \in Nat /\ roster[q].gen + 1 \in Nat
      BY DEF Inv, TypeOK
    <3> DEFINE n == IF Earlier(q) # {} THEN roster[q].gen + 1 ELSE roster[q].gen
    <3>2. n \in Nat
      BY <3>1
    <3> DEFINE Roster == [Players -> [gen : Nat, state : {"RESERVED", "CONNECTING",
                                                          "CONNECTED", "DISCONNECTED"}]]
               raised == [roster EXCEPT ![q].gen = n]
    <3>3. roster' = [raised EXCEPT ![q].state = "CONNECTING"]
      BY DEF JoinGrant
    <3>4. raised \in Roster
      <4> HIDE DEF n
      <4> QED BY <3>2 DEF Inv, TypeOK
    <3>5. [raised EXCEPT ![q].state = "CONNECTING"] \in Roster
      <4> HIDE DEF raised
      <4> QED BY <3>4
    <3> QED BY <3>3, <3>5
  <2>2. GrantOf(q) \in Grants
    BY <2>1 DEF Inv, TypeOK, GrantOf, Grants
  <2>3. issued' \subseteq Grants /\ revoked' \subseteq issued'
    BY <2>2 DEF Inv, TypeOK, JoinGrant, Earlier
  <2> QED BY <2>1, <2>3 DEF Inv, TypeOK, JoinGrant
<1>2. Held'
  <2> SUFFICES ASSUME toolbox.step = "install"
               PROVE  /\ \A p \in Players : toolbox.gen[p] <= roster'[p].gen
                      /\ \A g \in issued' : g.route < toolbox.route =>
                                                g.generation < toolbox.gen[g.player]
    BY DEF JoinGrant, Held
  <2>1. ASSUME NEW p \in Players
        PROVE  toolbox.gen[p] <= roster'[p].gen
    BY DEF Inv, TypeOK, JoinGrant, Held
  <2>2. ~(GrantOf(q).route < toolbox.route)
    BY DEF Inv, TypeOK, Routes, GrantOf
  <2> QED BY <2>1, <2>2 DEF Inv, JoinGrant, Held
<1>3. AllocBehind'
  BY DEF Inv, TypeOK, JoinGrant, GrantOf, Earlier, Grants, AllocBehind
<1>4. IssuedBehind'
  BY DEF Inv, TypeOK, JoinGrant, GrantOf, Earlier, Grants, IssuedBehind
<1>5. Unique'
  <2>1. ASSUME NEW h \in issued, h.player = q
        PROVE  h.generation # GrantOf(q).generation
    <3>1. Earlier(q) # {}
      BY <2>1 DEF Earlier
    <3>2. GrantOf(q).generation = roster[q].gen + 1
      BY <3>1 DEF Inv, TypeOK, JoinGrant, GrantOf
    <3>3. h.generation <= roster[q].gen /\ h.generation \in Nat /\ roster[q].gen \in Nat
      BY <2>1, GrantType DEF Inv, TypeOK, IssuedBehind
    <3> QED BY <3>2, <3>3
  <2>2. GrantOf(q).player = q /\ issued' = issued \cup {GrantOf(q)}
    BY DEF GrantOf, JoinGrant
  <2> HIDE DEF GrantOf
  <2> QED BY <2>1, <2>2 DEF Inv, Unique
<1>6. NotYet'
  BY DEF Inv, TypeOK, JoinGrant, GrantOf, Earlier, Grants, NotYet
<1>7. EndRevoked'
  BY DEF Inv, TypeOK, JoinGrant, GrantOf, Earlier, Grants, EndRevoked
<1>8. Outstanding'
  BY DEF Inv, TypeOK, JoinGrant, GrantOf, Earlier, Grants, Outstanding
<1>9. ConnectedWasAdmitted'
  <2> SUFFICES ASSUME NEW p \in Remote, roster'[p].state = "CONNECTED"
               PROVE  \E g \in admitted : g.player = p /\ g.generation = roster'[p].gen
    BY DEF JoinGrant, ConnectedWasAdmitted
  <2>1. p # q /\ roster'[p] = roster[p]
    BY DEF Inv, TypeOK, JoinGrant
  <2> QED BY <2>1 DEF Inv, ConnectedWasAdmitted
<1>10. Positive'
  BY DEF Inv, TypeOK, JoinGrant, GrantOf, Earlier, Grants, Positive
<1>11. (Routes /\ Confirmed /\ Done /\ Cleared /\ AdmittedBehind /\
       Started /\ SeatTruth /\ ReadyMeansInstalled /\ SpentByAdmission)'
  BY DEF Inv, JoinGrant, GrantOf, Earlier, Grants, Routes, Confirmed, Done,
     Cleared, AdmittedBehind, Started, SeatTruth, ReadyMeansInstalled,
     SpentByAdmission
<1> QED BY <1>1, <1>2, <1>3, <1>4, <1>5, <1>6, <1>7, <1>8, <1>9, <1>10,
     <1>11 DEF Inv

(* A grant is spent, and its bearer let in.                                  *)
LEMMA ValidateInv ==
    ASSUME Inv, NEW g \in issued, ValidateJoinGrant(g)
    PROVE  Inv'
<1>0. /\ Admissible(g) /\ g \notin used
      /\ used' = used \cup {g} /\ links' = links \cup {g}
      /\ admitted' = admitted \cup {g}
      /\ alloc' = [alloc EXCEPT !.gen[g.player] = g.generation,
                                !.connected = @ \cup {g.player}]
      /\ UNCHANGED <<hosting, attempt, rosterVars, started, toolbox>>
  BY SeatFree DEF ValidateJoinGrant
<1>t. /\ g.player \in Remote /\ g.generation \in Nat /\ g.route \in Nat
      /\ g.generation >= alloc.gen[g.player] /\ g.route = alloc.route
      /\ alloc.route # 0 /\ alloc.route \in Nat /\ started
      /\ alloc.gen \in [Players -> Nat]
  BY <1>0, GrantType DEF Inv, TypeOK, Admissible
<1>1. TypeOK'
  <2>1. alloc' \in [route : Nat, gen : [Players -> Nat], connected : SUBSET Players]
    BY <1>0, <1>t DEF Inv, TypeOK
  <2> QED BY <1>0, <1>t, <2>1 DEF Inv, TypeOK
<1>2. Confirmed'
  BY <1>0, <1>t DEF Inv, TypeOK, Confirmed
<1>3. Done'
  BY <1>0, <1>t DEF Inv, TypeOK, Done
<1>4. AllocBehind'
  <2>1. g.generation <= roster[g.player].gen
    BY DEF Inv, IssuedBehind
  <2> QED BY <1>0, <1>t, <2>1 DEF Inv, TypeOK, AllocBehind
<1>5. Cleared'
  BY <1>0, <1>t DEF Inv, TypeOK, Cleared
<1>6. AdmittedBehind'
  <2> SUFFICES ASSUME NEW h \in admitted'
               PROVE  h.route <= alloc'.route /\ h.generation <= alloc'.gen[h.player]
    BY <1>0, <1>t DEF Inv, TypeOK, AdmittedBehind
  <2>1. alloc'.route = alloc.route
    BY <1>0 DEF Inv, TypeOK
  <2>2. CASE h = g
    BY <1>0, <1>t, <2>1, <2>2 DEF Inv, TypeOK
  <2>3. CASE h \in admitted
    <3>1. h.route <= alloc.route /\ h.generation <= alloc.gen[h.player]
      BY <1>t, <2>3 DEF Inv, AdmittedBehind
    <3>2. h.player \in Players /\ h.generation \in Nat
      BY <2>3, GrantType DEF Inv, TypeOK
    <3>3. alloc'.gen[h.player] = IF h.player = g.player THEN g.generation
                                 ELSE alloc.gen[h.player]
      BY <1>0, <3>2 DEF Inv, TypeOK
    <3>4. alloc.gen[h.player] \in Nat
      BY <1>t, <3>2
    <3> QED BY <1>t, <2>1, <3>1, <3>2, <3>3, <3>4
  <2> QED BY <1>0, <2>2, <2>3
<1>7. Started'
  BY <1>0, <1>t DEF Inv, TypeOK, Started
<1>8. SeatTruth'
  <2>1. alloc'.connected = alloc.connected \cup {g.player}
    BY <1>0 DEF Inv, TypeOK
  <2>2. ASSUME NEW p \in Remote
        PROVE  p \in alloc'.connected <=>
                   \E h \in links' : h.player = p /\ h.generation = alloc'.gen[p]
    <3>1. CASE p = g.player
      <4>1. alloc'.gen[p] = g.generation
        BY <1>0, <3>1 DEF Inv, TypeOK
      <4> QED BY <1>0, <2>1, <3>1, <4>1
    <3>2. CASE p # g.player
      <4>1. alloc'.gen[p] = alloc.gen[p]
        BY <1>0, <3>2 DEF Inv, TypeOK
      <4> QED BY <1>0, <1>t, <2>1, <3>2, <4>1 DEF Inv, SeatTruth
    <3> QED BY <3>1, <3>2
  <2> QED BY <1>0, <2>2 DEF SeatTruth
<1>9. ReadyMeansInstalled'
  BY <1>0, <1>t DEF Inv, TypeOK, ReadyMeansInstalled
<1>10. SpentByAdmission'
  BY <1>0 DEF Inv, SpentByAdmission
<1>11. ConnectedWasAdmitted'
  BY <1>0, <1>t DEF Inv, TypeOK, ConnectedWasAdmitted
<1>12. (Routes /\ Held /\ IssuedBehind /\ Unique /\ Positive /\ NotYet /\
       EndRevoked /\ Outstanding)'
  BY <1>0, <1>t DEF Inv, Routes, Held, IssuedBehind, Unique, Positive,
     NotYet, EndRevoked, Outstanding
<1> QED BY <1>1, <1>2, <1>3, <1>4, <1>5, <1>6, <1>7, <1>8, <1>9, <1>10,
     <1>11, <1>12 DEF Inv

(* Only the disconnect of the present generation frees a seat.               *)
LEMMA DisconnectInv ==
    ASSUME Inv, NEW g \in links, MarkDisconnected(g)
    PROVE  Inv'
<1>1. TypeOK'
  BY DEF Inv, TypeOK, MarkDisconnected, Grants
<1>2. Confirmed'
  BY DEF Inv, TypeOK, MarkDisconnected, Grants, Confirmed
<1>3. Done'
  BY DEF Inv, TypeOK, MarkDisconnected, Grants, Done
<1>4. AllocBehind'
  BY DEF Inv, TypeOK, MarkDisconnected, Grants, AllocBehind
<1>5. Cleared'
  BY DEF Inv, TypeOK, MarkDisconnected, Grants, Cleared
<1>6. AdmittedBehind'
  BY DEF Inv, TypeOK, MarkDisconnected, Grants, AdmittedBehind
<1>7. Started'
  BY DEF Inv, TypeOK, MarkDisconnected, Grants, Started
<1>8. SeatTruth'
  <2>1. g \in issued /\ g.player \in Players
    BY GrantType DEF Inv, TypeOK
  <2>2. CASE alloc.route # 0 /\ alloc.gen[g.player] = g.generation
    <3>1. alloc' = [alloc EXCEPT !.connected = @ \ {g.player}]
      BY <2>2 DEF MarkDisconnected
    <3>2. /\ alloc'.connected = alloc.connected \ {g.player}
          /\ alloc'.gen = alloc.gen /\ alloc'.route = alloc.route
      BY <3>1 DEF Inv, TypeOK
    <3>3. ASSUME NEW h \in links, h.player = g.player, h.generation = g.generation
          PROVE  h = g
      BY <2>1, <3>3 DEF Inv, TypeOK, Unique
    <3>4. links' = links \ {g} /\ hosting' = hosting
      BY DEF MarkDisconnected
    <3> QED BY <2>2, <3>2, <3>3, <3>4 DEF Inv, SeatTruth
  <2>3. CASE ~(alloc.route # 0 /\ alloc.gen[g.player] = g.generation)
    <3>1. alloc' = alloc /\ links' = links \ {g} /\ hosting' = hosting
      BY <2>3 DEF MarkDisconnected
    <3> QED BY <2>3, <3>1 DEF Inv, SeatTruth
  <2> QED BY <2>2, <2>3
<1>9. ReadyMeansInstalled'
  BY DEF Inv, TypeOK, MarkDisconnected, Grants, ReadyMeansInstalled
<1>10. (Routes /\ Held /\ IssuedBehind /\ Unique /\ Positive /\ NotYet /\
       EndRevoked /\ Outstanding /\ SpentByAdmission /\
       ConnectedWasAdmitted)'
  BY DEF Inv, MarkDisconnected, Grants, Routes, Held, IssuedBehind, Unique,
     Positive, NotYet, EndRevoked, Outstanding, SpentByAdmission,
     ConnectedWasAdmitted
<1> QED BY <1>1, <1>2, <1>3, <1>4, <1>5, <1>6, <1>7, <1>8, <1>9, <1>10
     DEF Inv

(* The report of a connection.                                               *)
LEMMA ConnectedInv ==
    ASSUME Inv, NEW g \in admitted, MarkConnected(g)
    PROVE  Inv'
<1>1. TypeOK'
  BY DEF Inv, TypeOK, MarkConnected, Grants
<1>2. Held'
  BY DEF Inv, TypeOK, MarkConnected, Grants, Held
<1>3. AllocBehind'
  BY DEF Inv, TypeOK, MarkConnected, Grants, AllocBehind
<1>4. IssuedBehind'
  BY DEF Inv, TypeOK, MarkConnected, Grants, IssuedBehind
<1>5. Started'
  BY DEF Inv, TypeOK, MarkConnected, Grants, Started
<1>6. NotYet'
  BY DEF Inv, TypeOK, MarkConnected, Grants, NotYet
<1>7. EndRevoked'
  BY DEF Inv, TypeOK, MarkConnected, Grants, EndRevoked
<1>8. Outstanding'
  BY DEF Inv, TypeOK, MarkConnected, Grants, Outstanding
<1>9. Done'
  BY DEF Inv, TypeOK, MarkConnected, Grants, Done
<1>10. Routes'
  BY DEF Inv, TypeOK, MarkConnected, Grants, Routes
<1>11. ReadyMeansInstalled'
  BY DEF Inv, TypeOK, MarkConnected, Grants, ReadyMeansInstalled
<1>12. ConnectedWasAdmitted'
  BY DEF Inv, TypeOK, MarkConnected, Grants, ConnectedWasAdmitted
<1>13. Positive'
  BY DEF Inv, TypeOK, MarkConnected, Grants, Positive
<1>14. (Confirmed /\ Unique /\ Cleared /\ AdmittedBehind /\ SeatTruth /\
       SpentByAdmission)'
  BY DEF Inv, MarkConnected, Grants, Confirmed, Unique, Cleared,
     AdmittedBehind, SeatTruth, SpentByAdmission
<1> QED BY <1>1, <1>2, <1>3, <1>4, <1>5, <1>6, <1>7, <1>8, <1>9, <1>10,
     <1>11, <1>12, <1>13, <1>14 DEF Inv

(* The report of a disconnection.                                            *)
LEMMA DisconnectedInv ==
    ASSUME Inv, NEW g \in admitted, ReportDisconnected(g)
    PROVE  Inv'
<1>1. TypeOK'
  BY DEF Inv, TypeOK, ReportDisconnected, Grants
<1>2. Held'
  BY DEF Inv, TypeOK, ReportDisconnected, Grants, Held
<1>3. AllocBehind'
  BY DEF Inv, TypeOK, ReportDisconnected, Grants, AllocBehind
<1>4. IssuedBehind'
  BY DEF Inv, TypeOK, ReportDisconnected, Grants, IssuedBehind
<1>5. Outstanding'
  BY DEF Inv, TypeOK, ReportDisconnected, Grants, Outstanding
<1>6. ConnectedWasAdmitted'
  BY DEF Inv, TypeOK, ReportDisconnected, Grants, ConnectedWasAdmitted
<1>7. Positive'
  BY DEF Inv, TypeOK, ReportDisconnected, Grants, Positive
<1>8. (Routes /\ Confirmed /\ Done /\ Unique /\ Cleared /\ AdmittedBehind
       /\ Started /\ NotYet /\ EndRevoked /\ SeatTruth /\
       ReadyMeansInstalled /\ SpentByAdmission)'
  BY DEF Inv, ReportDisconnected, Grants, Routes, Confirmed, Done, Unique,
     Cleared, AdmittedBehind, Started, NotYet, EndRevoked, SeatTruth,
     ReadyMeansInstalled, SpentByAdmission
<1> QED BY <1>1, <1>2, <1>3, <1>4, <1>5, <1>6, <1>7, <1>8 DEF Inv

(* Heartbeats stop.                                                          *)
LEMMA StaleInv ==
    ASSUME Inv, HeartbeatStale
    PROVE  Inv'
<1>1. TypeOK'
  BY DEF Inv, TypeOK, HeartbeatStale
<1>2. Routes'
  BY DEF Inv, TypeOK, HeartbeatStale, Routes
<1>3. Done'
  BY DEF Inv, TypeOK, HeartbeatStale, Done
<1>4. IssuedBehind'
  BY DEF Inv, TypeOK, HeartbeatStale, IssuedBehind
<1>5. Started'
  BY DEF Inv, TypeOK, HeartbeatStale, Started
<1>6. NotYet'
  BY DEF Inv, TypeOK, HeartbeatStale, NotYet
<1>7. EndRevoked'
  BY DEF Inv, TypeOK, HeartbeatStale, EndRevoked
<1>8. Outstanding'
  BY DEF Inv, TypeOK, HeartbeatStale, Outstanding
<1>9. ReadyMeansInstalled'
  BY DEF Inv, TypeOK, HeartbeatStale, ReadyMeansInstalled
<1>10. (Held /\ Confirmed /\ AllocBehind /\ Unique /\ Positive /\ Cleared
       /\ AdmittedBehind /\ SeatTruth /\ SpentByAdmission /\
       ConnectedWasAdmitted)'
  BY DEF Inv, HeartbeatStale, Held, Confirmed, AllocBehind, Unique,
     Positive, Cleared, AdmittedBehind, SeatTruth, SpentByAdmission,
     ConnectedWasAdmitted
<1> QED BY <1>1, <1>2, <1>3, <1>4, <1>5, <1>6, <1>7, <1>8, <1>9, <1>10
     DEF Inv

(* A recovery puts the roster ahead of every grant.                          *)
LEMMA HeartbeatInv ==
    ASSUME Inv, AuthorityHeartbeat
    PROVE  Inv'
<1>1. TypeOK'
  <2>1. attempt' \in [state : Active \cup {"COMPLETED", "ABORTED"}, route : Nat,
                      payloadRoute : Nat, fresh : BOOLEAN, reconnecting : BOOLEAN]
    <3>1. CASE attempt.reconnecting
      <4>1. attempt.route + 1 \in Nat
        BY DEF Inv, TypeOK
      <4>2. attempt' = [state |-> attempt.state, route |-> attempt.route + 1,
                        payloadRoute |-> 0, fresh |-> TRUE, reconnecting |-> FALSE]
        BY <3>1 DEF Inv, TypeOK, AuthorityHeartbeat
      <4> QED BY <4>1, <4>2 DEF Inv, TypeOK
    <3>2. CASE ~attempt.reconnecting
      BY <3>2 DEF Inv, TypeOK, AuthorityHeartbeat
    <3> QED BY <3>1, <3>2
  <2>2. roster' \in [Players -> [gen : Nat, state : {"RESERVED", "CONNECTING",
                                             "CONNECTED", "DISCONNECTED"}]]
    BY DEF Inv, TypeOK, AuthorityHeartbeat, Recovered
  <2>3. revoked' \subseteq issued'
    BY DEF Inv, TypeOK, AuthorityHeartbeat
  <2> QED BY <2>1, <2>2, <2>3 DEF Inv, TypeOK, AuthorityHeartbeat, Recovered
<1>2. Routes'
  <2>1. attempt'.route \in {attempt.route, attempt.route + 1}
    BY DEF Inv, TypeOK, AuthorityHeartbeat
  <2> QED BY <2>1 DEF Inv, TypeOK, Routes, AuthorityHeartbeat
<1>3. Held'
  BY DEF Inv, TypeOK, AuthorityHeartbeat, Recovered, Held
<1>4. Done'
  BY DEF Inv, TypeOK, AuthorityHeartbeat, Recovered, Done
<1>5. AllocBehind'
  BY DEF Inv, TypeOK, AuthorityHeartbeat, Recovered, AllocBehind
<1>6. IssuedBehind'
  <2> SUFFICES ASSUME NEW g \in issued
               PROVE  /\ g.player \in Remote /\ g.generation <= roster'[g.player].gen
                      /\ g.route <= attempt'.route
                      /\ g.route < attempt'.route => g.generation < roster'[g.player].gen
    BY DEF AuthorityHeartbeat, IssuedBehind
  <2>1. /\ g.player \in Remote /\ g.generation \in Nat /\ g.route \in Nat
        /\ roster[g.player].gen \in Nat /\ attempt.route \in Nat
        /\ g.generation <= roster[g.player].gen /\ g.route <= attempt.route
        /\ g.route < attempt.route => g.generation < roster[g.player].gen
    BY GrantType DEF Inv, TypeOK, IssuedBehind
  <2>2. CASE attempt.reconnecting
    <3>1. attempt'.route = attempt.route + 1
      BY <2>2 DEF Inv, TypeOK, AuthorityHeartbeat
    <3>2. roster'[g.player].gen = roster[g.player].gen + 1
      BY <2>1, <2>2 DEF AuthorityHeartbeat, Recovered
    <3> QED BY <2>1, <3>1, <3>2
  <2>3. CASE ~attempt.reconnecting
    <3>1. attempt'.route = attempt.route /\ roster' = roster
      BY <2>3 DEF Inv, TypeOK, AuthorityHeartbeat
    <3> QED BY <2>1, <3>1
  <2> QED BY <2>2, <2>3
<1>7. Started'
  BY DEF Inv, TypeOK, AuthorityHeartbeat, Recovered, Started
<1>8. NotYet'
  BY DEF Inv, TypeOK, AuthorityHeartbeat, Recovered, NotYet
<1>9. EndRevoked'
  BY DEF Inv, TypeOK, AuthorityHeartbeat, Recovered, EndRevoked
<1>10. Outstanding'
  BY DEF Inv, TypeOK, AuthorityHeartbeat, Recovered, Outstanding
<1>11. ReadyMeansInstalled'
  <2>1. CASE attempt.reconnecting
    <3>1. attempt'.payloadRoute = 0 /\ attempt'.route = attempt.route + 1
      BY <2>1 DEF Inv, TypeOK, AuthorityHeartbeat
    <3> QED BY <3>1 DEF Inv, TypeOK, ReadyMeansInstalled
  <2>2. CASE ~attempt.reconnecting
    BY <2>2 DEF Inv, TypeOK, AuthorityHeartbeat, ReadyMeansInstalled
  <2> QED BY <2>1, <2>2
<1>12. ConnectedWasAdmitted'
  BY DEF Inv, TypeOK, AuthorityHeartbeat, Recovered, ConnectedWasAdmitted
<1>13. Positive'
  BY DEF Inv, TypeOK, AuthorityHeartbeat, Recovered, Positive
<1>14. (Confirmed /\ Unique /\ Cleared /\ AdmittedBehind /\ SeatTruth /\
       SpentByAdmission)'
  BY DEF Inv, AuthorityHeartbeat, Recovered, Confirmed, Unique, Cleared,
     AdmittedBehind, SeatTruth, SpentByAdmission
<1> QED BY <1>1, <1>2, <1>3, <1>4, <1>5, <1>6, <1>7, <1>8, <1>9, <1>10,
     <1>11, <1>12, <1>13, <1>14 DEF Inv

(* The attempt ends.                                                         *)
LEMMA CompleteInv ==
    ASSUME Inv, NEW state \in {"COMPLETED", "ABORTED"}, Complete(state)
    PROVE  Inv'
<1>1. TypeOK'
  BY DEF Inv, TypeOK, Complete
<1>2. Routes'
  BY DEF Inv, TypeOK, Complete, Routes
<1>3. Done'
  BY DEF Inv, TypeOK, Complete, Done
<1>4. IssuedBehind'
  BY DEF Inv, TypeOK, Complete, IssuedBehind
<1>5. Started'
  BY DEF Inv, TypeOK, Complete, Started
<1>6. NotYet'
  BY DEF Inv, TypeOK, Complete, NotYet
<1>7. EndRevoked'
  BY DEF Inv, TypeOK, Complete, EndRevoked
<1>8. Outstanding'
  BY DEF Inv, TypeOK, Complete, Outstanding
<1>9. ReadyMeansInstalled'
  BY DEF Inv, TypeOK, Complete, ReadyMeansInstalled
<1>10. (Held /\ Confirmed /\ AllocBehind /\ Unique /\ Positive /\ Cleared
       /\ AdmittedBehind /\ SeatTruth /\ SpentByAdmission /\
       ConnectedWasAdmitted)'
  BY DEF Inv, Complete, Held, Confirmed, AllocBehind, Unique, Positive,
     Cleared, AdmittedBehind, SeatTruth, SpentByAdmission, ConnectedWasAdmitted
<1> QED BY <1>1, <1>2, <1>3, <1>4, <1>5, <1>6, <1>7, <1>8, <1>9, <1>10
     DEF Inv

(* A sweep may end the attempt, and never revives it.                        *)
LEMMA SweepInv ==
    ASSUME Inv, Sweep
    PROVE  Inv'
<1>0. PICK state \in Active \cup {"COMPLETED", "ABORTED"}, waiting \in BOOLEAN :
        attempt' = [attempt EXCEPT !.state = state, !.reconnecting = waiting]
  <2>1. PICK a, b, c \in BOOLEAN :
          LET st   == AfterWindow(AfterDedicated(a), b)
              wait == attempt.reconnecting \/ HostSilent(st)
              gone == hosting = "P2P" /\ st \in Active /\ wait /\ c
          IN attempt' = [attempt EXCEPT !.state = IF gone THEN "ABORTED" ELSE st,
                                        !.reconnecting = wait]
    BY DEF Sweep
  <2>2. AfterWindow(AfterDedicated(a), b) \in Active \cup {"COMPLETED", "ABORTED"}
    BY DEF Inv, TypeOK, AfterWindow, AfterDedicated
  <2>3. (attempt.reconnecting \/ HostSilent(AfterWindow(AfterDedicated(a), b))) \in BOOLEAN
    OBVIOUS
  <2> HIDE DEF Active
  <2> QED BY <2>1, <2>2, <2>3
<1>1. TypeOK'
  <2>1. attempt' \in [state : Active \cup {"COMPLETED", "ABORTED"}, route : Nat,
                     payloadRoute : Nat, fresh : BOOLEAN, reconnecting : BOOLEAN]
    BY <1>0 DEF Inv, TypeOK
  <2>2. revoked' \subseteq issued'
    BY DEF Inv, TypeOK, Sweep
  <2> QED BY <2>1, <2>2 DEF Inv, TypeOK, Sweep
<1>2. Routes'
  BY DEF Inv, TypeOK, Sweep, AfterDedicated, AfterWindow, HostSilent, Routes
<1>3. Done'
  BY DEF Inv, TypeOK, Sweep, AfterDedicated, AfterWindow, HostSilent, Done
<1>4. IssuedBehind'
  BY DEF Inv, TypeOK, Sweep, AfterDedicated, AfterWindow, HostSilent,
     IssuedBehind
<1>5. Started'
  BY DEF Inv, TypeOK, Sweep, AfterDedicated, AfterWindow, HostSilent, Started
<1>6. NotYet'
  BY DEF Inv, TypeOK, Sweep, AfterDedicated, AfterWindow, HostSilent, NotYet
<1>7. EndRevoked'
  BY DEF Inv, TypeOK, Sweep, AfterDedicated, AfterWindow, HostSilent,
     EndRevoked
<1>8. Outstanding'
  BY DEF Inv, TypeOK, Sweep, AfterDedicated, AfterWindow, HostSilent,
     Outstanding
<1>9. ReadyMeansInstalled'
  BY DEF Inv, TypeOK, Sweep, AfterDedicated, AfterWindow, HostSilent,
     ReadyMeansInstalled
<1>10. (Held /\ Confirmed /\ AllocBehind /\ Unique /\ Positive /\ Cleared
       /\ AdmittedBehind /\ SeatTruth /\ SpentByAdmission /\
       ConnectedWasAdmitted)'
  BY DEF Inv, Sweep, AfterDedicated, AfterWindow, HostSilent, Held,
     Confirmed, AllocBehind, Unique, Positive, Cleared, AdmittedBehind,
     SeatTruth, SpentByAdmission, ConnectedWasAdmitted
<1> QED BY <1>1, <1>2, <1>3, <1>4, <1>5, <1>6, <1>7, <1>8, <1>9, <1>10
     DEF Inv

(* Every step.                                                               *)
LEMMA NextInv == Inv /\ [Next]_vars => Inv'
<1> SUFFICES ASSUME Inv, [Next]_vars PROVE Inv'
  OBVIOUS
<1>1. CASE Toolbox
  <2>1. CASE InstallAllocation
    BY <2>1, InstallFirstInv, InstallOtherInv, InstallRouteInv
  <2> QED BY <1>1, <2>1, ReadAttemptInv, FrozenRosterInv, PayloadInstalledInv DEF Toolbox
<1>2. CASE Authority
  BY <1>2, StartAuthorityInv, AuthorityReadyInv, HeartbeatInv, ClearInv, ConnectedInv,
     DisconnectedInv, CompleteInv DEF Authority
<1>3. CASE Client
  BY <1>3, JoinGrantInv, ValidateInv, DisconnectInv DEF Client
<1>4. CASE Time
  BY <1>4, StaleInv, SweepInv DEF Time
<1>5. CASE UNCHANGED vars
  <2>1. TypeOK'
    BY <1>5 DEF Inv, TypeOK
  <2> QED
    BY <1>5, <2>1 DEF Inv, Routes, Held, Confirmed, Done, AllocBehind,
       IssuedBehind, Unique, Positive, Cleared, AdmittedBehind, Started,
       NotYet, EndRevoked, Outstanding, SeatTruth, ReadyMeansInstalled,
       SpentByAdmission, ConnectedWasAdmitted
<1> QED BY <1>1, <1>2, <1>3, <1>4, <1>5 DEF Next

(* All reachable states.                                                     *)
LEMMA Invariance == Spec => []Inv
<1> QED BY InitInv, NextInv, PTL DEF Spec

-----------------------------------------------------------------------------
(* What strict admission guarantees *)

(* Every variable keeps its type: in particular nothing is consumed, revoked *)
(* or admitted that was not issued (service.go, JoinGrant).                  *)
THEOREM TypeCorrect == Spec => []TypeOK
<1>1. Inv => TypeOK
  BY DEF Inv
<1> QED BY <1>1, Invariance, PTL

(* A seat of the policy is connected exactly while a connection of its       *)
(* generation is up (StrictRosterPolicy.h, ValidateJoinGrant, MarkDisconnected,*)
(* InstallAllocation).                                                       *)
THEOREM SeatTruthAlways == Spec => []SeatTruth
<1>1. Inv => SeatTruth
  BY DEF Inv
<1> QED BY <1>1, Invariance, PTL

(* The control plane counts a route as installed only when the payload has it*)
(* (payloadInstalled), for any number of recoveries.                         *)
THEOREM ReadyMeansInstalledAlways == Spec => []ReadyMeansInstalled
<1>1. Inv => ReadyMeansInstalled
  BY DEF Inv
<1> QED BY <1>1, Invariance, PTL

(* A grant the control plane stands by opens its seat (ValidateJoinGrant).   *)
THEOREM ValidGrantAdmittedAlways == Spec => []ValidGrantAdmitted
<1>1. ASSUME Inv PROVE ValidGrantAdmitted
  <2> SUFFICES ASSUME NEW g \in issued \ (revoked \cup used)
               PROVE  Admissible(g) /\ ~SeatTaken(g)
    BY DEF ValidGrantAdmitted
  <2>1. g.player \in Remote /\ g.player \in Players /\ g.generation \in Nat
    BY <1>1, GrantType DEF Inv, IssuedBehind
  <2>2. /\ g.route = attempt.route /\ attempt.payloadRoute = attempt.route
        /\ g.generation = roster[g.player].gen
    BY <1>1 DEF Inv, Outstanding
  <2>3. attempt.state \in {"CONNECTING", "RUNNING"}
    BY <1>1 DEF Inv, TypeOK, NotYet, EndRevoked
  <2>4. started /\ alloc.route # 0 /\ alloc.route = attempt.route
    BY <1>1, <2>2, <2>3 DEF Inv, Started, ReadyMeansInstalled
  <2>5. alloc.gen[g.player] <= g.generation /\ alloc.gen[g.player] \in Nat
    BY <1>1, <2>1, <2>2 DEF Inv, TypeOK, AllocBehind
  <2>6. Admissible(g)
    BY <2>1, <2>2, <2>4, <2>5 DEF Admissible
  <2> QED BY <1>1, <2>6, SeatFree
<1> QED BY <1>1, Invariance, PTL

(* No JTI is spent without letting its bearer in (ValidateJoinGrant inserts  *)
(* it before it looks at the seat).                                          *)
THEOREM SpentByAdmissionAlways == Spec => []SpentByAdmission
<1>1. Inv => SpentByAdmission
  BY DEF Inv
<1> QED BY <1>1, Invariance, PTL

(* A player counts as connected only in a generation that the payload let in *)
(* (service.go, MarkConnected, and AuthorityHeartbeat, which raises it).     *)
THEOREM ConnectedWasAdmittedAlways == Spec => []ConnectedWasAdmitted
<1>1. Inv => ConnectedWasAdmitted
  BY DEF Inv
<1> QED BY <1>1, Invariance, PTL

(* The end of an attempt takes back all grants and nothing late revives it   *)
(* (Complete, Sweep, MarkConnected, AuthorityHeartbeat, JoinGrant).          *)
THEOREM EndIsFinalAlways == Spec => EndIsFinal
<1>1. ASSUME Inv, Inv', [Next]_vars
      PROVE  [/\ Ended' => revoked' = issued'
              /\ Ended => attempt'.state = attempt.state /\ issued' = issued]_vars
  <2>1. Ended' => revoked' = issued'
    BY <1>1 DEF Inv, EndRevoked
  <2>2. ASSUME Ended, Next
        PROVE  attempt'.state = attempt.state /\ issued' = issued
    <3>1. CASE Toolbox
      BY <1>1, <3>1 DEF Inv, TypeOK, Toolbox, ReadAttempt, FrozenRoster,
                        InstallAllocation, PayloadInstalled
    <3>2. CASE Authority
      BY <1>1, <2>2, <3>2 DEF Inv, TypeOK, Authority, StartAuthority, AuthorityReady,
                        AuthorityHeartbeat, ClearMatchAllocation, MarkConnected,
                        ReportDisconnected, Complete
    <3>3. CASE Client
      BY <1>1, <2>2, <3>3 DEF Client, JoinGrant, ValidateJoinGrant, MarkDisconnected
    <3>4. CASE HeartbeatStale
      BY <1>1, <3>4 DEF Inv, TypeOK, HeartbeatStale
    <3>5. CASE Sweep
      BY <1>1, <2>2, <3>5 DEF Inv, TypeOK, Sweep, AfterDedicated, AfterWindow
    <3> QED BY <2>2, <3>1, <3>2, <3>3, <3>4, <3>5 DEF Next, Time
  <2> QED BY <1>1, <2>1, <2>2
<1> QED BY <1>1, Invariance, PTL DEF Spec, EndIsFinal

-----------------------------------------------------------------------------
(* The abstract specification *)

Generations == [p \in Players |-> roster[p].gen]
LetIn  == [p \in Players |-> {g.generation : g \in {h \in admitted : h.player = p}}]
Holder == [p \in Players |->
              IF p \in Remote \cap alloc.connected THEN alloc.gen[p] ELSE 0]

(* What issues grants and recovers hosts leaves the seats alone.             *)
LEMMA IssueStep ==
    ASSUME Inv, Inv', UNCHANGED <<hosting, alloc, admitted>>,
           \A p \in Players : roster'[p].gen >= roster[p].gen
    PROVE  Seats!Issue
<1>1. Generations' \in [Players -> Nat]
  BY DEF Inv, TypeOK, Generations
<1>2. LetIn' = LetIn /\ Holder' = Holder
  BY DEF LetIn, Holder
<1> QED BY <1>1, <1>2 DEF Seats!Issue, Generations, LetIn, Holder

(* What neither issues nor admits may only release seats.                    *)
LEMMA ReleaseStep ==
    ASSUME Inv, UNCHANGED <<roster, admitted>>,
           \A p \in Players : Holder'[p] \in {0, Holder[p]}
    PROVE  Seats!Release
<1>1. LetIn' = LetIn /\ Generations' = Generations
  BY DEF LetIn, Generations
<1> QED BY <1>1 DEF Seats!Release, Generations, LetIn, Holder

(* A grant is let in after all the players' earlier ones, whose JTIs are     *)
(* spent, although the policy forgets the JTIs when it is reset.             *)
LEMMA AdmitsLater ==
    ASSUME Inv, NEW g \in issued, ValidateJoinGrant(g),
           NEW h \in admitted, h.player = g.player
    PROVE  h.generation < g.generation
<1>1. /\ g \notin used /\ g.player \in Players /\ g.generation \in Nat
      /\ alloc.route # 0 /\ g.generation >= alloc.gen[g.player]
      /\ alloc.gen[g.player] \in Nat
  BY GrantType DEF Inv, TypeOK, ValidateJoinGrant, Admissible
<1>2. h \in issued /\ h \in used /\ h.generation \in Nat
  BY <1>1, GrantType DEF Inv, TypeOK, AdmittedBehind
<1>3. h.generation <= alloc.gen[g.player]
  BY <1>1 DEF Inv, AdmittedBehind
<1>4. h.generation # g.generation
  BY <1>1, <1>2 DEF Inv, Unique
<1> QED BY <1>1, <1>2, <1>3, <1>4

(* Letting the bearer of a grant in needs a later generation than all before.*)
LEMMA AdmitStep ==
    ASSUME Inv, NEW g \in issued, ValidateJoinGrant(g)
    PROVE  \E p \in Players : Seats!Admit(p)
<1>1. /\ ~SeatTaken(g) /\ g \notin used /\ Admissible(g)
      /\ admitted' = admitted \cup {g}
      /\ alloc' = [alloc EXCEPT !.gen[g.player] = g.generation,
                                !.connected = @ \cup {g.player}]
      /\ UNCHANGED <<hosting, roster>>
  BY SeatFree DEF ValidateJoinGrant
<1>2. /\ g.player \in Remote /\ g.player \in Players /\ g.generation \in Nat
      /\ alloc.route # 0 /\ g.generation >= alloc.gen[g.player]
      /\ alloc.gen[g.player] \in Nat
  BY <1>1, GrantType DEF Inv, TypeOK, Admissible
<1> DEFINE q == g.player
<1>3. g.generation \in 1..Generations[q]
  <2>1. g.generation <= roster[q].gen /\ roster[q].gen \in Nat
    BY <1>2 DEF Inv, TypeOK, IssuedBehind
  <2>2. g.generation # 0
    BY DEF Inv, Positive
  <2> QED BY <1>2, <2>1, <2>2 DEF Generations
<1>4. ASSUME NEW h \in admitted, h.player = q
      PROVE  h.generation < g.generation
  BY <1>4, AdmitsLater
<1>5. \A old \in LetIn[q] : old < g.generation
  BY <1>2, <1>4 DEF LetIn
<1>6. LetIn' = [LetIn EXCEPT ![q] = @ \cup {g.generation}]
  <2>1. ASSUME NEW p \in Players, p # q
        PROVE  {h \in admitted' : h.player = p} = {h \in admitted : h.player = p}
    BY <1>1, <2>1
  <2>2. {h \in admitted' : h.player = q} = {h \in admitted : h.player = q} \cup {g}
    BY <1>1
  <2>3. LetIn'[q] = LetIn[q] \cup {g.generation}
    BY <1>2, <2>2 DEF LetIn
  <2>4. ASSUME NEW p \in Players, p # q
        PROVE  LetIn'[p] = LetIn[p]
    BY <2>1, <2>4 DEF LetIn
  <2> QED BY <1>2, <2>3, <2>4 DEF LetIn
<1>7. Holder' = [Holder EXCEPT ![q] = g.generation]
  <2>1. /\ alloc'.connected = alloc.connected \cup {q}
        /\ alloc'.gen = [alloc.gen EXCEPT ![q] = g.generation]
    BY <1>1 DEF Inv, TypeOK
  <2>2. alloc.gen \in [Players -> Nat]
    BY DEF Inv, TypeOK
  <2> HIDE DEF q
  <2> QED BY <1>1, <1>2, <2>1, <2>2 DEF Holder, q
<1>8. Generations' = Generations
  BY <1>1 DEF Generations
<1>9. Seats!Admit(q)
  BY <1>3, <1>5, <1>6, <1>7, <1>8 DEF Seats!Admit, Generations, LetIn, Holder
<1> QED BY <1>2, <1>9

(* The seats are free at first.                                              *)
LEMMA InitSeats == Init => Seats!Init
BY DEF Init, NoAllocation, Seats!Init

(* Every step issues, releases, admits or leaves the seats as they are.      *)
LEMMA NextSeats ==
    ASSUME Inv, Inv', [Next]_vars
    PROVE  [Seats!Next]_(Seats!vars)
<1>1. CASE \/ \E p \in Players : JoinGrant(p)
           \/ AuthorityReady \/ AuthorityHeartbeat \/ HeartbeatStale \/ Sweep
           \/ ReadAttempt \/ FrozenRoster \/ PayloadInstalled
           \/ \E g \in admitted : MarkConnected(g)
           \/ \E g \in admitted \ links : ReportDisconnected(g)
           \/ \E state \in {"COMPLETED", "ABORTED"} : Complete(state)
  <2>1. UNCHANGED <<hosting, alloc, admitted>>
    BY <1>1 DEF JoinGrant, AuthorityReady, AuthorityHeartbeat, HeartbeatStale, Sweep,
                ReadAttempt, FrozenRoster, PayloadInstalled, MarkConnected,
                ReportDisconnected, Complete
  <2>2. ASSUME NEW p \in Players PROVE roster'[p].gen >= roster[p].gen
    <3>1. roster[p].gen \in Nat
      BY DEF Inv, TypeOK
    <3>2. ASSUME NEW q \in Players, JoinGrant(q)
          PROVE  roster'[p].gen \in {roster[p].gen, roster[p].gen + 1}
      BY <3>2 DEF Inv, TypeOK, JoinGrant
    <3>3. CASE AuthorityHeartbeat
      BY <3>1, <3>3 DEF AuthorityHeartbeat, Recovered
    <3>4. CASE AuthorityReady
      BY <3>1, <3>4 DEF Inv, TypeOK, AuthorityReady
    <3>5. ASSUME NEW g \in admitted, MarkConnected(g) \/ ReportDisconnected(g)
          PROVE  roster'[p].gen = roster[p].gen
      BY <3>5, GrantType DEF Inv, TypeOK, MarkConnected, ReportDisconnected
    <3>6. CASE \/ HeartbeatStale \/ Sweep \/ ReadAttempt \/ FrozenRoster \/ PayloadInstalled
               \/ \E state \in {"COMPLETED", "ABORTED"} : Complete(state)
      <4>1. roster' = roster
        BY <3>6 DEF HeartbeatStale, Sweep, ReadAttempt, FrozenRoster,
                    PayloadInstalled, Complete
      <4> QED BY <3>1, <4>1
    <3> QED BY <1>1, <3>1, <3>2, <3>3, <3>4, <3>5, <3>6
  <2> QED BY <2>1, <2>2, IssueStep DEF Seats!Next
<1>2. CASE InstallAllocation \/ StartAuthority \/ ClearMatchAllocation
           \/ \E g \in links : MarkDisconnected(g)
  <2>1. UNCHANGED <<hosting, roster, admitted>>
    BY <1>2 DEF InstallAllocation, StartAuthority, ClearMatchAllocation, MarkDisconnected
  <2>2. ASSUME NEW p \in Players PROVE Holder'[p] \in {0, Holder[p]}
    <3>1. CASE InstallAllocation
      <4>1. UNCHANGED alloc \/ alloc'.connected \cap Remote = {}
        BY <3>1 DEF InstallAllocation, InstallFirst, InstallRenewal, InstallRoute, Snapshot
      <4> QED BY <2>1, <4>1 DEF Holder
    <3>2. CASE StartAuthority
      <4>1. alloc'.gen = alloc.gen /\ alloc'.connected \cap Remote = alloc.connected \cap Remote
        BY <3>2 DEF Inv, TypeOK, StartAuthority
      <4> QED BY <2>1, <4>1 DEF Holder
    <3>3. CASE ClearMatchAllocation
      BY <3>3 DEF ClearMatchAllocation, NoAllocation, Holder
    <3>4. CASE \E g \in links : MarkDisconnected(g)
      <4>1. alloc'.gen = alloc.gen /\ alloc'.connected \subseteq alloc.connected
        BY <3>4 DEF Inv, TypeOK, MarkDisconnected
      <4> QED BY <2>1, <4>1 DEF Holder
    <3> QED BY <1>2, <3>1, <3>2, <3>3, <3>4
  <2> QED BY <2>1, <2>2, ReleaseStep DEF Seats!Next
<1>3. CASE \E g \in issued : ValidateJoinGrant(g)
  BY <1>3, AdmitStep DEF Seats!Next
<1>4. CASE UNCHANGED vars
  BY <1>4 DEF Seats!vars
<1> QED BY <1>1, <1>2, <1>3, <1>4 DEF Next, Toolbox, Authority, Client, Time

(* The policy, under this control plane, implements FrozenSeats: every step  *)
(* issues, admits or releases as it allows, or changes no seat.              *)
THEOREM Implementation == Spec => KeepsSeats
<1> QED BY Invariance, InitSeats, NextSeats, PTL DEF Spec, KeepsSeats, Seats!Spec

-----------------------------------------------------------------------------
(* What the policy never does *)

(* No grant is let in twice, in whatever order connections are lost, routes  *)
(* installed and reports delayed: a connection that has ended stays away     *)
(* although ResetLocked forgets the JTIs (ValidateJoinGrant, InstallFirst,   *)
(* ClearMatchAllocation), and who is let in comes after all who were.        *)
AdmitsOnce ==
    [][/\ \A g \in admitted : g \in links' => g \in links
       /\ \A g \in admitted' \ admitted, h \in admitted :
             h.player = g.player => h.generation < g.generation]_vars

(* Only ValidateJoinGrant lets anybody in.                                   *)
LEMMA OthersAdmitNobody ==
    ASSUME Next, ~\E g \in issued : ValidateJoinGrant(g)
    PROVE  UNCHANGED admitted /\ links' \subseteq links
<1>1. CASE Toolbox
  BY <1>1 DEF Toolbox, ReadAttempt, FrozenRoster, InstallAllocation,
     PayloadInstalled
<1>2. CASE Authority
  BY <1>2 DEF Authority, StartAuthority, AuthorityReady, AuthorityHeartbeat,
     ClearMatchAllocation, MarkConnected, ReportDisconnected, Complete
<1>3. CASE Client
  BY <1>3 DEF Client, JoinGrant, MarkDisconnected
<1>4. CASE Time
  BY <1>4 DEF Time, HeartbeatStale, Sweep
<1> QED BY <1>1, <1>2, <1>3, <1>4 DEF Next

(* No grant is let in twice, and admissions of one player come in the order  *)
(* of their grants.                                                          *)
THEOREM AdmitsOnceAlways == Spec => AdmitsOnce
<1> DEFINE Once == /\ \A g \in admitted : g \in links' => g \in links
                   /\ \A g \in admitted' \ admitted, h \in admitted :
                         h.player = g.player => h.generation < g.generation
<1>1. ASSUME Inv, Next PROVE Once
  <2>1. CASE \E g \in issued : ValidateJoinGrant(g)
    <3>1. PICK g \in issued : ValidateJoinGrant(g)
      BY <2>1
    <3>2. /\ links' \subseteq links \cup {g}
          /\ admitted' \subseteq admitted \cup {g}
      BY <3>1 DEF ValidateJoinGrant
    <3>3. g \notin admitted
      <4>1. g.generation \in Nat
        BY <1>1, GrantType DEF Inv
      <4> QED BY <1>1, <3>1, <4>1, AdmitsLater
    <3>4. \A h \in admitted : h.player = g.player => h.generation < g.generation
      BY <1>1, <3>1, AdmitsLater
    <3> QED BY <3>2, <3>3, <3>4
  <2>2. CASE ~\E g \in issued : ValidateJoinGrant(g)
    BY <1>1, <2>2, OthersAdmitNobody
  <2> QED BY <2>1, <2>2
<1>2. Inv /\ [Next]_vars => [Once]_vars
  BY <1>1
<1> QED BY <1>2, Invariance, PTL DEF Spec, AdmitsOnce

(* The policy never goes back to an earlier route, or a seat to an earlier   *)
(* generation, whichever allocation a toolbox that was slow to read it       *)
(* installs (InstallAllocation, ValidateJoinGrant).                          *)
NeverGoesBack ==
    [][alloc.route # 0 /\ alloc'.route # 0 =>
           /\ alloc'.route >= alloc.route
           /\ \A p \in Players : alloc'.gen[p] >= alloc.gen[p]]_vars

(* A policy is only ever replaced by a later one, or cleared.                *)
THEOREM NeverGoesBackAlways == Spec => NeverGoesBack
<1> DEFINE Forward == alloc.route # 0 /\ alloc'.route # 0 =>
                          /\ alloc'.route >= alloc.route
                          /\ \A p \in Players : alloc'.gen[p] >= alloc.gen[p]
<1>1. ASSUME TypeOK, Next PROVE Forward
  <2>0. /\ alloc.route \in Nat /\ toolbox.route \in Nat
        /\ \A p \in Players : alloc.gen[p] \in Nat /\ toolbox.gen[p] \in Nat
    BY <1>1 DEF TypeOK
  <2>1. CASE InstallAllocation
    <3>1. CASE InstallFirst
      BY <3>1 DEF InstallFirst
    <3>2. CASE InstallRoute
      BY <2>0, <3>2 DEF InstallRoute, Snapshot, Conflicts
    <3>3. CASE UNCHANGED alloc
      BY <2>0, <3>3
    <3> QED BY <2>1, <3>1, <3>2, <3>3 DEF InstallAllocation, InstallRenewal
  <2>2. ASSUME NEW g \in issued, ValidateJoinGrant(g) PROVE Forward
    <3>1. g.player \in Players /\ g.generation \in Nat
      BY <1>1, GrantType
    <3>2. g.generation >= alloc.gen[g.player]
      BY <2>2 DEF ValidateJoinGrant, Admissible
    <3>3. \/ UNCHANGED alloc
          \/ /\ alloc'.route = alloc.route
             /\ alloc'.gen = [alloc.gen EXCEPT ![g.player] = g.generation]
      BY <1>1, <2>2 DEF ValidateJoinGrant, TypeOK
    <3>4. alloc.gen \in [Players -> Nat]
      BY <1>1 DEF TypeOK
    <3> QED BY <2>0, <3>1, <3>2, <3>3, <3>4
  <2>3. CASE StartAuthority
    BY <1>1, <2>0, <2>3 DEF StartAuthority, TypeOK
  <2>4. ASSUME NEW g, MarkDisconnected(g) PROVE Forward
    BY <1>1, <2>0, <2>4 DEF MarkDisconnected, TypeOK
  <2>5. CASE ClearMatchAllocation
    BY <2>5 DEF ClearMatchAllocation, NoAllocation
  <2>6. CASE UNCHANGED alloc
    BY <2>0, <2>6
  <2>7. CASE Toolbox
    BY <2>1, <2>6, <2>7 DEF Toolbox, ReadAttempt, FrozenRoster, PayloadInstalled
  <2>8. CASE Authority
    BY <2>3, <2>5, <2>6, <2>8
       DEF Authority, AuthorityReady, AuthorityHeartbeat, MarkConnected,
           ReportDisconnected, Complete
  <2>9. CASE Client
    BY <2>2, <2>4, <2>6, <2>9 DEF Client, JoinGrant
  <2>10. CASE Time
    BY <2>6, <2>10 DEF Time, HeartbeatStale, Sweep
  <2> QED BY <1>1, <2>7, <2>8, <2>9, <2>10 DEF Next
<1>2. TypeOK /\ [Next]_vars => [Forward]_vars
  BY <1>1
<1> QED BY <1>2, TypeCorrect, PTL DEF Spec, NeverGoesBack

(* The connection that holds a seat is the last one its player was let in by.*)
HolderIsLatest ==
    alloc.route # 0 =>
        \A g \in links, h \in admitted :
            SeatTaken(g) /\ h.player = g.player /\ h # g =>
                h.generation < g.generation

(* An earlier grant of a player never holds the seat against a later one.    *)
THEOREM HolderIsLatestAlways == Spec => []HolderIsLatest
<1>1. ASSUME Inv PROVE HolderIsLatest
  <2> SUFFICES ASSUME alloc.route # 0, NEW g \in links, NEW h \in admitted,
                      SeatTaken(g), h.player = g.player, h # g
               PROVE  h.generation < g.generation
    BY DEF HolderIsLatest
  <2>1. g \in issued /\ h \in issued /\ g.generation = alloc.gen[g.player]
    BY <1>1 DEF Inv, TypeOK, SeatTaken
  <2>2. g.generation \in Nat /\ h.generation \in Nat
    BY <1>1, <2>1, GrantType DEF Inv
  <2>3. h.generation <= g.generation
    BY <1>1, <2>1 DEF Inv, AdmittedBehind
  <2>4. h.generation # g.generation
    BY <1>1, <2>1 DEF Inv, Unique
  <2> QED BY <2>2, <2>3, <2>4
<1> QED BY <1>1, Invariance, PTL
=============================================================================
