-------------------------- MODULE MultiMatch_proofs --------------------------
(* Proofs about MultiMatch.  Inv adds to the invariants what ties a travel to *)
(* its source: before the departure there is none, and on the way nobody is   *)
(* connected who was not when it began, the world changes only after the      *)
(* dispatch, and from then on the players here are among those told to go.    *)
(* All of it until a WaitingToEndGame callback is taken during a travel       *)
(* (late # 0); the theorems that do not name late hold after it as well.      *)
EXTENDS MultiMatch, TLAPS, FunctionTheorems

Rest == {"Running", "Voting", "WaitingToTravel"}

BindingType == [world : Drivers, driver : Nat, cached : Nat]

AtRest ==
    late = 0 /\ life \in Rest =>
        source = NoSource /\ ~dispatched /\ ~deferred /\ url = "none"

OnTheWay ==
    late = 0 /\ Moving =>
        /\ connections \subseteq source.conns
        /\ dispatched \/ (world.ready /\ world.id = source.world)
        /\ dispatched =>
              told = source.conns \cap playing /\ \A p \in Players : conn[p] # "joining"
        /\ deferred => dispatched /\ world.ready /\ world.id = source.world
        /\ url = "none" \/ (life = "Traveling" /\ queued /\ ~dispatched)

VoteRuns == life = "Voting" => voteLeft > 0

Inv ==
    /\ TypeOK
    /\ VoteRuns
    /\ VotesCount
    /\ NobodyStranded
    /\ DriverProven
    /\ world.id # 0
    /\ AtRest
    /\ OnTheWay

USE DEF vars, engineVars, voteVars, endVars, travelVars, matchVars, payloadVars,
        Moving, Rest

-----------------------------------------------------------------------------
(* The operators *)

(* The candidates are maps of the playlist.                                  *)
LEMMA CandidatesType ==
    ASSUME activeMap \in Maps \cup {NoMap}
    PROVE  BuildCandidates \in Seq(Maps)
<1> DEFINE n == Len(Playlist)
           most == IF n > 1 /\ activeMap \in Maps THEN n - 1 ELSE n
           size == IF CandidateCount < most THEN CandidateCount ELSE most
<1>1. n \in Nat /\ n > 0 /\ DOMAIN Playlist = 1..n
  BY MatchAssumption, SMT
<1>2. IndexOf(activeMap) \in Nat
  <2>1. CASE activeMap \in Maps
    <3>1. PICK i \in DOMAIN Playlist : Playlist[i] = activeMap
      BY <2>1 DEF Maps
    <3>2. IndexOf(activeMap) \in DOMAIN Playlist
      BY <2>1, <3>1 DEF IndexOf
    <3> QED BY <1>1, <3>2
  <2>2. CASE activeMap \notin Maps
    BY <1>1, <2>2 DEF IndexOf
  <2> QED BY <2>1, <2>2
<1>3. size \in Nat
  BY <1>1, MatchAssumption
<1>4. ASSUME NEW k \in 1..size
      PROVE  Playlist[((IndexOf(activeMap) + k - 1) % n) + 1] \in Maps
  <2> DEFINE x == IndexOf(activeMap) + k - 1
  <2>1. x \in Int
    BY <1>2, <1>3
  <2> HIDE DEF x, n
  <2>2. x % n \in 0..(n - 1)
    BY <1>1, <2>1, SMT
  <2>3. (x % n) + 1 \in 1..n
    BY <1>1, <2>2, SMT
  <2>4. (x % n) + 1 \in DOMAIN Playlist
    BY <1>1, <2>3
  <2> QED BY <2>4 DEF Maps, x
<1>5. BuildCandidates = [k \in 1..size |->
                           Playlist[((IndexOf(activeMap) + k - 1) % n) + 1]]
  BY DEF BuildCandidates
<1> HIDE DEF size, n
<1>6. BuildCandidates \in [1..size -> Maps]
  BY <1>4, <1>5
<1> QED BY <1>3, <1>6, SMT

(* Observing a driver leaves a binding.                                      *)
LEMMA ObservedType ==
    ASSUME Inv, NEW driver
    PROVE  Observed(binding, driver) \in BindingType
<1>1. binding \in BindingType /\ world.id \in Nat
  BY DEF Inv, TypeOK, BindingType
<1>2. CASE driver = "other"
  <2>1. Observed(binding, driver) = [binding EXCEPT !.cached = 0]
    BY <1>2 DEF Observed
  <2> QED BY <1>1, <2>1 DEF BindingType
<1>3. CASE driver # "other" /\ LeftAlone(binding)
  BY <1>1, <1>3 DEF Observed
<1>4. CASE driver # "other" /\ ~LeftAlone(binding)
  BY <1>1, <1>4 DEF Observed, Tied, BindingType, Drivers
<1> QED BY <1>2, <1>3, <1>4

(* Outside travel the binding stays proven whatever TickFlush observes.      *)
LEMMA ObservedAtRest ==
    ASSUME Inv, late = 0, life \in Rest, NEW driver \in Ticked
    PROVE  LET b == Observed(binding, driver)
           IN b.driver = world.id /\ b.cached = world.id /\ b.world \in {"none", "ours"}
BY SMT DEF Inv, TypeOK, DriverProven, Observed, LeftAlone, Tied, Ticked, Drivers

LEMMA TiedType ==
    ASSUME Inv, NEW b
    PROVE  Tied(b) \in BindingType
BY SMT DEF Inv, TypeOK, Tied, BindingType, Drivers

-----------------------------------------------------------------------------
(* The invariant *)

LEMMA InitInv == Init => Inv
<1> SUFFICES ASSUME Init PROVE Inv
  OBVIOUS
<1>1. Playlist[1] \in Maps
  BY MatchAssumption, SMT DEF Maps
<1>2. /\ world \in [id : Nat, map : Maps \cup {NoMap}, ready : BOOLEAN]
      /\ binding \in [world : Drivers, driver : Nat, cached : Nat]
      /\ source \in [world : Nat, conns : SUBSET Players]
  BY <1>1 DEF Init, Drivers, NoSource
<1>3. /\ conn \in [Players -> {"none", "joining", "playing", "lost"}]
      /\ votes \in [Players -> Nat]
      /\ candidates \in Seq(Maps)
  BY SMT DEF Init
<1>4. /\ activeMap \in Maps \cup {NoMap} /\ nextMap \in Maps \cup {NoMap}
      /\ voteLeft \in Nat /\ elapsed \in Nat /\ match \in Nat /\ endTicks \in Nat
      /\ endReceived \in BOOLEAN /\ queued \in BOOLEAN /\ dispatched \in BOOLEAN
      /\ browseFailed \in BOOLEAN /\ rebind \in BOOLEAN
      /\ url \in {"none", "ours", "other"} /\ ended \in Nat /\ sentHome \in BOOLEAN
      /\ life \in Lives /\ retired \subseteq Nat /\ told \subseteq Players
      /\ deferred \in BOOLEAN
  BY <1>1 DEF Init, Lives
<1>5. late \in 0..MaxLate
  BY MatchAssumption, SMT DEF Init
<1>6. TypeOK
  BY <1>2, <1>3, <1>4, <1>5 DEF TypeOK
<1> QED BY <1>6, SMT DEF Init, Inv, VoteRuns, VotesCount, NobodyStranded, DriverProven,
                     AtRest, OnTheWay

(* Calls that change what is played but neither travel nor world.            *)
LEMMA ResultInv ==
    ASSUME Inv, OnShowingMatchResult
    PROVE  Inv'
<1>1. BuildCandidates \in Seq(Maps)
  BY CandidatesType DEF Inv, TypeOK
<1>2. TypeOK'
  BY <1>1, MatchAssumption DEF Inv, TypeOK, OnShowingMatchResult, PrepareResult, Lives
<1>3. VoteRuns' /\ VotesCount' /\ NobodyStranded'
  BY MatchAssumption, SMT DEF VoteRuns, Inv, TypeOK, VotesCount, NobodyStranded, OnShowingMatchResult, PrepareResult
<1>4. DriverProven' /\ AtRest' /\ OnTheWay' /\ world'.id # 0
  BY SMT DEF Inv, DriverProven, AtRest, OnTheWay, OnShowingMatchResult
<1> QED BY <1>2, <1>3, <1>4 DEF Inv

LEMMA WaitingInv ==
    ASSUME Inv, HandleWaitingToEndGame
    PROVE  Inv'
<1>1. BuildCandidates \in Seq(Maps)
  BY CandidatesType DEF Inv, TypeOK
<1>2. /\ life # "FallbackExit"
      /\ late' \in 0..MaxLate
      /\ late' = 0 => late = 0 /\ ~Moving
      /\ UNCHANGED <<world, url, conn, ended, deferred, binding, elapsed, queued,
                     dispatched, browseFailed, source, told, activeMap, match,
                     retired, rebind>>
  BY MatchAssumption, SMT DEF HandleWaitingToEndGame, Inv, TypeOK
<1>3. late' = 0 => life \in Rest
  BY <1>2, SMT DEF Inv, TypeOK, Lives
<1>4. CASE ~IsDedicated(binding)
  <2>1. sentHome' = TRUE /\ UNCHANGED <<life, voteVars, endVars, nextMap>>
    BY <1>4 DEF HandleWaitingToEndGame
  <2>2. late' # 0
    BY <1>2, <1>3, <1>4, SMT DEF Inv, TypeOK, DriverProven, IsDedicated, Owned, Resolved
  <2>3. TypeOK'
    BY <1>2, <2>1 DEF Inv, TypeOK
  <2>4. VoteRuns' /\ VotesCount'
    BY <1>2, <2>1, SMT DEF VoteRuns, Inv, VotesCount
  <2> QED BY <1>2, <2>2, <2>3, <2>4 DEF Inv, NobodyStranded, DriverProven, AtRest, OnTheWay
<1>5. CASE IsDedicated(binding)
  <2>1. Await
    BY <1>5 DEF HandleWaitingToEndGame
  <2>2. TypeOK'
    BY <1>1, <1>2, <2>1, MatchAssumption DEF Inv, TypeOK, Await, PrepareResult, Lives
  <2>3. VoteRuns'
    BY <2>1, <2>2, SMT DEF VoteRuns, TypeOK, Await
  <2>4. VotesCount'
    <3>1. \/ UNCHANGED <<candidates, votes>>
          \/ votes' = [p \in Players |-> 0]
      BY <2>1 DEF Await, PrepareResult
    <3> QED BY <1>2, <3>1 DEF Inv, VotesCount
  <2>5. NobodyStranded'
    BY <1>2, <2>1, SMT DEF Inv, NobodyStranded, Await
  <2>6. late' = 0 => life' \in Rest
    BY <1>3, <2>1, SMT DEF Await
  <2>7. DriverProven' /\ AtRest' /\ OnTheWay' /\ world'.id # 0
    BY <1>2, <1>3, <2>6, SMT DEF Inv, DriverProven, AtRest, OnTheWay
  <2> QED BY <2>2, <2>3, <2>4, <2>5, <2>7 DEF Inv
<1> QED BY <1>4, <1>5

LEMMA EndMatchInv ==
    ASSUME Inv, NEW mode \in GameModes, EndMatch(mode)
    PROVE  Inv'
<1>1. mode \in Nat
  BY DEF GameModes, Inv, TypeOK
<1>2. binding' \in BindingType /\ binding'.driver = binding.driver
                /\ binding'.cached = binding.cached
                /\ binding'.world \in {binding.world, "none"}
  BY DEF EndMatch, Inv, TypeOK, BindingType, Drivers
<1>3. TypeOK'
  BY <1>1, <1>2, SMT DEF Inv, TypeOK, EndMatch, BindingType
<1>4. VoteRuns' /\ VotesCount' /\ NobodyStranded'
  BY SMT DEF VoteRuns, Inv, VotesCount, NobodyStranded, EndMatch
<1>5. DriverProven' /\ AtRest' /\ OnTheWay' /\ world'.id # 0
  BY <1>2, SMT DEF Inv, DriverProven, AtRest, OnTheWay, EndMatch, connections, playing
<1> QED BY <1>3, <1>4, <1>5 DEF Inv

(* The intercepted Browse tells every player of the source, or nobody.       *)
LEMMA BrowseInv ==
    ASSUME Inv, InterceptEngineBrowse
    PROVE  Inv'
<1>1. TypeOK'
  BY DEF Inv, TypeOK, InterceptEngineBrowse
<1>2. VoteRuns' /\ VotesCount' /\ NobodyStranded'
  BY SMT DEF VoteRuns, Inv, VotesCount, NobodyStranded, InterceptEngineBrowse
<1>3. Moving /\ life' = life /\ late' = late /\ source' = source /\ url' = "none"
  BY DEF InterceptEngineBrowse, OwnsBrowse
<1>4. DriverProven' /\ AtRest' /\ world'.id # 0
  BY <1>3, SMT DEF Inv, DriverProven, AtRest, InterceptEngineBrowse
<1>5. connections' = connections /\ playing' = playing
  BY DEF InterceptEngineBrowse, connections, playing
<1>6. source.conns \subseteq Players
  BY DEF Inv, TypeOK
<1>7. ASSUME late = 0 PROVE OnTheWay'
  <2>1. ~dispatched /\ ~deferred /\ world.ready /\ world.id = source.world
        /\ connections \subseteq source.conns
    BY <1>3, <1>7, SMT DEF Inv, OnTheWay, InterceptEngineBrowse, OwnsBrowse
  <2>2. CASE ~dispatched'
    BY <1>3, <1>5, <2>1, <2>2, SMT DEF OnTheWay, InterceptEngineBrowse
  <2>3. CASE dispatched'
    <3>1. /\ dispatched' = TRUE /\ told' = source.conns
          /\ source.conns \subseteq {p \in Players : conn[p] = "playing"}
          /\ world' = world /\ conn' = conn
      BY <2>1, <2>3 DEF InterceptEngineBrowse
    <3>2. \A p \in Players : conn[p] # "joining"
      BY <2>1, <3>1, SMT DEF connections
    <3>3. told' = source'.conns \cap playing'
      BY <1>3, <1>5, <1>6, <3>1 DEF playing
    <3> QED BY <1>3, <1>5, <2>1, <3>1, <3>2, <3>3 DEF OnTheWay
  <2> QED BY <2>2, <2>3
<1> QED BY <1>1, <1>2, <1>3, <1>4, <1>7 DEF Inv, OnTheWay

-----------------------------------------------------------------------------
(* The travel *)

LEMMA RepairsType ==
    ASSUME Inv, NEW b \in Repairs
    PROVE  b \in BindingType
BY TiedType DEF Inv, TypeOK, Repairs, BindingType

LEMMA CommitInv ==
    ASSUME Inv, Moving, NEW b, NEW driver, Ready(b, driver), Commit(b) \/ CommitTooLate(b),
           elapsed' \in Nat
    PROVE  Inv'
<1>1. Tied(b) \in BindingType
  BY TiedType
<1>2. Committed(b)
  BY DEF Commit, CommitTooLate
<1>3. \/ life' = "Running" /\ sentHome' = sentHome
      \/ life' = "FallbackExit" /\ sentHome' = TRUE
  BY DEF Commit, CommitTooLate, StartFallback
<1>4. TypeOK'
  <2>1. source' \in [world : Nat, conns : SUBSET Players]
    BY <1>2 DEF Committed, NoSource
  <2>2. candidates' \in Seq(Maps) /\ votes' \in [Players -> Nat]
    BY <1>2 DEF Committed
  <2>3. retired' \subseteq Nat /\ match' \in Nat
    <3>1. source.world \in Nat /\ retired \subseteq Nat /\ match \in Nat
      BY DEF Inv, TypeOK
    <3>2. retired' = retired \cup {source.world} /\ match' = match + 1
      BY <1>2 DEF Committed
    <3>3. match' \in Nat
      BY <3>1, <3>2
    <3>4. retired' \subseteq Nat
      BY <3>1, <3>2, Zenon
    <3> QED BY <3>3, <3>4
  <2>4. /\ activeMap' \in Maps \cup {NoMap} /\ nextMap' \in Maps \cup {NoMap}
        /\ binding' \in BindingType
        /\ voteLeft' \in Nat /\ endTicks' \in Nat
        /\ endReceived' \in BOOLEAN /\ queued' \in BOOLEAN /\ dispatched' \in BOOLEAN
        /\ browseFailed' \in BOOLEAN /\ rebind' \in BOOLEAN
    BY <1>1, <1>2 DEF Inv, TypeOK, Committed
  <2>5. UNCHANGED <<world, url, conn, ended, deferred, told, late>>
    BY <1>2 DEF Committed
  <2>6. life' \in Lives /\ sentHome' \in BOOLEAN
    BY <1>3 DEF Inv, TypeOK, Lives
  <2> QED BY <2>1, <2>2, <2>3, <2>4, <2>5, <2>6 DEF Inv, TypeOK, BindingType
<1>5. VoteRuns' /\ VotesCount' /\ NobodyStranded'
  BY <1>2, <1>3 DEF VoteRuns, Inv, VotesCount, NobodyStranded, Committed
<1>6. late = 0 => ~deferred /\ url = "none"
  BY DEF Inv, OnTheWay, Ready, AtDestination
<1>7. DriverProven' /\ AtRest' /\ OnTheWay' /\ world'.id # 0
  BY <1>2, <1>3, <1>6
  DEF Inv, DriverProven, AtRest, OnTheWay, Committed, Ready, AtDestination, Tied, NoSource
<1> QED BY <1>4, <1>5, <1>7 DEF Inv

LEMMA KeepWaitingInv ==
    ASSUME Inv, Moving, NEW b \in BindingType, KeepWaiting(b), sentHome' = sentHome,
           elapsed' \in Nat, browseFailed' = browseFailed, rebind' \in BOOLEAN
    PROVE  Inv'
<1>1. TypeOK'
  BY DEF Inv, TypeOK, KeepWaiting, BindingType, Lives
<1>2. VoteRuns' /\ VotesCount' /\ NobodyStranded'
  BY DEF VoteRuns, Inv, VotesCount, NobodyStranded, KeepWaiting
<1>3. late = 0 /\ life' # life => url = "none"
  BY DEF Inv, OnTheWay, KeepWaiting, AtDestination
<1>4. DriverProven' /\ AtRest' /\ OnTheWay' /\ world'.id # 0
  BY <1>3 DEF Inv, DriverProven, AtRest, OnTheWay, KeepWaiting, connections, playing
<1> QED BY <1>1, <1>2, <1>4 DEF Inv

LEMMA GiveUpInv ==
    ASSUME Inv, NEW b \in BindingType, GiveUp(b),
           elapsed' \in Nat, browseFailed' \in BOOLEAN
    PROVE  Inv'
<1>1. TypeOK'
  BY DEF Inv, TypeOK, GiveUp, StartFallback, BindingType, Lives
<1>2. VoteRuns' /\ VotesCount' /\ NobodyStranded'
  BY DEF VoteRuns, Inv, VotesCount, NobodyStranded, GiveUp, StartFallback
<1>3. DriverProven' /\ AtRest' /\ OnTheWay' /\ world'.id # 0
  BY DEF Inv, DriverProven, AtRest, OnTheWay, GiveUp, StartFallback
<1> QED BY <1>1, <1>2, <1>3 DEF Inv

LEMMA PostTickInv ==
    ASSUME Inv, OnGameEnginePostTick
    PROVE  Inv'
<1>1. elapsed \in Nat /\ browseFailed \in BOOLEAN /\ rebind \in BOOLEAN
  BY DEF Inv, TypeOK
<1>2. PICK b \in Repairs :
         \/ GiveUp(b) /\ UNCHANGED <<elapsed, browseFailed>>
         \/ Ready(b, "ours") /\ Commit(b) /\ UNCHANGED elapsed
         \/ /\ KeepWaiting(b) /\ UNCHANGED <<elapsed, browseFailed, sentHome>>
            /\ rebind' \in BOOLEAN
  BY <1>1 DEF OnGameEnginePostTick
<1>3. b \in BindingType /\ Moving
  BY RepairsType DEF OnGameEnginePostTick
<1> QED BY <1>1, <1>2, <1>3, GiveUpInv, CommitInv, KeepWaitingInv

-----------------------------------------------------------------------------
(* The tick *)

LEMMA BeginTravelInv ==
    ASSUME Inv, NEW driver \in Ticked, TickDepart(Observed(binding, driver))
    PROVE  Inv'
<1> DEFINE b == Observed(binding, driver)
<1>1. b \in BindingType /\ Tied(b) \in BindingType
  BY ObservedType, TiedType
<1> HIDE DEF b
<1>2. life = "WaitingToTravel"
  BY DEF TickDepart, ShouldBeginTravel
<1>3. BeginTravel(b)
  BY DEF TickDepart, b
<1>4. CASE ~CanTravel(b)
  <2>1. /\ StartFallback
        /\ binding' = b
        /\ UNCHANGED <<world, url, conn, ended, deferred, voteVars, endVars,
                       travelVars, matchVars>>
    BY <1>3, <1>4 DEF BeginTravel
  <2>2. TypeOK'
    BY <1>1, <2>1 DEF Inv, TypeOK, StartFallback, BindingType, Lives
  <2>3. VoteRuns' /\ VotesCount' /\ NobodyStranded'
    BY <2>1 DEF VoteRuns, Inv, VotesCount, NobodyStranded, StartFallback
  <2>4. DriverProven' /\ AtRest' /\ OnTheWay' /\ world'.id # 0
    BY <2>1 DEF Inv, DriverProven, AtRest, OnTheWay, StartFallback
  <2> QED BY <2>2, <2>3, <2>4 DEF Inv
<1>5. CASE CanTravel(b)
  <2>1. Depart(b)
    BY <1>3, <1>5 DEF BeginTravel
  <2>2. \/ /\ life' = "Traveling" /\ rebind' = TRUE /\ queued' = TRUE
           /\ url' = "ours" /\ elapsed' = 1 /\ sentHome' = sentHome
        \/ /\ life' = "FallbackExit" /\ rebind' = TRUE /\ queued' = FALSE
           /\ url' = url /\ elapsed' = 0 /\ sentHome' = TRUE
    BY <1>3, <1>5 DEF BeginTravel, StartFallback
  <2>3. nextMap' \in Maps
    BY <2>1 DEF Depart, Winners, Inv, TypeOK
  <2>4. source' \in [world : Nat, conns : SUBSET Players]
    BY <2>1 DEF Depart, connections, Inv, TypeOK
  <2>5. TypeOK'
    <3>1. /\ binding' \in BindingType /\ nextMap' \in Maps \cup {NoMap}
          /\ dispatched' \in BOOLEAN /\ browseFailed' \in BOOLEAN /\ told' \subseteq Players
          /\ UNCHANGED <<world, conn, ended, deferred, voteVars, endVars, matchVars>>
      BY <1>1, <2>1, <2>3 DEF Depart
    <3>2. /\ life' \in Lives /\ rebind' \in BOOLEAN /\ queued' \in BOOLEAN
          /\ url' \in {"none", "ours", "other"} /\ elapsed' \in Nat
          /\ sentHome' \in BOOLEAN
      <4>1. url \in {"none", "ours", "other"} /\ sentHome \in BOOLEAN
        BY DEF Inv, TypeOK
      <4>2. elapsed' \in Nat
        BY <2>2
      <4>3. life' \in Lives
        BY <2>2 DEF Lives
      <4>4. rebind' \in BOOLEAN /\ queued' \in BOOLEAN /\ sentHome' \in BOOLEAN
            /\ url' \in {"none", "ours", "other"}
        BY <2>2, <4>1
      <4> QED BY <4>2, <4>3, <4>4
    <3> QED BY <2>4, <3>1, <3>2 DEF Inv, TypeOK, BindingType
  <2>6. VoteRuns' /\ VotesCount' /\ NobodyStranded'
    BY <1>2, <2>1, <2>2 DEF VoteRuns, Inv, VotesCount, NobodyStranded, Depart
  <2>7. DriverProven' /\ AtRest' /\ OnTheWay' /\ world'.id # 0
    BY <1>2, <2>1, <2>2 DEF Inv, DriverProven, AtRest, OnTheWay, Depart, connections
  <2> QED BY <2>5, <2>6, <2>7 DEF Inv
<1> QED BY <1>4, <1>5

(* A tick outside travel counts, and leaves a proven binding.                *)
LEMMA CountInv ==
    ASSUME Inv, NEW driver \in Ticked,
           \/ TickVote(Observed(binding, driver))
           \/ TickWait(Observed(binding, driver))
           \/ TickOnly(Observed(binding, driver))
    PROVE  Inv'
<1> DEFINE b == Observed(binding, driver)
<1>1. b \in BindingType
  BY ObservedType
<1>2. life \in Rest
  BY DEF TickVote, TickWait, TickOnly
<1>3. late = 0 =>
        b.driver = world.id /\ b.cached = world.id /\ b.world \in {"none", "ours"}
  BY <1>2, ObservedAtRest
<1> HIDE DEF b
<1>4. /\ binding' = b /\ life' \in Rest
      /\ UNCHANGED <<engineVars, candidates, votes, endReceived, travelVars, matchVars, rebind>>
  BY <1>2 DEF TickVote, TickWait, TickOnly, b
<1>5. voteLeft' \in Nat /\ endTicks' \in Nat /\ VoteRuns'
  BY DEF TickVote, TickWait, TickOnly, Inv, TypeOK, VoteRuns
<1>6. TypeOK'
  BY <1>1, <1>4, <1>5 DEF Inv, TypeOK, BindingType, Lives
<1>7. VotesCount' /\ NobodyStranded'
  BY <1>2, <1>4 DEF Inv, VotesCount, NobodyStranded
<1>8. DriverProven' /\ AtRest' /\ OnTheWay' /\ world'.id # 0
  BY <1>2, <1>3, <1>4 DEF Inv, DriverProven, AtRest, OnTheWay
<1> QED BY <1>5, <1>6, <1>7, <1>8 DEF Inv

LEMMA TickInv ==
    ASSUME Inv, Tick
    PROVE  Inv'
<1>1. PICK driver \in Ticked :
         \/ TickVote(Observed(binding, driver))
         \/ TickWait(Observed(binding, driver))
         \/ TickDepart(Observed(binding, driver))
         \/ TickBrowseFailed(Observed(binding, driver))
         \/ TickTravel(Observed(binding, driver), driver)
         \/ TickOnly(Observed(binding, driver))
  BY DEF Tick
<1> DEFINE b == Observed(binding, driver)
<1>2. b \in BindingType /\ elapsed \in Nat /\ browseFailed \in BOOLEAN
               /\ rebind \in BOOLEAN /\ elapsed + 1 \in Nat
  BY ObservedType DEF Inv, TypeOK
<1> HIDE DEF b
<1>3. CASE TickBrowseFailed(b)
  BY <1>2, <1>3, GiveUpInv DEF TickBrowseFailed
<1>4. CASE TickTravel(b, driver)
  <2>1. \/ Ready(b, driver) /\ (Commit(b) \/ CommitTooLate(b))
        \/ GiveUp(b) /\ UNCHANGED browseFailed
        \/ KeepWaiting(b) /\ UNCHANGED <<rebind, sentHome, browseFailed>>
    BY <1>4 DEF TickTravel
  <2>2. Moving /\ elapsed' \in Nat
    BY <1>2, <1>4 DEF TickTravel
  <2> QED BY <1>2, <2>1, <2>2, GiveUpInv, CommitInv, KeepWaitingInv
<1> QED BY <1>1, <1>3, <1>4, BeginTravelInv, CountInv DEF b

-----------------------------------------------------------------------------
(* The peers and the engine *)

LEMMA PeersInv ==
    ASSUME Inv, Peers
    PROVE  Inv'
<1>1. PICK p \in Players :
         \/ AcceptConnection(p)
         \/ PostLogin(p)
         \/ OnPlayerDisconnected(p)
         \/ ConnectionCloses(p)
         \/ \E i \in DOMAIN candidates : HandleServerSay(p, i)
  BY DEF Peers
<1>2. /\ conn \in [Players -> {"none", "joining", "playing", "lost"}]
      /\ votes \in [Players -> Nat] /\ told \subseteq Players
  BY DEF Inv, TypeOK
<1>3. CASE \E i \in DOMAIN candidates : HandleServerSay(p, i)
  <2>1. PICK i \in DOMAIN candidates : HandleServerSay(p, i)
    BY <1>3
  <2>2. i \in Nat /\ conn[p] = "playing" /\ votes' = [votes EXCEPT ![p] = i]
    BY <2>1 DEF HandleServerSay, RemotePlayers, playing, Inv, TypeOK
  <2>3. UNCHANGED <<engineVars, binding, life, candidates, voteLeft, endVars,
                    travelVars, matchVars, rebind>>
    BY <2>1 DEF HandleServerSay
  <2>4. TypeOK'
    BY <1>2, <2>2, <2>3 DEF Inv, TypeOK
  <2>5. VoteRuns' /\ VotesCount' /\ NobodyStranded'
    BY <1>2, <2>2, <2>3 DEF Inv, VoteRuns, VotesCount, NobodyStranded
  <2>6. DriverProven' /\ AtRest' /\ OnTheWay' /\ world'.id # 0
    BY <2>3 DEF Inv, DriverProven, AtRest, OnTheWay, connections, playing
  <2> QED BY <2>4, <2>5, <2>6 DEF Inv
<1>4. CASE \/ AcceptConnection(p)
           \/ PostLogin(p)
           \/ OnPlayerDisconnected(p)
           \/ ConnectionCloses(p)
  <2>1. PICK state \in {"none", "joining", "playing", "lost"} :
           /\ conn' = [conn EXCEPT ![p] = state]
           /\ \/ conn[p] = "none" /\ ~Moving /\ votes' = votes /\ told' = told
              \/ conn[p] = "joining" /\ state \in {"playing", "none"}
                    /\ votes' = votes /\ told' = told
              \/ conn[p] = "lost" /\ state = "none" /\ votes' = votes /\ told' = told
              \/ conn[p] = "playing" /\ state \in {"lost", "none"}
                    /\ votes' = [votes EXCEPT ![p] = 0] /\ told' = told \ {p}
    BY <1>4 DEF AcceptConnection, PostLogin, OnPlayerDisconnected, ConnectionCloses,
                OwnsWorldTransition
  <2>2. UNCHANGED <<world, url, ended, sentHome, deferred, binding, payloadVars>>
    BY <1>4 DEF AcceptConnection, PostLogin, OnPlayerDisconnected, ConnectionCloses
  <2>3. conn' \in [Players -> {"none", "joining", "playing", "lost"}]
    BY <1>2, <2>1
  <2>4. votes' \in [Players -> Nat] /\ told' \subseteq Players
    BY <1>2, <2>1
  <2>5. TypeOK'
    BY <2>2, <2>3, <2>4 DEF Inv, TypeOK
  <2>6. VotesCount'
    BY <1>2, <2>1, <2>2 DEF Inv, VotesCount
  <2>7. VoteRuns' /\ NobodyStranded'
    BY <2>2 DEF Inv, VoteRuns, NobodyStranded
  <2>8. DriverProven' /\ AtRest' /\ world'.id # 0
    BY <2>2 DEF Inv, DriverProven, AtRest
  <2>9. OnTheWay'
    <3>1. CASE ~Moving \/ late # 0
      BY <2>2, <3>1 DEF OnTheWay
    <3>2. CASE Moving /\ late = 0
      <4>1. connections' \subseteq connections
        BY <1>2, <2>1, <3>2 DEF connections
      <4>2. dispatched => \A q \in Players : conn'[q] # "joining"
        BY <1>2, <2>1, <3>2 DEF Inv, OnTheWay
      <4>3. dispatched => told' = source.conns \cap playing'
        <5>1. ASSUME dispatched
              PROVE  \/ told' = told /\ playing' = playing
                     \/ told' = told \ {p} /\ playing' = playing \ {p}
          BY <1>2, <2>1, <3>2, <5>1 DEF Inv, OnTheWay, playing
        <5> QED BY <3>2, <5>1 DEF Inv, OnTheWay
      <4> QED BY <2>2, <3>2, <4>1, <4>2, <4>3 DEF Inv, OnTheWay
    <3> QED BY <3>1, <3>2
  <2> QED BY <2>5, <2>6, <2>7, <2>8, <2>9 DEF Inv
<1> QED BY <1>1, <1>3, <1>4

(* Worlds change only after the dispatch or in a process that is given up,   *)
(* and a URL is left to the engine only after a late callback.               *)
LEMMA EngineInv ==
    ASSUME Inv, Engine
    PROVE  Inv'
<1>1. CASE UrlReplaced
  <2>1. /\ url = "ours" /\ url' = "other"
        /\ UNCHANGED <<world, conn, ended, sentHome, deferred, binding, votes, told,
                       payloadVars>>
    BY <1>1 DEF UrlReplaced
  <2>2. TypeOK'
    BY <2>1 DEF Inv, TypeOK
  <2> QED BY <2>1, <2>2 DEF Inv, VoteRuns, VotesCount, NobodyStranded, DriverProven, AtRest,
                        OnTheWay, connections, playing
<1>2. CASE NativeBrowse
  <2>1. late # 0
    BY <1>2, SMT DEF NativeBrowse, OwnsBrowse, Inv, TypeOK, Lives, AtRest, OnTheWay
  <2>2. /\ url' = "none" /\ deferred' = FALSE /\ told' = {}
        /\ conn' = [p \in Players |-> "none"] /\ votes' = [p \in Players |-> 0]
        /\ UNCHANGED <<ended, sentHome, payloadVars>>
    BY <1>2 DEF NativeBrowse
  <2>3. /\ world' \in [id : Nat, map : Maps \cup {NoMap}, ready : BOOLEAN]
        /\ world'.id # 0
    <3>1. world.id \in Nat /\ nextMap \in Maps \cup {NoMap}
      BY DEF Inv, TypeOK
    <3>2. PICK map \in Maps \cup {NoMap} :
             world' = [id |-> world.id + 1, map |-> map, ready |-> TRUE]
      BY <1>2, <3>1 DEF NativeBrowse
    <3> QED BY <3>1, <3>2
  <2>4. binding' \in BindingType
    <3>1. PICK w \in Drivers : binding' = [binding EXCEPT !.world = w, !.driver = 0]
      BY <1>2 DEF NativeBrowse, Drivers
    <3> QED BY <3>1 DEF Inv, TypeOK, BindingType
  <2>5. TypeOK'
    BY <2>2, <2>3, <2>4 DEF Inv, TypeOK, BindingType
  <2>6. VoteRuns' /\ VotesCount'
    BY <2>2 DEF Inv, VoteRuns, VotesCount
  <2> QED BY <2>1, <2>2, <2>3, <2>5, <2>6
          DEF Inv, NobodyStranded, DriverProven, AtRest, OnTheWay
<1>3. CASE LeaveWorld \/ EnterWorld \/ BindDriver
  <2>1. /\ world' \in [id : Nat, map : Maps \cup {NoMap}, ready : BOOLEAN]
        /\ world'.id # 0
    <3>1. world.id \in Nat /\ nextMap \in Maps \cup {NoMap}
      BY DEF Inv, TypeOK
    <3>2. \/ world' = world
          \/ world' = [id |-> world.id + 1, map |-> NoMap, ready |-> FALSE]
          \/ \E map \in {nextMap, NoMap} :
                world' = [id |-> world.id + 1, map |-> map, ready |-> TRUE]
      BY <1>3 DEF LeaveWorld, EnterWorld, BindDriver
    <3>3. CASE world' = world
      BY <3>3 DEF Inv, TypeOK
    <3>4. CASE world' # world
      <4>1. PICK map \in Maps \cup {NoMap}, ready \in BOOLEAN :
               world' = [id |-> world.id + 1, map |-> map, ready |-> ready]
        BY <3>1, <3>2, <3>4
      <4> QED BY <3>1, <4>1
    <3> QED BY <3>3, <3>4
  <2>2. binding' \in BindingType
    <3>1. binding \in BindingType /\ world.id \in Nat /\ binding.driver \in Nat
      BY DEF Inv, TypeOK, BindingType
    <3>2. PICK w \in Drivers, d \in Nat : binding' = [binding EXCEPT !.world = w, !.driver = d]
      <4>1. CASE LeaveWorld
        <5>1. PICK d \in {0, binding.driver} :
                 binding' = [binding EXCEPT !.world = "none", !.driver = d]
          BY <4>1 DEF LeaveWorld
        <5> QED BY <3>1, <5>1 DEF Drivers
      <4>2. CASE EnterWorld
        <5>1. PICK w \in Drivers, d \in {0, binding.driver, world.id + 1} :
                 binding' = [binding EXCEPT !.world = w, !.driver = d]
          BY <4>2 DEF EnterWorld
        <5>2. d \in Nat
          BY <3>1, <5>1
        <5> QED BY <5>1, <5>2
      <4>3. CASE BindDriver
        BY <3>1, <4>3 DEF BindDriver, Drivers
      <4> QED BY <1>3, <4>1, <4>2, <4>3
    <3> QED BY <3>1, <3>2 DEF BindingType
  <2>3. /\ UNCHANGED <<conn, ended, sentHome, votes, told, payloadVars>>
        /\ \/ UNCHANGED <<url, deferred>>
           \/ url' = "none" /\ deferred' = FALSE
    BY <1>3 DEF LeaveWorld, EnterWorld, BindDriver
  <2>4. TypeOK'
    BY <2>1, <2>2, <2>3 DEF Inv, TypeOK, BindingType
  <2>5. VoteRuns' /\ VotesCount' /\ NobodyStranded'
    BY <2>3 DEF Inv, VoteRuns, VotesCount, NobodyStranded
  <2>6. late = 0 => life \notin Rest
    BY <1>3 DEF LeaveWorld, EnterWorld, BindDriver, Inv, AtRest, DriverProven
  <2>7. late = 0 /\ Moving => dispatched /\ ~deferred'
    BY <1>3 DEF LeaveWorld, EnterWorld, BindDriver, Inv, OnTheWay
  <2>8. DriverProven' /\ AtRest' /\ OnTheWay'
    BY <2>3, <2>6, <2>7 DEF Inv, DriverProven, AtRest, OnTheWay, connections, playing
  <2> QED BY <2>1, <2>4, <2>5, <2>8 DEF Inv
<1> QED BY <1>1, <1>2, <1>3 DEF Engine

LEMMA StepInv == Inv /\ [Next]_vars => Inv'
<1> SUFFICES ASSUME Inv, [Next]_vars PROVE Inv'
  OBVIOUS
<1>1. CASE Native
  BY <1>1, ResultInv, WaitingInv, EndMatchInv, BrowseInv, PostTickInv DEF Native
<1>2. CASE UNCHANGED vars
  <2>1. TypeOK'
    BY <1>2 DEF Inv, TypeOK
  <2> QED BY <1>2, <2>1 DEF Inv, VoteRuns, VotesCount, NobodyStranded, DriverProven, AtRest,
                        OnTheWay, connections, playing
<1> QED BY <1>1, <1>2, TickInv, EngineInv, PeersInv DEF Next

LEMMA InvAlways == Spec => []Inv
BY InitInv, StepInv, PTL DEF Spec

-----------------------------------------------------------------------------
(* The theorems *)

(* Every variable keeps its type, whatever is played and for how long.       *)
THEOREM TypeCorrect == Spec => []TypeOK
<1>1. Inv => TypeOK
  BY DEF Inv
<1> QED BY <1>1, InvAlways, PTL

(* A leaver never decides the next map (OnPlayerDisconnected, TickVote).     *)
THEOREM VotesCountAlways == Spec => []VotesCount
<1>1. Inv => VotesCount
  BY DEF Inv
<1> QED BY <1>1, InvAlways, PTL

(* Clients are sent to the main menu only by a process that exits.           *)
THEOREM NobodyStrandedAlways == Spec => []NobodyStranded
<1>1. Inv => NobodyStranded
  BY DEF Inv
<1> QED BY <1>1, InvAlways, PTL

(* Outside travel the proof of the driver's ownership is never lost.         *)
THEOREM DriverProvenAlways == Spec => []DriverProven
<1>1. Inv => DriverProven
  BY DEF Inv
<1> QED BY <1>1, InvAlways, PTL

(* A GameMode that has been left never ends the match that is played.        *)
THEOREM OwnEndAlways == Spec => OwnEnd
<1>1. Inv /\ [Next]_vars =>
        [ended' # ended /\ late = 0 => ended' = world.id \/ life = "FallbackExit"]_vars
  <2> SUFFICES ASSUME Inv, [Next]_vars, ended' # ended, late = 0, life # "FallbackExit"
               PROVE  ended' = world.id
    OBVIOUS
  <2>1. PICK mode \in GameModes : EndMatch(mode)
    <3>1. ~Tick
      BY DEF Tick, TickVote, TickWait, TickDepart, TickBrowseFailed, TickTravel, TickOnly,
             BeginTravel, Depart, Commit, CommitTooLate, Committed, KeepWaiting, GiveUp
    <3>2. ~OnGameEnginePostTick
      BY DEF OnGameEnginePostTick, Commit, Committed, KeepWaiting, GiveUp
    <3>3. ~Peers
      BY DEF Peers, AcceptConnection, PostLogin, OnPlayerDisconnected, ConnectionCloses,
             HandleServerSay
    <3>4. ~Engine
      BY DEF Engine, UrlReplaced, NativeBrowse, LeaveWorld, EnterWorld, BindDriver
    <3>5. ~OnShowingMatchResult /\ ~HandleWaitingToEndGame /\ ~InterceptEngineBrowse
      BY DEF OnShowingMatchResult, HandleWaitingToEndGame, InterceptEngineBrowse
    <3> QED BY <3>1, <3>2, <3>3, <3>4, <3>5 DEF Next, Native
  <2>2. ended' = mode /\ ~ShouldSuppressRetiredEndMatch(mode)
    BY <2>1 DEF EndMatch
  <2>3. mode # source.world \/ life \in Rest
    BY <2>2 DEF ShouldSuppressRetiredEndMatch, Inv, TypeOK, Lives
  <2>4. life \in Rest => source.world = 0
    BY DEF Inv, AtRest, NoSource
  <2>5. mode # 0
    BY DEF GameModes
  <2> QED BY <2>2, <2>3, <2>4, <2>5 DEF ShouldSuppressRetiredEndMatch, GameModes
<1> QED BY <1>1, InvAlways, PTL DEF Spec, OwnEnd

(* The players of the next match are those who were told to go and stayed.   *)
THEOREM CommitKeepsEveryoneAlways == Spec => CommitKeepsEveryone
<1>1. Inv /\ [Next]_vars => [match' # match /\ late = 0 => playing' = told']_vars
  <2> SUFFICES ASSUME Inv, [Next]_vars, match' # match, late = 0
               PROVE  playing' = told'
    OBVIOUS
  <2>1. PICK b, driver : Ready(b, driver) /\ Committed(b) /\ Moving
    <3>1. ~Peers
      BY DEF Peers, AcceptConnection, PostLogin, OnPlayerDisconnected, ConnectionCloses,
             HandleServerSay
    <3>2. ~Engine
      BY DEF Engine, UrlReplaced, NativeBrowse, LeaveWorld, EnterWorld, BindDriver
    <3>3. ~OnShowingMatchResult /\ ~HandleWaitingToEndGame /\ ~InterceptEngineBrowse
          /\ ~\E mode \in GameModes : EndMatch(mode)
      BY DEF OnShowingMatchResult, HandleWaitingToEndGame, InterceptEngineBrowse, EndMatch
    <3>4. Tick => \E b, driver : Ready(b, driver) /\ Committed(b) /\ Moving
      BY DEF Tick, TickVote, TickWait, TickDepart, TickBrowseFailed, TickTravel, TickOnly,
             BeginTravel, Depart, Commit, CommitTooLate, KeepWaiting, GiveUp
    <3>5. OnGameEnginePostTick => \E b, driver : Ready(b, driver) /\ Committed(b) /\ Moving
      BY DEF OnGameEnginePostTick, Commit, KeepWaiting, GiveUp
    <3> QED BY <3>1, <3>2, <3>3, <3>4, <3>5 DEF Next, Native
  <2>2. connections = source.conns /\ world.id # source.world
    BY <2>1 DEF Ready, AtDestination, Arrived, ConnectionSetMatches
  <2>3. told = source.conns \cap playing
    BY <2>1, <2>2 DEF Inv, OnTheWay
  <2>4. playing \subseteq connections
    BY DEF playing, connections
  <2>5. told' = told /\ playing' = playing
    BY <2>1 DEF Committed, playing
  <2> QED BY <2>2, <2>3, <2>4, <2>5
<1> QED BY <1>1, InvAlways, PTL DEF Spec, CommitKeepsEveryone

-----------------------------------------------------------------------------
(* Once the end of a match has been received every tick brings the next     *)
(* match, or the exit, nearer, and nothing puts it off again but the end of *)
(* the match reported once more during the travel: the countdown runs over  *)
(* the vote, the flush that is awaited and the travel (DedicatedMultiMatch  *)
(* .cpp, Tick and HandleWaitingToEndGame).                                  *)
TicksLeft ==
    CASE life = "Voting" -> voteLeft + 1 + TravelTimeout
      [] life = "WaitingToTravel" ->
            IF endTicks = 0 THEN 1 + TravelTimeout ELSE TravelTimeout
      [] OTHER -> TravelTimeout - elapsed

EndComes == endReceived /\ life # "FallbackExit"

EndInTime == EndComes => TicksLeft \in 1..(VoteDuration + 1 + TravelTimeout)

(* Such a late end starts the travel, and no more than it, anew.            *)
EndPutOffOnlyByLateEnd ==
    [][EndComes /\ life' # "FallbackExit" /\ match' = match =>
         /\ endReceived'
         /\ late' = late => TicksLeft' <= TicksLeft
         /\ late' # late => late' = late + 1 /\ TicksLeft' <= TravelTimeout
         /\ Tick => TicksLeft' < TicksLeft]_vars

(* TicksLeft is a rank because of Countdown: the vote is over when the travel *)
(* is awaited, a running match has not ended, and a travel has begun after an *)
(* end, with the vote and the flush behind it, and is given up in time.       *)
Countdown ==
    /\ voteLeft <= VoteDuration
    /\ life = "WaitingToTravel" => voteLeft = 0
    /\ life = "Running" => ~endReceived
    /\ Moving => /\ endReceived /\ voteLeft = 0 /\ endTicks >= 1
                 /\ elapsed \in 1..(TravelTimeout - 1)

CountVars == <<life, voteLeft, endReceived, endTicks, elapsed, match, late>>

(* What a step may do to the countdown.                                      *)
Shortens ==
    /\ EndComes /\ life' # "FallbackExit" /\ match' = match =>
          /\ endReceived'
          /\ late' = late => TicksLeft' <= TicksLeft
          /\ late' # late => late' = late + 1 /\ TicksLeft' <= TravelTimeout
    /\ Countdown'

Lowers ==
    EndComes /\ life' # "FallbackExit" /\ match' = match => TicksLeft' < TicksLeft

LEMMA CountTypes ==
    TypeOK => /\ voteLeft \in Nat /\ endTicks \in Nat /\ elapsed \in Nat /\ match \in Nat
              /\ endReceived \in BOOLEAN /\ life \in Lives
              /\ VoteDuration \in Nat /\ TravelTimeout \in Nat \ {0, 1}
BY MatchAssumption DEF TypeOK

(* A step that leaves the clocks alone.                                      *)
LEMMA ClocksStand ==
    ASSUME TypeOK, Countdown, UNCHANGED CountVars
    PROVE  Shortens
BY CountTypes DEF Countdown, CountVars, Shortens, TicksLeft, EndComes

(* The ways a travel goes on or ends, the ticks that have passed or not.     *)
LEMMA TravelShortens ==
    ASSUME TypeOK, Countdown, Moving, elapsed' \in {elapsed, elapsed + 1},
           NEW b,
           \/ GiveUp(b)
           \/ Commit(b)
           \/ CommitTooLate(b)
           \/ KeepWaiting(b) /\ elapsed' < TravelTimeout
    PROVE  Shortens /\ (elapsed' # elapsed => Lowers)
<1>1. CASE GiveUp(b)
  BY <1>1, CountTypes DEF GiveUp, StartFallback, Countdown, Shortens, Lowers, EndComes, voteVars
<1>2. CASE Commit(b) \/ CommitTooLate(b)
  <2>1. Committed(b) /\ life' \in {"Running", "FallbackExit"}
    BY <1>2 DEF Commit, CommitTooLate, StartFallback
  <2> QED BY <2>1, CountTypes DEF Committed, Countdown, Shortens, Lowers, EndComes
<1>3. CASE KeepWaiting(b) /\ elapsed' < TravelTimeout
  <2>1. /\ life' \in {"Traveling", "LoadingNext"}
        /\ UNCHANGED <<voteLeft, endReceived, endTicks, late>>
    BY <1>3 DEF KeepWaiting
  <2>2. Countdown'
    BY <1>3, <2>1, CountTypes DEF Countdown
  <2>3. TicksLeft' = TravelTimeout - elapsed' /\ TicksLeft = TravelTimeout - elapsed
    BY <2>1 DEF TicksLeft
  <2>4. endReceived' /\ late' = late
    BY <2>1 DEF Countdown
  <2>5. TicksLeft' <= TicksLeft /\ (elapsed' # elapsed => TicksLeft' < TicksLeft)
    BY <2>3, CountTypes
  <2> QED BY <2>2, <2>4, <2>5 DEF Shortens, Lowers
<1> QED BY <1>1, <1>2, <1>3

LEMMA TickShortens ==
    ASSUME TypeOK, Countdown, VoteRuns, Tick
    PROVE  Shortens /\ Lowers
<1>1. PICK driver \in Ticked :
         \/ TickVote(Observed(binding, driver))
         \/ TickWait(Observed(binding, driver))
         \/ TickDepart(Observed(binding, driver))
         \/ TickBrowseFailed(Observed(binding, driver))
         \/ TickTravel(Observed(binding, driver), driver)
         \/ TickOnly(Observed(binding, driver))
  BY DEF Tick
<1> DEFINE b == Observed(binding, driver)
<1> HIDE DEF b
<1>2. CASE TickVote(b)
  <2>1. voteLeft > 0
    BY <1>2 DEF TickVote, VoteRuns
  <2> QED BY <1>2, <2>1, CountTypes
          DEF TickVote, Countdown, Shortens, Lowers, TicksLeft, EndComes
<1>3. CASE TickWait(b)
  BY <1>3, CountTypes DEF TickWait, Countdown, Shortens, Lowers, TicksLeft, EndComes
<1>4. CASE TickDepart(b)
  <2>1. /\ life = "WaitingToTravel" /\ endReceived /\ endTicks >= 1
        /\ UNCHANGED <<voteLeft, endReceived, endTicks, late>>
        /\ \/ life' = "FallbackExit"
           \/ life' = "Traveling" /\ elapsed' = 1
    BY <1>4 DEF TickDepart, ShouldBeginTravel, BeginTravel, StartFallback, Depart
  <2>2. Countdown'
    BY <2>1, CountTypes DEF Countdown
  <2> QED BY <2>1, <2>2, CountTypes DEF Shortens, Lowers, TicksLeft, EndComes
<1>5. CASE TickBrowseFailed(b)
  <2>1. Moving /\ GiveUp(b) /\ elapsed' = elapsed /\ life' = "FallbackExit"
    BY <1>5 DEF TickBrowseFailed, GiveUp, StartFallback
  <2> QED BY <2>1, TravelShortens DEF Lowers
<1>6. CASE TickTravel(b, driver)
  <2>1. Moving /\ elapsed' = elapsed + 1
    BY <1>6 DEF TickTravel
  <2>2. \/ GiveUp(b)
        \/ Commit(b)
        \/ CommitTooLate(b)
        \/ KeepWaiting(b) /\ elapsed' < TravelTimeout
    BY <1>6, CountTypes DEF TickTravel
  <2>3. elapsed' # elapsed
    BY <2>1, CountTypes
  <2> QED BY <2>1, <2>2, <2>3, TravelShortens
<1>7. CASE TickOnly(b)
  <2>1. UNCHANGED CountVars
    BY <1>7 DEF TickOnly, CountVars
  <2>2. ~EndComes
    BY <1>7 DEF TickOnly, EndComes, Countdown
  <2> QED BY <2>1, <2>2, ClocksStand DEF Lowers
<1> QED BY <1>1, <1>2, <1>3, <1>4, <1>5, <1>6, <1>7 DEF b

LEMMA NativeShortens ==
    ASSUME TypeOK, Countdown, Native
    PROVE  Shortens
<1>1. CASE OnShowingMatchResult
  BY <1>1, CountTypes
  DEF OnShowingMatchResult, PrepareResult, Countdown, Shortens, EndComes
<1>2. CASE HandleWaitingToEndGame
  <2>1. /\ UNCHANGED <<elapsed, match>> /\ life # "FallbackExit"
        /\ late' = IF Moving THEN late + 1 ELSE late
    BY <1>2 DEF HandleWaitingToEndGame
  <2>2. late \in Nat
    BY MatchAssumption DEF TypeOK
  <2>3. CASE ~IsDedicated(binding)
    <3>1. UNCHANGED <<life, voteLeft, endReceived, endTicks, elapsed, match>>
      BY <1>2, <2>3 DEF HandleWaitingToEndGame
    <3>2. Countdown'
      BY <3>1 DEF Countdown
    <3>3. TicksLeft' = TicksLeft /\ (EndComes => endReceived')
      BY <3>1 DEF TicksLeft, EndComes
    <3>4. Moving => TicksLeft <= TravelTimeout
      BY CountTypes DEF Countdown, TicksLeft
    <3>5. TicksLeft \in Int
      BY CountTypes DEF TicksLeft
    <3> QED BY <2>1, <2>2, <3>2, <3>3, <3>4, <3>5 DEF Shortens
  <2>4. CASE IsDedicated(binding)
    <3>1. Await
      BY <1>2, <2>4 DEF HandleWaitingToEndGame
    <3>2. /\ endReceived'
          /\ endTicks' = IF life = "Running" \/ ~endReceived THEN 0 ELSE endTicks
          /\ voteLeft' \in {0, IF life = "Running" THEN VoteDuration ELSE voteLeft}
          /\ life' = IF voteLeft' = 0 THEN "WaitingToTravel"
                     ELSE IF life = "Running" THEN "Voting" ELSE life
      BY <3>1 DEF Await
    <3>3. Moving => voteLeft' = 0 /\ endTicks' >= 1 /\ life' = "WaitingToTravel"
      BY <3>2, CountTypes DEF Countdown
    <3>4. Countdown'
      BY <2>1, <3>2, <3>3, CountTypes DEF Countdown, Lives
    <3>5. Moving => late' = late + 1 /\ TicksLeft' <= TravelTimeout
      BY <2>1, <3>3, CountTypes DEF TicksLeft
    <3>6. EndComes /\ ~Moving => TicksLeft' <= TicksLeft
      <4> SUFFICES ASSUME EndComes, ~Moving PROVE TicksLeft' <= TicksLeft
        OBVIOUS
      <4>1. life \in {"Voting", "WaitingToTravel"} /\ endTicks' = endTicks
            /\ voteLeft' \in {0, voteLeft}
        BY <2>1, <3>2, CountTypes DEF EndComes, Countdown, Lives
      <4>2. CASE life = "WaitingToTravel"
        BY <3>2, <4>1, <4>2, CountTypes DEF Countdown, TicksLeft
      <4>3. CASE life = "Voting"
        BY <3>2, <4>1, <4>3, CountTypes DEF TicksLeft
      <4> QED BY <4>1, <4>2, <4>3
    <3>7. ~Moving => late' = late
      BY <2>1
    <3> QED BY <2>2, <3>2, <3>4, <3>5, <3>6, <3>7 DEF Shortens
  <2> QED BY <2>3, <2>4
<1>3. CASE \E mode \in GameModes : EndMatch(mode)
  BY <1>3, ClocksStand DEF EndMatch, CountVars
<1>4. CASE InterceptEngineBrowse
  BY <1>4, ClocksStand DEF InterceptEngineBrowse, CountVars
<1>5. CASE OnGameEnginePostTick
  <2>1. PICK b \in Repairs : GiveUp(b) \/ Commit(b) \/ KeepWaiting(b)
    BY <1>5 DEF OnGameEnginePostTick
  <2>2. Moving /\ elapsed' = elapsed
    BY <1>5 DEF OnGameEnginePostTick
  <2>3. elapsed' < TravelTimeout
    BY <2>2, CountTypes DEF Countdown
  <2> QED BY <2>1, <2>2, <2>3, TravelShortens
<1> QED BY <1>1, <1>2, <1>3, <1>4, <1>5 DEF Native

LEMMA CountdownStep ==
    Inv /\ Countdown /\ [Next]_vars => Shortens /\ (Tick => Lowers)
<1> SUFFICES ASSUME Inv, Countdown, [Next]_vars
             PROVE  Shortens /\ (Tick => Lowers)
  OBVIOUS
<1>1. TypeOK /\ VoteRuns
  BY DEF Inv
<1>2. ASSUME Engine PROVE Shortens
  BY <1>1, <1>2, ClocksStand
  DEF Engine, UrlReplaced, NativeBrowse, LeaveWorld, EnterWorld, BindDriver, CountVars
<1>3. ASSUME Peers PROVE Shortens
  <2>1. PICK p \in Players :
           \/ AcceptConnection(p)
           \/ PostLogin(p)
           \/ OnPlayerDisconnected(p)
           \/ ConnectionCloses(p)
           \/ \E i \in DOMAIN candidates : HandleServerSay(p, i)
    BY <1>3 DEF Peers
  <2>2. UNCHANGED CountVars
    BY <2>1 DEF AcceptConnection, PostLogin, OnPlayerDisconnected, ConnectionCloses,
            HandleServerSay, CountVars
  <2> QED BY <1>1, <2>2, ClocksStand
<1>4. ASSUME UNCHANGED vars PROVE Shortens
  BY <1>1, <1>4, ClocksStand DEF CountVars
<1>5. Shortens
  BY <1>1, <1>2, <1>3, <1>4, TickShortens, NativeShortens DEF Next
<1>6. Tick => Lowers
  BY <1>1, TickShortens
<1> QED BY <1>5, <1>6

LEMMA CountdownAlways == Spec => [](Inv /\ Countdown)
<1>1. Init => Countdown
  BY MatchAssumption DEF Init, Countdown
<1>2. Inv /\ Countdown /\ [Next]_vars => Countdown'
  BY CountdownStep DEF Shortens
<1> QED BY <1>1, <1>2, InvAlways, PTL DEF Spec

(* A bound on the ticks from the end of a match to the next one or the exit: *)
(* the vote, one flush and the travel timeout.                               *)
THEOREM EndInTimeAlways == Spec => []EndInTime
<1>1. Inv /\ Countdown => EndInTime
  <2> SUFFICES ASSUME Inv, Countdown, EndComes
               PROVE  TicksLeft \in 1..(VoteDuration + 1 + TravelTimeout)
    BY DEF EndInTime
  <2>1. TypeOK
    BY DEF Inv
  <2>2. life \in {"Voting", "WaitingToTravel"} \/ Moving
    BY <2>1, CountTypes DEF EndComes, Countdown, Lives
  <2> QED BY <2>1, <2>2, CountTypes DEF TicksLeft, Countdown
<1> QED BY <1>1, CountdownAlways, PTL

(* Every tick uses one of them up, and nothing gives one back, not a player *)
(* who comes or goes or the engine's loading, but a WaitingToEndGame during *)
(* the travel: it can start the travel time anew, whatever MaxLate is.      *)
THEOREM EndPutOffOnlyByLateEndAlways == Spec => EndPutOffOnlyByLateEnd
<1>1. Inv /\ Countdown /\ [Next]_vars =>
        [EndComes /\ life' # "FallbackExit" /\ match' = match =>
            /\ endReceived'
            /\ late' = late => TicksLeft' <= TicksLeft
            /\ late' # late => late' = late + 1 /\ TicksLeft' <= TravelTimeout
            /\ Tick => TicksLeft' < TicksLeft]_vars
  BY CountdownStep DEF Shortens, Lowers
<1> QED BY <1>1, CountdownAlways, PTL DEF Spec, EndPutOffOnlyByLateEnd

-----------------------------------------------------------------------------
(* The refinement *)

LEMMA PhaseType ==
    /\ Moving => Phase = "moving"
    /\ life = "FallbackExit" => Phase = "over"
    /\ life \in Rest => Phase = "open"
BY DEF Phase

(* Nothing but the travel and the peers is seen from outside.                *)
LEMMA Unseen ==
    ASSUME UNCHANGED <<life, match, conn, source>>
    PROVE  UNCHANGED <<Phase, match, connections, source.conns>>
BY DEF Phase, connections

LEMMA GiveUpImplements ==
    ASSUME Inv, life # "FallbackExit", life' = "FallbackExit",
           match' = match, conn' = conn,
           source' = source \/ source'.conns = connections
    PROVE  Sequence!GiveUp
<1>1. Phase # "over" /\ Phase' = "over"
  BY DEF Phase
<1>2. connections' = connections
  BY DEF connections
<1> QED BY <1>1, <1>2 DEF Sequence!GiveUp

LEMMA CommitImplements ==
    ASSUME Inv, Moving, NEW b, NEW driver, Ready(b, driver), Commit(b) \/ CommitTooLate(b)
    PROVE  Sequence!Arrive \/ Sequence!ArriveTooLate
<1>1. Committed(b) /\ life' \in {"Running", "FallbackExit"}
  BY DEF Commit, CommitTooLate, StartFallback
<1>2. Phase = "moving" /\ Phase' \in {"open", "over"}
  BY <1>1 DEF Phase
<1>3. connections' = connections /\ connections = source.conns
  BY <1>1 DEF connections, Committed, Ready, Arrived, ConnectionSetMatches
<1>4. source'.conns = {} /\ match' = match + 1
  BY <1>1 DEF Committed, NoSource
<1> QED BY <1>2, <1>3, <1>4 DEF Sequence!Arrive, Sequence!ArriveTooLate

LEMMA PeersImplement ==
    ASSUME Inv, Peers
    PROVE  [Sequence!Next]_<<Phase, match, connections, source.conns>>
<1>1. PICK p \in Players :
         \/ AcceptConnection(p)
         \/ PostLogin(p)
         \/ OnPlayerDisconnected(p)
         \/ ConnectionCloses(p)
         \/ \E i \in DOMAIN candidates : HandleServerSay(p, i)
  BY DEF Peers
<1>2. conn \in [Players -> {"none", "joining", "playing", "lost"}]
  BY DEF Inv, TypeOK
<1>3. UNCHANGED <<life, match, source>>
  BY <1>1 DEF AcceptConnection, PostLogin, OnPlayerDisconnected, ConnectionCloses,
              HandleServerSay
<1>4. UNCHANGED <<Phase, match, source.conns>>
  BY <1>3 DEF Phase
<1>5. CASE AcceptConnection(p)
  <2>1. Phase # "moving" /\ p \notin connections
    BY <1>5 DEF AcceptConnection, OwnsWorldTransition, Phase, connections
  <2>2. connections' = connections \cup {p}
    BY <1>2, <1>5 DEF AcceptConnection, connections
  <2>3. Sequence!Come
    BY <1>4, <2>1, <2>2 DEF Sequence!Come
  <2> QED BY <2>3 DEF Sequence!Next
<1>6. CASE ~AcceptConnection(p)
  <2>1. \/ connections' = connections
        \/ connections' = connections \ {p}
    BY <1>1, <1>2, <1>6 DEF PostLogin, OnPlayerDisconnected, ConnectionCloses, HandleServerSay,
                            connections
  <2>2. CASE connections' = connections
    BY <1>4, <2>2
  <2>3. CASE connections' = connections \ {p}
    BY <1>4, <2>3 DEF Sequence!Go, Sequence!Next
  <2> QED BY <2>1, <2>2, <2>3
<1> QED BY <1>5, <1>6

LEMMA TickImplements ==
    ASSUME Inv, Tick
    PROVE  [Sequence!Next]_<<Phase, match, connections, source.conns>>
<1>1. PICK b, driver :
         \/ TickVote(b)
         \/ TickWait(b)
         \/ TickDepart(b)
         \/ TickBrowseFailed(b)
         \/ TickTravel(b, driver)
         \/ TickOnly(b)
  BY DEF Tick
<1>2. CASE TickVote(b) \/ TickWait(b) \/ TickOnly(b)
  <2>1. UNCHANGED <<match, conn, source>> /\ life \in Rest /\ life' \in Rest
    BY <1>2 DEF TickVote, TickWait, TickOnly
  <2>2. UNCHANGED <<Phase, connections>>
    BY <2>1 DEF Phase, connections
  <2> QED BY <2>1, <2>2
<1>3. CASE TickDepart(b)
  <2>1. life = "WaitingToTravel" /\ BeginTravel(b)
    BY <1>3 DEF TickDepart, ShouldBeginTravel
  <2>2. UNCHANGED <<match, conn>>
    BY <2>1 DEF BeginTravel, Depart
  <2>3. CASE life' = "FallbackExit"
    <3>1. source' = source \/ source'.conns = connections
      BY <2>1 DEF BeginTravel, Depart
    <3> QED BY <2>1, <2>2, <2>3, <3>1, GiveUpImplements DEF Sequence!Next
  <2>4. CASE life' # "FallbackExit"
    <3>1. life' = "Traveling" /\ source'.conns = connections
      BY <2>1, <2>4 DEF BeginTravel, Depart, StartFallback
    <3>2. Phase = "open" /\ Phase' = "moving" /\ connections' = connections
      BY <2>1, <2>2, <3>1 DEF Phase, connections
    <3> QED BY <2>2, <3>1, <3>2 DEF Sequence!Depart, Sequence!Next
  <2> QED BY <2>3, <2>4
<1>4. CASE TickBrowseFailed(b) \/ TickTravel(b, driver)
  <2>1. Moving
    BY <1>4 DEF TickBrowseFailed, TickTravel
  <2>2. CASE Ready(b, driver) /\ (Commit(b) \/ CommitTooLate(b))
    BY <2>1, <2>2, CommitImplements DEF Sequence!Next
  <2>3. CASE GiveUp(b)
    BY <2>1, <2>3, GiveUpImplements DEF GiveUp, StartFallback, Sequence!Next
  <2>4. CASE KeepWaiting(b)
    BY <2>1, <2>4 DEF KeepWaiting, Phase, connections
  <2> QED BY <1>4, <2>2, <2>3, <2>4 DEF TickBrowseFailed, TickTravel
<1> QED BY <1>1, <1>2, <1>3, <1>4

LEMMA NativeImplements ==
    ASSUME Inv, Native
    PROVE  [Sequence!Next]_<<Phase, match, connections, source.conns>>
<1>1. CASE OnShowingMatchResult \/ HandleWaitingToEndGame
  <2>1. /\ UNCHANGED <<match, conn, source>>
        /\ life' = life \/ (life # "FallbackExit" /\ life' \in Rest)
    BY <1>1 DEF OnShowingMatchResult, HandleWaitingToEndGame, Await
  <2>2. connections' = connections
    BY <2>1 DEF connections
  <2>3. CASE Moving /\ life' # life
    <3>1. Phase = "moving" /\ Phase' = "open"
      BY <2>1, <2>3 DEF Phase
    <3> QED BY <2>1, <2>2, <3>1 DEF Sequence!Reopen, Sequence!Next
  <2>4. CASE ~Moving \/ life' = life
    <3>1. Phase' = Phase
      BY <2>1, <2>4 DEF Phase
    <3> QED BY <2>1, <2>2, <3>1
  <2> QED BY <2>3, <2>4
<1>2. CASE InterceptEngineBrowse \/ \E mode \in GameModes : EndMatch(mode)
  <2>1. UNCHANGED <<life, match, conn, source>>
    BY <1>2 DEF InterceptEngineBrowse, EndMatch
  <2> QED BY <2>1, Unseen
<1>3. CASE OnGameEnginePostTick
  <2>1. PICK b : GiveUp(b) \/ (Ready(b, "ours") /\ Commit(b)) \/ KeepWaiting(b)
    BY <1>3 DEF OnGameEnginePostTick
  <2>2. Moving
    BY <1>3 DEF OnGameEnginePostTick
  <2>3. CASE Ready(b, "ours") /\ Commit(b)
    BY <2>2, <2>3, CommitImplements DEF Sequence!Next
  <2>4. CASE GiveUp(b)
    BY <2>2, <2>4, GiveUpImplements DEF GiveUp, StartFallback, Sequence!Next
  <2>5. CASE KeepWaiting(b)
    BY <2>2, <2>5 DEF KeepWaiting, Phase, connections
  <2> QED BY <2>1, <2>3, <2>4, <2>5
<1> QED BY <1>1, <1>2, <1>3 DEF Native

(* Seen from outside the process plays the sequence of MatchSequence.        *)
THEOREM Implementation == Spec => KeepsSequence
<1>1. Init => Sequence!Init
  BY DEF Init, Sequence!Init, Phase, connections, NoSource
<1>2. Inv /\ [Next]_vars => [Sequence!Next]_<<Phase, match, connections, source.conns>>
  <2> SUFFICES ASSUME Inv, [Next]_vars
               PROVE  [Sequence!Next]_<<Phase, match, connections, source.conns>>
    OBVIOUS
  <2>1. CASE UNCHANGED vars \/ (Engine /\ ~NativeBrowse)
    <3>1. UNCHANGED <<life, match, conn, source>>
      BY <2>1 DEF Engine, UrlReplaced, LeaveWorld, EnterWorld, BindDriver
    <3> QED BY <3>1, Unseen
  <2>2. CASE NativeBrowse
    <3>1. UNCHANGED <<life, match, source>> /\ connections' = {}
      BY <2>2 DEF NativeBrowse, connections
    <3>2. UNCHANGED <<Phase, match, source.conns>>
      BY <3>1 DEF Phase
    <3>3. \E gone \in SUBSET connections : connections' = connections \ gone
      BY <3>1, Zenon
    <3> QED BY <3>2, <3>3 DEF Sequence!Go, Sequence!Next
  <2> QED BY <2>1, <2>2, TickImplements, NativeImplements, PeersImplement DEF Next
<1> QED BY <1>1, <1>2, InvAlways, PTL
        DEF Spec, KeepsSequence, Sequence!Spec, Sequence!vars
=============================================================================
