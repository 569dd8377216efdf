------------------------------ MODULE MultiMatch ------------------------------
(***************************************************************************)
(* Several matches in one dedicated process: result, vote for the next map,*)
(* seamless travel to it and the commit of the new match.                  *)
(*                                                                         *)
(*   Payload/ServerLogic/DedicatedMultiMatch.cpp, DedicatedMultiMatchPolicy*)
(*   Payload/Network/NetDriverAccess.cpp   which driver owns which world   *)
(*   Payload/Hooks/Hooks.cpp, ServerLogic.cpp   the callers                *)
(*                                                                         *)
(* Each call of the payload holds gMutex to its end and is one step.  The  *)
(* engine is external: it swaps worlds, binds and unbinds the driver, ends *)
(* matches, drops and admits connections between any two of these calls.   *)
(* Seconds are ticks.  A world has a number; its GameMode and GameState are*)
(* known by it.                                                            *)
(***************************************************************************)
EXTENDS Integers, Sequences, FiniteSets

CONSTANTS
    Players,
    Playlist,         \* multiMatch.playlist
    CandidateCount,   \* vote.candidateCount
    VoteDuration,     \* vote.durationSeconds; 0 also stands for no vote
    TravelTimeout,    \* travelTimeoutSeconds
    NativeDedicated,  \* the native net mode is NM_DedicatedServer
    NoMap,
    MaxWorlds,        \* bound on the worlds the engine loads
    MaxLate           \* bound on the WaitingToEndGame taken during a travel

Maps == {Playlist[i] : i \in DOMAIN Playlist}

(* ValidatePlaylist refuses empty playlists and repeated maps.              *)
ASSUME MatchAssumption ==
    /\ Playlist \in Seq(Maps) /\ Playlist # <<>>
    /\ \A i, j \in DOMAIN Playlist : Playlist[i] = Playlist[j] => i = j
    /\ CandidateCount \in Nat \ {0}
    /\ VoteDuration \in Nat
    /\ TravelTimeout \in Nat \ {0, 1}
    /\ NativeDedicated \in BOOLEAN
    /\ NoMap \notin Maps
    /\ MaxWorlds \in Nat /\ MaxLate \in Nat

VARIABLES
    (* the engine *)
    world,        \* GWorld: number, map, GameMode and GameState exist
    binding,      \* world->NetDriver, driver->World, cached world of the driver
    url,          \* UWorld::NextURL: "none", "ours", "other"
    conn,         \* Players -> "none", "joining", "playing", "lost"
    ended,        \* the GameMode whose native EndMatch ran last
    sentHome,     \* the clients were told to return to the main menu
    deferred,     \* a SeamlessTravel of this world waits for the engine tick's end
    (* RuntimeState *)
    life, activeMap, nextMap, candidates, votes, voteLeft, elapsed, match,
    endReceived, endTicks, queued, dispatched, browseFailed, source, retired,
    rebind,       \* g_hookArgumentRebindEnabled
    (* for the properties only *)
    told,         \* players sent ClientTravel for this travel, still here
    late          \* WaitingToEndGame callbacks taken during a travel

engineVars == <<world, url, conn, ended, sentHome, deferred>>
voteVars   == <<candidates, votes, voteLeft>>
endVars    == <<endReceived, endTicks>>
travelVars == <<nextMap, elapsed, queued, dispatched, browseFailed, source, told>>
matchVars  == <<activeMap, match, retired, late>>
vars == <<engineVars, binding, life, voteVars, endVars, travelVars, matchVars,
          rebind>>

Lives   == {"Running", "Voting", "WaitingToTravel", "Traveling", "LoadingNext",
            "FallbackExit"}
Drivers == {"none", "ours", "other"}

connections == {p \in Players : conn[p] # "none"}
playing     == {p \in Players : conn[p] = "playing"}
Moving      == life \in {"Traveling", "LoadingNext"}
NoSource    == [world |-> 0, conns |-> {}]

OwnsTraveling       == life = "Traveling"
OwnsWorldTransition == Moving

Init ==
    /\ world = [id |-> 1, map |-> Playlist[1], ready |-> TRUE]
    /\ binding = [world |-> "ours", driver |-> 1, cached |-> 1]
    /\ url = "none"
    /\ conn = [p \in Players |-> "none"]
    /\ ended = 0
    /\ sentHome = FALSE /\ deferred = FALSE
    /\ life = "Running"
    /\ activeMap = Playlist[1]
    /\ nextMap = NoMap
    /\ candidates = <<>>
    /\ votes = [p \in Players |-> 0]
    /\ voteLeft = 0 /\ elapsed = 0 /\ match = 1
    /\ endReceived = FALSE /\ endTicks = 0
    /\ queued = FALSE /\ dispatched = FALSE /\ browseFailed = FALSE
    /\ source = NoSource
    /\ retired = {}
    /\ rebind = TRUE
    /\ told = {} /\ late = 0

-----------------------------------------------------------------------------
(* NetDriverAccess *)

TiedUncached(b) == [b EXCEPT !.world = "ours", !.driver = world.id]
Tied(b) == [world |-> "ours", driver |-> world.id, cached |-> world.id]

(* Resolve(false, false): the world's driver, else the cached one if it is *)
(* the cached world that is asked for.                                     *)
Resolved(b) ==
    IF b.world # "none" THEN b.world
    ELSE IF b.cached = world.id /\ b.driver = world.id THEN "ours" ELSE "none"

Owned(b) == Resolved(b) = "other" \/ (Resolved(b) = "ours" /\ b.driver = world.id)

(* Observe(driver, world, HookArgument) at every TickFlush.                 *)
LeftAlone(b) ==
    \/ b.world = "other"
    \/ b.world = "ours" /\ b.driver \notin {0, world.id}
    \/ b.world = "none" /\ IF b.driver = world.id THEN ~rebind ELSE b.cached = 0

Observed(b, driver) ==
    IF driver = "other" THEN [b EXCEPT !.cached = 0]
    ELSE IF LeftAlone(b) THEN b ELSE Tied(b)

(* IsDedicatedWorld for the current GameMode.                               *)
IsDedicated(b) == world.ready /\ (NativeDedicated \/ Owned(b))

RemotePlayers(b) ==
    IF Resolved(b) = "ours" /\ b.driver = world.id THEN playing ELSE {}

-----------------------------------------------------------------------------
(* The vote *)

IndexOf(map) ==
    IF map \in Maps THEN CHOOSE i \in DOMAIN Playlist : Playlist[i] = map
    ELSE Len(Playlist)

(* The maps after the active one, in the order of the playlist, without the *)
(* active one unless it is the only one.                                    *)
BuildCandidates ==
    LET n    == Len(Playlist)
        most == IF n > 1 /\ activeMap \in Maps THEN n - 1 ELSE n
        size == IF CandidateCount < most THEN CandidateCount ELSE most
    IN [k \in 1..size |-> Playlist[((IndexOf(activeMap) + k - 1) % n) + 1]]

VotesFor(i) == Cardinality({p \in Players : votes[p] = i})

(* ResolveWinner: the most votes, the earliest of a tie; a single index.    *)
Winners ==
    {i \in DOMAIN candidates :
        \A j \in DOMAIN candidates :
            IF j < i THEN VotesFor(j) < VotesFor(i) ELSE VotesFor(j) <= VotesFor(i)}

PrepareResult ==
    /\ candidates' = BuildCandidates
    /\ votes' = [p \in Players |-> 0]
    /\ nextMap' = NoMap

HandleServerSay(p, i) ==
    /\ life = "Voting"
    /\ p \in RemotePlayers(binding)
    /\ votes' = [votes EXCEPT ![p] = i]
    /\ UNCHANGED <<engineVars, binding, life, candidates, voteLeft, endVars,
                   travelVars, matchVars, rebind>>

-----------------------------------------------------------------------------
(* Callbacks of the native match *)

OnShowingMatchResult ==
    /\ ended = world.id
    /\ life = "Running"
    /\ IsDedicated(binding)
    /\ rebind' = FALSE
    /\ PrepareResult
    /\ endReceived' = FALSE /\ endTicks' = 0
    /\ voteLeft' = VoteDuration
    /\ life' = IF VoteDuration > 0 THEN "Voting" ELSE "WaitingToTravel"
    /\ UNCHANGED <<engineVars, binding, elapsed, queued, dispatched,
                   browseFailed, source, told, matchVars>>

Await ==
    LET running == life = "Running"
        first   == running \/ ~endReceived
        left    == IF running THEN VoteDuration ELSE voteLeft
    IN /\ IF running THEN PrepareResult ELSE UNCHANGED <<candidates, votes, nextMap>>
       /\ endReceived' = TRUE
       /\ endTicks' = IF first THEN 0 ELSE endTicks
       /\ voteLeft' = IF RemotePlayers(binding) = {} THEN 0 ELSE left
       /\ life' = IF voteLeft' = 0 THEN "WaitingToTravel"
                  ELSE IF running THEN "Voting" ELSE life
       /\ UNCHANGED sentHome

(* A refused callback takes the native way out, BeginGracefulDedicatedExit, *)
(* whose final cleanup ShouldSuppressNativeFinalCleanup then stops.  The    *)
(* callback is taken in every state: during a travel it is a late one, and  *)
(* the server then waits to travel once more.                               *)
HandleWaitingToEndGame ==
    /\ ended = world.id
    /\ life # "FallbackExit"
    /\ IF IsDedicated(binding) THEN Await
       ELSE sentHome' = TRUE /\ UNCHANGED <<life, voteVars, endVars, nextMap>>
    /\ IF Moving THEN late < MaxLate /\ late' = late + 1 ELSE UNCHANGED late
    /\ UNCHANGED <<world, url, conn, ended, deferred, binding, elapsed, queued,
                   dispatched, browseFailed, source, told, activeMap, match,
                   retired, rebind>>

SuppressTravelSource(mode) ==
    life # "FallbackExit" /\ Moving /\ source.world = mode

ShouldSuppressRetiredEndMatch(mode) ==
    /\ life # "FallbackExit"
    /\ \/ Moving /\ source.world = mode
       \/ mode \in retired /\ mode # world.id

(* A GameMode that has been left may still end its match once more.         *)
EndMatch(mode) ==
    /\ world.ready
    /\ ~ShouldSuppressRetiredEndMatch(mode)
    /\ ended' = mode
    /\ \/ binding' = binding
       \/ mode = world.id /\ binding' = [binding EXCEPT !.world = "none"]
    /\ UNCHANGED <<world, url, conn, sentHome, deferred, life, voteVars, endVars,
                   travelVars, matchVars, rebind>>

(* The GameModes the payload knows: that of this world and those left.      *)
GameModes == ({world.id, source.world} \cup retired) \ {0}

-----------------------------------------------------------------------------
(* Travel *)

(* StartFallbackLocked: the native exit, and no way back.                   *)
StartFallback ==
    /\ life' = "FallbackExit"
    /\ rebind' = TRUE
    /\ sentHome' = TRUE

CanTravel(b) ==
    /\ candidates # <<>>
    /\ IsDedicated(b)
    /\ Resolved(b) = "ours" /\ b.driver = world.id

(* BeginTravelLocked: the source is what the arrival is compared with.      *)
Depart(b) ==
    /\ binding' = Tied(b)
    /\ \E i \in Winners : nextMap' = candidates[i]
    /\ source' = [world |-> world.id, conns |-> connections]
    /\ dispatched' = FALSE /\ browseFailed' = FALSE
    /\ told' = {}
    /\ UNCHANGED <<world, conn, ended, deferred, voteVars, endVars, matchVars>>

BeginTravel(b) ==
    IF ~CanTravel(b)
    THEN /\ StartFallback
         /\ binding' = b
         /\ UNCHANGED <<world, url, conn, ended, deferred, voteVars, endVars,
                        travelVars, matchVars>>
    ELSE /\ Depart(b)
         /\ \/ /\ life' = "Traveling"
               /\ rebind' = TRUE
               /\ queued' = TRUE /\ url' = "ours"
               /\ elapsed' = 1
               /\ UNCHANGED sentHome
            \/ /\ StartFallback        \* ServerTravel did not queue the URL
               /\ queued' = FALSE
               /\ elapsed' = 0
               /\ UNCHANGED url

ConnectionSetRemains == connections \subseteq source.conns
ConnectionSetMatches == connections = source.conns

(* CompleteTravelIfReadyLocked, with the driver b and the driver ticked.    *)
AtDestination(b) ==
    /\ world.ready
    /\ world.id # source.world
    /\ world.map = nextMap
    /\ IsDedicated(b)

Replaced(b, driver) == "other" \in {b.world, driver}

Arrived(b) ==
    /\ b.world = "ours" /\ b.driver = world.id
    /\ ConnectionSetMatches

(* The clean-up of the commit, BeginServerMatchGeneration included.         *)
Committed(b) ==
    /\ binding' = Tied(b)
    /\ activeMap' = nextMap
    /\ nextMap' = NoMap
    /\ candidates' = <<>>
    /\ votes' = [p \in Players |-> 0]
    /\ voteLeft' = 0
    /\ endReceived' = FALSE /\ endTicks' = 0
    /\ retired' = retired \cup {source.world}
    /\ source' = NoSource
    /\ queued' = FALSE /\ dispatched' = FALSE /\ browseFailed' = FALSE
    /\ match' = match + 1
    /\ rebind' = TRUE
    /\ UNCHANGED <<world, url, conn, ended, deferred, told, late>>

Commit(b) == Committed(b) /\ life' = "Running" /\ UNCHANGED sentHome

(* The elapsed time outlives the commit: one on the tick that reaches the   *)
(* timeout is given up in the same call.                                    *)
CommitTooLate(b) == Committed(b) /\ StartFallback

(* Not yet there: LoadingNext once the destination has been seen.           *)
KeepWaiting(b) ==
    /\ binding' = b
    /\ life' = IF AtDestination(b) THEN "LoadingNext" ELSE life
    /\ UNCHANGED <<world, url, conn, ended, deferred, voteVars, endVars, nextMap,
                   queued, dispatched, source, told, matchVars>>

GiveUp(b) ==
    /\ StartFallback
    /\ binding' = b
    /\ UNCHANGED <<world, url, conn, ended, deferred, voteVars, endVars, nextMap,
                   queued, dispatched, source, told, matchVars>>

Ready(b, driver)   == AtDestination(b) /\ ~Replaced(b, driver) /\ Arrived(b)
Foreign(b, driver) == AtDestination(b) /\ Replaced(b, driver)

(* TickWorldTravel calls Browse for the queued URL.                         *)
OwnsBrowse == life = "Traveling" /\ queued /\ world.id = source.world

InterceptEngineBrowse ==
    /\ url # "none"
    /\ OwnsBrowse
    /\ url' = "none"
    /\ queued' = FALSE
    /\ IF /\ binding.driver = world.id
          /\ ConnectionSetMatches
          /\ url = "ours"
          /\ source.conns \subseteq {p \in Players : conn[p] = "playing"}
       THEN /\ dispatched' = TRUE /\ deferred' = TRUE
            /\ rebind' = FALSE
            /\ told' = source.conns
            /\ UNCHANGED browseFailed
       ELSE /\ browseFailed' = TRUE
            /\ UNCHANGED <<dispatched, deferred, rebind, told>>
    /\ UNCHANGED <<world, conn, ended, sentHome, binding, life, voteVars,
                   endVars, nextMap, elapsed, source, matchVars>>

(* RepairDestinationNetDriverBindingLocked; SetWorld may not accept.        *)
MayRepair ==
    /\ dispatched
    /\ world.id # source.world /\ world.ready /\ world.map = nextMap
    /\ binding.world = "none" /\ binding.driver = 0
    /\ ConnectionSetMatches

Repairs == IF MayRepair THEN {binding, Tied(binding)} ELSE {binding}

OnGameEnginePostTick ==
    /\ Moving
    /\ \E b \in Repairs :
          LET rebound == IF b # binding THEN TRUE ELSE rebind
          IN \/ /\ Foreign(b, "ours")
                /\ GiveUp(b)
                /\ UNCHANGED <<elapsed, browseFailed>>
             \/ /\ Ready(b, "ours")
                /\ Commit(b)
                /\ UNCHANGED elapsed
             \/ /\ ~Foreign(b, "ours") /\ ~Ready(b, "ours")
                /\ KeepWaiting(b)
                /\ rebind' = rebound
                /\ UNCHANGED <<elapsed, browseFailed, sentHome>>

-----------------------------------------------------------------------------
(* Tick, after TickFlush has run and its hook has observed the driver.      *)

TickVote(b) ==
    /\ life = "Voting"
    /\ binding' = b
    /\ voteLeft' = voteLeft - 1
    /\ life' = IF voteLeft = 1 THEN "WaitingToTravel" ELSE life
    /\ endTicks' = IF voteLeft = 1 /\ endReceived THEN endTicks + 1 ELSE endTicks
    /\ UNCHANGED <<engineVars, candidates, votes, endReceived, travelVars,
                   matchVars, rebind>>

(* One whole flush is kept between WaitingToEndGame and the travel.         *)
TickWait(b) ==
    /\ life = "WaitingToTravel"
    /\ endReceived /\ endTicks = 0
    /\ binding' = b
    /\ endTicks' = 1
    /\ UNCHANGED <<engineVars, life, voteVars, endReceived, travelVars,
                   matchVars, rebind>>

TravelWithPlayers ==
    /\ life = "WaitingToTravel" /\ endReceived /\ endTicks >= 1
    /\ playing # {}
ShouldBeginTravel == life = "WaitingToTravel" /\ endReceived /\ endTicks >= 1

TickDepart(b) == ShouldBeginTravel /\ BeginTravel(b)

TickBrowseFailed(b) ==
    /\ Moving
    /\ browseFailed
    /\ browseFailed' = FALSE
    /\ GiveUp(b)
    /\ UNCHANGED elapsed

TickTravel(b, driver) ==
    /\ Moving
    /\ ~browseFailed
    /\ elapsed' = elapsed + 1
    /\ \/ /\ Ready(b, driver)
          /\ IF elapsed + 1 >= TravelTimeout THEN CommitTooLate(b) ELSE Commit(b)
       \/ /\ ~Ready(b, driver)
          /\ UNCHANGED browseFailed
          /\ IF Foreign(b, driver) \/ elapsed + 1 >= TravelTimeout
             THEN GiveUp(b)
             ELSE KeepWaiting(b) /\ UNCHANGED <<rebind, sentHome>>

TickOnly(b) ==
    /\ \/ life = "Running"
       \/ life = "WaitingToTravel" /\ ~endReceived
    /\ binding' = b
    /\ UNCHANGED <<engineVars, life, voteVars, endVars, travelVars, matchVars,
                   rebind>>

Ticked == IF binding.world = "other" THEN {"ours", "other"} ELSE {"ours"}

Tick ==
    \E driver \in Ticked :
        LET b == Observed(binding, driver)
        IN \/ TickVote(b)
           \/ TickWait(b)
           \/ TickDepart(b)
           \/ TickBrowseFailed(b)
           \/ TickTravel(b, driver)
           \/ TickOnly(b)

-----------------------------------------------------------------------------
(* The engine *)

payloadVars == <<life, voteLeft, candidates, endVars, nextMap, elapsed, queued,
                 dispatched, browseFailed, source, matchVars, rebind>>

(* NotifyAcceptingConnection admits nobody while the world is in flux.      *)
AcceptConnection(p) ==
    /\ conn[p] = "none"
    /\ ~OwnsWorldTransition
    /\ conn' = [conn EXCEPT ![p] = "joining"]
    /\ UNCHANGED <<world, url, ended, sentHome, deferred, binding, votes, told,
                   payloadVars>>

PostLogin(p) ==
    /\ conn[p] = "joining"
    /\ world.ready
    /\ conn' = [conn EXCEPT ![p] = "playing"]
    /\ UNCHANGED <<world, url, ended, sentHome, deferred, binding, votes, told,
                   payloadVars>>

(* The controller is destroyed (CleanupDisconnectedPlayer), with its        *)
(* connection or before it.                                                 *)
DisconnectedKeepsVote(p) ==
    /\ conn[p] = "playing"
    /\ \E left \in {"lost", "none"} : conn' = [conn EXCEPT ![p] = left]
    /\ told' = told \ {p}
    /\ UNCHANGED <<world, url, ended, sentHome, deferred, binding, votes, payloadVars>>

OnPlayerDisconnected(p) ==
    /\ conn[p] = "playing"
    /\ \E left \in {"lost", "none"} : conn' = [conn EXCEPT ![p] = left]
    /\ votes' = [votes EXCEPT ![p] = 0]
    /\ told' = told \ {p}
    /\ UNCHANGED <<world, url, ended, sentHome, deferred, binding, payloadVars>>

ConnectionCloses(p) ==
    /\ conn[p] \in {"joining", "lost"}
    /\ conn' = [conn EXCEPT ![p] = "none"]
    /\ UNCHANGED <<world, url, ended, sentHome, deferred, binding, votes, told,
                   payloadVars>>

(* Somebody else asks the engine to travel before it looks at the URL.      *)
UrlReplaced ==
    /\ url = "ours"
    /\ url' = "other"
    /\ UNCHANGED <<world, conn, ended, sentHome, deferred, binding, votes, told,
                   payloadVars>>

(* A Browse the payload does not own passes through: the engine loads the   *)
(* URL as a hard travel, which closes every connection with its player.     *)
NativeBrowse ==
    /\ url # "none"
    /\ life # "FallbackExit"
    /\ ~OwnsBrowse
    /\ world.id < MaxWorlds
    /\ url' = "none" /\ deferred' = FALSE
    /\ \E map \in {nextMap, NoMap} :
          world' = [id |-> world.id + 1, map |-> map, ready |-> TRUE]
    /\ \E w \in {"none", "other"} :
          binding' = [binding EXCEPT !.world = w, !.driver = 0]
    /\ conn' = [p \in Players |-> "none"]
    /\ votes' = [p \in Players |-> 0]
    /\ told' = {}
    /\ UNCHANGED <<ended, sentHome, payloadVars>>

(* DispatchDeferredSeamlessTravel: the world is left for the transition     *)
(* world, and the destination, or some other map, follows.                  *)
LeaveWorld ==
    /\ deferred
    /\ world.id < MaxWorlds
    /\ deferred' = FALSE
    /\ url' = "none"
    /\ world' = [id |-> world.id + 1, map |-> NoMap, ready |-> FALSE]
    /\ \E d \in {0, binding.driver} :
          binding' = [binding EXCEPT !.world = "none", !.driver = d]
    /\ UNCHANGED <<conn, ended, sentHome, votes, told, payloadVars>>

EnterWorld ==
    /\ ~world.ready
    /\ world.id < MaxWorlds
    /\ \E map \in {nextMap, NoMap} :
          world' = [id |-> world.id + 1, map |-> map, ready |-> TRUE]
    /\ \E w \in Drivers, d \in {0, binding.driver, world.id + 1} :
          binding' = [binding EXCEPT !.world = w, !.driver = d]
    /\ UNCHANGED <<url, conn, ended, sentHome, deferred, votes, told, payloadVars>>

(* The native carry of the driver may end only after the world is there.    *)
BindDriver ==
    /\ Moving
    /\ world.ready /\ world.id # source.world
    /\ binding.world # "other"
    /\ binding' = [binding EXCEPT !.world = "ours", !.driver = world.id]
    /\ UNCHANGED <<engineVars, votes, told, payloadVars>>

Native ==
    \/ OnShowingMatchResult
    \/ HandleWaitingToEndGame
    \/ \E mode \in GameModes : EndMatch(mode)
    \/ InterceptEngineBrowse
    \/ OnGameEnginePostTick

Engine == UrlReplaced \/ NativeBrowse \/ LeaveWorld \/ EnterWorld \/ BindDriver

Peers ==
    \E p \in Players :
        \/ AcceptConnection(p)
        \/ PostLogin(p)
        \/ OnPlayerDisconnected(p)
        \/ ConnectionCloses(p)
        \/ \E i \in DOMAIN candidates : HandleServerSay(p, i)

Next == Tick \/ Native \/ Engine \/ Peers

Spec     == Init /\ [][Next]_vars
FairSpec == Spec /\ WF_vars(Tick)

-----------------------------------------------------------------------------
(* Properties *)

TypeOK ==
    /\ world \in [id : Nat, map : Maps \cup {NoMap}, ready : BOOLEAN]
    /\ binding \in [world : Drivers, driver : Nat, cached : Nat]
    /\ url \in {"none", "ours", "other"}
    /\ conn \in [Players -> {"none", "joining", "playing", "lost"}]
    /\ ended \in Nat /\ sentHome \in BOOLEAN /\ deferred \in BOOLEAN
    /\ life \in Lives
    /\ activeMap \in Maps \cup {NoMap} /\ nextMap \in Maps \cup {NoMap}
    /\ candidates \in Seq(Maps)
    /\ votes \in [Players -> Nat]
    /\ voteLeft \in Nat /\ elapsed \in Nat /\ match \in Nat /\ endTicks \in Nat
    /\ endReceived \in BOOLEAN /\ queued \in BOOLEAN /\ dispatched \in BOOLEAN
    /\ browseFailed \in BOOLEAN /\ rebind \in BOOLEAN
    /\ source \in [world : Nat, conns : SUBSET Players]
    /\ retired \subseteq Nat
    /\ told \subseteq Players
    /\ late \in 0..MaxLate

(* A WaitingToEndGame callback taken during the travel (late # 0) reopens   *)
(* the server, forgets the source and departs again: from then on the four  *)
(* properties that name late are lost in the code, and they say so.         *)

(* The players of the next match are those whose clients were told to travel*)
(* and who have not been away since (Hooks.cpp:939, "exact pre-travel       *)
(* connection set").                                                        *)
CommitKeepsEveryone == [][match' # match /\ late = 0 => playing' = told']_vars

(* A vote is that of a player who is here, for a map on offer: a leaver     *)
(* never decides the next map.                                              *)
VotesCount ==
    \A p \in Players : votes[p] # 0 =>
        conn[p] = "playing" /\ votes[p] \in DOMAIN candidates

(* A match is ended by its own GameMode, never by the late callback of one  *)
(* that has been left (DedicatedMultiMatchPolicy.h:149).                    *)
OwnEnd ==
    [][ended' # ended /\ late = 0 =>
         ended' = world.id \/ life = "FallbackExit"]_vars

(* Clients are sent to the main menu only when the process then exits: the  *)
(* final cleanup of a callback that is refused would be suppressed, and the *)
(* server stay up with nobody.                                              *)
NobodyStranded == sentHome /\ late = 0 => life = "FallbackExit"

(* Outside travel the driver belongs to GWorld and the cached proof says so,*)
(* although the end of a match clears the world's own pointer: this is what *)
(* lets the next result, vote and departure recognise the server.           *)
DriverProven ==
    late = 0 /\ life \in {"Running", "Voting", "WaitingToTravel"} =>
        /\ world.ready /\ binding.driver = world.id /\ binding.cached = world.id
        /\ binding.world \in {"none", "ours"}

(* The travel is called off before it starts only because somebody left or  *)
(* somebody else travelled (dedicated-server-multimatch.md, "Travel failure,*)
(* timeout, a disconnect during migration, or a World/NetDriver/connection  *)
(* continuity mismatch").                                                   *)
BrowseFailsForCause ==
    [][browseFailed' /\ ~browseFailed =>
         \/ url = "other"
         \/ ~ConnectionSetMatches
         \/ \E p \in source.conns : conn[p] = "lost"]_vars

(* A match that has ended is followed by another one or by the exit, also   *)
(* when the callback that ends it is repeated during the travel.            *)
MatchEnds ==
    \A n \in 1..MaxWorlds :
        (endReceived /\ match = n) ~> (match # n \/ life = "FallbackExit")

(* Seen from outside: a sequence of matches of the same players, which a    *)
(* late callback may open and set off once more.                            *)
Phase ==
    CASE Moving -> "moving"
      [] life = "FallbackExit" -> "over"
      [] OTHER -> "open"

Sequence == INSTANCE MatchSequence WITH
    phase <- Phase, here <- connections, departed <- source.conns

KeepsSequence == Sequence!Spec

=============================================================================
