---------------------- MODULE CommandFramework_proofs ----------------------
(***************************************************************************)
(* Safety of the command pipe, for any number of owners, of restarts and of*)
(* connections, and any number of frames, protocol errors and calls.        *)
(***************************************************************************)
EXTENDS CommandFramework, TLAPS

-----------------------------------------------------------------------------
(* Type correctness *)

LEMMA GotoType ==
    ASSUME at \in [Threads -> Places], NEW t, NEW place \in Places, Goto(t, place)
    PROVE  at' \in [Threads -> Places]
  BY DEF Goto

LEMMA CancellingType ==
    ASSUME at \in [Threads -> Places], NEW t, NEW place \in Places,
           GotoCancelling(t, place)
    PROVE  at' \in [Threads -> Places]
  <1>1. "aborted" \in Places
    BY DEF Places, Serving
  <1> QED BY <1>1 DEF GotoCancelling

(* The calls of the owners keep the types.                                   *)
LEMMA CallsType ==
    ASSUME TypeOK, ThreadsAssumption, NEW o \in Owners, OwnerCalls(o)
    PROVE  TypeOK'
  <1> USE DEF TypeOK
  <1>1. /\ "top" \in Places /\ "stop" \in Places /\ "send" \in Places
    BY DEF Places, Serving
  <1>2. calls' = calls + 1 /\ calls < MaxCalls => calls' \in 0..MaxCalls
    BY DEF ThreadsAssumption
  <1>3. ASSUME NEW l \in Listeners, Start(o)!(l) PROVE TypeOK'
    BY <1>1, <1>2, <1>3, GotoType DEF session
  <1>4. CASE StartFails(o)
    BY <1>2, <1>4 DEF StartFails, session
  <1>5. CASE CallStop(o)
    BY <1>1, <1>2, <1>5, GotoType DEF CallStop, lifecycle, response, session
  <1>6. CASE CallSendResponse(o)
    BY <1>1, <1>2, <1>6, GotoType
      DEF CallSendResponse, lifecycle, response, session
  <1> QED BY <1>3, <1>4, <1>5, <1>6 DEF OwnerCalls, Start

(* So does a Stop, on any thread.                                            *)
LEMMA StopType ==
    ASSUME TypeOK, NEW t \in Threads,
           \/ StopReturnsAtOnce(t) \/ StopSignals(t)
           \/ t \in Listeners /\ StopOnListener(t)
           \/ t \in Owners /\ (\/ StopJoins(t) \/ StopHasNoThread(t)
                               \/ Joined(t) \/ StopClears(t))
    PROVE  TypeOK'
  <1> USE DEF TypeOK, lifecycle, response, session
  <1>1. /\ {"idle", "send", "cancel", "join", "clear"} \subseteq Places
        /\ Return(t) \in Places
    BY DEF Places, Serving, Return
  <1>2. CASE StopReturnsAtOnce(t)
    BY <1>1, <1>2, GotoType DEF StopReturnsAtOnce
  <1>3. CASE StopSignals(t)
    BY <1>1, <1>3, GotoType DEF StopSignals
  <1>4. CASE t \in Listeners /\ StopOnListener(t)
    BY <1>1, <1>4, CancellingType DEF StopOnListener
  <1>5. CASE t \in Owners /\ StopJoins(t)
    BY <1>1, <1>5, CancellingType DEF StopJoins
  <1>6. CASE t \in Owners /\ StopHasNoThread(t)
    BY <1>1, <1>6, CancellingType DEF StopHasNoThread
  <1>7. CASE t \in Owners /\ Joined(t)
    BY <1>1, <1>7, GotoType DEF Joined
  <1>8. CASE t \in Owners /\ StopClears(t)
    BY <1>1, <1>8, GotoType DEF StopClears
  <1> QED BY <1>2, <1>3, <1>4, <1>5, <1>6, <1>7, <1>8

(* So does a response.                                                       *)
LEMMA ResponseType ==
    ASSUME TypeOK, NEW t \in Threads,
           \/ Responding(t) \/ WriteCompletes(t) \/ WriteFails(t)
           \/ WriteTimesOut(t) \/ EncodeFails(t)
    PROVE  TypeOK'
  <1> USE DEF TypeOK, lifecycle, response, session
  <1>1. /\ "write" \in Places /\ "fault" \in Places /\ "kick" \in Places
        /\ \A sent \in BOOLEAN : AfterResponse(t, sent) \in Places
    BY DEF Places, Serving, AfterResponse
  <1>2. ASSUME NEW sent \in BOOLEAN, Responded(t, sent)
        PROVE  /\ at' \in [Threads -> Places] /\ errors' \in [Listeners -> Nat]
               /\ UNCHANGED <<pipe, served, frames, reply, lifecycle,
                              lifecycleMutex, calls>>
    BY <1>1, <1>2, GotoType DEF Responded
  <1>3. CASE NobodyToAnswer(t) \/ EncodeFails(t)
    BY <1>2, <1>3 DEF NobodyToAnswer, EncodeFails
  <1>4. CASE WriteFile(t)
    BY <1>1, <1>4, GotoType DEF WriteFile
  <1>5. CASE WriteCompletes(t)
    BY <1>2, <1>5 DEF WriteCompletes
  <1>6. CASE WriteEnds(t)
    BY <1>1, <1>6, GotoType DEF WriteEnds
  <1>7. CASE Fault(t)
    BY <1>1, <1>7, GotoType DEF Fault
  <1>8. CASE Kick(t)
    BY <1>1, <1>8, CancellingType DEF Kick
  <1> QED
    BY <1>3, <1>4, <1>5, <1>6, <1>7, <1>8
      DEF Responding, WriteStopped, WriteFails, WriteTimesOut

(* What a plain step of a listener leaves well typed.                        *)
LEMMA StepType ==
    ASSUME TypeOK, NEW l, NEW from, NEW to \in Places, Step(l, from, to),
           pipe' \in [Listeners -> Pipes \cup {None}], served' \subseteq Pipes,
           frames' \in [Listeners -> 0..MaxFrames],
           errors' \in [Listeners -> Nat],
           reply' \in [Listeners -> {"next", "strike", "leave"}]
    PROVE  TypeOK'
  BY GotoType DEF TypeOK, Step, lifecycle, response

(* So do the steps of the listener outside a response.                       *)
LEMMA ListenerType ==
    ASSUME TypeOK, ThreadsAssumption, NEW l \in Listeners,
           ListenerProceeds(l) \/ ClientActs(l) \/ Fails(l) \/ ReadTimesOut(l)
    PROVE  TypeOK'
  <1>1. /\ {"top", "create", "connect", "retry", "accepted", "reset", "publish",
            "disconnect", "thrown", "ended"} \subseteq Places
        /\ {"loop", "issue", "read", "aborted", "frames", "callback", "stop",
            "send", "unpublish"} \subseteq Places
    BY DEF Places, Serving
  <1>2. ASSUME NEW from, NEW to \in Places, Step(l, from, to), UNCHANGED session
        PROVE  TypeOK'
    BY <1>2, StepType DEF TypeOK, session
  <1>3. ASSUME NEW from, NEW to \in Places, ClosePipe(l, from, to)
        PROVE  TypeOK'
    BY <1>3, StepType DEF TypeOK, ClosePipe
  <1>4. CASE \/ LoopHead(l) \/ CreateFails(l) \/ Retry(l) \/ RetryStopped(l)
             \/ Authorized(l) \/ ClientConnects(l)
    <2>1. (IF running THEN "create" ELSE "ended") \in Places
      BY <1>1
    <2> QED
      BY <1>1, <1>2, <1>4, <2>1
        DEF LoopHead, CreateFails, Retry, RetryStopped, Authorized, ClientConnects
  <1>5. CASE \/ ReadClient(l) \/ ReadFile(l) \/ ReadStopped(l) \/ ReadAborted(l)
             \/ AllHandled(l) \/ CallbackReturns(l) \/ CallbackStops(l)
             \/ ReadFails(l) \/ ReadTimesOut(l)
    <2>1. (IF running /\ ~connectionFaulted THEN "issue" ELSE "unpublish")
             \in Places
      BY <1>1
    <2> QED
      BY <1>1, <1>2, <1>5, <2>1
        DEF ReadClient, ReadFile, ReadStopped, ReadAborted, AllHandled,
            CallbackReturns, CallbackStops, ReadFails, ReadTimesOut
  <1>6. CASE \/ ConnectFails(l) \/ ConnectStopped(l) \/ AcceptStopped(l)
             \/ Unauthorized(l) \/ Disconnect(l)
    BY <1>1, <1>3, <1>6
      DEF ConnectFails, ConnectStopped, AcceptStopped, Unauthorized, Disconnect
  <1>7. ASSUME NEW p \in Pipes \ served, CreateNamedPipe(l)!(p) PROVE TypeOK'
    BY <1>1, <1>7, StepType DEF TypeOK
  <1>8. ASSUME NEW n \in 0..MaxFrames, ReadCompletes(l)!(n) PROVE TypeOK'
    BY <1>1, <1>8, StepType DEF TypeOK
  <1>9. CASE FrameTooLarge(l)
    BY <1>1, <1>9, StepType DEF TypeOK, FrameTooLarge, Answer
  <1>10. ASSUME frames[l] > 0, frames' = [frames EXCEPT ![l] = @ - 1]
         PROVE  frames' \in [Listeners -> 0..MaxFrames]
    BY <1>10 DEF TypeOK, ThreadsAssumption
  <1>11. CASE ProtocolError(l)
    BY <1>1, <1>10, <1>11, StepType DEF TypeOK, ProtocolError, Answer
  <1>12. CASE Dispatch(l)
    BY <1>1, <1>10, <1>12, StepType DEF TypeOK, Dispatch
  <1>13. CASE ListenerThrows(l) \/ ListenerFails(l) \/ ReadThrows(l)
    BY <1>1, <1>13, GotoType
      DEF TypeOK, ListenerThrows, ListenerFails, ReadThrows, lifecycle, response,
          session
  <1>14. CASE ResetFault(l)
    BY <1>1, <1>14, GotoType DEF TypeOK, ResetFault, lifecycle, session
  <1>15. CASE Publish(l)
    <2>1. 0 \in 0..MaxFrames
      BY DEF ThreadsAssumption
    <2> QED
      BY <1>1, <1>15, <2>1, GotoType DEF TypeOK, Publish, lifecycle
  <1>16. CASE Unpublish(l)
    BY <1>1, <1>16, GotoType DEF TypeOK, Unpublish, lifecycle, session
  <1>17. l \in Threads
    BY DEF Threads
  <1>18. CASE \/ StopReturnsAtOnce(l) \/ StopSignals(l) \/ StopOnListener(l)
    BY <1>17, <1>18, StopType
  <1>19. CASE Responding(l)
    BY <1>17, <1>19, ResponseType
  <1>20. CASE CreateNamedPipe(l) \/ ReadCompletes(l)
    BY <1>7, <1>8, <1>20 DEF CreateNamedPipe, ReadCompletes
  <1> QED
    BY <1>4, <1>5, <1>6, <1>9, <1>11, <1>12, <1>13, <1>14, <1>15, <1>16, <1>18,
       <1>19, <1>20
      DEF ListenerProceeds, ClientActs, Fails

LEMMA TypeStep ==
    ASSUME TypeOK, ThreadsAssumption, [Next]_vars
    PROVE  TypeOK'
  <1>1. ASSUME NEW o \in Owners, OwnerCalls(o) \/ OwnerProceeds(o)
        PROVE  TypeOK'
    <2>1. o \in Threads
      BY DEF Threads
    <2> QED
      BY <1>1, <2>1, CallsType, StopType, ResponseType DEF OwnerProceeds
  <1>2. ASSUME NEW l \in Listeners,
               ListenerProceeds(l) \/ ClientActs(l) \/ Fails(l)
        PROVE  TypeOK'
    BY <1>2, ListenerType
  <1>3. ASSUME NEW t \in Threads,
               \/ TimesOut(t) \/ WriteCompletes(t) \/ WriteFails(t)
               \/ EncodeFails(t)
        PROVE  TypeOK'
    BY <1>3, ListenerType, ResponseType DEF TimesOut
  <1>4. CASE UNCHANGED vars
    BY <1>4 DEF TypeOK, vars, lifecycle, response, session
  <1> QED BY <1>1, <1>2, <1>3, <1>4 DEF Next

(* Every reachable state of the framework is well typed, for every number of *)
(* owners, listeners and pipes.                                              *)
THEOREM TypeCorrect == Spec => []TypeOK
  <1>1. Init => TypeOK
    <2>1. 0 \in 0..MaxFrames /\ 0 \in 0..MaxCalls
      BY ThreadsAssumption DEF ThreadsAssumption
    <2>2. "idle" \in Places /\ "none" \in Places
      BY DEF Places
    <2> SUFFICES ASSUME Init PROVE TypeOK
      OBVIOUS
    <2>3. at \in [Threads -> Places]
      BY <2>2 DEF Init
    <2>4. /\ frames \in [Listeners -> 0..MaxFrames]
          /\ errors \in [Listeners -> Nat]
      BY <2>1 DEF Init
    <2> QED BY <2>1, <2>3, <2>4 DEF Init, TypeOK
  <1>2. TypeOK /\ [Next]_vars => TypeOK'
    BY TypeStep, ThreadsAssumption
  <1> QED BY <1>1, <1>2, PTL DEF Spec

-----------------------------------------------------------------------------
(* The inductive invariant *)

(* Where a listener owns the handle of a pipe.                               *)
Holding == Serving \cup {"connect", "accepted", "reset", "publish", "disconnect"}

(* A mutex is held in the places that say so, and by one thread.             *)
Locked ==
    \A t \in Threads :
        /\ at[t] \in Writing <=> writeMutex = t
        /\ at[t] \in {"cancel", "clear"} <=> lifecycleMutex = t

(* Owners and listeners are in places of their own.                          *)
Placed ==
    /\ \A o \in Owners : at[o] \in Writing \cup {"idle", "stop", "cancel", "join",
                                              "clear", "send"}
    /\ \A l \in Listeners : at[l] \notin {"idle", "join", "clear"}

(* The stop event belongs to the listener that is alive, which somebody will *)
(* join; nothing runs while a Stop is at work.                               *)
Owned ==
    /\ \A l \in Listeners : Alive(l) =>
          /\ stopEvent = l
          /\ listenerThread = l \/ \E o \in Owners : at[o] = "join" /\ joins[o] = l
    /\ listenerThread # None =>
          /\ ~stopping /\ stopEvent = listenerThread
          /\ at[listenerThread] # "none"
    /\ running => listenerThread # None
    /\ \A t \in Threads : at[t] = "cancel" => ~running /\ ~stopping
    /\ \A o \in Owners : at[o] = "join" => stopping /\ joins[o] = stopEvent
    /\ stopEvent = None => \A o \in Owners : at[o] # "join"
    /\ \A o, q \in Owners : at[o] = "join" /\ at[q] \in {"join", "clear"} => o = q
    /\ \A o \in Owners : at[o] = "clear" => ~running /\ listenerThread = None

(* The alias is the open pipe of the listener that serves, and nothing else. *)
Aliased ==
    /\ \A l \in Listeners :
          /\ at[l] \in Holding <=> pipe[l] # None
          /\ at[l] \in Serving => hCurrentPipe = pipe[l]
          /\ pipe[l] \in served \cup {None}
    /\ hCurrentPipe # None =>
          \E l \in Listeners : at[l] \in Serving /\ pipe[l] = hCurrentPipe
    /\ \A t \in Threads : at[t] \in Writing => hCurrentPipe # None

(* The flag is about the connection that is served; a pipe that is not yet   *)
(* served has seen no failure.                                               *)
Flagged ==
    /\ faultedOn \in served \cup {None}
    /\ \A l \in Listeners :
          /\ at[l] \in Serving => (connectionFaulted <=> faultedOn = pipe[l])
          /\ at[l] = "publish" => ~connectionFaulted
          /\ at[l] \in {"connect", "accepted", "reset", "publish"}
                => faultedOn # pipe[l]

IInv == TypeOK /\ Locked /\ Placed /\ Owned /\ Aliased /\ Flagged

-----------------------------------------------------------------------------
(* The shapes of the steps *)

(* Where a thread holds a mutex or waits for another thread.                 *)
Busy == Writing \cup {"cancel", "clear", "join"}

(* A thread goes on without a mutex, and neither the alias nor a handle of a *)
(* pipe changes; it may find that the listener has to end.                   *)
Roams(t) ==
    /\ UNCHANGED <<stopping, listenerThread, stopEvent, signalled, joins,
                   response, lifecycleMutex, writeMutex, pipe, served>>
    /\ running' \in {running, FALSE}
    /\ \E to \in Places :
          /\ Goto(t, to)
          /\ at[t] \notin Busy /\ to \notin Busy
          /\ t \in Owners => to \in {"idle", "stop", "send"}
          /\ t \in Listeners =>
                /\ Alive(t) /\ to \notin {"none", "idle", "publish"}
                /\ to \in Serving <=> at[t] \in Serving
                /\ to \in Holding <=> at[t] \in Holding
                /\ to \in {"connect", "accepted", "reset"} =>
                      at[t] \in {"connect", "accepted"}

(* A listener closes its pipe, which nobody uses any more.                   *)
Closes(l) ==
    /\ UNCHANGED <<stopping, listenerThread, stopEvent, signalled, joins,
                   response, lifecycleMutex, writeMutex, served>>
    /\ running' \in {running, FALSE}
    /\ at[l] \in {"create", "connect", "accepted", "disconnect"}
    /\ \E to \in {"top", "thrown", "ended"} : Goto(l, to)
    /\ pipe' = [pipe EXCEPT ![l] = None]

OwnerMoves(o) ==
    \/ Start(o) \/ StartFails(o) \/ StopJoins(o) \/ StopHasNoThread(o)
    \/ Joined(o) \/ StopClears(o)

ListenerMoves(l) ==
    \/ Closes(l) \/ StopOnListener(l) \/ CreateNamedPipe(l)
    \/ ListenerFails(l) \/ ResetFault(l) \/ Publish(l) \/ Unpublish(l)

ThreadMoves(t) ==
    \/ Roams(t) \/ StopSignals(t) \/ WriteFile(t) \/ WriteCompletes(t)
    \/ WriteEnds(t) \/ Fault(t) \/ Kick(t)

Moves ==
    \/ \E o \in Owners : OwnerMoves(o)
    \/ \E l \in Listeners : ListenerMoves(l)
    \/ \E t \in Threads : ThreadMoves(t)

(* A plain step of a listener roams when its ends are alike.                 *)
LEMMA StepRoams ==
    ASSUME ThreadsAssumption, NEW l \in Listeners, NEW from, NEW to \in Places,
           Step(l, from, to), UNCHANGED <<pipe, served>>,
           from \notin Busy, to \notin Busy,
           from \notin {"none", "ended"}, to \notin {"none", "idle", "publish"},
           to \in Serving <=> from \in Serving,
           to \in Holding <=> from \in Holding,
           to \in {"connect", "accepted", "reset"} =>
               from \in {"connect", "accepted"}
    PROVE  Roams(l)
  <1>1. l \notin Owners
    BY DEF ThreadsAssumption
  <1> QED BY <1>1 DEF Roams, Step, Alive, lifecycle

LEMMA ListenerShape ==
    ASSUME TypeOK, ThreadsAssumption, NEW l \in Listeners,
           ListenerProceeds(l) \/ ClientActs(l) \/ Fails(l) \/ ReadTimesOut(l)
    PROVE  ListenerMoves(l) \/ ThreadMoves(l)
  <1> USE DEF Places, Holding, Serving, Writing, Busy
  <1>1. CASE \/ LoopHead(l) \/ CreateFails(l) \/ Retry(l) \/ RetryStopped(l)
    BY <1>1, StepRoams
      DEF LoopHead, CreateFails, Retry, RetryStopped, session, ThreadMoves
  <1>2. CASE Authorized(l) \/ ClientConnects(l)
    BY <1>2, StepRoams DEF Authorized, ClientConnects, session, ThreadMoves
  <1>3. CASE \/ ReadClient(l) \/ ReadFile(l) \/ ReadStopped(l) \/ ReadAborted(l)
             \/ AllHandled(l) \/ CallbackReturns(l) \/ CallbackStops(l)
             \/ ReadTimesOut(l)
    BY <1>3, StepRoams
      DEF ReadClient, ReadFile, ReadStopped, ReadAborted, AllHandled,
          CallbackReturns, CallbackStops, ReadTimesOut, session, ThreadMoves
  <1>4. CASE ReadFails(l)
    BY <1>4, StepRoams DEF ReadFails, session, ThreadMoves
  <1>5. CASE ReadCompletes(l) \/ FrameTooLarge(l) \/ ProtocolError(l) \/ Dispatch(l)
    BY <1>5, StepRoams
      DEF ReadCompletes, FrameTooLarge, ProtocolError, Dispatch, Answer,
          ThreadMoves
  <1>6. CASE ReadThrows(l)
    <2>1. /\ l \notin Owners /\ at[l] = "frames" /\ Alive(l)
          /\ Goto(l, "unpublish") /\ "unpublish" \in Places
      BY <1>6 DEF ReadThrows, Alive, ThreadsAssumption
    <2>2. Roams(l)
      BY <1>6, <2>1 DEF ReadThrows, Roams, session
    <2> QED BY <2>2 DEF ThreadMoves
  <1>7. CASE \/ ConnectFails(l) \/ ConnectStopped(l) \/ AcceptStopped(l)
             \/ Unauthorized(l) \/ Disconnect(l)
    BY <1>7
      DEF ConnectFails, ConnectStopped, AcceptStopped, Unauthorized, Disconnect,
          ClosePipe, Step, Closes, ListenerMoves, lifecycle
  <1>8. CASE ListenerThrows(l)
    BY <1>8 DEF ListenerThrows, Closes, ListenerMoves
  <1>9. CASE StopReturnsAtOnce(l)
    BY <1>9
      DEF StopReturnsAtOnce, Return, Roams, ThreadMoves, Alive, lifecycle, session,
          ThreadsAssumption
  <1>10. CASE NobodyToAnswer(l)
    BY <1>10
      DEF NobodyToAnswer, Responded, AfterResponse, Roams, ThreadMoves, Alive,
          lifecycle, ThreadsAssumption
  <1> QED
    BY <1>1, <1>2, <1>3, <1>4, <1>5, <1>6, <1>7, <1>8, <1>9, <1>10
      DEF ListenerProceeds, ClientActs, Fails, Responding, WriteStopped,
          ListenerMoves, ThreadMoves

LEMMA Shape ==
    ASSUME TypeOK, ThreadsAssumption, Next
    PROVE  Moves
  <1> USE DEF Places, Holding, Serving, Writing, Busy
  <1>1. ASSUME NEW o \in Owners, OwnerCalls(o) \/ OwnerProceeds(o)
        PROVE  OwnerMoves(o) \/ ThreadMoves(o)
    <2>1. o \notin Listeners
      BY DEF ThreadsAssumption
    <2>2. CASE CallStop(o) \/ CallSendResponse(o)
      BY <2>1, <2>2
        DEF CallStop, CallSendResponse, Roams, ThreadMoves, lifecycle, session
    <2>3. CASE StopReturnsAtOnce(o)
      BY <2>1, <2>3
        DEF StopReturnsAtOnce, Return, Roams, ThreadMoves, lifecycle, session
    <2>4. CASE NobodyToAnswer(o)
      BY <2>1, <2>4
        DEF NobodyToAnswer, Responded, AfterResponse, Roams, ThreadMoves, lifecycle
    <2> QED
      BY <1>1, <2>2, <2>3, <2>4
        DEF OwnerCalls, OwnerProceeds, Responding, WriteStopped, OwnerMoves,
            ThreadMoves
  <1>2. ASSUME NEW t \in Threads,
               \/ WriteTimesOut(t) \/ WriteCompletes(t) \/ WriteFails(t)
               \/ EncodeFails(t)
        PROVE  ThreadMoves(t)
    <2>1. CASE EncodeFails(t)
      <3>1. CASE t \in Owners
        BY <2>1, <3>1
          DEF EncodeFails, Responded, AfterResponse, Roams, ThreadMoves, lifecycle,
              ThreadsAssumption
      <3>2. CASE t \in Listeners
        BY <2>1, <3>2
          DEF EncodeFails, Responded, AfterResponse, Roams, ThreadMoves, lifecycle,
              Alive, ThreadsAssumption
      <3> QED BY <3>1, <3>2 DEF Threads
    <2> QED
      BY <1>2, <2>1 DEF WriteTimesOut, WriteFails, ThreadMoves
  <1>3. Owners \subseteq Threads /\ Listeners \subseteq Threads
    BY DEF Threads
  <1>4. ASSUME NEW l \in Listeners,
               ListenerProceeds(l) \/ ClientActs(l) \/ Fails(l) \/ ReadTimesOut(l)
        PROVE  ListenerMoves(l) \/ ThreadMoves(l)
    BY <1>4, ListenerShape
  <1> QED BY <1>1, <1>2, <1>3, <1>4 DEF Next, TimesOut, Moves

-----------------------------------------------------------------------------
(* The mutexes and the places *)

(* CancelIoEx moves a thread, and besides it only reads that are pending.    *)
LEMMA Cancelling ==
    ASSUME at \in [Threads -> Places], NEW t \in Threads, NEW place,
           GotoCancelling(t, place)
    PROVE  /\ at'[t] = place
           /\ \A u \in Threads \ {t} :
                \/ at'[u] = at[u]
                \/ u \in Listeners /\ at[u] = "read" /\ at'[u] = "aborted"
  BY DEF GotoCancelling, Cancelled

LEMMA KickMoves ==
    ASSUME TypeOK, ThreadsAssumption, NEW t \in Threads, Kick(t)
    PROVE  /\ at'[t] = IF t \in Owners THEN "idle" ELSE "unpublish"
           /\ \A u \in Threads \ {t} :
                \/ at'[u] = at[u]
                \/ u \in Listeners /\ at[u] = "read" /\ at'[u] = "aborted"
  <1>1. AfterResponse(t, FALSE) = IF t \in Owners THEN "idle" ELSE "unpublish"
    BY DEF AfterResponse
  <1>2. at \in [Threads -> Places] /\ GotoCancelling(t, AfterResponse(t, FALSE))
    BY DEF Kick, TypeOK
  <1> HIDE DEF Threads
  <1> QED BY <1>1, <1>2, Cancelling

LEMMA LockedStep ==
    ASSUME IInv, ThreadsAssumption, Moves
    PROVE  Locked'
  <1> USE DEF IInv, TypeOK, Locked, Goto, GotoCancelling, Writing
  <1>0. /\ Owners \subseteq Threads /\ Listeners \subseteq Threads
        /\ None \notin Threads /\ Owners \cap Listeners = {}
    BY DEF Threads, ThreadsAssumption
  <1>1. ASSUME NEW o \in Owners, OwnerMoves(o) PROVE Locked'
    <2>1. CASE Start(o) \/ StartFails(o)
      BY <1>0, <2>1 DEF Start, StartFails
    <2>2. CASE StopJoins(o)
      BY <1>0, <2>2 DEF StopJoins
    <2>3. CASE StopHasNoThread(o)
      BY <1>0, <2>3 DEF StopHasNoThread
    <2>4. CASE Joined(o)
      BY <1>0, <2>4 DEF Joined
    <2>5. CASE StopClears(o)
      BY <1>0, <2>5 DEF StopClears
    <2> QED BY <1>1, <2>1, <2>2, <2>3, <2>4, <2>5 DEF OwnerMoves
  <1>2. ASSUME NEW l \in Listeners, ListenerMoves(l) PROVE Locked'
    <2>1. CASE Closes(l)
      BY <1>0, <2>1 DEF Closes
    <2>2. CASE StopOnListener(l)
      BY <1>0, <2>2 DEF StopOnListener
    <2>3. CASE CreateNamedPipe(l)
      BY <1>0, <2>3 DEF CreateNamedPipe, Step
    <2>4. CASE ListenerFails(l) \/ ResetFault(l) \/ Publish(l) \/ Unpublish(l)
      BY <1>0, <2>4 DEF ListenerFails, ResetFault, Publish, Unpublish
    <2> QED BY <1>2, <2>1, <2>2, <2>3, <2>4 DEF ListenerMoves
  <1>3. ASSUME NEW t \in Threads, ThreadMoves(t) PROVE Locked'
    <2>1. CASE Roams(t)
      BY <1>0, <2>1 DEF Roams, Busy
    <2>2. CASE StopSignals(t)
      BY <1>0, <2>2 DEF StopSignals
    <2>3. CASE WriteFile(t)
      BY <1>0, <2>3 DEF WriteFile
    <2>4. CASE WriteCompletes(t)
      BY <1>0, <2>4 DEF WriteCompletes, Responded, AfterResponse
    <2>5. CASE WriteEnds(t) \/ Fault(t)
      BY <1>0, <2>5 DEF WriteEnds, Fault
    <2>6. CASE Kick(t)
      BY <1>0, <2>6, KickMoves DEF Kick
    <2> QED BY <1>3, <2>1, <2>2, <2>3, <2>4, <2>5, <2>6 DEF ThreadMoves
  <1> QED BY <1>1, <1>2, <1>3 DEF Moves

LEMMA PlacedStep ==
    ASSUME IInv, ThreadsAssumption, Moves
    PROVE  Placed'
  <1> USE DEF IInv, TypeOK, Placed, Goto, Writing
  <1>0. /\ Owners \subseteq Threads /\ Listeners \subseteq Threads
        /\ None \notin Threads /\ Owners \cap Listeners = {}
    BY DEF Threads, ThreadsAssumption
  <1>1. ASSUME NEW o \in Owners, OwnerMoves(o) PROVE Placed'
    <2>1. CASE Start(o) \/ StartFails(o)
      BY <1>0, <2>1 DEF Start, StartFails
    <2>2. CASE StopJoins(o)
      BY <1>0, <2>2, Cancelling DEF StopJoins
    <2>3. CASE StopHasNoThread(o)
      BY <1>0, <2>3, Cancelling DEF StopHasNoThread
    <2>4. CASE Joined(o)
      BY <1>0, <2>4 DEF Joined
    <2>5. CASE StopClears(o)
      BY <1>0, <2>5 DEF StopClears
    <2> QED BY <1>1, <2>1, <2>2, <2>3, <2>4, <2>5 DEF OwnerMoves
  <1>2. ASSUME NEW l \in Listeners, ListenerMoves(l) PROVE Placed'
    <2>1. CASE Closes(l)
      BY <1>0, <2>1 DEF Closes
    <2>2. CASE StopOnListener(l)
      BY <1>0, <2>2, Cancelling DEF StopOnListener
    <2>3. CASE CreateNamedPipe(l)
      BY <1>0, <2>3 DEF CreateNamedPipe, Step
    <2>4. CASE ListenerFails(l) \/ ResetFault(l) \/ Publish(l) \/ Unpublish(l)
      BY <1>0, <2>4 DEF ListenerFails, ResetFault, Publish, Unpublish
    <2> QED BY <1>2, <2>1, <2>2, <2>3, <2>4 DEF ListenerMoves
  <1>3. ASSUME NEW t \in Threads, ThreadMoves(t) PROVE Placed'
    <2>1. CASE Roams(t)
      BY <1>0, <2>1 DEF Roams, Busy
    <2>2. CASE StopSignals(t)
      BY <1>0, <2>2 DEF StopSignals
    <2>3. CASE WriteFile(t)
      BY <1>0, <2>3 DEF WriteFile
    <2>4. CASE WriteCompletes(t)
      BY <1>0, <2>4 DEF WriteCompletes, Responded, AfterResponse
    <2>5. CASE WriteEnds(t) \/ Fault(t)
      BY <1>0, <2>5 DEF WriteEnds, Fault
    <2>6. CASE Kick(t)
      <3>1. /\ at'[t] = IF t \in Owners THEN "idle" ELSE "unpublish"
            /\ \A u \in Threads \ {t} :
                 at'[u] = at[u] \/ (u \in Listeners /\ at'[u] = "aborted")
        BY <2>6, KickMoves
      <3> QED BY <1>0, <3>1
    <2> QED BY <1>3, <2>1, <2>2, <2>3, <2>4, <2>5, <2>6 DEF ThreadMoves
  <1> QED BY <1>1, <1>2, <1>3 DEF Moves

-----------------------------------------------------------------------------
(* Who owns the listener *)

(* Nothing changes hands when threads move between other places.             *)
LEMMA OwnedKept ==
    ASSUME TypeOK, Owned, ThreadsAssumption,
           UNCHANGED <<stopping, listenerThread, stopEvent, joins>>,
           running' \in {running, FALSE},
           \A u \in Threads :
               \/ at'[u] = at[u]
               \/ /\ at[u] \notin {"cancel", "clear", "join"}
                  /\ at'[u] \notin {"cancel", "clear", "join"}
                  /\ u \in Listeners => Alive(u) /\ at'[u] # "none"
    PROVE  Owned'
  <1> USE DEF Owned, Alive
  <1>0. Owners \subseteq Threads /\ Listeners \subseteq Threads /\ None \notin Listeners
    BY DEF Threads, ThreadsAssumption
  <1>1. /\ \A o \in Owners : \A place \in {"join", "clear"} :
             at'[o] = place <=> at[o] = place
        /\ \A t \in Threads : at'[t] = "cancel" <=> at[t] = "cancel"
        /\ \A l \in Listeners : Alive(l)' => Alive(l)
        /\ \A l \in Listeners : at[l] # "none" => at'[l] # "none"
    BY <1>0
  <1>2. running' => running
    OBVIOUS
  <1>3. listenerThread \in Listeners \cup {None}
    BY DEF TypeOK
  <1>4. \A l \in Listeners : Alive(l)' =>
          /\ stopEvent' = l
          /\ \/ listenerThread' = l
             \/ \E o \in Owners : at'[o] = "join" /\ joins'[o] = l
    BY <1>0, <1>1
  <1>5. listenerThread' # None =>
          /\ ~stopping' /\ stopEvent' = listenerThread'
          /\ at'[listenerThread'] # "none"
    BY <1>1, <1>3
  <1>6. /\ running' => listenerThread' # None
        /\ \A t \in Threads : at'[t] = "cancel" => ~running' /\ ~stopping'
    BY <1>1, <1>2
  <1>7. /\ \A o \in Owners : at'[o] = "join" => stopping' /\ joins'[o] = stopEvent'
        /\ stopEvent' = None => \A o \in Owners : at'[o] # "join"
    BY <1>1
  <1>8. /\ \A o, q \in Owners :
             at'[o] = "join" /\ at'[q] \in {"join", "clear"} => o = q
        /\ \A o \in Owners : at'[o] = "clear" => ~running' /\ listenerThread' = None
    BY <1>1, <1>2
  <1> QED BY <1>4, <1>5, <1>6, <1>7, <1>8

LEMMA OwnedStep ==
    ASSUME IInv, ThreadsAssumption, Moves
    PROVE  Owned'
  <1> USE DEF IInv, TypeOK, Locked, Placed, Owned, Alive, Goto, Writing
  <1>0. /\ Owners \subseteq Threads /\ Listeners \subseteq Threads
        /\ None \notin Threads /\ Owners \cap Listeners = {}
    BY DEF Threads, ThreadsAssumption
  <1>1. ASSUME NEW o \in Owners, OwnerMoves(o) PROVE Owned'
    <2>1. CASE Start(o)
      <3>0. listenerThread = None /\ \A q \in Owners : at[q] # "join"
        BY <2>1 DEF Start, Startable
      <3>1. \A l \in Listeners : ~Alive(l)
        BY <1>0, <3>0 DEF ThreadsAssumption
      <3>2. PICK l \in Listeners : Start(o)!(l)
        BY <2>1 DEF Start
      <3> QED BY <1>0, <3>1, <3>2 DEF Startable
    <2>2. CASE StartFails(o)
      BY <1>0, <2>2 DEF StartFails, Startable
    <2>3. CASE StopJoins(o)
      BY <1>0, <2>3, Cancelling DEF StopJoins
    <2>4. CASE StopHasNoThread(o)
      BY <1>0, <2>4, Cancelling DEF StopHasNoThread, lifecycle
    <2>5. CASE Joined(o)
      BY <1>0, <2>5 DEF Joined
    <2>6. CASE StopClears(o)
      BY <1>0, <2>6 DEF StopClears
    <2> QED BY <1>1, <2>1, <2>2, <2>3, <2>4, <2>5, <2>6 DEF OwnerMoves
  <1>2. ASSUME NEW l \in Listeners, ListenerMoves(l) PROVE Owned'
    <2>1. CASE Closes(l)
      <3>1. PICK to \in {"top", "thrown", "ended"} : at' = [at EXCEPT ![l] = to]
        BY <2>1 DEF Closes
      <3>2. /\ UNCHANGED <<stopping, listenerThread, stopEvent, joins>>
            /\ running' \in {running, FALSE}
            /\ at[l] \in {"create", "connect", "accepted", "disconnect"}
        BY <2>1 DEF Closes
      <3>3. \A u \in Threads : at'[u] = IF u = l THEN to ELSE at[u]
        BY <3>1
      <3> HIDE DEF Owned
      <3> QED BY <1>0, <3>2, <3>3, OwnedKept
    <2>2. CASE StopOnListener(l)
      BY <1>0, <2>2, Cancelling DEF StopOnListener, lifecycle
    <2>3. CASE CreateNamedPipe(l)
      BY <1>0, <2>3 DEF CreateNamedPipe, Step, lifecycle
    <2>4. CASE ListenerFails(l) \/ ResetFault(l) \/ Publish(l) \/ Unpublish(l)
      BY <1>0, <2>4 DEF ListenerFails, ResetFault, Publish, Unpublish, lifecycle
    <2> QED BY <1>2, <2>1, <2>2, <2>3, <2>4 DEF ListenerMoves
  <1>3. ASSUME NEW t \in Threads, ThreadMoves(t) PROVE Owned'
    <2>1. CASE Roams(t)
      <3>1. PICK to \in Places :
              /\ at' = [at EXCEPT ![t] = to]
              /\ at[t] \notin {"cancel", "clear", "join"}
              /\ to \notin {"cancel", "clear", "join"}
              /\ t \in Listeners => at[t] \notin {"none", "ended"} /\ to # "none"
        BY <2>1 DEF Roams, Busy
      <3>2. /\ UNCHANGED <<stopping, listenerThread, stopEvent, joins>>
            /\ running' \in {running, FALSE}
        BY <2>1 DEF Roams, Busy
      <3>3. \A u \in Threads : at'[u] = IF u = t THEN to ELSE at[u]
        BY <3>1
      <3> HIDE DEF Owned
      <3> QED BY <1>0, <3>1, <3>2, <3>3, OwnedKept
    <2>2. CASE StopSignals(t)
      BY <1>0, <2>2 DEF StopSignals
    <2>3. CASE WriteFile(t)
      BY <1>0, <2>3 DEF WriteFile, lifecycle
    <2>4. CASE WriteCompletes(t)
      BY <1>0, <2>4 DEF WriteCompletes, Responded, AfterResponse, lifecycle
    <2>5. CASE WriteEnds(t) \/ Fault(t)
      BY <1>0, <2>5 DEF WriteEnds, Fault, lifecycle
    <2>6. CASE Kick(t)
      <3>1. /\ at[t] = "kick" /\ at'[t] \in {"idle", "unpublish"}
            /\ \A u \in Threads \ {t} :
                 at'[u] = at[u] \/ (at[u] = "read" /\ at'[u] = "aborted")
        BY <2>6, KickMoves DEF Kick
      <3>2. UNCHANGED lifecycle
        BY <2>6 DEF Kick
      <3> QED BY <1>0, <3>1, <3>2 DEF lifecycle
    <2> QED BY <1>3, <2>1, <2>2, <2>3, <2>4, <2>5, <2>6 DEF ThreadMoves
  <1> QED BY <1>1, <1>2, <1>3 DEF Moves

-----------------------------------------------------------------------------
(* The alias and the flag *)

(* One listener is alive at most.                                            *)
LEMMA OneListener ==
    ASSUME Owned, NEW l \in Listeners, NEW m \in Listeners, Alive(l), Alive(m)
    PROVE  l = m
  BY DEF Owned

(* The places of a listener as far as its pipe goes.                         *)
Alike(u, v) ==
    /\ u \in Serving <=> v \in Serving
    /\ u \in Holding <=> v \in Holding
    /\ u = "publish" => v = "publish"
    /\ u \in {"connect", "accepted", "reset"} => v \in {"connect", "accepted"} \cup {u}

(* Where a step leaves the pipes alone.                                      *)
Neutral ==
    /\ \A l \in Listeners : Alike(at'[l], at[l])
    /\ \A t \in Threads : at'[t] \in Writing => at[t] \in Writing \/ hCurrentPipe # None

LEMMA NeutralSteps ==
    ASSUME TypeOK, ThreadsAssumption, Moves
    PROVE  \/ Neutral /\ UNCHANGED <<hCurrentPipe, pipe, served>>
           \/ \E o \in Owners : StopClears(o)
           \/ \E l \in Listeners : \/ Closes(l) \/ CreateNamedPipe(l)
                                    \/ ListenerFails(l) \/ ResetFault(l)
                                    \/ Publish(l) \/ Unpublish(l)
  <1> DEFINE Kept == UNCHANGED <<hCurrentPipe, pipe, served>>
  <1> USE DEF TypeOK, Goto
  <1>0. /\ Owners \subseteq Threads /\ Listeners \subseteq Threads
        /\ Owners \cap Listeners = {}
    BY DEF Threads, ThreadsAssumption
  <1>1. ASSUME NEW t \in Threads, NEW place, at' = [at EXCEPT ![t] = place],
               t \in Listeners => Alike(place, at[t]),
               place \in Writing => at[t] \in Writing \/ hCurrentPipe # None
        PROVE  Neutral
    <2>1. \A u \in Threads : at'[u] = IF u = t THEN place ELSE at[u]
      BY <1>1
    <2> QED BY <1>0, <1>1, <2>1 DEF Neutral, Alike
  <1>2. ASSUME NEW t \in Threads, NEW place, GotoCancelling(t, place),
               t \in Listeners => Alike(place, at[t]), place \notin Writing
        PROVE  Neutral
    <2>1. /\ at'[t] = place
          /\ \A u \in Threads \ {t} :
                at'[u] = at[u] \/ (at[u] = "read" /\ at'[u] = "aborted")
      BY <1>2, Cancelling
    <2>2. Alike("aborted", "read") /\ "aborted" \notin Writing
      BY DEF Alike, Serving, Holding, Writing
    <2>3. \A u \in Threads \ {t} : Alike(at'[u], at[u])
      BY <2>1, <2>2 DEF Alike
    <2> QED BY <1>0, <1>2, <2>1, <2>2, <2>3 DEF Neutral
  <1>3. ASSUME NEW o \in Owners, OwnerMoves(o)
        PROVE  StopClears(o) \/ (Neutral /\ Kept)
    <2> USE DEF Writing
    <2>1. CASE Start(o)
      <3>1. PICK l \in Listeners : Start(o)!(l)
        BY <2>1 DEF Start
      <3>2. Alike("top", "none")
        BY DEF Alike, Serving, Holding
      <3> QED BY <1>0, <1>1, <3>1, <3>2 DEF session
    <2>2. CASE StartFails(o)
      BY <2>2 DEF StartFails, Neutral, Alike, session
    <2>3. CASE StopJoins(o) \/ StopHasNoThread(o)
      BY <1>0, <1>2, <2>3 DEF StopJoins, StopHasNoThread, response, session
    <2>4. CASE Joined(o)
      <3>1. at' = [at EXCEPT ![o] = "clear"] /\ Kept
        BY <2>4 DEF Joined, response, session
      <3>2. "clear" \notin Writing /\ o \in Threads /\ o \notin Listeners
        BY <1>0
      <3>3. Neutral
        <4> HIDE DEF Writing
        <4> QED BY <1>1, <3>1, <3>2
      <3> HIDE DEF Kept, TypeOK, Writing
      <3> QED BY <3>1, <3>3
    <2> QED BY <1>3, <2>1, <2>2, <2>3, <2>4 DEF OwnerMoves
  <1>4. ASSUME NEW l \in Listeners, StopOnListener(l)
        PROVE  Neutral /\ Kept
    <2>1. Alike("send", "cancel") /\ "send" \notin Writing
      BY DEF Alike, Serving, Holding, Writing
    <2> QED BY <1>0, <1>2, <1>4, <2>1 DEF StopOnListener, response, session
  <1>5. ASSUME NEW t \in Threads, ThreadMoves(t)
        PROVE  Neutral /\ Kept
    <2>1. CASE Roams(t)
      <3>1. PICK to \in Places :
              /\ at' = [at EXCEPT ![t] = to]
              /\ to \notin Writing
              /\ t \in Listeners => Alike(to, at[t])
        BY <2>1 DEF Roams, Alike, Busy
      <3> QED BY <1>1, <2>1, <3>1 DEF Roams, response
    <2>2. /\ Alike("cancel", "stop") /\ Alike("write", "send")
          /\ Alike("fault", "write") /\ Alike("kick", "fault")
          /\ "cancel" \notin Writing
      BY DEF Alike, Serving, Holding, Writing
    <2>3. CASE StopSignals(t)
      BY <1>1, <2>2, <2>3 DEF StopSignals, response, session
    <2>4. CASE WriteFile(t)
      BY <1>1, <2>2, <2>4 DEF WriteFile, response, session
    <2>5. CASE WriteCompletes(t)
      <3>1. /\ at' = [at EXCEPT ![t] = AfterResponse(t, TRUE)]
            /\ at[t] = "write" /\ Kept
        BY <2>5 DEF WriteCompletes, Responded, response
      <3>2. /\ AfterResponse(t, TRUE) \notin Writing
            /\ t \in Listeners => Alike(AfterResponse(t, TRUE), "write")
        BY <1>0 DEF AfterResponse, Alike, Serving, Holding, Writing
      <3> QED BY <1>1, <3>1, <3>2
    <2>6. CASE WriteEnds(t)
      BY <1>1, <2>2, <2>6 DEF WriteEnds, response, session, Writing
    <2>7. CASE Fault(t)
      BY <1>1, <2>2, <2>7 DEF Fault, session, Writing
    <2>8. CASE Kick(t)
      <3>1. /\ AfterResponse(t, FALSE) \notin Writing
            /\ t \in Listeners => Alike(AfterResponse(t, FALSE), "kick")
        BY <1>0 DEF AfterResponse, Alike, Serving, Holding, Writing
      <3> QED BY <1>2, <2>8, <3>1 DEF Kick, response, session
    <2> QED BY <1>5, <2>1, <2>3, <2>4, <2>5, <2>6, <2>7, <2>8 DEF ThreadMoves
  <1> QED BY <1>3, <1>4, <1>5 DEF Moves, ListenerMoves

(* The alias stays right.                                                    *)
LEMMA AliasedStep ==
    ASSUME IInv, ThreadsAssumption, Moves
    PROVE  Aliased'
  <1> USE DEF IInv, TypeOK, Goto
  <1>0. /\ Owners \subseteq Threads /\ Listeners \subseteq Threads
        /\ None \notin Threads \cup Pipes /\ Owners \cap Listeners = {}
    BY DEF Threads, ThreadsAssumption
  <1>1. CASE Neutral /\ UNCHANGED <<hCurrentPipe, pipe, served>>
    BY <1>0, <1>1 DEF Neutral, Alike, Aliased
  <1>2. ASSUME NEW o \in Owners, StopClears(o) PROVE Aliased'
    <2>1. at[o] = "clear" /\ writeMutex = None
      BY <1>2 DEF StopClears
    <2>2. \A l \in Listeners : ~Alive(l)
      <3>1. listenerThread = None /\ \A q \in Owners : at[q] # "join"
        BY <2>1 DEF Owned
      <3> HIDE DEF TypeOK
      <3> QED BY <1>0, <3>1 DEF Owned
    <2>3. \A t \in Threads : at[t] \notin Writing
      BY <1>0, <2>1 DEF Locked
    <2>4. at' = [at EXCEPT ![o] = "idle"] /\ UNCHANGED <<pipe, served>>
      BY <1>2 DEF StopClears, session
    <2>5. \A l \in Listeners : at'[l] \notin Serving
      BY <1>0, <2>2, <2>4 DEF Alive, Serving
    <2>6. \A t \in Threads : at'[t] \notin Writing
      BY <2>3, <2>4 DEF Writing
    <2>7. hCurrentPipe' = None
      BY <1>2 DEF StopClears
    <2>8. \A l \in Listeners : at'[l] = at[l]
      BY <1>0, <2>4
    <2> QED BY <2>4, <2>5, <2>6, <2>7, <2>8 DEF Aliased
  <1>3. ASSUME NEW l \in Listeners, NEW place, at' = [at EXCEPT ![l] = place]
        PROVE  at'[l] = place /\ \A t \in Threads \ {l} : at'[t] = at[t]
    BY <1>0, <1>3
  <1>4. ASSUME NEW l \in Listeners, Alive(l), NEW m \in Listeners, m # l
        PROVE  at[m] \notin Holding /\ pipe[m] = None
    <2>1. ~Alive(m)
      BY <1>4, OneListener
    <2>2. at[m] \notin Holding
      BY <2>1 DEF Alive, Holding, Serving
    <2> QED BY <2>2 DEF Aliased
  <1>5. ASSUME NEW l \in Listeners, Closes(l) PROVE Aliased'
    <2>1. PICK to \in {"top", "thrown", "ended"} : at' = [at EXCEPT ![l] = to]
      BY <1>5 DEF Closes
    <2>2. at[l] \notin Serving /\ to \notin Holding /\ to \notin Writing
      BY <1>5 DEF Closes, Serving, Holding, Writing
    <2>3. Serving \subseteq Holding
      BY DEF Holding
    <2>4. pipe' = [pipe EXCEPT ![l] = None] /\ UNCHANGED <<hCurrentPipe, served>>
      BY <1>5 DEF Closes, response
    <2> QED BY <1>0, <1>3, <2>1, <2>2, <2>3, <2>4 DEF Aliased
  <1>6. ASSUME NEW l \in Listeners, CreateNamedPipe(l) PROVE Aliased'
    <2>1. PICK p \in Pipes \ served : CreateNamedPipe(l)!(p)
      BY <1>6 DEF CreateNamedPipe
    <2>2. /\ at[l] = "create" /\ at' = [at EXCEPT ![l] = "connect"]
          /\ UNCHANGED hCurrentPipe
      BY <2>1 DEF Step, response
    <2>3. "connect" \in Holding /\ "connect" \notin Serving \cup Writing
          /\ "create" \notin Serving
      BY DEF Holding, Serving, Writing
    <2> QED BY <1>0, <1>3, <2>1, <2>2, <2>3 DEF Aliased
  <1>7. ASSUME NEW l \in Listeners, ListenerFails(l) PROVE Aliased'
    <2>1. /\ at[l] = "thrown" /\ writeMutex = None
          /\ at' = [at EXCEPT ![l] = "ended"]
          /\ hCurrentPipe' = None /\ UNCHANGED <<pipe, served>>
      BY <1>7 DEF ListenerFails, session
    <2>2. /\ "thrown" \notin Holding /\ "ended" \notin Holding
          /\ "ended" \notin Writing /\ Serving \subseteq Holding
          /\ Alive(l)
      BY <2>1 DEF Holding, Serving, Writing, Alive
    <2>3. \A t \in Threads : at[t] \notin Writing
      BY <1>0, <2>1 DEF Locked
    <2>4. \A m \in Listeners : at'[m] \notin Serving
      BY <1>0, <1>3, <1>4, <2>1, <2>2
    <2> QED BY <1>0, <1>3, <2>1, <2>2, <2>3, <2>4 DEF Aliased
  <1>8. ASSUME NEW l \in Listeners, ResetFault(l) PROVE Aliased'
    <2>1. /\ at[l] = "reset" /\ at' = [at EXCEPT ![l] = "publish"]
          /\ UNCHANGED <<hCurrentPipe, pipe, served>>
      BY <1>8 DEF ResetFault, session
    <2>2. /\ "publish" \in Holding /\ "reset" \in Holding
          /\ "reset" \notin Serving /\ "publish" \notin Serving \cup Writing
      BY DEF Holding, Serving, Writing
    <2> QED BY <1>0, <1>3, <2>1, <2>2 DEF Aliased
  <1>9. ASSUME NEW l \in Listeners, Publish(l) PROVE Aliased'
    <2>1. /\ at[l] = "publish" /\ at' = [at EXCEPT ![l] = "loop"]
          /\ writeMutex = None
          /\ hCurrentPipe' = pipe[l] /\ UNCHANGED <<pipe, served>>
      BY <1>9 DEF Publish
    <2>2. /\ "publish" \in Holding /\ "loop" \in Serving /\ "loop" \notin Writing
          /\ Serving \subseteq Holding /\ Alive(l)
      BY <2>1 DEF Holding, Serving, Writing, Alive
    <2>3. \A t \in Threads : at[t] \notin Writing
      BY <1>0, <2>1 DEF Locked
    <2>4. \A m \in Listeners \ {l} : at'[m] \notin Serving
      BY <1>0, <1>3, <1>4, <2>1, <2>2
    <2> QED BY <1>0, <1>3, <2>1, <2>2, <2>3, <2>4 DEF Aliased
  <1>10. ASSUME NEW l \in Listeners, Unpublish(l) PROVE Aliased'
    <2>1. /\ at[l] = "unpublish" /\ at' = [at EXCEPT ![l] = "disconnect"]
          /\ writeMutex = None
          /\ hCurrentPipe' = IF hCurrentPipe = pipe[l] THEN None ELSE hCurrentPipe
          /\ UNCHANGED <<pipe, served>>
      BY <1>10 DEF Unpublish, session
    <2>2. /\ "unpublish" \in Serving /\ "disconnect" \in Holding
          /\ "disconnect" \notin Serving \cup Writing
          /\ Serving \subseteq Holding /\ Alive(l)
      BY <2>1 DEF Holding, Serving, Writing, Alive
    <2>3. \A t \in Threads : at[t] \notin Writing
      BY <1>0, <2>1 DEF Locked
    <2>4. hCurrentPipe' = None
      BY <2>1, <2>2 DEF Aliased
    <2>5. \A m \in Listeners : at'[m] \notin Serving
      BY <1>0, <1>3, <1>4, <2>1, <2>2
    <2> QED BY <1>0, <1>3, <2>1, <2>2, <2>3, <2>4, <2>5 DEF Aliased
  <1> QED
    BY <1>1, <1>2, <1>5, <1>6, <1>7, <1>8, <1>9, <1>10, NeutralSteps

(* Who touches the flag.                                                     *)
LEMMA FlagSteps ==
    ASSUME Moves
    PROVE  \/ UNCHANGED <<connectionFaulted, faultedOn>>
           \/ \E o \in Owners : Start(o) \/ StartFails(o)
           \/ \E l \in Listeners : ResetFault(l)
           \/ \E t \in Threads : Fault(t)
  <1> DEFINE Same == UNCHANGED <<connectionFaulted, faultedOn>>
  <1>1. ASSUME NEW o \in Owners, OwnerMoves(o)
        PROVE  Same \/ Start(o) \/ StartFails(o)
    BY <1>1 DEF OwnerMoves, StopJoins, StopHasNoThread, Joined, StopClears, response
  <1>2. ASSUME NEW l \in Listeners, ListenerMoves(l)
        PROVE  Same \/ ResetFault(l)
    BY <1>2
      DEF ListenerMoves, Closes, StopOnListener, CreateNamedPipe, Step,
          ListenerFails, Publish, Unpublish, response
  <1>3. ASSUME NEW t \in Threads, ThreadMoves(t)
        PROVE  Same \/ Fault(t)
    BY <1>3
      DEF ThreadMoves, Roams, StopSignals, WriteFile, WriteCompletes, WriteEnds,
          Kick, response
  <1> QED BY <1>1, <1>2, <1>3 DEF Moves

(* The flag stays right.                                                     *)
LEMMA FlaggedStep ==
    ASSUME IInv, ThreadsAssumption, Moves
    PROVE  Flagged'
  <1> USE DEF IInv, TypeOK, Goto
  <1>0. /\ Owners \subseteq Threads /\ Listeners \subseteq Threads
        /\ None \notin Threads \cup Pipes /\ Owners \cap Listeners = {}
    BY DEF Threads, ThreadsAssumption
  <1>1. ASSUME NEW l \in Listeners, NEW place, at' = [at EXCEPT ![l] = place]
        PROVE  at'[l] = place /\ \A t \in Threads \ {l} : at'[t] = at[t]
    BY <1>0, <1>1
  <1>2. ASSUME NEW l \in Listeners, Alive(l), NEW m \in Listeners, m # l
        PROVE  /\ at[m] \notin Serving
               /\ at[m] \notin {"connect", "accepted", "reset", "publish"}
    <2>1. ~Alive(m)
      BY <1>2, OneListener
    <2> QED BY <2>1 DEF Alive, Serving
  <1>3. CASE \E o \in Owners : Start(o) \/ StartFails(o)
    <2>1. PICK o \in Owners : Start(o) \/ StartFails(o)
      BY <1>3
    <2>2. listenerThread = None /\ \A q \in Owners : at[q] # "join"
      BY <2>1 DEF Start, StartFails, Startable, Owned
    <2>3. \A l \in Listeners : ~Alive(l)
      <3> HIDE DEF TypeOK
      <3> QED BY <1>0, <2>2 DEF Owned
    <2>4. \A l \in Listeners : at'[l] = at[l] \/ at'[l] = "top"
      BY <1>0, <2>1 DEF Start, StartFails
    <2>5. UNCHANGED <<faultedOn, served>>
      BY <2>1 DEF Start, StartFails, session
    <2>6. \A l \in Listeners :
             /\ at'[l] \notin Serving
             /\ at'[l] \notin {"connect", "accepted", "reset", "publish"}
      BY <2>3, <2>4 DEF Alive, Serving
    <2> QED BY <2>5, <2>6 DEF Flagged
  <1>4. ASSUME NEW l \in Listeners, ResetFault(l) PROVE Flagged'
    <2>1. /\ at[l] = "reset" /\ at' = [at EXCEPT ![l] = "publish"]
          /\ ~connectionFaulted' /\ UNCHANGED <<faultedOn, pipe, served>>
      BY <1>4 DEF ResetFault, session
    <2>2. "publish" \notin Serving /\ Alive(l)
      BY <2>1 DEF Serving, Alive
    <2>3. \A m \in Listeners \ {l} :
             /\ at'[m] \notin Serving
             /\ at'[m] \notin {"connect", "accepted", "reset", "publish"}
      BY <1>0, <1>1, <1>2, <2>1, <2>2
    <2> QED BY <1>1, <2>1, <2>2, <2>3 DEF Flagged
  <1>5. ASSUME NEW t \in Threads, Fault(t) PROVE Flagged'
    <2>1. /\ at[t] = "fault" /\ at' = [at EXCEPT ![t] = "kick"]
          /\ connectionFaulted' = TRUE /\ faultedOn' = hCurrentPipe
          /\ UNCHANGED <<pipe, served>>
      BY <1>5 DEF Fault, session
    <2>2. hCurrentPipe # None
      BY <2>1 DEF Aliased, Writing
    <2>3. PICK l \in Listeners : at[l] \in Serving /\ pipe[l] = hCurrentPipe
      BY <2>2 DEF Aliased
    <2>4. Alive(l) /\ "kick" \in Serving /\ "fault" \in Serving
      BY <2>3 DEF Serving, Alive
    <2>5. \A m \in Listeners : at'[m] = at[m] \/ (at[m] = "fault" /\ at'[m] = "kick")
      BY <1>0, <2>1
    <2>6. \A m \in Listeners \ {l} :
             /\ at'[m] \notin Serving
             /\ at'[m] \notin {"connect", "accepted", "reset", "publish"}
      BY <1>2, <2>4, <2>5
    <2>7. at'[l] \notin {"connect", "accepted", "reset", "publish"}
      BY <2>3, <2>5 DEF Serving
    <2>8. faultedOn' \in served' \cup {None}
      BY <2>1, <2>2, <2>3 DEF Aliased
    <2> QED BY <2>1, <2>2, <2>3, <2>6, <2>7, <2>8 DEF Flagged
  <1>6. ASSUME UNCHANGED <<connectionFaulted, faultedOn>> PROVE Flagged'
    <2>1. CASE Neutral /\ UNCHANGED <<hCurrentPipe, pipe, served>>
      BY <1>6, <2>1 DEF Neutral, Alike, Flagged
    <2>2. ASSUME NEW o \in Owners, StopClears(o) PROVE Flagged'
      <3>1. /\ \A l \in Listeners : at'[l] = at[l]
            /\ UNCHANGED <<pipe, served>>
        BY <1>0, <2>2 DEF StopClears, session
      <3> QED BY <1>6, <3>1 DEF Flagged
    <2>3. ASSUME NEW l \in Listeners, Closes(l) PROVE Flagged'
      <3>1. PICK to \in {"top", "thrown", "ended"} : at' = [at EXCEPT ![l] = to]
        BY <2>3 DEF Closes
      <3>2. pipe' = [pipe EXCEPT ![l] = None] /\ UNCHANGED served
        BY <2>3 DEF Closes
      <3>3. to \notin Serving
        BY DEF Serving
      <3> QED BY <1>0, <1>1, <1>6, <3>1, <3>2, <3>3 DEF Flagged
    <2>4. ASSUME NEW l \in Listeners, CreateNamedPipe(l) PROVE Flagged'
      <3>1. PICK p \in Pipes \ served : CreateNamedPipe(l)!(p)
        BY <2>4 DEF CreateNamedPipe
      <3>2. at' = [at EXCEPT ![l] = "connect"] /\ "connect" \notin Serving
        BY <3>1 DEF Step, Serving
      <3> QED BY <1>0, <1>1, <1>6, <3>1, <3>2 DEF Flagged
    <2>5. ASSUME NEW l \in Listeners, NEW place, at' = [at EXCEPT ![l] = place],
                 place \notin Serving,
                 place \notin {"connect", "accepted", "reset", "publish"},
                 UNCHANGED <<pipe, served>>
          PROVE  Flagged'
      BY <1>0, <1>1, <1>6, <2>5 DEF Flagged
    <2>6. ASSUME NEW l \in Listeners, ListenerFails(l) \/ Unpublish(l)
          PROVE  Flagged'
      <3>1. "ended" \notin Serving /\ "disconnect" \notin Serving
        BY DEF Serving
      <3> QED BY <2>5, <2>6, <3>1 DEF ListenerFails, Unpublish, session
    <2>7. ASSUME NEW l \in Listeners, Publish(l) PROVE Flagged'
      <3>1. /\ at[l] = "publish" /\ at' = [at EXCEPT ![l] = "loop"]
            /\ UNCHANGED <<pipe, served>>
        BY <2>7 DEF Publish
      <3>2. ~connectionFaulted /\ faultedOn # pipe[l]
        BY <3>1 DEF Flagged
      <3> QED BY <1>0, <1>1, <1>6, <3>1, <3>2 DEF Flagged
    <2> QED BY <1>4, <2>1, <2>2, <2>3, <2>4, <2>6, <2>7, NeutralSteps
  <1> QED BY <1>3, <1>4, <1>5, <1>6, FlagSteps

-----------------------------------------------------------------------------
(* The invariant *)

LEMMA InvariantInit == Init /\ ThreadsAssumption => IInv
  <1> SUFFICES ASSUME Init, ThreadsAssumption PROVE IInv
    OBVIOUS
  <1>1. /\ Owners \subseteq Threads /\ Listeners \subseteq Threads
        /\ None \notin Threads /\ Owners \cap Listeners = {}
    BY DEF Threads, ThreadsAssumption
  <1>2. /\ \A o \in Owners : at[o] = "idle"
        /\ \A l \in Listeners : at[l] = "none"
        /\ \A t \in Threads : at[t] \in {"idle", "none"}
    BY <1>1 DEF Init
  <1>3. /\ Serving \cap {"idle", "none"} = {} /\ Holding \cap {"idle", "none"} = {}
        /\ Writing \cap {"idle", "none"} = {}
    BY DEF Serving, Holding, Writing
  <1>4. TypeOK
    <2>1. 0 \in 0..MaxFrames /\ 0 \in 0..MaxCalls
      BY DEF ThreadsAssumption
    <2>2. "idle" \in Places /\ "none" \in Places
      BY DEF Places
    <2>3. at \in [Threads -> Places]
      BY <2>2 DEF Init
    <2>4. /\ frames \in [Listeners -> 0..MaxFrames]
          /\ errors \in [Listeners -> Nat]
      BY <2>1 DEF Init
    <2> QED BY <2>1, <2>3, <2>4 DEF Init, TypeOK
  <1>5. Locked
    BY <1>1, <1>2, <1>3 DEF Init, Locked
  <1>6. Placed
    BY <1>2 DEF Placed
  <1>7. Owned
    BY <1>1, <1>2 DEF Init, Owned, Alive
  <1>8. Aliased
    BY <1>1, <1>2, <1>3 DEF Init, Aliased
  <1>9. Flagged
    BY <1>2, <1>3 DEF Init, Flagged
  <1> QED BY <1>4, <1>5, <1>6, <1>7, <1>8, <1>9 DEF IInv

LEMMA InvariantStep ==
    ASSUME IInv, ThreadsAssumption, [Next]_vars
    PROVE  IInv'
  <1>1. TypeOK'
    BY TypeStep DEF IInv
  <1>2. CASE Next
    <2>1. Moves
      BY <1>2, Shape DEF IInv
    <2> QED
      BY <1>1, <2>1, LockedStep, PlacedStep, OwnedStep, AliasedStep, FlaggedStep
        DEF IInv
  <1>3. CASE UNCHANGED vars
    <2>1. UNCHANGED <<at, running, stopping, listenerThread, stopEvent, joins,
                      hCurrentPipe, connectionFaulted, faultedOn, lifecycleMutex,
                      writeMutex, pipe, served>>
      BY <1>3 DEF vars, lifecycle, response, session
    <2>2. Locked' /\ Placed'
      BY <2>1 DEF IInv, Locked, Placed
    <2>3. Owned'
      BY <2>1 DEF IInv, Owned, Alive
    <2>4. Aliased' /\ Flagged'
      BY <2>1 DEF IInv, Aliased, Flagged
    <2> QED BY <1>1, <2>2, <2>3, <2>4 DEF IInv
  <1> QED BY <1>2, <1>3

(* Mutexes, thread, event, alias and flag agree with the places of the       *)
(* threads in every reachable state.                                         *)
THEOREM Invariant == Spec => []IInv
  <1>1. Init => IInv
    BY InvariantInit, ThreadsAssumption
  <1>2. IInv /\ [Next]_vars => IInv'
    BY InvariantStep, ThreadsAssumption
  <1> QED BY <1>1, <1>2, PTL DEF Spec

(* A response is never written to a handle that the listener has closed.     *)
THEOREM PipeOutlivesUseAlways == Spec => []PipeOutlivesUse
  <1>1. IInv => PipeOutlivesUse
    BY DEF IInv, Aliased, PipeOutlivesUse
  <1> QED BY <1>1, Invariant, PTL

(* Nobody waits on a stop event that Stop has closed.                        *)
THEOREM EventOutlivesWaitsAlways == Spec => []EventOutlivesWaits
  <1>1. ASSUME IInv, ThreadsAssumption PROVE EventOutlivesWaits
    <2>1. \A l \in Listeners : at[l] \in {"retry", "connect", "read", "write"}
                                   => stopEvent = l
      BY <1>1 DEF IInv, Owned, Alive
    <2>2. ASSUME NEW o \in Owners, at[o] = "write" PROVE stopEvent # None
      <3>1. o \in Threads /\ at[o] \in Writing
        BY <2>2 DEF Threads, Writing
      <3>2. PICK l \in Listeners : at[l] \in Serving
        BY <1>1, <3>1 DEF IInv, Aliased
      <3>3. Alive(l)
        BY <3>2 DEF Alive, Serving
      <3>4. stopEvent = l /\ None \notin Listeners
        BY <1>1, <3>3 DEF IInv, Owned, ThreadsAssumption, Threads
      <3> QED BY <3>4
    <2> QED BY <2>1, <2>2 DEF EventOutlivesWaits
  <1> QED BY <1>1, ThreadsAssumption, Invariant, PTL

(* The failure of one connection never ends another, nor is it forgotten.    *)
THEOREM FaultIsOwnAlways == Spec => []FaultIsOwn
  <1>1. IInv => FaultIsOwn
    BY DEF IInv, Flagged, FaultIsOwn
  <1> QED BY <1>1, Invariant, PTL

(* There is one listener at most, and somebody joins it.                     *)
THEOREM ListenerOwnedAlways == Spec => []ListenerOwned
  <1>1. IInv => ListenerOwned
    BY OneListener DEF IInv, Owned, ListenerOwned
  <1> QED BY <1>1, Invariant, PTL

(* Only the owner itself leaves the last place of Stop.                      *)
LEMMA ClearsOnly ==
    ASSUME TypeOK, Placed, ThreadsAssumption, Next,
           NEW o \in Owners, at[o] = "clear", at'[o] # "clear"
    PROVE  StopClears(o)
  <1> USE DEF TypeOK, Goto
  <1>0. /\ Owners \subseteq Threads /\ Listeners \subseteq Threads
        /\ Owners \cap Listeners = {}
    BY DEF Threads, ThreadsAssumption
  <1>1. Moves
    BY Shape
  <1>2. ASSUME NEW t \in Threads, t # o, NEW place, at' = [at EXCEPT ![t] = place]
        PROVE  FALSE
    BY <1>0, <1>2
  <1>3. ASSUME NEW t \in Threads, t # o, NEW place, GotoCancelling(t, place)
        PROVE  FALSE
    BY <1>0, <1>3, Cancelling
  <1>4. ASSUME NEW q \in Owners, OwnerMoves(q) PROVE StopClears(o)
    <2>1. CASE Start(q)
      BY <1>0, <2>1, <1>2 DEF Start
    <2>2. CASE StartFails(q)
      BY <2>2 DEF StartFails
    <2>3. CASE StopJoins(q) \/ StopHasNoThread(q)
      <3>1. q # o /\ q \in Threads
        BY <1>0, <2>3 DEF StopJoins, StopHasNoThread
      <3> QED BY <1>3, <2>3, <3>1 DEF StopJoins, StopHasNoThread
    <2>4. CASE Joined(q)
      <3>1. q # o /\ q \in Threads
        BY <1>0, <2>4 DEF Joined
      <3> QED BY <1>2, <2>4, <3>1 DEF Joined
    <2>5. CASE StopClears(q)
      BY <1>0, <1>2, <2>5 DEF StopClears
    <2> QED BY <1>4, <2>1, <2>2, <2>3, <2>4, <2>5 DEF OwnerMoves
  <1>5. ASSUME NEW l \in Listeners, ListenerMoves(l) PROVE FALSE
    <2>0. l \in Threads /\ l # o
      BY <1>0
    <2>1. CASE StopOnListener(l)
      BY <1>3, <2>0, <2>1 DEF StopOnListener
    <2>2. CASE Closes(l)
      BY <1>2, <2>0, <2>2 DEF Closes
    <2>3. CASE CreateNamedPipe(l)
      BY <1>2, <2>0, <2>3 DEF CreateNamedPipe, Step
    <2>4. CASE ListenerFails(l) \/ ResetFault(l) \/ Publish(l) \/ Unpublish(l)
      BY <1>2, <2>0, <2>4 DEF ListenerFails, ResetFault, Publish, Unpublish
    <2> QED BY <1>5, <2>1, <2>2, <2>3, <2>4 DEF ListenerMoves
  <1>6. ASSUME NEW t \in Threads, ThreadMoves(t) PROVE FALSE
    <2>1. CASE Roams(t)
      BY <1>2, <2>1 DEF Roams, Busy
    <2>2. CASE StopSignals(t)
      BY <1>2, <2>2 DEF StopSignals
    <2>3. CASE WriteFile(t)
      BY <1>2, <2>3 DEF WriteFile
    <2>4. CASE WriteCompletes(t)
      BY <1>2, <2>4 DEF WriteCompletes, Responded
    <2>5. CASE WriteEnds(t) \/ Fault(t)
      BY <1>2, <2>5 DEF WriteEnds, Fault
    <2>6. CASE Kick(t)
      BY <1>3, <2>6 DEF Kick
    <2> QED BY <1>6, <2>1, <2>2, <2>3, <2>4, <2>5, <2>6 DEF ThreadMoves
  <1> QED BY <1>1, <1>4, <1>5, <1>6 DEF Moves

(* When Stop has joined nothing of the framework is left running.            *)
THEOREM StopFinishesAlways == Spec => StopFinishes
  <1> DEFINE Finishes ==
               \A o \in Owners : at[o] = "clear" /\ at'[o] = "idle" =>
                  /\ \A l \in Listeners : ~Alive(l)' /\ pipe'[l] = None
                  /\ ~running' /\ Startable'
  <1>1. ASSUME IInv, ThreadsAssumption, Next PROVE Finishes
    <2> SUFFICES ASSUME NEW o \in Owners, at[o] = "clear", at'[o] = "idle"
                 PROVE  /\ \A l \in Listeners : ~Alive(l)' /\ pipe'[l] = None
                        /\ ~running' /\ Startable'
      OBVIOUS
    <2>1. StopClears(o)
      BY <1>1, ClearsOnly DEF IInv
    <2>2. /\ \A l \in Listeners : at'[l] = at[l]
          /\ UNCHANGED <<running, listenerThread, pipe>> /\ ~stopping'
      <3>1. o \notin Listeners
        BY <1>1 DEF ThreadsAssumption
      <3> QED BY <2>1, <3>1 DEF StopClears, Goto, session
    <2>3. /\ ~running /\ listenerThread = None
          /\ \A q \in Owners : at[q] # "join"
      BY <1>1 DEF IInv, Owned
    <2>4. \A l \in Listeners : ~Alive(l)
      <3>1. None \notin Listeners
        BY <1>1 DEF ThreadsAssumption, Threads
      <3> QED BY <1>1, <2>3, <3>1 DEF IInv, Owned
    <2>5. \A l \in Listeners : pipe[l] = None
      <3>1. \A l \in Listeners : at[l] \notin Holding
        BY <2>4 DEF Alive, Holding, Serving
      <3> QED BY <1>1, <3>1 DEF IInv, Aliased
    <2> QED BY <2>2, <2>3, <2>4, <2>5 DEF Alive, Startable
  <1>2. IInv /\ [Next]_vars => [Finishes]_vars
    BY <1>1, ThreadsAssumption
  <1> QED BY <1>2, Invariant, PTL DEF Spec, StopFinishes

-----------------------------------------------------------------------------
(* No deadlock *)

(* From the time a Stop has taken the mutex until it closes the stop event,  *)
(* the event is set; and what an owner joins has been started.               *)
Announced ==
    /\ \A t \in Threads :
          at[t] \in {"cancel", "join", "clear"} /\ stopEvent # None => signalled
    /\ \A o \in Owners : at[o] = "join" => at[joins[o]] # "none"

(* A step that leaves the stop event, and who joins what, as it is.          *)
LEMMA AnnouncedKept ==
    ASSUME Announced, UNCHANGED <<stopEvent, signalled, joins>>,
           \A t \in Threads : at'[t] \in {"cancel", "join", "clear"} =>
               \E u \in Threads : at[u] \in {"cancel", "join", "clear"},
           \A o \in Owners : at'[o] = "join" => at[o] = "join",
           \A l \in Listeners : at'[l] = "none" => at[l] = "none",
           \A o \in Owners : at[o] = "join" => joins[o] \in Listeners
    PROVE  Announced'
  BY DEF Announced

LEMMA AnnouncedStep ==
    ASSUME IInv, ThreadsAssumption, Announced, [Next]_vars
    PROVE  Announced'
  <1>0. /\ TypeOK /\ Owned /\ Locked /\ Placed
        /\ Owners \subseteq Threads /\ Listeners \subseteq Threads
        /\ Owners \cap Listeners = {} /\ None \notin Threads
    BY DEF IInv, Threads, ThreadsAssumption
  <1>1. \A o \in Owners : at[o] = "join" => joins[o] \in Listeners
    BY <1>0 DEF Owned, TypeOK
  <1>2. CASE UNCHANGED vars
    BY <1>2 DEF vars, lifecycle, Announced
  <1>3. ASSUME NEW t \in Threads, NEW place, at' = [at EXCEPT ![t] = place],
               place # "none", place # "join",
               place \in {"cancel", "clear"} =>
                   at[t] \in {"cancel", "join", "clear"},
               UNCHANGED <<stopEvent, signalled, joins>>
        PROVE  Announced'
    BY <1>0, <1>1, <1>3, AnnouncedKept DEF TypeOK
  <1>4. ASSUME NEW t \in Threads, NEW place, GotoCancelling(t, place),
               place \notin {"none", "join", "cancel"},
               place = "clear" => at[t] = "cancel",
               UNCHANGED <<stopEvent, signalled, joins>>
        PROVE  Announced'
    <2>1. /\ at'[t] = place
          /\ \A u \in Threads \ {t} : at'[u] = at[u] \/ at'[u] = "aborted"
      BY <1>0, <1>4, Cancelling DEF TypeOK
    <2> QED BY <1>0, <1>1, <1>4, <2>1, AnnouncedKept
  <1>5. ASSUME NEW o \in Owners, OwnerMoves(o) PROVE Announced'
    <2>0. o \in Threads
      BY <1>0
    <2>1. CASE Start(o) \/ StartFails(o)
      <3>1. PICK l \in Listeners \cup {None} :
               /\ lifecycleMutex = None /\ ~stopping
               /\ l \in Listeners => Goto(l, "top")
               /\ l = None => at' = at
        <4>1. CASE Start(o)
          BY <1>0, <4>1 DEF Start, Startable
        <4>2. CASE StartFails(o)
          BY <1>0, <4>2 DEF StartFails, Startable
        <4> QED BY <2>1, <4>1, <4>2
      <3>2. \A t \in Threads : at[t] \notin {"cancel", "join", "clear"}
        BY <1>0, <3>1 DEF Locked, Owned, Placed, Threads
      <3>3. \A t \in Threads : at'[t] \notin {"cancel", "join", "clear"}
        BY <1>0, <3>1, <3>2 DEF Goto, TypeOK
      <3> QED BY <1>0, <3>3 DEF Announced
    <2>2. CASE StopJoins(o)
      <3>1. /\ at'[o] = "join"
            /\ \A u \in Threads \ {o} : at'[u] = at[u] \/ at'[u] = "aborted"
        BY <1>0, <2>0, <2>2, Cancelling DEF StopJoins, TypeOK
      <3>2. stopEvent # None => signalled
        BY <2>0, <2>2 DEF StopJoins, Announced
      <3>3. at'[joins'[o]] # "none"
        <4>1. /\ joins'[o] = listenerThread /\ listenerThread \in Listeners
              /\ listenerThread \in Threads \ {o}
          BY <1>0, <2>2 DEF StopJoins, TypeOK
        <4>2. at[listenerThread] # "none"
          BY <1>0, <4>1 DEF Owned
        <4> QED BY <3>1, <4>1, <4>2
      <3>4. \A q \in Owners \ {o} : at'[q] = "join" =>
                at[q] = "join" /\ joins'[q] = joins[q]
        BY <1>0, <2>2, <3>1 DEF StopJoins, TypeOK
      <3>5. \A q \in Owners \ {o} : at'[q] = "join" => at'[joins'[q]] # "none"
        BY <1>0, <1>1, <3>1, <3>4 DEF Announced
      <3>6. UNCHANGED <<stopEvent, signalled>>
        BY <2>2 DEF StopJoins
      <3> QED BY <3>2, <3>3, <3>5, <3>6 DEF Announced
    <2>3. CASE StopHasNoThread(o)
      BY <1>4, <2>0, <2>3 DEF StopHasNoThread, lifecycle
    <2>4. CASE Joined(o)
      <3>1. /\ at' = [at EXCEPT ![o] = "clear"]
            /\ joins' = [joins EXCEPT ![o] = None]
            /\ UNCHANGED <<stopEvent, signalled>> /\ at[o] = "join"
        BY <2>4 DEF Joined, Goto
      <3>2. stopEvent # None => signalled
        BY <2>0, <3>1 DEF Announced
      <3>3. \A q \in Owners : at'[q] = "join" =>
                /\ at[q] = "join" /\ joins'[q] = joins[q]
                /\ joins[q] \in Threads \ {o}
        BY <1>0, <1>1, <3>1 DEF TypeOK
      <3> QED BY <1>0, <3>1, <3>2, <3>3 DEF Announced, TypeOK
    <2>5. CASE StopClears(o)
      <3>1. /\ at' = [at EXCEPT ![o] = "idle"] /\ stopEvent' = None
            /\ UNCHANGED joins
        BY <2>5 DEF StopClears, Goto
      <3>2. \A q \in Owners : at'[q] = "join" =>
                at[q] = "join" /\ joins[q] \in Threads \ {o}
        BY <1>0, <1>1, <3>1 DEF TypeOK
      <3> QED BY <1>0, <3>1, <3>2 DEF Announced, TypeOK
    <2> QED BY <1>5, <2>1, <2>2, <2>3, <2>4, <2>5 DEF OwnerMoves
  <1>6. ASSUME NEW l \in Listeners, ListenerMoves(l) PROVE Announced'
    <2>0. l \in Threads
      BY <1>0
    <2>1. CASE StopOnListener(l)
      BY <1>4, <2>0, <2>1 DEF StopOnListener, lifecycle
    <2>2. CASE Closes(l)
      BY <1>3, <2>0, <2>2 DEF Closes, Goto
    <2>3. CASE CreateNamedPipe(l)
      BY <1>3, <2>0, <2>3 DEF CreateNamedPipe, Step, Goto, lifecycle
    <2>4. CASE ListenerFails(l) \/ ResetFault(l) \/ Publish(l) \/ Unpublish(l)
      BY <1>3, <2>0, <2>4
        DEF ListenerFails, ResetFault, Publish, Unpublish, Goto, lifecycle
    <2> QED BY <1>6, <2>1, <2>2, <2>3, <2>4 DEF ListenerMoves
  <1>7. ASSUME NEW t \in Threads, ThreadMoves(t) PROVE Announced'
    <2>1. CASE Roams(t)
      <3>1. PICK to \in Places :
                /\ at' = [at EXCEPT ![t] = to] /\ to \notin Busy
                /\ t \in Owners => to \in {"idle", "stop", "send"}
                /\ t \in Listeners => to # "none"
        BY <2>1 DEF Roams, Goto
      <3> QED BY <1>3, <2>1, <3>1 DEF Roams, Busy, Threads
    <2>2. CASE StopSignals(t)
      <3>1. /\ at' = [at EXCEPT ![t] = "cancel"]
            /\ signalled' = (stopEvent # None)
            /\ UNCHANGED <<stopEvent, joins>>
        BY <2>2 DEF StopSignals, Goto
      <3>2. \A o \in Owners : at'[o] = "join" => at[o] = "join"
        BY <1>0, <3>1 DEF TypeOK
      <3> QED BY <1>0, <1>1, <3>1, <3>2 DEF Announced, TypeOK
    <2>3. CASE WriteFile(t) \/ WriteEnds(t) \/ Fault(t)
      BY <1>3, <2>3 DEF WriteFile, WriteEnds, Fault, Goto, lifecycle
    <2>4. CASE WriteCompletes(t)
      <3>1. AfterResponse(t, TRUE) \in {"idle", "unpublish", "frames"}
        BY DEF AfterResponse
      <3> QED BY <1>3, <2>4, <3>1 DEF WriteCompletes, Responded, Goto, lifecycle
    <2>5. CASE Kick(t)
      <3>1. AfterResponse(t, FALSE) \in {"idle", "unpublish", "frames"}
        BY DEF AfterResponse
      <3> QED BY <1>4, <2>5, <3>1 DEF Kick, lifecycle
    <2> QED BY <1>7, <2>1, <2>2, <2>3, <2>4, <2>5 DEF ThreadMoves
  <1> QED
    BY <1>0, <1>2, <1>5, <1>6, <1>7, Shape DEF Moves

(* Who holds the lifecycle mutex in Stop can go on, or who writes can.       *)
LEMMA HolderFree ==
    ASSUME IInv, ThreadsAssumption, Announced, NEW t \in Threads,
           at[t] \in {"cancel", "join", "clear"}, writeMutex # None
    PROVE  \E w \in Threads : Free(w)
  <1>1. /\ TypeOK /\ Locked /\ Owned /\ Aliased
        /\ Listeners \subseteq Threads /\ None \notin Threads
    BY DEF IInv, Threads, ThreadsAssumption
  <1>2. /\ writeMutex \in Threads /\ at[writeMutex] \in Writing
        /\ hCurrentPipe # None
    BY <1>1 DEF TypeOK, Locked, Aliased
  <1>3. PICK l \in Listeners : at[l] \in Serving
    BY <1>1, <1>2 DEF Aliased
  <1>4. stopEvent = l
    BY <1>1, <1>3 DEF Owned, Alive, Serving
  <1>5. signalled
    BY <1>1, <1>4 DEF Announced
  <1> QED BY <1>2, <1>5 DEF Free, Writing

(* A thread in Stop is not waiting for one that waits for it.                *)
LEMMA SomebodyFree ==
    ASSUME IInv, ThreadsAssumption, Announced
    PROVE  StopNeverStuck
  <1>1. /\ TypeOK /\ Locked /\ Owned /\ Placed
        /\ Owners \subseteq Threads /\ Listeners \subseteq Threads
        /\ None \notin Threads /\ Owners \cap Listeners = {}
    BY DEF IInv, Threads, ThreadsAssumption
  <1>2. ASSUME NEW t \in Threads, at[t] \in {"cancel", "clear"}
        PROVE  \E u \in Threads : Free(u)
    <2>1. CASE writeMutex = None
      <3>1. at[t] = "cancel" /\ t \in Listeners => listenerThread = t
        <4> SUFFICES ASSUME at[t] = "cancel", t \in Listeners
                     PROVE  listenerThread = t
          OBVIOUS
        <4>1. ~stopping /\ Alive(t)
          BY <1>1 DEF Owned, Alive
        <4> QED BY <1>1, <4>1 DEF Owned
      <3> QED BY <1>2, <2>1, <3>1 DEF Free
    <2> QED BY <1>2, <2>1, HolderFree
  <1>3. ASSUME NEW t \in Threads, at[t] = "stop"
        PROVE  \E u \in Threads : Free(u)
    <2>1. CASE lifecycleMutex = None
      BY <1>3, <2>1 DEF Free
    <2>2. CASE lifecycleMutex # None
      BY <1>1, <1>2, <2>2 DEF Locked, TypeOK
    <2> QED BY <2>1, <2>2
  <1>4. ASSUME NEW o \in Threads, at[o] = "join"
        PROVE  \E u \in Threads : Free(u)
    <2>1. o \in Owners
      BY <1>1, <1>4 DEF Placed, Threads
    <2>2. CASE lifecycleMutex # None
      BY <1>1, <1>2, <2>2 DEF Locked, TypeOK
    <2>3. CASE writeMutex # None
      BY <1>4, <2>3, HolderFree
    <2>4. CASE lifecycleMutex = None /\ writeMutex = None
      <3> DEFINE l == joins[o]
      <3>1. l \in Listeners /\ l \in Threads /\ signalled /\ at[l] # "none"
        BY <1>1, <1>4, <2>1 DEF Owned, TypeOK, Announced
      <3>2. at[l] \in Places \ {"idle", "join", "clear", "none"}
        BY <1>1, <3>1 DEF TypeOK, Placed
      <3>3. at[l] # "cancel"
        BY <1>1, <2>4, <3>1 DEF Locked
      <3>4. CASE at[l] = "ended"
        BY <1>4, <2>4, <3>4 DEF Free
      <3>5. CASE at[l] # "ended"
        <4>1. Free(l)
          BY <2>4, <3>1, <3>2, <3>3, <3>5 DEF Free, Places, Serving
        <4> QED BY <3>1, <4>1
      <3> QED BY <3>4, <3>5
    <2> QED BY <2>2, <2>3, <2>4
  <1> QED BY <1>2, <1>3, <1>4 DEF StopNeverStuck

(* However many threads stop, start and answer at the same time, on whatever *)
(* thread, a Stop in progress never leaves all of them waiting for each other*)
(* or for the client: with the scheduling of the threads this is what brings *)
(* Stop back (StopReturns).                                                  *)
THEOREM StopNeverStuckAlways == Spec => []StopNeverStuck
  <1>1. Init => Announced
    BY DEF Init, Announced, Threads
  <1>2. IInv /\ Announced /\ [Next]_vars => Announced'
    BY AnnouncedStep, ThreadsAssumption
  <1>3. IInv /\ Announced => StopNeverStuck
    BY SomebodyFree, ThreadsAssumption
  <1> QED BY <1>1, <1>2, <1>3, Invariant, PTL DEF Spec
=============================================================================
