-------------------------- MODULE CommandFramework --------------------------
(***************************************************************************)
(* The named pipe through which the toolbox commands the payload.          *)
(*                                                                         *)
(*   Payload/Communication/CommandFramework.cpp, CommandFramework.h        *)
(*                                                                         *)
(* Any thread of the process may call Start, Stop and SendResponse.  Start *)
(* creates a listener thread, which makes one pipe after the other, serves *)
(* one client on each and answers its frames; a callback may itself call   *)
(* Stop.  A step is what a thread does between two points where another    *)
(* may come in: the acquisition of a mutex, a wait, or the reading of a flag*)
(* that is shared without one.  What the client does, the contents of the   *)
(* frames and the failures of the system calls are free choices.           *)
(*                                                                         *)
(* A thread object is known by its identifier, and so is the stop event    *)
(* that Start makes together with it; a pipe handle is known by its pipe.  *)
(***************************************************************************)
EXTENDS Integers

CONSTANTS
    Owners,              \* the threads that may call the framework
    Listeners,           \* the threads Start may create
    Pipes,               \* the pipe instances a listener may create
    None,
    MaxFrames,           \* bound on the frames that one read completes
    MaxProtocolErrors,   \* MaxProtocolErrorsPerConnection
    MaxCalls             \* bound on the calls of the owners

Threads == Owners \cup Listeners

ASSUME ThreadsAssumption ==
    /\ Owners \cap Listeners = {}
    /\ None \notin Threads \cup Pipes
    /\ MaxFrames \in Nat /\ MaxProtocolErrors \in Nat /\ MaxCalls \in Nat

VARIABLES
    at,              \* where each thread is
    running, stopping,
    listenerThread,  \* the thread that is still to be joined, or None
    stopEvent,       \* the listener it was made for, None when it is closed
    signalled,       \* whether the stop event is set
    hCurrentPipe,    \* the pipe that responses go to, an alias
    connectionFaulted,
    lifecycleMutex, writeMutex,              \* who holds them
    joins,           \* threadToJoin: the thread an owner is joining
    pipe,            \* the pipe whose handle a listener owns
    served,          \* the pipes that have been made
    frames,          \* complete frames that the listener has still to handle
    errors,          \* protocolErrors of the connection
    reply,           \* what follows the response of a listener
    calls,           \* the calls that owners have made
    faultedOn        \* for the properties only: the pipe of the last failure

lifecycle == <<running, stopping, listenerThread, stopEvent, signalled, joins>>
response  == <<hCurrentPipe, connectionFaulted, faultedOn>>
session   == <<pipe, served, frames, errors, reply>>
vars == <<at, lifecycle, response, lifecycleMutex, writeMutex, session, calls>>

(* Where a listener may be while hCurrentPipe is its pipe.                    *)
Serving == {"loop", "issue", "read", "aborted", "frames", "callback", "stop",
            "cancel", "send", "write", "fault", "kick", "unpublish"}
Places  == Serving \cup
           {"idle", "join", "clear", "none", "top", "create", "retry", "connect",
            "accepted", "reset", "publish", "disconnect", "thrown", "ended"}
Writing == {"write", "fault", "kick"}
Alive(l) == at[l] \notin {"none", "ended"}

Goto(t, place) == at' = [at EXCEPT ![t] = place]

Init ==
    /\ at = [t \in Threads |-> IF t \in Owners THEN "idle" ELSE "none"]
    /\ running = FALSE /\ stopping = FALSE
    /\ listenerThread = None
    /\ stopEvent = None /\ signalled = FALSE
    /\ hCurrentPipe = None
    /\ connectionFaulted = FALSE /\ faultedOn = None
    /\ lifecycleMutex = None /\ writeMutex = None
    /\ joins = [o \in Owners |-> None]
    /\ pipe = [l \in Listeners |-> None]
    /\ served = {}
    /\ frames = [l \in Listeners |-> 0]
    /\ errors = [l \in Listeners |-> 0]
    /\ reply = [l \in Listeners |-> "next"]
    /\ calls = 0

-----------------------------------------------------------------------------
(* Start *)

(* Mutant: Start does not look for a Stop that is joining.                   *)
StartableWhileStopping == ~running /\ listenerThread = None

Startable == ~running /\ ~stopping /\ listenerThread = None

(* The whole of Start holds lifecycleMutex.                                  *)
Start(o) ==
    \E l \in Listeners :
        /\ at[o] = "idle" /\ calls < MaxCalls
        /\ lifecycleMutex = None
        /\ Startable
        /\ at[l] = "none"
        /\ stopEvent' = l /\ signalled' = FALSE
        /\ connectionFaulted' = FALSE
        /\ running' = TRUE
        /\ listenerThread' = l
        /\ Goto(l, "top")
        /\ calls' = calls + 1
        /\ UNCHANGED <<stopping, joins, hCurrentPipe, faultedOn,
                       lifecycleMutex, writeMutex, session>>

(* No thread can be created: all but the fault flag is put back.             *)
StartFails(o) ==
    /\ at[o] = "idle" /\ calls < MaxCalls
    /\ lifecycleMutex = None
    /\ Startable
    /\ stopEvent' = None /\ signalled' = FALSE
    /\ connectionFaulted' = FALSE
    /\ calls' = calls + 1
    /\ UNCHANGED <<at, running, stopping, listenerThread, joins, hCurrentPipe,
                   faultedOn, lifecycleMutex, writeMutex, session>>

-----------------------------------------------------------------------------
(* Stop, called by an owner or by a callback on the listener thread *)

(* A callback that has called Stop still answers its command.                *)
Return(t) == IF t \in Owners THEN "idle" ELSE "send"

CallStop(o) ==
    /\ at[o] = "idle" /\ calls < MaxCalls
    /\ calls' = calls + 1
    /\ Goto(o, "stop")
    /\ UNCHANGED <<lifecycle, response, lifecycleMutex, writeMutex, session>>

(* Somebody else is already joining.                                         *)
StopReturnsAtOnce(t) ==
    /\ at[t] = "stop" /\ lifecycleMutex = None
    /\ stopping
    /\ Goto(t, Return(t))
    /\ UNCHANGED <<lifecycle, response, lifecycleMutex, writeMutex, session, calls>>

(* Mutant: the stop event is not set.                                        *)
StopSilent(t) ==
    /\ at[t] = "stop" /\ lifecycleMutex = None
    /\ ~stopping
    /\ lifecycleMutex' = t
    /\ running' = FALSE
    /\ Goto(t, "cancel")
    /\ UNCHANGED <<stopping, listenerThread, stopEvent, signalled, joins, response,
                   writeMutex, session, calls>>

StopSignals(t) ==
    /\ at[t] = "stop" /\ lifecycleMutex = None
    /\ ~stopping
    /\ lifecycleMutex' = t
    /\ running' = FALSE
    /\ signalled' = (stopEvent # None)
    /\ Goto(t, "cancel")
    /\ UNCHANGED <<stopping, listenerThread, stopEvent, joins, response,
                   writeMutex, session, calls>>

(* CancelIoEx(hCurrentPipe, nullptr): a read that is pending comes back.     *)
Cancelled(l) == at[l] = "read" /\ hCurrentPipe # None /\ pipe[l] = hCurrentPipe

GotoCancelling(t, place) ==
    at' = [u \in Threads |->
              IF u = t THEN place
              ELSE IF u \in Listeners /\ Cancelled(u) THEN "aborted"
              ELSE at[u]]

(* Mutant: the listener's Stop returns with lifecycleMutex locked.           *)
StopOnListenerLocked(l) ==
    /\ at[l] = "cancel" /\ writeMutex = None
    /\ listenerThread = l
    /\ GotoCancelling(l, "send")
    /\ UNCHANGED <<lifecycle, response, lifecycleMutex, writeMutex, session, calls>>

(* Stop of the listener itself: an owner must join it.                       *)
StopOnListener(l) ==
    /\ at[l] = "cancel" /\ writeMutex = None
    /\ listenerThread = l
    /\ GotoCancelling(l, "send")
    /\ lifecycleMutex' = None
    /\ UNCHANGED <<lifecycle, response, writeMutex, session, calls>>

(* Mutant: the stop event is closed before the join.                         *)
StopJoinsClosed(o) ==
    /\ at[o] = "cancel" /\ writeMutex = None
    /\ listenerThread \notin {o, None}
    /\ GotoCancelling(o, "join")
    /\ stopping' = TRUE
    /\ joins' = [joins EXCEPT ![o] = listenerThread]
    /\ listenerThread' = None
    /\ stopEvent' = None
    /\ lifecycleMutex' = None
    /\ UNCHANGED <<running, signalled, response, writeMutex, session, calls>>

StopJoins(o) ==
    /\ at[o] = "cancel" /\ writeMutex = None
    /\ listenerThread \notin {o, None}
    /\ GotoCancelling(o, "join")
    /\ stopping' = TRUE
    /\ joins' = [joins EXCEPT ![o] = listenerThread]
    /\ listenerThread' = None
    /\ lifecycleMutex' = None
    /\ UNCHANGED <<running, stopEvent, signalled, response, writeMutex, session,
                   calls>>

StopHasNoThread(o) ==
    /\ at[o] = "cancel" /\ writeMutex = None
    /\ listenerThread = None
    /\ GotoCancelling(o, "clear")
    /\ UNCHANGED <<lifecycle, response, lifecycleMutex, writeMutex, session, calls>>

(* Mutant: Stop goes on while the listener still runs.                       *)
JoinedTooEarly(o) ==
    /\ at[o] = "join"
    /\ lifecycleMutex = None
    /\ lifecycleMutex' = o
    /\ joins' = [joins EXCEPT ![o] = None]
    /\ Goto(o, "clear")
    /\ UNCHANGED <<running, stopping, listenerThread, stopEvent, signalled,
                   response, writeMutex, session, calls>>

Joined(o) ==
    /\ at[o] = "join" /\ at[joins[o]] = "ended"
    /\ lifecycleMutex = None
    /\ lifecycleMutex' = o
    /\ joins' = [joins EXCEPT ![o] = None]
    /\ Goto(o, "clear")
    /\ UNCHANGED <<running, stopping, listenerThread, stopEvent, signalled,
                   response, writeMutex, session, calls>>

StopClears(o) ==
    /\ at[o] = "clear" /\ writeMutex = None
    /\ hCurrentPipe' = None
    /\ stopEvent' = None /\ signalled' = FALSE
    /\ stopping' = FALSE
    /\ lifecycleMutex' = None
    /\ Goto(o, "idle")
    /\ UNCHANGED <<running, listenerThread, joins, connectionFaulted, faultedOn,
                   writeMutex, session, calls>>

-----------------------------------------------------------------------------
(* SendResponse, called by an owner or by the listener *)

CallSendResponse(o) ==
    /\ at[o] = "idle" /\ calls < MaxCalls
    /\ calls' = calls + 1
    /\ Goto(o, "send")
    /\ UNCHANGED <<lifecycle, response, lifecycleMutex, writeMutex, session>>

(* What the listener does after a response: a transport error ends the       *)
(* connection, and so does one protocol error too many.                      *)
TooManyErrors(l) == reply[l] = "strike" /\ errors[l] + 1 >= MaxProtocolErrors

AfterResponse(t, sent) ==
    IF t \in Owners THEN "idle"
    ELSE IF ~sent \/ reply[t] = "leave" \/ TooManyErrors(t) THEN "unpublish"
    ELSE "frames"

Responded(t, sent) ==
    /\ Goto(t, AfterResponse(t, sent))
    /\ errors' = [l \in Listeners |->
                     IF l = t /\ sent /\ reply[l] = "strike"
                     THEN errors[l] + 1 ELSE errors[l]]
    /\ UNCHANGED <<pipe, served, frames, reply, lifecycle, lifecycleMutex, calls>>

(* The response is longer than a frame may be.                               *)
EncodeFails(t) ==
    /\ at[t] = "send"
    /\ Responded(t, FALSE)
    /\ UNCHANGED <<response, writeMutex>>

NobodyToAnswer(t) ==
    /\ at[t] = "send" /\ writeMutex = None
    /\ hCurrentPipe = None
    /\ Responded(t, FALSE)
    /\ UNCHANGED <<response, writeMutex>>

WriteFile(t) ==
    /\ at[t] = "send" /\ writeMutex = None
    /\ hCurrentPipe # None
    /\ writeMutex' = t
    /\ Goto(t, "write")
    /\ UNCHANGED <<lifecycle, response, lifecycleMutex, session, calls>>

WriteCompletes(t) ==
    /\ at[t] = "write"
    /\ writeMutex' = None
    /\ Responded(t, TRUE)
    /\ UNCHANGED response

WriteEnds(t) ==
    /\ at[t] = "write"
    /\ Goto(t, "fault")
    /\ UNCHANGED <<lifecycle, response, lifecycleMutex, writeMutex, session, calls>>

(* The client is gone, or has taken a part of the frame only.                *)
WriteFails(t) == WriteEnds(t)

WriteTimesOut(t) == WriteEnds(t)

WriteStopped(t) == signalled /\ WriteEnds(t)

(* CancelAndDrain has returned: the connection is given up ...               *)
Fault(t) ==
    /\ at[t] = "fault"
    /\ connectionFaulted' = TRUE
    /\ faultedOn' = hCurrentPipe
    /\ Goto(t, "kick")
    /\ UNCHANGED <<lifecycle, hCurrentPipe, lifecycleMutex, writeMutex, session,
                   calls>>

(* ... and the read of the listener is cancelled, if it is already pending.  *)
Kick(t) ==
    /\ at[t] = "kick"
    /\ GotoCancelling(t, AfterResponse(t, FALSE))
    /\ writeMutex' = None
    /\ UNCHANGED <<lifecycle, response, lifecycleMutex, session, calls>>

-----------------------------------------------------------------------------
(* ListenerLoop *)

Step(l, from, to) ==
    /\ at[l] = from
    /\ Goto(l, to)
    /\ UNCHANGED <<lifecycle, response, lifecycleMutex, writeMutex, calls>>

(* The handle of the pipe goes out of scope.                                 *)
ClosePipe(l, from, to) ==
    /\ Step(l, from, to)
    /\ pipe' = [pipe EXCEPT ![l] = None]
    /\ UNCHANGED <<served, frames, errors, reply>>

LoopHead(l) ==
    /\ Step(l, "top", IF running THEN "create" ELSE "ended")
    /\ UNCHANGED session

(* FILE_FLAG_FIRST_PIPE_INSTANCE: not beside a pipe that is still open.      *)
CreateNamedPipe(l) ==
    \E p \in Pipes \ served :
        /\ \A other \in Listeners : pipe[other] = None
        /\ Step(l, "create", "connect")
        /\ pipe' = [pipe EXCEPT ![l] = p]
        /\ served' = served \cup {p}
        /\ UNCHANGED <<frames, errors, reply>>

CreateFails(l) == Step(l, "create", "retry") /\ UNCHANGED session

Retry(l) == Step(l, "retry", "top") /\ UNCHANGED session

RetryStopped(l) == signalled /\ Step(l, "retry", "ended") /\ UNCHANGED session

ClientConnects(l) == Step(l, "connect", "accepted") /\ UNCHANGED session

ConnectFails(l) == ClosePipe(l, "connect", "top")

ConnectStopped(l) == signalled /\ ClosePipe(l, "connect", "ended")

AcceptStopped(l) == ~running /\ ClosePipe(l, "accepted", "ended")

Unauthorized(l) == running /\ ClosePipe(l, "accepted", "top")

Authorized(l) == running /\ Step(l, "accepted", "reset") /\ UNCHANGED session

(* An exception outside the connection (bad_alloc): the listener gives up.   *)
ListenerThrows(l) ==
    /\ at[l] \in {"create", "accepted", "disconnect"}
    /\ Goto(l, "thrown")
    /\ running' = FALSE
    /\ pipe' = [pipe EXCEPT ![l] = None]
    /\ UNCHANGED <<stopping, listenerThread, stopEvent, signalled, joins, response,
                   lifecycleMutex, writeMutex, served, frames, errors, reply, calls>>

ListenerFails(l) ==
    /\ at[l] = "thrown" /\ writeMutex = None
    /\ hCurrentPipe' = None
    /\ Goto(l, "ended")
    /\ UNCHANGED <<lifecycle, connectionFaulted, faultedOn, lifecycleMutex,
                   writeMutex, session, calls>>

(* Mutant: the flag of the last connection stays.                            *)
KeepFault(l) ==
    /\ at[l] = "reset"
    /\ Goto(l, "publish")
    /\ UNCHANGED <<lifecycle, response, lifecycleMutex, writeMutex, session, calls>>

ResetFault(l) ==
    /\ at[l] = "reset"
    /\ connectionFaulted' = FALSE
    /\ Goto(l, "publish")
    /\ UNCHANGED <<lifecycle, hCurrentPipe, faultedOn, lifecycleMutex, writeMutex,
                   session, calls>>

(* CurrentPipeRegistration, and the locals of ReadClient.                    *)
Publish(l) ==
    /\ at[l] = "publish" /\ writeMutex = None
    /\ hCurrentPipe' = pipe[l]
    /\ frames' = [frames EXCEPT ![l] = 0]
    /\ errors' = [errors EXCEPT ![l] = 0]
    /\ reply' = [reply EXCEPT ![l] = "next"]
    /\ Goto(l, "loop")
    /\ UNCHANGED <<lifecycle, connectionFaulted, faultedOn, lifecycleMutex,
                   writeMutex, pipe, served, calls>>

(* Mutant: the alias stays when the pipe is closed.                          *)
KeepPublished(l) ==
    /\ at[l] = "unpublish" /\ writeMutex = None
    /\ Goto(l, "disconnect")
    /\ UNCHANGED <<lifecycle, response, lifecycleMutex, writeMutex, session, calls>>

Unpublish(l) ==
    /\ at[l] = "unpublish" /\ writeMutex = None
    /\ hCurrentPipe' = IF hCurrentPipe = pipe[l] THEN None ELSE hCurrentPipe
    /\ Goto(l, "disconnect")
    /\ UNCHANGED <<lifecycle, connectionFaulted, faultedOn, lifecycleMutex,
                   writeMutex, session, calls>>

Disconnect(l) == ClosePipe(l, "disconnect", "top")

-----------------------------------------------------------------------------
(* ReadClient *)

(* Mutant: the flag of the connection is not looked at.                      *)
ReadClientUnchecked(l) ==
    /\ Step(l, "loop", IF running THEN "issue" ELSE "unpublish")
    /\ UNCHANGED session

ReadClient(l) ==
    /\ Step(l, "loop", IF running /\ ~connectionFaulted THEN "issue"
                                                      ELSE "unpublish")
    /\ UNCHANGED session

ReadFile(l) == Step(l, "issue", "read") /\ UNCHANGED session

(* The event, the buffer or the call fails, or the client has gone.          *)
ReadFails(l) ==
    /\ at[l] \in {"issue", "read"}
    /\ Step(l, at[l], "unpublish")
    /\ UNCHANGED session

ReadTimesOut(l) == Step(l, "read", "unpublish") /\ UNCHANGED session

ReadStopped(l) == signalled /\ Step(l, "read", "unpublish") /\ UNCHANGED session

ReadAborted(l) == Step(l, "aborted", "unpublish") /\ UNCHANGED session

(* Bytes arrive; they may complete no line, or several.                      *)
ReadCompletes(l) ==
    \E n \in 0..MaxFrames :
        /\ Step(l, "read", "frames")
        /\ frames' = [frames EXCEPT ![l] = n]
        /\ UNCHANGED <<pipe, served, errors, reply>>

AllHandled(l) ==
    /\ frames[l] = 0
    /\ Step(l, "frames", "loop")
    /\ UNCHANGED session

(* A frame that is answered without a callback, or with an error.            *)
Answer(l, then) ==
    /\ Step(l, "frames", "send")
    /\ reply' = [reply EXCEPT ![l] = then]
    /\ UNCHANGED <<pipe, served, errors>>

(* 64 KiB, with the end of the line or still without.                        *)
FrameTooLarge(l) == Answer(l, "leave") /\ UNCHANGED frames

ProtocolError(l) ==
    /\ frames[l] > 0
    /\ Answer(l, "strike")
    /\ frames' = [frames EXCEPT ![l] = @ - 1]

Dispatch(l) ==
    /\ frames[l] > 0
    /\ Step(l, "frames", "callback")
    /\ frames' = [frames EXCEPT ![l] = @ - 1]
    /\ reply' = [reply EXCEPT ![l] = "next"]
    /\ UNCHANGED <<pipe, served, errors>>

(* The callback has returned or thrown: either is answered.                  *)
CallbackReturns(l) == Step(l, "callback", "send") /\ UNCHANGED session

CallbackStops(l) == Step(l, "callback", "stop") /\ UNCHANGED session

(* An exception while a client is served.                                    *)
ReadThrows(l) ==
    /\ at[l] = "frames"
    /\ Goto(l, "unpublish")
    /\ running' = FALSE
    /\ UNCHANGED <<stopping, listenerThread, stopEvent, signalled, joins, response,
                   lifecycleMutex, writeMutex, session, calls>>

-----------------------------------------------------------------------------
(* The threads, and what happens to them *)

Responding(t) == NobodyToAnswer(t) \/ WriteFile(t) \/ WriteStopped(t) \/ Fault(t) \/ Kick(t)

OwnerProceeds(o) ==
    \/ StopReturnsAtOnce(o) \/ StopSignals(o) \/ StopJoins(o)
    \/ StopHasNoThread(o) \/ Joined(o) \/ StopClears(o)
    \/ Responding(o)

ListenerProceeds(l) ==
    \/ LoopHead(l) \/ CreateNamedPipe(l) \/ CreateFails(l)
    \/ Retry(l) \/ RetryStopped(l) \/ ConnectStopped(l)
    \/ AcceptStopped(l) \/ Unauthorized(l) \/ Authorized(l)
    \/ ListenerFails(l) \/ ResetFault(l) \/ Publish(l)
    \/ Unpublish(l) \/ Disconnect(l)
    \/ ReadClient(l) \/ ReadFile(l) \/ ReadStopped(l) \/ ReadAborted(l)
    \/ AllHandled(l) \/ FrameTooLarge(l) \/ ProtocolError(l) \/ Dispatch(l)
    \/ CallbackReturns(l)
    \/ StopReturnsAtOnce(l) \/ StopSignals(l) \/ StopOnListener(l)
    \/ Responding(l)

TimesOut(t) == WriteTimesOut(t) \/ (t \in Listeners /\ ReadTimesOut(t))

OwnerCalls(o) == Start(o) \/ StartFails(o) \/ CallStop(o) \/ CallSendResponse(o)

ClientActs(l) == ClientConnects(l) \/ ReadCompletes(l)

Fails(l) ==
    \/ ConnectFails(l) \/ ReadFails(l)
    \/ ListenerThrows(l) \/ ReadThrows(l) \/ CallbackStops(l)

Next ==
    \/ \E o \in Owners : OwnerCalls(o) \/ OwnerProceeds(o)
    \/ \E l \in Listeners : ListenerProceeds(l) \/ ClientActs(l) \/ Fails(l)
    \/ \E t \in Threads : TimesOut(t) \/ WriteCompletes(t) \/ WriteFails(t) \/ EncodeFails(t)

(* Every thread is scheduled, callbacks return, and the kernel completes what*)
(* has been cancelled or waits on an event that is set.  Nobody need call,   *)
(* no client need answer, and no time-out is needed.                         *)
Fairness ==
    /\ \A o \in Owners : WF_vars(OwnerProceeds(o))
    /\ \A l \in Listeners : WF_vars(ListenerProceeds(l))

Spec == Init /\ [][Next]_vars /\ Fairness
-----------------------------------------------------------------------------
(* Properties *)

(* Everything keeps its type.                                                *)
TypeOK ==
    /\ at \in [Threads -> Places]
    /\ running \in BOOLEAN /\ stopping \in BOOLEAN /\ signalled \in BOOLEAN
    /\ listenerThread \in Listeners \cup {None}
    /\ stopEvent \in Listeners \cup {None}
    /\ connectionFaulted \in BOOLEAN
    /\ hCurrentPipe \in Pipes \cup {None} /\ faultedOn \in Pipes \cup {None}
    /\ lifecycleMutex \in Threads \cup {None}
    /\ writeMutex \in Threads \cup {None}
    /\ joins \in [Owners -> Listeners \cup {None}]
    /\ pipe \in [Listeners -> Pipes \cup {None}]
    /\ served \subseteq Pipes
    /\ frames \in [Listeners -> 0..MaxFrames]
    /\ errors \in [Listeners -> Nat]
    /\ reply \in [Listeners -> {"next", "strike", "leave"}]
    /\ calls \in 0..MaxCalls

(* hCurrentPipe is an alias of a handle that the listener owns: as long as   *)
(* anybody may use it the handle is open, and a listener that answers, or is  *)
(* about to, answers on its own connection.                                  *)
PipeOutlivesUse ==
    /\ hCurrentPipe # None => \E l \in Listeners : pipe[l] = hCurrentPipe
    /\ \A t \in Threads : at[t] \in Writing => hCurrentPipe # None
    /\ \A l \in Listeners : at[l] \in Serving => hCurrentPipe = pipe[l]

(* Nobody waits on a stop event that has been closed, and a listener never   *)
(* waits on the event of another: Stop closes it only when all are gone.     *)
EventOutlivesWaits ==
    /\ \A l \in Listeners : at[l] \in {"retry", "connect", "read", "write"}
                                => stopEvent = l
    /\ \A o \in Owners : at[o] = "write" => stopEvent # None

(* The flag speaks of the present connection only: the failure of an earlier *)
(* one never ends it, and its own failure is not forgotten.                  *)
FaultIsOwn ==
    \A l \in Listeners :
        at[l] \in Serving => (connectionFaulted <=> faultedOn = pipe[l])

(* A listener that runs is joinable, or an owner is joining it, and there is *)
(* one at most: none is detached, and no Start assigns over a thread.        *)
ListenerOwned ==
    \A l \in Listeners : Alive(l) =>
        /\ listenerThread = l \/ \E o \in Owners : at[o] = "join" /\ joins[o] = l
        /\ \A other \in Listeners \ {l} : ~Alive(other)

(* When a Stop has done its work no listener runs, no event and no pipe is   *)
(* left, and the framework may be started again.                             *)
StopFinishes ==
    [][\A o \in Owners : at[o] = "clear" /\ at'[o] = "idle" =>
          /\ \A l \in Listeners : ~Alive(l)' /\ pipe'[l] = None
          /\ ~running' /\ Startable']_vars

(* A thread that needs neither the client nor a time-out to go on, nor what  *)
(* another thread holds.                                                     *)
Free(t) ==
    \/ at[t] = "stop" /\ lifecycleMutex = None
    \/ /\ at[t] \in {"cancel", "clear", "send", "publish", "unpublish", "thrown"}
       /\ writeMutex = None
       /\ at[t] = "cancel" /\ t \in Listeners => listenerThread = t
    \/ at[t] = "join" /\ lifecycleMutex = None /\ at[joins[t]] = "ended"
    \/ at[t] \in {"connect", "read", "write"} /\ signalled
    \/ at[t] \in {"top", "create", "retry", "accepted", "reset", "loop", "issue",
                  "aborted", "frames", "callback", "fault", "kick", "disconnect"}

(* Stop is never stuck behind a client: it holds the mutex that Start needs  *)
(* while it waits for the one SendResponse holds, and joins the listener that *)
(* a callback may use to call Stop again; still somebody can go on.          *)
StopNeverStuck ==
    (\E t \in Threads : at[t] \in {"stop", "cancel", "join", "clear"})
        => \E t \in Threads : Free(t)

(* Stop comes back, whatever the client does, however long the time-outs are *)
(* and even while somebody waits for the client in SendResponse.             *)
StopReturns == \A o \in Owners : at[o] = "stop" ~> at[o] = "idle"

(* With the time-outs, a connection on which a write has failed is given up. *)
FaultEnds ==
    (\A t \in Threads : WF_vars(TimesOut(t))) =>
        \A l \in Listeners :
            (at[l] \in Serving /\ faultedOn = pipe[l]) ~> at[l] \notin Serving
=============================================================================
