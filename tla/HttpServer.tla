----------------------------- MODULE HttpServer -----------------------------
(***************************************************************************)
(* The HTTP/1 server of modules/raster_runtime_http/src/server.rs: the     *)
(* listener task of `listen`, one task per connection (spawn_connection),  *)
(* the service future Hyper runs in it for each request (dispatch, under   *)
(* the process-wide lock HTTP_JS_ROOT), the request and response objects   *)
(* JavaScript holds, and close / closeAllConnections /                     *)
(* closeIdleConnections.  Hyper and the clients are external: a request, a *)
(* body frame or a disconnection may come at any moment.                   *)
(*                                                                         *)
(* All tasks run on the JS thread; an action is what one of them does      *)
(* between two awaits, or one call JavaScript makes.  A server listens     *)
(* once.                                                                   *)
(***************************************************************************)
EXTENDS Integers, FiniteSets

CONSTANTS
    Conns,          \* connections clients may open
    MaxRequests,    \* requests on one connection
    MaxBody,        \* max_request_body_size, in frames
    RequestTimeout, \* request_timeout in ms (0 = none)
    KeepAlive,      \* keep_alive_timeout # 0
    Uses            \* what JavaScript and the clients make use of

ASSUME HttpAssumption ==
    /\ IsFiniteSet(Conns)
    /\ MaxRequests \in Nat /\ MaxBody \in Nat /\ RequestTimeout \in Nat
    /\ KeepAlive \in BOOLEAN
    /\ Uses \subseteq {"earlyClose", "closeAll", "closeIdle", "unref",
                       "pause", "resume", "destroy", "continue", "upgrade"}

VARIABLES
    listener,      \* the task spawned by listen()
    listening,     \* Server.listening
    closing,       \* Server.closing
    closeEmitted,  \* Server.close_emitted
    stopMsg,       \* a close_tx message the listener has not received
    connections,   \* Server.connections
    serverRef,     \* Server.loop_ref is referenced
    othersHold,    \* another handle of the runtime is referenced
    conn,          \* the task of each connection
    closeMsg,      \* connections with a connection_close message pending
    idleMsg,       \* idle_close messages pending (a second one is Lagged)
    activity,      \* activity_tx messages pending
    armed,         \* connections with keep_alive_armed
    active,        \* active_requests of each connection
    inflight,      \* RuntimeLoopState.http_inflight
    svc,           \* where the connection's service future is
    lockOwner,     \* the connection, if any, whose dispatch has HTTP_JS_ROOT
    kind,          \* what the request in progress is
    served,        \* requests begun on each connection
    req            \* the IncomingMessage and ServerResponse of the request

serverVars == <<listener, listening, closing, closeEmitted, stopMsg>>
holdVars == <<serverRef, othersHold>>
taskVars == <<closeMsg, idleMsg, activity, armed>>
callVars == <<active, inflight, svc, lockOwner, kind, served, req>>
vars == <<serverVars, connections, holdVars, conn, taskVars, callVars>>

\* Past acquire() in dispatch, and with the service future pending at all.
Serving == {"handler", "body", "reply"}
InFlight == {"wait"} \cup Serving

\* From the emit in dispatch to its first await no other task runs.  (Bound
\* comes before any handler, and dispatch itself only runs with the lock.)
ThreadFree == \A c \in Conns : svc[c] # "handler"

\* The request and response objects: what dispatch or JavaScript still reads.
\* resp is "streaming" once start() has sent the head, "ended" once body_tx is
\* dropped too, "dropped" when destroy() took tx unsent; waited is the age in
\* ms of the timeout around body.frame().
Message == [resp: {"none", "open", "streaming", "ended", "dropped"},
            paused: BOOLEAN, destroyed: BOOLEAN, continued: BOOLEAN,
            body: 0..MaxBody, waited: 0..RequestTimeout]

NoMessage == [resp |-> "none", paused |-> FALSE, destroyed |-> FALSE,
              continued |-> FALSE, body |-> 0, waited |-> 0]

-----------------------------------------------------------------------------
(* HTTP_JS_ROOT, a Mutex of tokio: it is taken by lock() when it is free,   *)
(* and given to one of those that wait when its guard is dropped.  (It has  *)
(* it then whether or not its task has run; tokio takes the one that waits  *)
(* longest.)  Each service future has its own HTTP_DISPATCH_NEST, which     *)
(* starts at 0, so that dispatch always locks.                              *)

Lock(c) == lockOwner' = IF lockOwner = {} THEN {c} ELSE lockOwner

\* The guard of c, or its lock() that waits, is dropped.
Unlock(c) ==
    LET waiting == {d \in Conns \ {c} : svc[d] = "wait"} IN
    \/ c \notin lockOwner /\ UNCHANGED lockOwner
    \/ c \in lockOwner /\ waiting = {} /\ lockOwner' = {}
    \/ c \in lockOwner /\ \E d \in waiting : lockOwner' = {d}

-----------------------------------------------------------------------------
(* Server: listening and closing.                                           *)

\* Mutant: the connections still open are not looked at.
CloseReadyAnyConns(cl, lis, n) == cl /\ ~lis /\ ~closeEmitted

\* emit_close_if_ready: whether the caller emits "close".
CloseReady(cl, lis, n) == cl /\ ~lis /\ n = 0 /\ ~closeEmitted

EmitCloseIfReady(cl, lis, n) ==
    closeEmitted' = (closeEmitted \/ CloseReady(cl, lis, n))

Listen ==
    /\ listener = "none"
    /\ listener' = "binding"
    /\ UNCHANGED <<listening, closing, closeEmitted, stopMsg, connections,
                   holdVars, conn, taskVars, callVars>>

\* The bind completes: "listening" is emitted.
Bound ==
    /\ listener = "binding"
    /\ listener' = "accepting" /\ listening' = TRUE
    /\ UNCHANGED <<closing, closeEmitted, stopMsg, connections, holdVars, conn,
                   taskVars, callVars>>

\* close(): the listener, if there is one, is told to stop.
Close ==
    /\ "earlyClose" \in Uses \/ listener \in {"accepting", "ended"}
    /\ closing' = TRUE
    /\ stopMsg' = (stopMsg \/ listener \in {"binding", "accepting"})
    /\ EmitCloseIfReady(TRUE, listening, connections)
    /\ UNCHANGED <<listener, listening, connections, holdVars, conn, taskVars,
                   callVars>>

\* keeps_event_loop_alive(loop_ref)
KeepsAlive == serverRef \/ othersHold

\* The accept loop ends: on close(), or when nothing keeps the event loop alive.
ListenerStops ==
    /\ listener = "accepting" /\ ThreadFree
    /\ stopMsg \/ ~KeepsAlive
    /\ listener' = "ended" /\ listening' = FALSE /\ stopMsg' = FALSE
    /\ EmitCloseIfReady(closing, FALSE, connections)
    /\ UNCHANGED <<closing, connections, holdVars, conn, taskVars, callVars>>

\* ref(), unref(), and the references of the runtime's other handles.
RefServer(b) ==
    /\ "unref" \in Uses /\ serverRef # b
    /\ serverRef' = b
    /\ UNCHANGED <<serverVars, connections, othersHold, conn, taskVars,
                   callVars>>

OthersHold(b) ==
    /\ "unref" \in Uses /\ othersHold # b
    /\ othersHold' = b
    /\ UNCHANGED <<serverVars, connections, serverRef, conn, taskVars,
                   callVars>>

\* Mutant: the connection is not counted in.
AcceptUncounted(c) ==
    /\ listener = "accepting" /\ KeepsAlive /\ ThreadFree
    /\ conn[c] = "none"
    /\ conn' = [conn EXCEPT ![c] = "open"]
    /\ UNCHANGED <<serverVars, connections, holdVars, taskVars, callVars>>

\* spawn_connection
Accept(c) ==
    /\ listener = "accepting" /\ KeepsAlive /\ ThreadFree
    /\ conn[c] = "none"
    /\ conn' = [conn EXCEPT ![c] = "open"]
    /\ connections' = connections + 1
    /\ UNCHANGED <<serverVars, holdVars, taskVars, callVars>>

-----------------------------------------------------------------------------
(* The task of a connection: select! over the close channels, the idle      *)
(* timer and the Hyper connection.                                          *)

\* Mutant: close is looked for before the connection is counted out.
DropEmitFirst(c) ==
    /\ conn' = [conn EXCEPT ![c] = "gone"]
    /\ connections' = connections - 1
    /\ EmitCloseIfReady(closing, listening, connections)
    /\ svc' = [svc EXCEPT ![c] = "idle"]
    /\ req' = [req EXCEPT ![c] = NoMessage]
    /\ closeMsg' = closeMsg \ {c} /\ armed' = armed \ {c}
    /\ idleMsg' = [idleMsg EXCEPT ![c] = 0]
    /\ activity' = [activity EXCEPT ![c] = 0]
    /\ Unlock(c)
    /\ UNCHANGED <<listener, listening, closing, stopMsg, holdVars, active,
                   inflight, kind, served>>

\* Mutant: the lock of a dispatch that is dropped is not given back.
DropKeepsLock(c) ==
    /\ conn' = [conn EXCEPT ![c] = "gone"]
    /\ connections' = connections - 1
    /\ EmitCloseIfReady(closing, listening, connections - 1)
    /\ svc' = [svc EXCEPT ![c] = "idle"]
    /\ req' = [req EXCEPT ![c] = NoMessage]
    /\ closeMsg' = closeMsg \ {c} /\ armed' = armed \ {c}
    /\ idleMsg' = [idleMsg EXCEPT ![c] = 0]
    /\ activity' = [activity EXCEPT ![c] = 0]
    /\ UNCHANGED <<listener, listening, closing, stopMsg, holdVars, active,
                   inflight, lockOwner, kind, served>>

\* The task leaves its loop and drops the Hyper connection.  A service future
\* still pending is dropped with it, at the await where it is: its guard or its
\* place among those that wait for the lock goes, and its
\* adjust_http_inflight(-1) is not reached.
Drop(c) ==
    /\ conn' = [conn EXCEPT ![c] = "gone"]
    /\ connections' = connections - 1
    /\ EmitCloseIfReady(closing, listening, connections - 1)
    /\ svc' = [svc EXCEPT ![c] = "idle"]
    /\ req' = [req EXCEPT ![c] = NoMessage]
    /\ closeMsg' = closeMsg \ {c} /\ armed' = armed \ {c}
    /\ idleMsg' = [idleMsg EXCEPT ![c] = 0]
    /\ activity' = [activity EXCEPT ![c] = 0]
    /\ Unlock(c)
    /\ UNCHANGED <<listener, listening, closing, stopMsg, holdVars, active,
                   inflight, kind, served>>

CloseAllConnections ==
    /\ "closeAll" \in Uses
    /\ closeMsg' = closeMsg \cup {c \in Conns : conn[c] = "open"}
    /\ UNCHANGED <<serverVars, connections, holdVars, conn, idleMsg, activity,
                   armed, callVars>>

ConnectionClose(c) ==
    /\ conn[c] = "open" /\ c \in closeMsg /\ ThreadFree
    /\ Drop(c)

\* A channel of one slot: a receiver two or more messages behind gets a Lagged
\* error, then the last message.
CloseIdleConnections ==
    /\ "closeIdle" \in Uses
    /\ idleMsg' = [c \in Conns |-> IF conn[c] # "open" THEN 0
                                   ELSE IF idleMsg[c] = 0 THEN 1 ELSE 2]
    /\ UNCHANGED <<serverVars, connections, holdVars, conn, closeMsg, activity,
                   armed, callVars>>

\* Mutant: a connection that waits for the lock counts as idle.
IdleWhileWaiting(c) == svc[c] \notin Serving

\* active_requests is 0.
Idle(c) == active[c] = 0

\* idle_close is received.
IdleClose(c) ==
    /\ conn[c] = "open" /\ idleMsg[c] > 0 /\ ThreadFree
    /\ \/ Idle(c) /\ Drop(c)
       \/ /\ ~Idle(c)
          /\ idleMsg' = [idleMsg EXCEPT ![c] = @ - 1]
          /\ UNCHANGED <<serverVars, connections, holdVars, conn, closeMsg,
                         activity, armed, callVars>>

\* A request has ended: the keep-alive timer is armed and restarted.
Activity(c) ==
    /\ KeepAlive /\ conn[c] = "open" /\ activity[c] > 0 /\ ThreadFree
    /\ activity' = [activity EXCEPT ![c] = @ - 1]
    /\ armed' = armed \cup {c}
    /\ UNCHANGED <<serverVars, connections, holdVars, conn, closeMsg, idleMsg,
                   callVars>>

\* The keep-alive timer expires (with a request active it is only restarted).
IdleTimeout(c) ==
    /\ KeepAlive /\ conn[c] = "open" /\ c \in armed /\ ThreadFree
    /\ Idle(c)
    /\ Drop(c)

\* The Hyper connection ends: the client left, the headers were too slow, the
\* response said Connection: close, or the connection was upgraded.
ConnectionDone(c) ==
    /\ conn[c] = "open" /\ ThreadFree
    /\ Drop(c)

-----------------------------------------------------------------------------
(* The service future: dispatch.                                            *)

\* A request head is read: both counters go up, then dispatch asks for the lock.
Request(c, k) ==
    /\ conn[c] = "open" /\ svc[c] = "idle" /\ ThreadFree
    /\ served[c] < MaxRequests
    /\ k # "plain" => k \in Uses
    /\ served' = [served EXCEPT ![c] = @ + 1]
    /\ svc' = [svc EXCEPT ![c] = "wait"] /\ Lock(c)
    /\ kind' = [kind EXCEPT ![c] = k]
    /\ active' = [active EXCEPT ![c] = @ + 1]
    /\ inflight' = inflight + 1
    /\ UNCHANGED <<serverVars, connections, holdVars, conn, taskVars, req>>

\* dispatch has the lock, builds req and res and emits "request", or
\* "checkContinue" when there is a listener for it.
Dispatch(c) ==
    /\ svc[c] = "wait" /\ kind[c] # "upgrade" /\ c \in lockOwner
    /\ svc' = [svc EXCEPT ![c] = "handler"]
    /\ req' = [req EXCEPT ![c] = [NoMessage EXCEPT !.resp = "open"]]
    /\ UNCHANGED <<serverVars, connections, holdVars, conn, taskVars, active,
                   inflight, lockOwner, kind, served>>

\* dispatch returns (its guard is dropped) and the service takes both counters
\* down; s is what Hyper does with the connection next.
Finish(c, s) ==
    /\ svc' = [svc EXCEPT ![c] = s] /\ Unlock(c)
    /\ req' = [req EXCEPT ![c] = NoMessage]
    /\ active' = [active EXCEPT ![c] = @ - 1]
    /\ inflight' = inflight - 1
    /\ activity' = IF KeepAlive THEN [activity EXCEPT ![c] = @ + 1]
                   ELSE activity
    /\ UNCHANGED <<serverVars, connections, holdVars, conn, closeMsg, idleMsg,
                   armed, kind, served>>

\* An upgrade or CONNECT: refused without a listener, else accepted; either
\* way dispatch returns at once and no request follows.
Upgrade(c) ==
    /\ svc[c] = "wait" /\ kind[c] = "upgrade" /\ c \in lockOwner
    /\ Finish(c, "last")

\* The code from one await to the next inside dispatch of c.
Proceed(c, s, m) ==
    /\ svc' = [svc EXCEPT ![c] = s]
    /\ req' = [req EXCEPT ![c] = m]
    /\ UNCHANGED <<serverVars, connections, holdVars, conn, taskVars, active,
                   inflight, lockOwner, kind, served>>

\* consume_body: "checkContinue" lets JavaScript decide, before the first await.
ConsumeBody(c) == kind[c] # "continue" \/ req[c].continued

\* Mutant: the guard is dropped after the handler, before the awaits.
HandlerDoneUnlocks(c) ==
    /\ svc[c] = "handler"
    /\ svc' = [svc EXCEPT ![c] = IF req[c].resp \in {"open", "dropped"} /\ ConsumeBody(c)
                                 THEN "body" ELSE "reply"]
    /\ Unlock(c)
    /\ UNCHANGED <<serverVars, connections, holdVars, conn, taskVars, active,
                   inflight, kind, served, req>>

\* After the handler and up to 512 turns of the pump: the body is read unless
\* the response has been committed.
HandlerDone(c) ==
    /\ svc[c] = "handler"
    /\ Proceed(c, IF req[c].resp \in {"open", "dropped"} /\ ConsumeBody(c)
                  THEN "body" ELSE "reply", req[c])

\* The oneshot channel of the response: sent, or its sender dropped.
Answerable(c) == req[c].resp \in {"streaming", "ended", "dropped"}

\* The body loop is in its select!; with the request paused it only pumps.
Selecting(c) == svc[c] = "body" /\ ~req[c].paused /\ ~req[c].destroyed

\* Mutant: the body loop does not look at the response.
AwaitsResponseAfterBody(c) == svc[c] = "reply"

\* Where dispatch selects on rx.
AwaitsResponse(c) == svc[c] = "reply" \/ Selecting(c)

\* The response arrives and is returned; Hyper writes one that JavaScript has
\* not ended until it has.
Reply(c) ==
    /\ AwaitsResponse(c) /\ Answerable(c)
    /\ Finish(c, IF req[c].resp = "streaming" THEN "writing" ELSE "idle")

\* The request is destroyed, or its last frame was read (or failed): "end".
BodyDone(c) ==
    /\ svc[c] = "body" /\ (req[c].destroyed \/ ~req[c].paused)
    /\ Proceed(c, "reply", [req[c] EXCEPT !.waited = 0])

\* A frame that fits is buffered and emitted as "data"; the loop turns.
BodyFrame(c) ==
    /\ Selecting(c) /\ req[c].body < MaxBody
    /\ Proceed(c, "body", [req[c] EXCEPT !.body = @ + 1, !.waited = 0])

\* dispatch answers for itself: 413 for a frame that does not fit, 408 when the
\* timeout around body.frame() elapses.
TooLarge(c) ==
    /\ Selecting(c) /\ req[c].body = MaxBody
    /\ Finish(c, "last")

TimedOut(c) ==
    /\ Selecting(c) /\ RequestTimeout > 0 /\ req[c].waited = RequestTimeout
    /\ Finish(c, "idle")

\* A millisecond goes by on the timeout of this turn.
Millisecond(c) ==
    /\ Selecting(c) /\ req[c].waited < RequestTimeout
    /\ Proceed(c, "body", [req[c] EXCEPT !.waited = @ + 1])

\* pump_tick: JavaScript runs, then the loop turns and makes a new timeout.
PumpTick(c) ==
    /\ Selecting(c) /\ req[c].waited > 0
    /\ Proceed(c, "body", [req[c] EXCEPT !.waited = 0])

-----------------------------------------------------------------------------
(* What JavaScript does with the request and the response.                  *)

\* write, writeHead, flushHeaders, _implicitHeader: start() sends the head.
StartResponse(c) ==
    /\ svc[c] \in Serving /\ req[c].resp = "open"
    /\ Proceed(c, svc[c], [req[c] EXCEPT !.resp = "streaming"])

\* end(): the head if need be, then the end of the body.
EndResponse(c) ==
    /\ svc[c] \in Serving /\ req[c].resp \in {"open", "streaming"}
    /\ Proceed(c, svc[c], [req[c] EXCEPT !.resp = "ended"])

\* destroy(): tx and body_tx are dropped.
DestroyResponse(c) ==
    /\ "destroy" \in Uses
    /\ svc[c] \in Serving /\ req[c].resp \in {"open", "streaming"}
    /\ Proceed(c, svc[c], [req[c] EXCEPT !.resp =
                             IF @ = "open" THEN "dropped" ELSE "ended"])

\* end() or destroy() on a response whose head dispatch has returned.
EndStream(c) ==
    /\ svc[c] = "writing"
    /\ Proceed(c, "idle", NoMessage)

\* req.pause(), req.resume(), req.destroy(); a paused loop leaves its select!.
Pause(c, b) ==
    /\ (IF b THEN "pause" ELSE "resume") \in Uses
    /\ svc[c] \in {"handler", "body"} /\ req[c].paused # b
    /\ Proceed(c, svc[c], [req[c] EXCEPT !.paused = b, !.waited = 0])

DestroyRequest(c) ==
    /\ "destroy" \in Uses
    /\ svc[c] \in {"handler", "body"} /\ ~req[c].destroyed
    /\ Proceed(c, svc[c], [req[c] EXCEPT !.destroyed = TRUE, !.waited = 0])

\* req.read() takes what is buffered.
Read(c) ==
    /\ svc[c] \in Serving /\ req[c].body > 0
    /\ Proceed(c, svc[c], [req[c] EXCEPT !.body = 0])

\* res.writeContinue()
WriteContinue(c) ==
    /\ svc[c] \in Serving /\ kind[c] = "continue" /\ ~req[c].continued
    /\ Proceed(c, svc[c], [req[c] EXCEPT !.continued = TRUE])

-----------------------------------------------------------------------------

Init ==
    /\ listener = "none" /\ listening = FALSE /\ closing = FALSE
    /\ closeEmitted = FALSE /\ stopMsg = FALSE /\ connections = 0
    /\ serverRef = TRUE /\ othersHold = FALSE
    /\ conn = [c \in Conns |-> "none"]
    /\ closeMsg = {} /\ armed = {}
    /\ idleMsg = [c \in Conns |-> 0] /\ activity = [c \in Conns |-> 0]
    /\ active = [c \in Conns |-> 0] /\ inflight = 0
    /\ svc = [c \in Conns |-> "idle"] /\ lockOwner = {} /\ kind = [c \in Conns |-> "plain"]
    /\ served = [c \in Conns |-> 0]
    /\ req = [c \in Conns |-> NoMessage]

\* A turn of the listener, of a connection or of the client behind it.
TaskStep(c) ==
    \/ Accept(c) \/ ConnectionClose(c) \/ IdleClose(c) \/ Activity(c)
    \/ IdleTimeout(c) \/ ConnectionDone(c)
    \/ \E k \in {"plain", "continue", "upgrade"} : Request(c, k)
    \/ Dispatch(c) \/ Upgrade(c) \/ Reply(c) \/ BodyDone(c) \/ BodyFrame(c)
    \/ TooLarge(c) \/ TimedOut(c) \/ Millisecond(c) \/ PumpTick(c)

\* What JavaScript may do in the handler and between turns.
MessageStep(c) ==
    \/ StartResponse(c) \/ EndResponse(c) \/ DestroyResponse(c) \/ EndStream(c)
    \/ DestroyRequest(c) \/ Read(c) \/ WriteContinue(c)
    \/ \E b \in BOOLEAN : Pause(c, b)

ServerStep ==
    \/ Listen \/ Close \/ CloseAllConnections \/ CloseIdleConnections
    \/ \E b \in BOOLEAN : RefServer(b) \/ OthersHold(b)

Next ==
    \/ Bound \/ ListenerStops \/ ServerStep
    \/ \E c \in Conns : TaskStep(c) \/ HandlerDone(c) \/ MessageStep(c)

Spec == Init /\ [][Next]_vars

\* A handler returns; a task whose select! has a ready branch is polled and
\* takes it, the accept loop's and the connections' close channels included;
\* interval ticks and milliseconds come; select! tries its branches in random
\* order, so one that is ready again and again is taken.  Clients and JavaScript owe nothing.
Fairness ==
    /\ WF_vars(Bound) /\ WF_vars(ListenerStops)
    /\ \A c \in Conns :
        /\ WF_vars(HandlerDone(c))
        /\ WF_vars(Reply(c) \/ (BodyDone(c) /\ req[c].destroyed))
        /\ SF_vars(TimedOut(c))
        /\ WF_vars(PumpTick(c))
        /\ WF_vars(Millisecond(c))
        /\ WF_vars(ConnectionClose(c))

FairSpec == Spec /\ Fairness

-----------------------------------------------------------------------------
(* Properties.                                                              *)

ServerTypes ==
    /\ listener \in {"none", "binding", "accepting", "ended"}
    /\ connections \in Nat
    /\ conn \in [Conns -> {"none", "open", "gone"}]

FlagTypes ==
    /\ listening \in BOOLEAN /\ closing \in BOOLEAN
    /\ closeEmitted \in BOOLEAN /\ stopMsg \in BOOLEAN
    /\ serverRef \in BOOLEAN /\ othersHold \in BOOLEAN

TaskTypes ==
    /\ closeMsg \subseteq Conns /\ armed \subseteq Conns
    /\ idleMsg \in [Conns -> 0..2] /\ activity \in [Conns -> Nat]

CallTypes ==
    /\ active \in [Conns -> Nat] /\ inflight \in Nat
    /\ svc \in [Conns -> InFlight \cup {"idle", "writing", "last"}]
    /\ lockOwner \subseteq Conns
    /\ kind \in [Conns -> {"plain", "continue", "upgrade"}]
    /\ served \in [Conns -> 0..MaxRequests]
    /\ req \in [Conns -> Message]

\* Every variable has its type: the counters, which are decremented unchecked
\* (fetch_sub on a usize), never go below zero.
TypeOK == ServerTypes /\ FlagTypes /\ TaskTypes /\ CallTypes

\* HTTP_JS_ROOT: the handlers of two connections never overlap, though dispatch
\* awaits the body and the response and may be dropped at any of those awaits:
\* the guard lives from before the handler until dispatch returns.
OneHandler ==
    \A c, d \in Conns : svc[c] \in Serving /\ svc[d] \in Serving => c = d

\* HTTP_JS_ROOT is never lost: whoever has it is a request in flight on an open
\* connection, and while a request waits somebody has it, though a connection
\* may be dropped with the lock, while it waits, or just after it was given the
\* lock.  Otherwise no request of the process would be handled any more.
LockNotLost ==
    /\ \A c \in lockOwner : conn[c] = "open" /\ svc[c] \in InFlight
    /\ lockOwner = {} => \A c \in Conns : svc[c] # "wait"

\* HTTP_JS_ROOT serialises the handlers and lets each of them have its turn:
\* taken on every way into dispatch, it is given back, once, on every way out.
LockSound == OneHandler /\ LockNotLost

\* "close" is not lost: once close() was called, the listener has ended and the
\* last connection is gone, one of the three callers of emit_close_if_ready has
\* emitted it, in whatever order the three things happened.
CloseNotLost ==
    closing /\ listener \in {"none", "ended"} /\ connections = 0 => closeEmitted

\* After "close" the server does not listen and no connection is open.
CloseMeansQuiet ==
    closeEmitted => ~listening /\ \A c \in Conns : conn[c] # "open"

\* closeIdleConnections() and the keep-alive timer spare a connection whose
\* request is in dispatch or waits for the lock.
IdleSparesRequests ==
    [][\A c \in Conns :
         (IdleClose(c) \/ IdleTimeout(c)) /\ svc[c] \in InFlight
            => conn'[c] = "open"]_vars

\* http_inflight counts the requests being dispatched or waiting for it.
InflightExact == inflight = Cardinality({c \in Conns : svc[c] \in InFlight})

\* A response that JavaScript has sent is returned to Hyper, whatever the
\* client does about the rest of its body (or the connection is dropped).
Answered ==
    \A c \in Conns : (svc[c] \in Serving /\ Answerable(c))
                        ~> svc[c] \notin Serving

\* close() and closeAllConnections() bring the server down: when the listener
\* has ended and every open connection was told to close, "close" comes.
ShutdownCompletes ==
    (/\ closing /\ listener = "ended"
     /\ \A c \in Conns : conn[c] = "open" => c \in closeMsg)
        ~> closeEmitted

\* request_timeout: a request whose body does not come leaves the body loop.
BodyTimesOut ==
    \A c \in Conns : svc[c] = "body" ~> svc[c] # "body"
=============================================================================
