-------------------------- MODULE HttpServerProofs --------------------------
(* Proofs about HttpServer: types, the lock, the "close" event, idle closes. *)
EXTENDS HttpServer, TLAPS, FiniteSetTheorems

\* The connections that are open, and those with a request in the service.
Open == {c \in Conns : conn[c] = "open"}
Pending == {c \in Conns : svc[c] \in InFlight}

\* listening follows the listener task; close() comes after the bind.
ListenOrder ==
    /\ listening <=> listener = "accepting"
    /\ "earlyClose" \notin Uses => (closing => listener \in {"accepting", "ended"})

\* Server.connections counts the tasks that have not left their loop.
Counted == connections = Cardinality(Open)

\* active_requests is exact; http_inflight is never too low.
ActiveExact ==
    /\ \A c \in Conns :
         /\ conn[c] # "open" => svc[c] = "idle"
         /\ conn[c] = "none" => active[c] = 0
         /\ conn[c] = "open" => active[c] = IF svc[c] \in InFlight THEN 1 ELSE 0
    /\ Cardinality(Pending) <= inflight

\* Without an early close(), "close" is only emitted once the listener ended.
QuietOrder ==
    "earlyClose" \notin Uses /\ closeEmitted => listener = "ended" /\ connections = 0

\* A handler that has begun and not returned has HTTP_JS_ROOT, and nobody else.
LockHeld ==
    /\ \A c \in Conns : svc[c] \in Serving => c \in lockOwner
    /\ \A c, d \in lockOwner : c = d
    /\ LockNotLost

IInv == /\ TypeOK /\ ListenOrder /\ Counted /\ ActiveExact
        /\ LockHeld /\ CloseNotLost /\ QuietOrder

-----------------------------------------------------------------------------

\* Sets of connections can be counted.
LEMMA FiniteConns == \A S \in SUBSET Conns : IsFiniteSet(S) /\ Cardinality(S) \in Nat
BY HttpAssumption, FS_Subset, FS_CardinalityType

\* How the two counts move when one connection's entry changes.
LEMMA OpenStep ==
    ASSUME NEW c \in Conns, \A d \in Conns : d # c => conn'[d] = conn[d]
    PROVE  /\ conn[c] # "open" /\ conn'[c] = "open" => Cardinality(Open') = Cardinality(Open) + 1
           /\ conn[c] = "open" /\ conn'[c] # "open" => Cardinality(Open') = Cardinality(Open) - 1
<1>1. IsFiniteSet(Open)
  BY FiniteConns DEF Open
<1>2. CASE conn[c] # "open" /\ conn'[c] = "open"
  <2>1. Open' = Open \cup {c} /\ c \notin Open
    BY <1>2 DEF Open
  <2> QED
    BY <2>1, <1>1, <1>2, FS_AddElement
<1>3. CASE conn[c] = "open" /\ conn'[c] # "open"
  <2>1. Open' = Open \ {c} /\ c \in Open
    BY <1>3 DEF Open
  <2> QED
    BY <2>1, <1>1, <1>3, FS_RemoveElement
<1> QED
  BY <1>2, <1>3

\* A step of one connection's service changes the number in flight by one at most.
LEMMA PendingStep ==
    ASSUME NEW c \in Conns, \A d \in Conns : d # c => svc'[d] = svc[d]
    PROVE  /\ svc[c] \notin InFlight /\ svc'[c] \in InFlight
                => Cardinality(Pending') = Cardinality(Pending) + 1
           /\ svc[c] \in InFlight /\ svc'[c] \notin InFlight
                => Cardinality(Pending') = Cardinality(Pending) - 1
           /\ (svc[c] \in InFlight <=> svc'[c] \in InFlight)
                => Cardinality(Pending') = Cardinality(Pending)
<1>1. IsFiniteSet(Pending)
  BY FiniteConns DEF Pending
<1>2. CASE svc[c] \notin InFlight /\ svc'[c] \in InFlight
  <2>1. Pending' = Pending \cup {c} /\ c \notin Pending
    BY <1>2 DEF Pending
  <2> QED
    BY <2>1, <1>1, <1>2, FS_AddElement
<1>3. CASE svc[c] \in InFlight /\ svc'[c] \notin InFlight
  <2>1. Pending' = Pending \ {c} /\ c \in Pending
    BY <1>3 DEF Pending
  <2> QED
    BY <2>1, <1>1, <1>3, FS_RemoveElement
<1>4. CASE svc[c] \in InFlight <=> svc'[c] \in InFlight
  <2>1. Pending' = Pending
    BY <1>4 DEF Pending
  <2> QED
    BY <2>1, <1>4
<1> QED
  BY <1>2, <1>3, <1>4

\* The state of a connection without a message is a message's.
LEMMA NoMessageType == NoMessage \in Message /\ [NoMessage EXCEPT !.resp = "open"] \in Message
<1>1. 0 \in 0..MaxBody /\ 0 \in 0..RequestTimeout
  BY HttpAssumption
<1>2. FALSE \in BOOLEAN
  OBVIOUS
<1>3. NoMessage \in Message
  BY <1>1, <1>2 DEF NoMessage, Message
<1> QED
  BY <1>3 DEF Message

\* A server starts with no connection.
LEMMA InitIInv == Init => IInv
<1> SUFFICES ASSUME Init PROVE IInv
  OBVIOUS
<1>1. TypeOK
  <2>1. ServerTypes
    BY DEF Init, ServerTypes
  <2>2. FlagTypes
    BY DEF Init, FlagTypes
  <2>3. TaskTypes
    BY DEF Init, TaskTypes
  <2>4. CallTypes
    BY NoMessageType, HttpAssumption DEF Init, CallTypes
  <2> QED
    BY <2>1, <2>2, <2>3, <2>4 DEF TypeOK
<1>2. Open = {} /\ Pending = {}
  BY DEF Init, Open, Pending, InFlight, Serving
<1> QED
  BY <1>1, <1>2, FS_EmptySet DEF Init, IInv, ListenOrder, Counted, ActiveExact,
     LockHeld, LockNotLost, CloseNotLost, QuietOrder, InFlight, Serving

-----------------------------------------------------------------------------
(* The pieces the actions of a connection share.                            *)

\* The service future of c ends, by returning or by being dropped: its lock goes
\* to one that waits, or nobody waits.
LEMMA UnlockHeld ==
    ASSUME LockHeld, CallTypes, ActiveExact, NEW c \in Conns, NEW s, s \notin InFlight,
           svc' = [svc EXCEPT ![c] = s], Unlock(c), \A d \in Conns : d # c => conn'[d] = conn[d]
    PROVE  LockHeld'
<1> USE DEF LockHeld, LockNotLost
<1>1. \A d \in Conns : IF d = c THEN svc'[d] \notin InFlight ELSE svc'[d] = svc[d]
  BY DEF CallTypes
<1>2. /\ \A x \in Serving : x \in InFlight
      /\ "wait" \in InFlight /\ "wait" \notin Serving /\ "idle" \notin InFlight
  BY DEF Serving, InFlight
<1>3. lockOwner \subseteq Conns
  BY DEF CallTypes
<1>4. CASE c \notin lockOwner /\ lockOwner' = lockOwner
  BY <1>1, <1>2, <1>3, <1>4
<1>5. CASE c \in lockOwner
  <2>1. \A d \in Conns : d # c => svc'[d] \notin Serving
    BY <1>1, <1>5
  <2>2. \A d \in Conns : svc'[d] \notin Serving
    BY <1>1, <1>2, <2>1
  <2>3. CASE lockOwner' = {} /\ {d \in Conns \ {c} : svc[d] = "wait"} = {}
    BY <1>1, <1>2, <2>2, <2>3
  <2>4. ASSUME NEW d \in Conns \ {c}, svc[d] = "wait", lockOwner' = {d} PROVE LockHeld'
    <3>1. svc'[d] = "wait" /\ conn'[d] = "open"
      BY <1>1, <2>4 DEF ActiveExact
    <3> QED
      BY <1>2, <2>2, <2>4, <3>1
  <2> QED
    BY <1>5, <2>3, <2>4 DEF Unlock
<1> QED
  BY <1>4, <1>5 DEF Unlock

\* The task of an open connection ends.
LEMMA DropIInv ==
    ASSUME IInv, NEW c \in Conns, conn[c] = "open", Drop(c)
    PROVE  IInv'
<1> USE DEF IInv, TypeOK
<1>1. conn' = [conn EXCEPT ![c] = "gone"] /\ svc' = [svc EXCEPT ![c] = "idle"]
  BY DEF Drop
<1>2. Cardinality(Open') = Cardinality(Open) - 1
  BY <1>1, OpenStep DEF ServerTypes
<1>3. Cardinality(Open') \in Nat /\ Cardinality(Open) \in Nat
  BY FiniteConns DEF Open
<1>4. connections' = connections - 1 /\ connections' \in Nat
  BY <1>2, <1>3 DEF Drop, Counted
<1>5. TypeOK'
  <2>1. ServerTypes'
    BY <1>1, <1>4 DEF ServerTypes, Drop
  <2>2. FlagTypes'
    <3>1. closeEmitted' \in BOOLEAN
      BY DEF Drop, EmitCloseIfReady
    <3> QED
      BY <3>1 DEF FlagTypes, Drop, holdVars
  <2>3. TaskTypes'
    BY DEF TaskTypes, Drop
  <2>4. CallTypes'
    <3>1. lockOwner' \subseteq Conns
      BY DEF CallTypes, Drop, Unlock
    <3> QED
      BY <3>1, NoMessageType DEF CallTypes, Drop
  <2> QED
    BY <2>1, <2>2, <2>3, <2>4
<1>6. ListenOrder'
  BY DEF ListenOrder, Drop
<1>7. Counted'
  BY <1>2, <1>4 DEF Counted
<1>8. ActiveExact'
  <2>1. Cardinality(Pending') <= Cardinality(Pending)
    <3>1. Pending' \in SUBSET Pending
      BY <1>1 DEF Pending, CallTypes, InFlight, Serving
    <3>2. IsFiniteSet(Pending)
      BY FiniteConns DEF Pending
    <3> QED
      BY <3>1, <3>2, FS_Subset
  <2>2. Cardinality(Pending) \in Nat /\ Cardinality(Pending') \in Nat
    BY FiniteConns DEF Pending
  <2>3. \A d \in Conns : /\ conn'[d] # "open" => svc'[d] = "idle"
                         /\ conn'[d] = "none" => active'[d] = 0
                         /\ conn'[d] = "open" => active'[d] = IF svc'[d] \in InFlight THEN 1 ELSE 0
    BY <1>1 DEF ActiveExact, Drop, ServerTypes, CallTypes
  <2> QED
    BY <2>1, <2>2, <2>3 DEF ActiveExact, Drop, CallTypes
<1>9. LockHeld'
  <2>1. \A d \in Conns : d # c => conn'[d] = conn[d]
    BY <1>1 DEF ServerTypes
  <2>2. Unlock(c)
    BY DEF Drop
  <2>3. "idle" \notin InFlight
    BY DEF InFlight, Serving
  <2> QED
    BY <1>1, <2>1, <2>2, <2>3, UnlockHeld
<1>10. CloseNotLost'
  BY <1>4 DEF CloseNotLost, ListenOrder, Drop, EmitCloseIfReady, CloseReady, FlagTypes
<1>11. QuietOrder'
  BY <1>3, <1>2, <1>4 DEF QuietOrder, ListenOrder, Counted, Drop, EmitCloseIfReady, CloseReady, FlagTypes, ServerTypes
<1> QED
  BY <1>5, <1>6, <1>7, <1>8, <1>9, <1>10, <1>11

\* The service future of a request in flight returns.
LEMMA FinishIInv ==
    ASSUME IInv, NEW c \in Conns, svc[c] \in InFlight,
           NEW s \in {"idle", "writing", "last"}, Finish(c, s)
    PROVE  IInv'
<1> USE DEF IInv, TypeOK
<1>1. conn[c] = "open" /\ active[c] = 1
  BY DEF ActiveExact, InFlight, Serving, ServerTypes
<1>2. svc' = [svc EXCEPT ![c] = s] /\ s \notin InFlight
  BY DEF Finish, InFlight, Serving
<1>3. Cardinality(Pending') = Cardinality(Pending) - 1
  BY <1>2, PendingStep DEF CallTypes
<1>4. Cardinality(Pending') \in Nat /\ Cardinality(Pending) \in Nat
  BY FiniteConns DEF Pending
<1>5. inflight' = inflight - 1 /\ inflight' \in Nat /\ Cardinality(Pending') <= inflight'
  BY <1>3, <1>4 DEF Finish, ActiveExact, CallTypes
<1>6. TypeOK'
  <2>1. ServerTypes' /\ FlagTypes'
    BY DEF ServerTypes, FlagTypes, Finish, serverVars, holdVars
  <2>2. TaskTypes'
    BY DEF TaskTypes, Finish
  <2>3. CallTypes'
    <3>1. lockOwner' \subseteq Conns
      BY DEF CallTypes, Finish, Unlock
    <3> QED
      BY <3>1, <1>1, <1>5, NoMessageType DEF CallTypes, Finish
  <2> QED
    BY <2>1, <2>2, <2>3
<1>7. ListenOrder' /\ QuietOrder' /\ CloseNotLost'
  BY DEF ListenOrder, QuietOrder, CloseNotLost, Finish, serverVars
<1>8. Counted'
  BY DEF Counted, Open, Finish
<1>9. ActiveExact'
  BY <1>1, <1>2, <1>5 DEF ActiveExact, Finish, CallTypes
<1>10. LockHeld'
  <2>1. Unlock(c) /\ conn' = conn
    BY DEF Finish
  <2> QED
    BY <1>2, <2>1, UnlockHeld
<1> QED
  BY <1>6, <1>7, <1>8, <1>9, <1>10

\* dispatch, or JavaScript on its request, moves on without the counters.
LEMMA ProceedIInv ==
    ASSUME IInv, NEW c \in Conns, NEW s, NEW m \in Message, Proceed(c, s, m),
           (svc[c] \in Serving /\ s \in Serving) \/ (svc[c] = "writing" /\ s = "idle")
    PROVE  IInv'
<1> USE DEF IInv, TypeOK
<1>1. svc' = [svc EXCEPT ![c] = s] /\ (s \in InFlight <=> svc[c] \in InFlight)
  BY DEF Proceed, InFlight, Serving
<1>2. Cardinality(Pending') = Cardinality(Pending)
  BY <1>1, PendingStep DEF CallTypes
<1>3. conn[c] = "open"
  BY DEF ActiveExact, Serving
<1>4. TypeOK'
  <2>1. ServerTypes' /\ FlagTypes' /\ TaskTypes'
    BY DEF ServerTypes, FlagTypes, TaskTypes, Proceed, serverVars, holdVars, taskVars
  <2>2. CallTypes'
    BY DEF CallTypes, Proceed, InFlight
  <2> QED
    BY <2>1, <2>2
<1>5. ListenOrder' /\ QuietOrder' /\ CloseNotLost'
  BY DEF ListenOrder, QuietOrder, CloseNotLost, Proceed, serverVars
<1>6. Counted'
  BY DEF Counted, Open, Proceed
<1>7. ActiveExact'
  BY <1>1, <1>2, <1>3 DEF ActiveExact, Proceed, CallTypes
<1>8. LockHeld'
  <2>1. lockOwner' = lockOwner /\ conn' = conn
    BY DEF Proceed
  <2>2. \A d \in Conns : d # c => svc'[d] = svc[d]
    BY <1>1 DEF CallTypes
  <2>3. /\ svc'[c] = s /\ (svc'[c] \in Serving <=> svc[c] \in Serving)
        /\ svc'[c] # "wait" /\ svc[c] # "wait"
    BY <1>1 DEF CallTypes, Serving
  <2>4. lockOwner \subseteq Conns
    BY DEF CallTypes
  <2> QED
    BY <1>1, <2>1, <2>2, <2>3, <2>4 DEF LockHeld, LockNotLost
<1> QED
  BY <1>4, <1>5, <1>6, <1>7, <1>8

\* Every value the actions give the request and response objects is one.
LEMMA MessageTypes ==
    ASSUME NEW m \in Message, NEW b \in BOOLEAN
    PROVE  /\ [m EXCEPT !.resp = "streaming"] \in Message
           /\ [m EXCEPT !.resp = "ended"] \in Message
           /\ [m EXCEPT !.resp = IF @ = "open" THEN "dropped" ELSE "ended"] \in Message
           /\ [m EXCEPT !.paused = b, !.waited = 0] \in Message
           /\ [m EXCEPT !.destroyed = TRUE, !.waited = 0] \in Message
           /\ [m EXCEPT !.continued = TRUE] \in Message
           /\ [m EXCEPT !.body = 0] \in Message
           /\ [m EXCEPT !.waited = 0] \in Message
           /\ m.body < MaxBody => [m EXCEPT !.body = @ + 1, !.waited = 0] \in Message
           /\ m.waited < RequestTimeout => [m EXCEPT !.waited = @ + 1] \in Message
<1>1. 0 \in 0..MaxBody /\ 0 \in 0..RequestTimeout
  BY HttpAssumption
<1>2. /\ m.body < MaxBody => m.body + 1 \in 0..MaxBody
      /\ m.waited < RequestTimeout => m.waited + 1 \in 0..RequestTimeout
  BY HttpAssumption DEF Message
<1>3. TRUE \in BOOLEAN
  OBVIOUS
<1> QED
  BY <1>1, <1>2, <1>3 DEF Message

\* Every step keeps the types, the counters and their bookkeeping.
LEMMA StepIInv == IInv /\ [Next]_vars => IInv'
<1> SUFFICES ASSUME IInv, [Next]_vars PROVE IInv'
  OBVIOUS
<1> USE DEF IInv, TypeOK
<1>m. \A c \in Conns : req[c] \in Message
  BY DEF CallTypes
<1>t. /\ Serving = {"handler", "body", "reply"}
      /\ "wait" \in InFlight /\ \A x \in Serving : x \in InFlight
  BY DEF Serving, InFlight
<1>1. CASE Listen
  <2>1. TypeOK'
    BY <1>1 DEF Listen, ServerTypes, FlagTypes, TaskTypes, CallTypes, taskVars, callVars, holdVars
  <2>2. Counted' /\ ActiveExact' /\ LockHeld'
    BY <1>1 DEF Listen, Counted, Open, ActiveExact, Pending, LockHeld, LockNotLost, callVars
  <2> QED
    BY <1>1, <2>1, <2>2 DEF Listen, ListenOrder, CloseNotLost, QuietOrder, FlagTypes
<1>2. CASE Bound
  <2>1. TypeOK'
    BY <1>2 DEF Bound, ServerTypes, FlagTypes, TaskTypes, CallTypes, taskVars, callVars, holdVars
  <2>2. Counted' /\ ActiveExact' /\ LockHeld'
    BY <1>2 DEF Bound, Counted, Open, ActiveExact, Pending, LockHeld, LockNotLost, callVars
  <2> QED
    BY <1>2, <2>1, <2>2 DEF Bound, ListenOrder, CloseNotLost, QuietOrder, FlagTypes
<1>3. CASE Close
  <2>1. TypeOK'
    BY <1>3 DEF Close, EmitCloseIfReady, ServerTypes, FlagTypes, TaskTypes, CallTypes, taskVars, callVars, holdVars
  <2>2. Counted' /\ ActiveExact' /\ LockHeld'
    BY <1>3 DEF Close, Counted, Open, ActiveExact, Pending, LockHeld, LockNotLost, callVars
  <2> QED
    BY <1>3, <2>1, <2>2 DEF Close, EmitCloseIfReady, CloseReady, ListenOrder, CloseNotLost, QuietOrder, FlagTypes
<1>4. CASE ListenerStops
  <2>1. TypeOK'
    BY <1>4 DEF ListenerStops, EmitCloseIfReady, ServerTypes, FlagTypes, TaskTypes, CallTypes, taskVars, callVars, holdVars
  <2>2. Counted' /\ ActiveExact' /\ LockHeld'
    BY <1>4 DEF ListenerStops, Counted, Open, ActiveExact, Pending, LockHeld, LockNotLost, callVars
  <2> QED
    BY <1>4, <2>1, <2>2 DEF ListenerStops, EmitCloseIfReady, CloseReady, ListenOrder, CloseNotLost, QuietOrder, FlagTypes
<1>5. ASSUME NEW b \in BOOLEAN, RefServer(b) \/ OthersHold(b) PROVE IInv'
  <2>1. TypeOK'
    BY <1>5 DEF RefServer, OthersHold, ServerTypes, FlagTypes, TaskTypes, CallTypes, taskVars, callVars, serverVars
  <2> QED
    BY <1>5, <2>1 DEF RefServer, OthersHold, serverVars, callVars, ListenOrder, Counted, Open,
       ActiveExact, Pending, LockHeld, LockNotLost, CloseNotLost, QuietOrder
<1>6. CASE CloseAllConnections \/ CloseIdleConnections
  <2>1. TaskTypes'
    BY <1>6 DEF CloseAllConnections, CloseIdleConnections, TaskTypes
  <2>2. ServerTypes' /\ FlagTypes' /\ CallTypes'
    BY <1>6 DEF CloseAllConnections, CloseIdleConnections, ServerTypes, FlagTypes, CallTypes,
       callVars, serverVars, holdVars
  <2>3. LockHeld'
    BY <1>6 DEF CloseAllConnections, CloseIdleConnections, callVars, LockHeld, LockNotLost
  <2>4. ListenOrder' /\ CloseNotLost' /\ QuietOrder'
    BY <1>6 DEF CloseAllConnections, CloseIdleConnections, serverVars, ListenOrder, CloseNotLost, QuietOrder
  <2>5. Counted' /\ ActiveExact'
    BY <1>6 DEF CloseAllConnections, CloseIdleConnections, callVars, Counted, Open, ActiveExact, Pending
  <2> QED
    BY <2>1, <2>2, <2>3, <2>4, <2>5
<1>7. ASSUME NEW c \in Conns, Accept(c) PROVE IInv'
  <2>1. conn' = [conn EXCEPT ![c] = "open"] /\ connections' = connections + 1
    BY <1>7 DEF Accept
  <2>2. Cardinality(Open') = Cardinality(Open) + 1
    BY <1>7, <2>1, OpenStep DEF Accept, ServerTypes
  <2>3. TypeOK'
    BY <1>7, <2>1 DEF Accept, ServerTypes, FlagTypes, TaskTypes, CallTypes, taskVars, callVars,
       holdVars, serverVars
  <2>4. Counted'
    BY <2>1, <2>2 DEF Counted
  <2>5. ActiveExact'
    BY <1>7, <2>1, <1>t DEF Accept, ActiveExact, Pending, callVars, ServerTypes, InFlight, Serving
  <2>6. LockHeld'
    <3>1. svc' = svc /\ lockOwner' = lockOwner
      BY <1>7 DEF Accept, callVars
    <3>2. \A d \in Conns : conn[d] = "open" => conn'[d] = "open"
      BY <2>1 DEF ServerTypes
    <3>3. lockOwner \subseteq Conns
      BY DEF CallTypes
    <3> QED
      BY <3>1, <3>2, <3>3 DEF LockHeld, LockNotLost
  <2> QED
    BY <1>7, <2>1, <2>3, <2>4, <2>5, <2>6 DEF Accept, ListenOrder, CloseNotLost, QuietOrder, serverVars, ServerTypes
<1>8. ASSUME NEW c \in Conns, ConnectionClose(c) \/ IdleTimeout(c) \/ ConnectionDone(c) PROVE IInv'
  BY <1>8, DropIInv DEF ConnectionClose, IdleTimeout, ConnectionDone
<1>9. ASSUME NEW c \in Conns, IdleClose(c) PROVE IInv'
  <2>1. CASE Drop(c)
    BY <1>9, <2>1, DropIInv DEF IdleClose
  <2>2. CASE ~Drop(c)
    <3>1. TaskTypes'
      BY <1>9, <2>2 DEF IdleClose, TaskTypes
    <3>2. ServerTypes' /\ FlagTypes' /\ CallTypes'
      BY <1>9, <2>2 DEF IdleClose, ServerTypes, FlagTypes, CallTypes, callVars, serverVars, holdVars
    <3>3. LockHeld'
      BY <1>9, <2>2 DEF IdleClose, callVars, LockHeld, LockNotLost
    <3>4. ListenOrder' /\ CloseNotLost' /\ QuietOrder'
      BY <1>9, <2>2 DEF IdleClose, serverVars, ListenOrder, CloseNotLost, QuietOrder
    <3>5. Counted' /\ ActiveExact'
      BY <1>9, <2>2 DEF IdleClose, callVars, Counted, Open, ActiveExact, Pending
    <3> QED
      BY <3>1, <3>2, <3>3, <3>4, <3>5
  <2> QED
    BY <2>1, <2>2
<1>10. ASSUME NEW c \in Conns, Activity(c) PROVE IInv'
  <2>1. TaskTypes'
    BY <1>10 DEF Activity, TaskTypes
  <2>2. ServerTypes' /\ FlagTypes' /\ CallTypes'
    BY <1>10 DEF Activity, ServerTypes, FlagTypes, CallTypes, callVars, serverVars, holdVars
  <2> QED
    BY <1>10, <2>1, <2>2 DEF Activity, serverVars, callVars,
       ListenOrder, Counted, Open, ActiveExact, Pending, LockHeld, LockNotLost, CloseNotLost, QuietOrder
<1>11. ASSUME NEW c \in Conns, NEW k \in {"plain", "continue", "upgrade"}, Request(c, k) PROVE IInv'
  <2>1. svc' = [svc EXCEPT ![c] = "wait"] /\ svc[c] = "idle" /\ "idle" \notin InFlight
    BY <1>11 DEF Request, InFlight, Serving
  <2>2. Cardinality(Pending') = Cardinality(Pending) + 1
    BY <2>1, <1>t, PendingStep DEF CallTypes
  <2>3. Cardinality(Pending) \in Nat
    BY FiniteConns DEF Pending
  <2>4. CallTypes'
    BY <1>11, HttpAssumption DEF Request, Lock, CallTypes, InFlight
  <2>5. ServerTypes' /\ FlagTypes' /\ TaskTypes'
    BY <1>11 DEF Request, ServerTypes, FlagTypes, TaskTypes, taskVars, serverVars, holdVars
  <2>6. ActiveExact'
    BY <1>11, <1>t, <2>1, <2>2, <2>3 DEF Request, ActiveExact, CallTypes
  <2>7. LockHeld'
    <3>1. Lock(c) /\ conn[c] = "open" /\ conn' = conn
      BY <1>11 DEF Request
    <3>2. svc'[c] = "wait" /\ \A d \in Conns : d # c => svc'[d] = svc[d]
      BY <2>1 DEF CallTypes
    <3>3. lockOwner \subseteq Conns /\ "wait" \notin Serving
      BY DEF CallTypes, Serving
    <3>4. \A d \in lockOwner : svc'[d] = svc[d]
      BY <2>1, <3>2, <3>3 DEF LockHeld, LockNotLost
    <3>5. CASE lockOwner = {}
      BY <1>t, <3>1, <3>2, <3>3, <3>5 DEF Lock, LockHeld, LockNotLost
    <3>6. CASE lockOwner # {}
      BY <3>1, <3>2, <3>3, <3>4, <3>6 DEF Lock, LockHeld, LockNotLost
    <3> QED
      BY <3>5, <3>6
  <2> QED
    BY <1>11, <2>4, <2>5, <2>6, <2>7 DEF Request, serverVars, ListenOrder, Counted, Open, CloseNotLost, QuietOrder
<1>12. ASSUME NEW c \in Conns, Dispatch(c) PROVE IInv'
  <2>1. svc' = [svc EXCEPT ![c] = "handler"] /\ svc[c] = "wait"
    BY <1>12 DEF Dispatch
  <2>2. Cardinality(Pending') = Cardinality(Pending)
    BY <2>1, <1>t, PendingStep DEF CallTypes
  <2>3. CallTypes'
    BY <1>12, NoMessageType DEF Dispatch, CallTypes, InFlight, Serving
  <2>4. ServerTypes' /\ FlagTypes' /\ TaskTypes'
    BY <1>12 DEF Dispatch, ServerTypes, FlagTypes, TaskTypes, taskVars, serverVars, holdVars
  <2>5. ActiveExact'
    BY <1>12, <1>t, <2>1, <2>2 DEF Dispatch, ActiveExact, CallTypes
  <2>6. LockHeld'
    <3>1. c \in lockOwner /\ lockOwner' = lockOwner /\ conn' = conn
      BY <1>12 DEF Dispatch
    <3>2. svc'[c] = "handler" /\ \A d \in Conns : d # c => svc'[d] = svc[d]
      BY <2>1 DEF CallTypes
    <3>3. lockOwner \subseteq Conns
      BY DEF CallTypes
    <3> QED
      BY <1>t, <3>1, <3>2, <3>3 DEF LockHeld, LockNotLost
  <2> QED
    BY <1>12, <2>3, <2>4, <2>5, <2>6 DEF Dispatch, serverVars, ListenOrder, Counted, Open, CloseNotLost, QuietOrder
<1>13. ASSUME NEW c \in Conns, Upgrade(c) \/ Reply(c) \/ TooLarge(c) \/ TimedOut(c) PROVE IInv'
  BY <1>13, <1>t, FinishIInv DEF Upgrade, Reply, TooLarge, TimedOut, AwaitsResponse, Selecting
<1>14. ASSUME NEW c \in Conns, HandlerDone(c) \/ BodyDone(c) \/ BodyFrame(c) \/ Millisecond(c) \/ PumpTick(c)
       PROVE IInv'
  <2>1. CASE HandlerDone(c)
    BY <1>m, <1>t, <2>1, ProceedIInv DEF HandlerDone
  <2>2. CASE BodyDone(c)
    BY <1>m, <1>t, <2>2, ProceedIInv, MessageTypes, Zenon DEF BodyDone
  <2>3. CASE BodyFrame(c)
    BY <1>m, <1>t, <2>3, ProceedIInv, MessageTypes, Zenon DEF BodyFrame, Selecting
  <2>4. CASE Millisecond(c)
    BY <1>m, <1>t, <2>4, ProceedIInv, MessageTypes, Zenon DEF Millisecond, Selecting
  <2>5. CASE PumpTick(c)
    BY <1>m, <1>t, <2>5, ProceedIInv, MessageTypes, Zenon DEF PumpTick, Selecting
  <2> QED
    BY <1>14, <2>1, <2>2, <2>3, <2>4, <2>5
<1>15. ASSUME NEW c \in Conns, MessageStep(c) PROVE IInv'
  <2>1. CASE StartResponse(c)
    BY <1>m, <2>1, ProceedIInv, MessageTypes, Zenon DEF StartResponse
  <2>2. CASE EndResponse(c)
    BY <1>m, <2>2, ProceedIInv, MessageTypes, Zenon DEF EndResponse
  <2>3. CASE DestroyResponse(c)
    BY <1>m, <2>3, ProceedIInv, MessageTypes, Zenon DEF DestroyResponse
  <2>4. CASE EndStream(c)
    BY NoMessageType, <2>4, ProceedIInv DEF EndStream
  <2>5. CASE DestroyRequest(c)
    BY <1>m, <1>t, <2>5, ProceedIInv, MessageTypes, Zenon DEF DestroyRequest
  <2>6. CASE Read(c)
    BY <1>m, <2>6, ProceedIInv, MessageTypes, Zenon DEF Read
  <2>7. CASE WriteContinue(c)
    BY <1>m, <2>7, ProceedIInv, MessageTypes, Zenon DEF WriteContinue
  <2>8. ASSUME NEW b \in BOOLEAN, Pause(c, b) PROVE IInv'
    BY <1>m, <1>t, <2>8, ProceedIInv, MessageTypes, Zenon DEF Pause
  <2> QED
    BY <1>15, <2>1, <2>2, <2>3, <2>4, <2>5, <2>6, <2>7, <2>8 DEF MessageStep
<1>16. CASE UNCHANGED vars
  BY <1>16 DEF vars, serverVars, holdVars, taskVars, callVars, ServerTypes, FlagTypes, TaskTypes,
     CallTypes, ListenOrder, Counted, Open, ActiveExact, Pending, LockHeld, LockNotLost, CloseNotLost, QuietOrder
<1> QED
  BY <1>1, <1>2, <1>3, <1>4, <1>5, <1>6, <1>7, <1>8, <1>9, <1>10, <1>11, <1>12, <1>13, <1>14,
     <1>15, <1>16 DEF Next, ServerStep, TaskStep

\* IInv holds in every reachable state.
LEMMA InvariantHolds == Spec => []IInv
BY InitIInv, StepIInv, PTL DEF Spec

-----------------------------------------------------------------------------

\* The counters of the server and of its connections never go below zero, and
\* every other variable has its type, for any number of connections.
THEOREM HttpTypesHold == Spec => []TypeOK
<1>1. IInv => TypeOK
  BY DEF IInv
<1> QED
  BY <1>1, InvariantHolds, PTL

\* HTTP_JS_ROOT serialises the handlers of any number of connections: a handler
\* that has begun has the lock until its dispatch returns or is dropped, and it
\* is the only one that has it, however the lock was handed on.
THEOREM HandlersAreSerial == Spec => []OneHandler
<1>1. IInv => OneHandler
  BY DEF IInv, LockHeld, OneHandler
<1> QED
  BY <1>1, InvariantHolds, PTL

\* HTTP_JS_ROOT is never lost: a dispatch that returns, or is dropped at any of
\* its awaits, hands it on when a request of any connection waits.
THEOREM LockIsNotLost == Spec => []LockNotLost
<1>1. IInv => LockNotLost
  BY DEF IInv, LockHeld
<1> QED
  BY <1>1, InvariantHolds, PTL

\* Both together: HTTP_JS_ROOT does what dispatch takes it for.
THEOREM LockIsSound == Spec => []LockSound
BY HandlersAreSerial, LockIsNotLost, PTL DEF LockSound

\* "close" is never lost, whatever the order of close(), the end of the
\* listener and the ends of the connections.
THEOREM CloseIsNotLost == Spec => []CloseNotLost
<1>1. IInv => CloseNotLost
  BY DEF IInv
<1> QED
  BY <1>1, InvariantHolds, PTL

\* A server that is closed after "listening" is quiet once it emits "close".
THEOREM CloseIsQuiet ==
    ASSUME "earlyClose" \notin Uses
    PROVE  Spec => []CloseMeansQuiet
<1>1. IInv => CloseMeansQuiet
  <2> SUFFICES ASSUME IInv, closeEmitted PROVE ~listening /\ \A c \in Conns : conn[c] # "open"
    BY DEF CloseMeansQuiet
  <2>1. listener = "ended" /\ connections = 0
    BY DEF IInv, QuietOrder
  <2>2. Cardinality(Open) = 0 /\ IsFiniteSet(Open)
    BY <2>1, FiniteConns DEF IInv, Counted, Open
  <2>3. Open = {}
    BY <2>2, FS_EmptySet
  <2> QED
    BY <2>1, <2>3 DEF IInv, ListenOrder, Open
<1> QED
  BY <1>1, InvariantHolds, PTL

\* closeIdleConnections() and the keep-alive timer never cut a request.
THEOREM IdleClosesSpareRequests == Spec => IdleSparesRequests
<1>1. ASSUME IInv, [Next]_vars
      PROVE  [\A c \in Conns : (IdleClose(c) \/ IdleTimeout(c)) /\ svc[c] \in InFlight
                => conn'[c] = "open"]_vars
  <2> SUFFICES ASSUME NEW c \in Conns, IdleClose(c) \/ IdleTimeout(c), svc[c] \in InFlight
               PROVE  conn'[c] = "open"
    OBVIOUS
  <2>1. conn[c] = "open" /\ active[c] = 1
    BY <1>1 DEF IInv, ActiveExact, IdleClose, IdleTimeout
  <2>2. ~Idle(c)
    BY <2>1 DEF Idle
  <2> QED
    BY <2>1, <2>2 DEF IdleClose, IdleTimeout
<1> QED
  BY <1>1, InvariantHolds, PTL DEF Spec, IdleSparesRequests
=============================================================================
