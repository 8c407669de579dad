---------------------------- MODULE StreamLemmas ----------------------------
(***************************************************************************)
(* What the operators of WritableOps and ReadableOps keep of a stream, for *)
(* the proofs about the specifications that use them: single streams,      *)
(* pipes, transforms and tees.  The invariant of a stream is a predicate   *)
(* of its record; each operator has a lemma that says what it keeps.       *)
(***************************************************************************)
EXTENDS WritableOps, ReadableOps, SequenceTheorems, FiniteSetTheorems, TLAPS

------------------------------------------------------------------------------
(* The writable stream.                                                    *)

Promise == {"none", "pending", "ok", "err"}
WriteIds == 1..MaxWrites
WriterIds == 1..MaxWriters
MaybeWriter == 0..MaxWriters
Writers == [WriterIds -> [ready : Promise, closed : Promise, late : BOOLEAN]]

Fields ==
  {"st", "bp", "closeReq", "inClose", "inWrite", "abortReq", "writer",
   "writeReqs", "queue", "total", "size", "hwm", "started", "algs",
   "signalled", "closeW", "pend", "panic", "writes", "wp", "closeP",
   "abortP", "writers", "wr"}

(* The type of a stream.                                                   *)
Types(x) ==
  /\ DOMAIN x = Fields
  /\ x.st \in {"writable", "erroring", "errored", "closed"}
  /\ x.bp \in BOOLEAN /\ x.closeReq \in BOOLEAN /\ x.inClose \in BOOLEAN
  /\ x.inWrite \in 0..MaxWrites
  /\ x.abortReq \in {"none", "already", "fresh"}
  /\ x.writer \in MaybeWriter
  /\ x.writeReqs \in Seq(WriteIds) /\ x.queue \in Seq(0..MaxWrites)
  /\ x.total \in Nat /\ x.size \in [WriteIds -> Nat] /\ x.hwm \in Nat
  /\ x.started \in BOOLEAN /\ x.algs \in BOOLEAN /\ x.signalled \in BOOLEAN
  /\ x.closeW \in MaybeWriter
  /\ x.pend \in SUBSET {"start", "write", "close", "abort"}
  /\ x.panic \in BOOLEAN
  /\ x.writes \in 0..MaxWrites
  /\ x.wp \in [WriteIds -> Promise]
  /\ x.closeP \in Promise /\ x.abortP \in Promise
  /\ x.writers \in MaybeWriter
  /\ x.wr \in Writers

(* The stream has ended.                                                   *)
Finished(x) == x.st \in {"closed", "errored"}

(* What is in flight: a reaction is awaited exactly for the operation the  *)
(* stream remembers, at most one of write and close, of a started sink,    *)
(* and never of a finished stream; a fresh abort still finds the           *)
(* algorithms.                                                             *)
InFlight(x) ==
  /\ ~x.panic
  /\ ("write" \in x.pend) <=> (x.inWrite # NoChunk)
  /\ ("close" \in x.pend) <=> x.inClose
  /\ ("start" \in x.pend) <=> ~x.started
  /\ "abort" \in x.pend => x.st = "errored"
  /\ x.inWrite # NoChunk => /\ x.queue # <<>> /\ Head(x.queue) = x.inWrite
                            /\ ~Finished(x) /\ x.started /\ ~x.inClose
  /\ x.inClose => /\ x.queue = <<>> /\ x.writeReqs = <<>>
                  /\ ~Finished(x) /\ x.started /\ ~x.closeReq
  /\ ~x.started => ~Finished(x)
  /\ Finished(x) => x.queue = <<>> /\ x.writeReqs = <<>> /\ x.abortReq = "none"
  /\ x.abortReq = "fresh" => x.algs \/ x.inClose

(* Write i is in flight or requested.                                      *)
Waiting(x, i) == i = x.inWrite \/ \E k \in DOMAIN x.writeReqs : x.writeReqs[k] = i

(* A promise is pending exactly while somebody is there to settle it.      *)
Promises(x) ==
  /\ \A i \in WriteIds : x.wp[i] = "pending" <=> Waiting(x, i)
  /\ x.closeP = "pending" <=> x.closeReq \/ x.inClose
  /\ x.abortP = "pending" <=> x.abortReq # "none" \/ "abort" \in x.pend
  /\ x.closeReq => ~Finished(x) \/ "abort" \in x.pend

(* Writes are numbered, requested, started and answered in order.          *)
Order(x) ==
  /\ \A i \in WriteIds : x.wp[i] = "none" <=> i > x.writes
  /\ \A k, l \in DOMAIN x.writeReqs : k < l => x.writeReqs[k] < x.writeReqs[l]
  /\ \A k \in DOMAIN x.writeReqs : x.inWrite < x.writeReqs[k]
  /\ \A i \in WriteIds : i < x.inWrite => x.wp[i] = "ok"
  /\ \A i, j \in WriteIds : i < j /\ x.wp[j] = "ok" => x.wp[i] = "ok"
  /\ x.inClose \/ x.closeP = "ok" => \A i \in WriteIds : x.wp[i] \in {"none", "ok"}
  /\ x.closeP = "ok" => x.st = "closed"

(* The queue that goes with a write in flight, write requests and a        *)
(* requested close.                                                        *)
Shape(i, reqs, closing) ==
  (IF i = NoChunk THEN <<>> ELSE <<i>>) \o reqs
    \o (IF closing THEN <<CloseSentinel>> ELSE <<>>)

(* A writable stream has failed nothing yet, and its queue matches its     *)
(* requests.                                                               *)
Open(x) ==
  x.st = "writable" =>
    /\ x.queue = Shape(x.inWrite, x.writeReqs, x.closeReq)
    /\ x.algs \/ x.inClose
    /\ x.abortReq = "none"
    /\ \A i \in WriteIds : x.wp[i] # "err"

(* An erroring stream waits for an operation that will finish it.          *)
Busy(x) == x.st = "erroring" => HasOperationInFlight(x) \/ ~x.started


(* There is a writer, acquired while no suspended call and no close in     *)
(* flight carried an older one.                                            *)
Punctual(x) == x.writer # NoWriter /\ ~x.wr[x.writer].late

(* The promises of writer v show the state of the stream.                  *)
Shows(x, v) ==
  /\ x.st = "writable" =>
       x.wr[v].ready = IF x.bp /\ ~CloseQueuedOrInFlight(x) THEN "pending" ELSE "ok"
  /\ x.st \in {"erroring", "errored"} => x.wr[v].ready = "err"
  /\ x.st \in {"writable", "erroring"} => x.wr[v].closed = "pending"
  /\ x.st = "closed" => x.wr[v].closed = "ok" /\ x.wr[v].ready # "pending"
  /\ x.st = "errored" /\ "abort" \notin x.pend => x.wr[v].closed = "err"

(* A punctual writer's promises show the state of the stream, and the      *)
(* close in flight belongs to it.                                          *)
Follows(x) ==
  Punctual(x) =>
    /\ Shows(x, x.writer)
    /\ x.st = "errored" => x.wr[x.writer].closed \in {"pending", "err"}
    /\ x.inClose => x.closeW = x.writer

(* What of Follows survives the steps between two states.                  *)
Held(x) ==
  Punctual(x) => /\ x.wr[x.writer].closed = "pending"
                 /\ x.inClose => x.closeW = x.writer

(* w is the writer a call carries: it is the punctual one if there is one. *)
Told(x, w) == w \in MaybeWriter /\ (Punctual(x) => w = x.writer)

(* y has the writers and the writes of x.                                  *)
Kept(x, y) ==
  /\ y.writer = x.writer /\ y.writers = x.writers /\ y.writes = x.writes
  /\ \A v \in WriterIds : y.wr[v].late = x.wr[v].late

Base(x) == Types(x) /\ InFlight(x) /\ Promises(x) /\ Order(x)

(* The write promises f once the requests were rejected.                   *)
Rejected(f, reqs) ==
  [i \in DOMAIN f |-> IF i \in Elements(reqs) THEN Settle(f[i], "err") ELSE f[i]]

(* y is a stream that differs from x in the fields of S at most.           *)
Agree(x, y, S) ==
  /\ DOMAIN y = Fields
  /\ ("st" \in S \/ y.st = x.st) /\ ("bp" \in S \/ y.bp = x.bp)
  /\ ("closeReq" \in S \/ y.closeReq = x.closeReq) /\ ("inClose" \in S \/ y.inClose = x.inClose)
  /\ ("inWrite" \in S \/ y.inWrite = x.inWrite) /\ ("abortReq" \in S \/ y.abortReq = x.abortReq)
  /\ ("writer" \in S \/ y.writer = x.writer) /\ ("writeReqs" \in S \/ y.writeReqs = x.writeReqs)
  /\ ("queue" \in S \/ y.queue = x.queue) /\ ("total" \in S \/ y.total = x.total)
  /\ ("size" \in S \/ y.size = x.size) /\ ("hwm" \in S \/ y.hwm = x.hwm)
  /\ ("started" \in S \/ y.started = x.started) /\ ("algs" \in S \/ y.algs = x.algs)
  /\ ("signalled" \in S \/ y.signalled = x.signalled) /\ ("closeW" \in S \/ y.closeW = x.closeW)
  /\ ("pend" \in S \/ y.pend = x.pend) /\ ("panic" \in S \/ y.panic = x.panic)
  /\ ("writes" \in S \/ y.writes = x.writes) /\ ("wp" \in S \/ y.wp = x.wp)
  /\ ("closeP" \in S \/ y.closeP = x.closeP) /\ ("abortP" \in S \/ y.abortP = x.abortP)
  /\ ("writers" \in S \/ y.writers = x.writers) /\ ("wr" \in S \/ y.wr = x.wr)

(* y differs from x in the promises of writer w, which are these.          *)
WriterShows(x, y, w, ready, closed) ==
  /\ y.wr \in Writers
  /\ \A v \in WriterIds \ {w} : y.wr[v] = x.wr[v]
  /\ w \in WriterIds => /\ y.wr[w].ready = ready /\ y.wr[w].closed = closed
                        /\ y.wr[w].late = x.wr[w].late

(* The fields of S have their type.                                        *)
Typed(y, S) ==
  /\ "st" \in S => y.st \in {"writable", "erroring", "errored", "closed"}
  /\ "bp" \in S => y.bp \in BOOLEAN
  /\ "closeReq" \in S => y.closeReq \in BOOLEAN
  /\ "inClose" \in S => y.inClose \in BOOLEAN
  /\ "inWrite" \in S => y.inWrite \in 0..MaxWrites
  /\ "abortReq" \in S => y.abortReq \in {"none", "already", "fresh"}
  /\ "writer" \in S => y.writer \in MaybeWriter
  /\ "writeReqs" \in S => y.writeReqs \in Seq(WriteIds)
  /\ "queue" \in S => y.queue \in Seq(0..MaxWrites)
  /\ "total" \in S => y.total \in Nat
  /\ "size" \in S => y.size \in [WriteIds -> Nat]
  /\ "hwm" \in S => y.hwm \in Nat
  /\ "started" \in S => y.started \in BOOLEAN
  /\ "algs" \in S => y.algs \in BOOLEAN
  /\ "signalled" \in S => y.signalled \in BOOLEAN
  /\ "closeW" \in S => y.closeW \in MaybeWriter
  /\ "pend" \in S => y.pend \in SUBSET {"start", "write", "close", "abort"}
  /\ "panic" \in S => y.panic \in BOOLEAN
  /\ "writes" \in S => y.writes \in 0..MaxWrites
  /\ "wp" \in S => y.wp \in [WriteIds -> Promise]
  /\ "closeP" \in S => y.closeP \in Promise
  /\ "abortP" \in S => y.abortP \in Promise
  /\ "writers" \in S => y.writers \in MaybeWriter
  /\ "wr" \in S => y.wr \in Writers

(* Differences add up.                                                     *)
LEMMA AgreeTrans ==
  ASSUME NEW x, NEW y, NEW z, NEW S, NEW T, NEW U, S \subseteq U, T \subseteq U,
         Agree(x, y, S), Agree(y, z, T)
  PROVE  Agree(x, z, U)
BY DEF Agree

------------------------------------------------------------------------------
(* What a step leaves to those who share a writable stream with its sink:  *)
(* the room in the queue, the close and the chunk in flight.               *)

(* y comes of x by a step that neither writes nor closes.                  *)
Tame(x, y) ==
  /\ y.hwm = x.hwm /\ y.total \in Nat /\ y.total <= x.total
  /\ y.st = "writable" => x.st = "writable"
  /\ y.st = "writable" /\ ~CloseQueuedOrInFlight(y) => ~CloseQueuedOrInFlight(x)
  /\ CloseQueuedOrInFlight(y) \/ y.st = "closed" =>
       CloseQueuedOrInFlight(x) \/ x.st = "closed"
  /\ y.st = "closed" \/ y.inClose => x.st \in {"writable", "closed"} \/ x.inClose

(* The backpressure of an open stream is that of its queue.                *)
Exact(x) ==
  x.st = "writable" /\ ~CloseQueuedOrInFlight(x) => x.bp = Backpressure(x)

(* A started sink that has nothing in flight has nothing to do.            *)
Idle(x) ==
  x.st = "writable" /\ x.started /\ x.inWrite = NoChunk => x.queue = <<>>

(* A step that keeps these three.                                          *)
Steady(x, y) == Tame(x, y) /\ (Exact(x) => Exact(y)) /\ (Idle(x) => Idle(y))

(* Two tame steps are one.                                                 *)
LEMMA TameTrans ==
  ASSUME NEW x, NEW y, NEW z, Types(x), Tame(x, y), Tame(y, z)
  PROVE  Tame(x, z)
BY DEF Tame, Types

(* A step that changes none of these fields is tame.                       *)
LEMMA AgreeTame ==
  ASSUME NEW x, NEW y, NEW S, Types(x), Agree(x, y, S),
         "hwm" \notin S, "total" \notin S, "st" \notin S, "closeReq" \notin S,
         "inClose" \notin S
  PROVE  /\ Tame(x, y)
         /\ "bp" \notin S /\ Exact(x) => Exact(y)
         /\ "started" \notin S /\ "inWrite" \notin S /\ "queue" \notin S /\ Idle(x) => Idle(y)
         /\ "inWrite" \notin S => y.inWrite = x.inWrite
<1>1. /\ y.hwm = x.hwm /\ y.total = x.total /\ y.st = x.st
      /\ y.closeReq = x.closeReq /\ y.inClose = x.inClose
      /\ x.total \in Nat
  BY DEF Agree, Types
<1>2. Tame(x, y)
  BY <1>1 DEF Tame, CloseQueuedOrInFlight
<1>3. "bp" \notin S => y.bp = x.bp
  BY DEF Agree
<1>4. /\ "started" \notin S => y.started = x.started
      /\ "inWrite" \notin S => y.inWrite = x.inWrite
      /\ "queue" \notin S => y.queue = x.queue
  BY DEF Agree
<1>5. "bp" \notin S /\ Exact(x) => Exact(y)
  BY <1>1, <1>3 DEF Exact, Backpressure, CloseQueuedOrInFlight
<1>6. "started" \notin S /\ "inWrite" \notin S /\ "queue" \notin S /\ Idle(x) => Idle(y)
  BY <1>1, <1>4 DEF Idle
<1> QED
  BY <1>2, <1>4, <1>5, <1>6

(* A stream that is not writable has no backpressure and nothing to do.    *)
LEMMA FailedExact ==
  ASSUME NEW x, x.st # "writable"
  PROVE  Exact(x) /\ Idle(x)
BY DEF Exact, Idle

------------------------------------------------------------------------------
(* A stream keeps its type when the fields that changed have theirs.       *)
LEMMA TypesCarry ==
  ASSUME NEW x, NEW y, NEW S, Types(x), Agree(x, y, S), Typed(y, S)
  PROVE  Types(y)
<1>1. /\ DOMAIN y = Fields
      /\ y.st \in {"writable", "erroring", "errored", "closed"}
      /\ y.bp \in BOOLEAN /\ y.closeReq \in BOOLEAN /\ y.inClose \in BOOLEAN
      /\ y.inWrite \in 0..MaxWrites
      /\ y.abortReq \in {"none", "already", "fresh"}
  BY DEF Types, Agree, Typed
<1>2. /\ y.writer \in MaybeWriter
      /\ y.writeReqs \in Seq(WriteIds) /\ y.queue \in Seq(0..MaxWrites)
      /\ y.total \in Nat /\ y.size \in [WriteIds -> Nat] /\ y.hwm \in Nat
      /\ y.started \in BOOLEAN /\ y.algs \in BOOLEAN /\ y.signalled \in BOOLEAN
  BY SMTT(30) DEF Types, Agree, Typed
<1>3. /\ y.closeW \in MaybeWriter
      /\ y.pend \in SUBSET {"start", "write", "close", "abort"}
      /\ y.panic \in BOOLEAN /\ y.writes \in 0..MaxWrites
      /\ y.wp \in [WriteIds -> Promise]
      /\ y.closeP \in Promise /\ y.abortP \in Promise
      /\ y.writers \in MaybeWriter /\ y.wr \in Writers
  BY DEF Types, Agree, Typed
<1> QED
  BY <1>1, <1>2, <1>3 DEF Types

(* The table of writers keeps its type when a promise of one is set.       *)
LEMMA WriterUpdate ==
  ASSUME NEW f \in Writers, NEW w \in WriterIds, NEW p \in Promise
  PROVE  /\ [f EXCEPT ![w].ready = p] \in Writers
         /\ [f EXCEPT ![w].closed = p] \in Writers
BY DEF Writers

(* What settling a promise gives: a promise that is no longer pending.     *)
LEMMA SettleType ==
  ASSUME NEW p \in Promise
  PROVE  /\ Settle(p, "ok") \in Promise /\ Settle(p, "err") \in Promise
         /\ Settle(p, "ok") # "pending" /\ Settle(p, "err") # "pending"
         /\ p # "pending" => Settle(p, "ok") = p /\ Settle(p, "err") = p
         /\ p = "pending" => Settle(p, "ok") = "ok" /\ Settle(p, "err") = "err"
BY DEF Settle, Promise

(* The ready promise of the writer the code carries is rejected, and       *)
(* nothing else changes.                                                   *)
LEMMA EnsureReadyEffect ==
  ASSUME NEW x, Types(x), NEW w \in MaybeWriter
  PROVE  LET y == EnsureReadyRejected(x, w)
         IN  /\ Agree(x, y, {"wr"})
             /\ WriterShows(x, y, w, "err", x.wr[w].closed)
<1>1. x.wr \in Writers /\ DOMAIN x = Fields
  BY DEF Types
<1>2. CASE w = NoWriter
  BY <1>1, <1>2 DEF EnsureReadyRejected, Agree, WriterShows, NoWriter, WriterIds
<1>3. CASE w # NoWriter
  <2>1. w \in WriterIds /\ "err" \in Promise
    BY <1>3 DEF NoWriter, WriterIds, MaybeWriter, Promise
  <2>2. [x.wr EXCEPT ![w].ready = "err"] \in Writers
    BY <1>1, <2>1, WriterUpdate
  <2>3. EnsureReadyRejected(x, w) = [x EXCEPT !.wr = [x.wr EXCEPT ![w].ready = "err"]]
    BY <1>3 DEF EnsureReadyRejected
  <2>4. Agree(x, [x EXCEPT !.wr = [x.wr EXCEPT ![w].ready = "err"]], {"wr"})
    BY <1>1 DEF Agree, Fields
  <2> QED
    BY <1>1, <2>1, <2>2, <2>3, <2>4 DEF WriterShows, Writers, Fields
<1> QED
  BY <1>2, <1>3

(* A requested close and the closed promise of the carried writer are      *)
(* rejected.                                                               *)
LEMMA RejectCloseEffect ==
  ASSUME NEW x, Types(x), NEW w \in MaybeWriter
  PROVE  LET y == RejectCloseAndClosed(x, w)
         IN  /\ Agree(x, y, {"wr", "closeReq", "closeP"})
             /\ y.closeReq = FALSE
             /\ y.closeP = IF x.closeReq THEN Settle(x.closeP, "err") ELSE x.closeP
             /\ WriterShows(x, y, w, x.wr[w].ready, Settle(x.wr[w].closed, "err"))
<1>1. x.wr \in Writers /\ DOMAIN x = Fields /\ x.closeReq \in BOOLEAN
  BY DEF Types
<1> DEFINE t == IF x.closeReq
                THEN [x EXCEPT !.closeReq = FALSE, !.closeP = Settle(@, "err")] ELSE x
<1>2. /\ Agree(x, t, {"closeReq", "closeP"}) /\ t.closeReq = FALSE
      /\ t.closeP = IF x.closeReq THEN Settle(x.closeP, "err") ELSE x.closeP
      /\ t.wr = x.wr
  BY <1>1 DEF Agree, Fields
<1>3. RejectCloseAndClosed(x, w)
        = IF w = NoWriter THEN t ELSE [t EXCEPT !.wr[w].closed = Settle(@, "err")]
  BY DEF RejectCloseAndClosed
<1> HIDE DEF t
<1>4. CASE w = NoWriter
  BY <1>1, <1>2, <1>3, <1>4 DEF Agree, WriterShows, NoWriter, WriterIds
<1>5. CASE w # NoWriter
  <2>0. w \in WriterIds
    BY <1>5 DEF NoWriter, WriterIds, MaybeWriter
  <2>1. w \in WriterIds /\ x.wr[w].closed \in Promise
    BY <1>1, <2>0 DEF Writers
  <2> DEFINE f == [x.wr EXCEPT ![w].closed = Settle(@, "err")]
  <2>2. f \in Writers
    BY <1>1, <2>1, WriterUpdate, SettleType
  <2>3. RejectCloseAndClosed(x, w) = [t EXCEPT !.wr = f]
    BY <1>2, <1>3, <1>5
  <2>4. /\ Agree(t, [t EXCEPT !.wr = f], {"wr"}) /\ [t EXCEPT !.wr = f].wr = f
        /\ [t EXCEPT !.wr = f].closeReq = t.closeReq
        /\ [t EXCEPT !.wr = f].closeP = t.closeP
    BY <1>2 DEF Agree, Fields
  <2>5. Agree(x, [t EXCEPT !.wr = f], {"wr", "closeReq", "closeP"})
    BY <1>2, <2>4 DEF Agree
  <2>6. \A v \in WriterIds \ {w} : f[v] = x.wr[v]
    BY <1>1 DEF Writers
  <2>7. /\ f[w].ready = x.wr[w].ready /\ f[w].closed = Settle(x.wr[w].closed, "err")
        /\ f[w].late = x.wr[w].late
    BY <1>1, <2>1 DEF Writers
  <2> QED
    BY <1>2, <2>2, <2>3, <2>4, <2>5, <2>6, <2>7 DEF WriterShows
<1> QED
  BY <1>4, <1>5

(* The fields finish_erroring may change.                                  *)
FinishParts ==
  {"st", "queue", "total", "wp", "writeReqs", "abortReq", "wr", "closeReq",
   "closeP", "abortP", "algs", "pend"}

(* What finish_erroring does to each field: the queue and the requests go, *)
(* the requested abort runs or fails, and without a fresh abort the close  *)
(* and the writer's closed promise are rejected.                           *)
LEMMA FinishErroringEffect ==
  ASSUME NEW x, Types(x), NEW w \in MaybeWriter,
         x.abortReq = "fresh" => x.algs
  PROVE  LET y == FinishErroring(x, w)
             fresh == x.abortReq = "fresh"
         IN  /\ Agree(x, y, FinishParts)
             /\ y.st = "errored" /\ y.queue = <<>> /\ y.total = 0
             /\ y.writeReqs = <<>> /\ y.abortReq = "none"
             /\ y.wp = Rejected(x.wp, x.writeReqs)
             /\ y.closeReq = (x.closeReq /\ fresh)
             /\ y.closeP = IF x.closeReq /\ ~fresh
                           THEN Settle(x.closeP, "err") ELSE x.closeP
             /\ y.abortP = IF x.abortReq = "already"
                           THEN Settle(x.abortP, "err") ELSE x.abortP
             /\ y.algs = (x.algs /\ ~fresh)
             /\ y.pend = IF fresh THEN x.pend \cup {"abort"} ELSE x.pend
             /\ WriterShows(x, y, w, x.wr[w].ready,
                  IF fresh THEN x.wr[w].closed ELSE Settle(x.wr[w].closed, "err"))
<1> DEFINE t == [x EXCEPT !.st = "errored", !.queue = <<>>, !.total = 0,
                          !.wp = [i \in DOMAIN @ |->
                                    IF i \in Elements(x.writeReqs)
                                    THEN Settle(@[i], "err") ELSE @[i]],
                          !.writeReqs = <<>>, !.abortReq = "none"]
           u == [t EXCEPT !.abortP = Settle(@, "err")]
           y == FinishErroring(x, w)
           CommonParts == {"st", "queue", "total", "wp", "writeReqs", "abortReq"}
<1>1. /\ x.abortReq = "none" => y = RejectCloseAndClosed(t, w)
      /\ x.abortReq = "already" => y = RejectCloseAndClosed(u, w)
      /\ x.abortReq = "fresh" => y = AbortSteps(t)
  BY Zenon DEF FinishErroring
<1>2. /\ Agree(x, t, CommonParts)
      /\ t.st = "errored" /\ t.queue = <<>> /\ t.total = 0 /\ t.writeReqs = <<>>
      /\ t.abortReq = "none" /\ t.wp = Rejected(x.wp, x.writeReqs)
  BY DEF Types, Agree, Fields, Rejected
<1>3. /\ Agree(t, u, {"abortP"}) /\ u.abortP = Settle(x.abortP, "err")
  BY <1>2 DEF Agree, Fields
<1>4. Types(t) /\ Types(u)
  <2>1. Rejected(x.wp, x.writeReqs) \in [WriteIds -> Promise]
    BY SettleType DEF Types, Rejected
  <2>2. <<>> \in Seq(WriteIds) /\ <<>> \in Seq(0..MaxWrites)
    BY EmptySeq
  <2> HIDE DEF t, u
  <2>3. Types(t)
    <3> QED
    BY <1>2, <2>1, <2>2 DEF Types, Agree
  <2>4. Settle(x.abortP, "err") \in Promise
    BY SettleType DEF Types
  <2> QED
    BY <1>3, <2>3, <2>4 DEF Types, Agree, Fields
<1> HIDE DEF t, u
<1>5. t.wr = x.wr /\ t.closeReq = x.closeReq /\ t.closeP = x.closeP
      /\ t.abortP = x.abortP /\ t.algs = x.algs /\ t.pend = x.pend
  BY <1>2 DEF Agree
<1>6. CASE x.abortReq # "fresh"
  <2> DEFINE v == IF x.abortReq = "already" THEN u ELSE t
  <2>0. x.abortReq \in {"none", "already"}
    BY <1>6 DEF Types
  <2>1. y = RejectCloseAndClosed(v, w) /\ Types(v)
    BY <1>1, <1>4, <2>0
  <2>2. /\ Agree(t, v, {"abortP"})
        /\ v.abortP = IF x.abortReq = "already"
                      THEN Settle(x.abortP, "err") ELSE x.abortP
    BY <1>2, <1>3, <1>5 DEF Agree
  <2> HIDE DEF v, y
  <2>3. /\ Agree(v, y, {"wr", "closeReq", "closeP"})
        /\ y.closeReq = FALSE
        /\ y.closeP = IF v.closeReq THEN Settle(v.closeP, "err") ELSE v.closeP
        /\ WriterShows(v, y, w, v.wr[w].ready, Settle(v.wr[w].closed, "err"))
    BY <2>1, RejectCloseEffect
  <2>4. v.wr = x.wr /\ v.closeReq = x.closeReq /\ v.closeP = x.closeP
    BY <1>5, <2>2 DEF Agree
  <2>5. Agree(x, y, FinishParts)
    BY <1>2, <2>2, <2>3 DEF Agree, FinishParts
  <2>6. WriterShows(x, y, w, x.wr[w].ready, Settle(x.wr[w].closed, "err"))
    BY <2>3, <2>4 DEF WriterShows
  <2>7. /\ y.st = "errored" /\ y.queue = <<>> /\ y.total = 0 /\ y.writeReqs = <<>>
        /\ y.abortReq = "none" /\ y.wp = Rejected(x.wp, x.writeReqs)
        /\ y.abortP = v.abortP /\ y.algs = x.algs /\ y.pend = x.pend
    BY <1>2, <1>5, <2>2, <2>3 DEF Agree
  <2>8. x.algs \in BOOLEAN /\ x.closeReq \in BOOLEAN
    BY DEF Types
  <2> QED
    BY <1>6, <2>2, <2>3, <2>4, <2>5, <2>6, <2>7, <2>8 DEF y
<1>7. CASE x.abortReq = "fresh"
  <2>1. y = [t EXCEPT !.algs = FALSE, !.pend = @ \cup {"abort"}]
    BY <1>1, <1>5, <1>7 DEF AbortSteps, ClearAlgorithms
  <2>2. /\ Agree(t, y, {"algs", "pend"}) /\ y.algs = FALSE
        /\ y.pend = x.pend \cup {"abort"}
    BY <1>2, <1>5, <2>1 DEF Agree, Fields
  <2> HIDE DEF y
  <2>3. Agree(x, y, FinishParts)
    BY <1>2, <2>2 DEF Agree, FinishParts
  <2>4. /\ y.st = "errored" /\ y.queue = <<>> /\ y.total = 0 /\ y.writeReqs = <<>>
        /\ y.abortReq = "none" /\ y.wp = Rejected(x.wp, x.writeReqs)
        /\ y.abortP = x.abortP /\ y.closeReq = x.closeReq /\ y.closeP = x.closeP
        /\ y.wr = x.wr
    BY <1>2, <1>5, <2>2 DEF Agree
  <2>5. WriterShows(x, y, w, x.wr[w].ready, x.wr[w].closed)
    BY <2>4 DEF WriterShows, Types
  <2>6. x.algs \in BOOLEAN /\ x.closeReq \in BOOLEAN
    BY DEF Types
  <2> QED
    BY <1>7, <2>2, <2>3, <2>4, <2>5, <2>6 DEF y
<1> QED
  BY <1>6, <1>7

(* A change of a writer's promises does not change who is late.            *)
LEMMA ShownKept ==
  ASSUME NEW x, NEW y, NEW w, NEW ready, NEW closed, x.wr \in Writers,
         WriterShows(x, y, w, ready, closed)
  PROVE  \A v \in WriterIds : y.wr[v].late = x.wr[v].late
BY DEF WriterShows

(* finish_erroring, with nothing in flight, leaves an errored stream that  *)
(* satisfies the invariant.                                                *)
LEMMA FinishErroringKeeps ==
  ASSUME NEW x, Base(x), NEW w, Told(x, w), x.st = "erroring",
         x.inWrite = NoChunk, ~x.inClose, x.started
  PROVE  LET y == FinishErroring(x, w)
         IN  /\ Base(y) /\ y.st = "errored" /\ Kept(x, y)
             /\ Follows(x) => Follows(y)
<1> DEFINE y == FinishErroring(x, w)
<1>1. Types(x) /\ w \in MaybeWriter /\ (x.abortReq = "fresh" => x.algs)
  BY DEF Base, InFlight, Told
<1>2. /\ Agree(x, y, FinishParts)
      /\ y.st = "errored" /\ y.queue = <<>> /\ y.total = 0
      /\ y.writeReqs = <<>> /\ y.abortReq = "none"
      /\ y.wp = Rejected(x.wp, x.writeReqs)
      /\ y.closeReq = (x.closeReq /\ x.abortReq = "fresh")
      /\ y.closeP = IF x.closeReq /\ x.abortReq # "fresh"
                    THEN Settle(x.closeP, "err") ELSE x.closeP
      /\ y.abortP = IF x.abortReq = "already" THEN Settle(x.abortP, "err") ELSE x.abortP
      /\ y.algs = (x.algs /\ x.abortReq # "fresh")
      /\ y.pend = IF x.abortReq = "fresh" THEN x.pend \cup {"abort"} ELSE x.pend
      /\ WriterShows(x, y, w, x.wr[w].ready,
           IF x.abortReq = "fresh" THEN x.wr[w].closed
           ELSE Settle(x.wr[w].closed, "err"))
  BY <1>1, FinishErroringEffect
<1> HIDE DEF y
<1>3. /\ y.inWrite = NoChunk /\ y.inClose = x.inClose /\ y.started = x.started
      /\ y.panic = x.panic /\ y.writes = x.writes /\ y.writer = x.writer
      /\ y.writers = x.writers
  BY <1>2 DEF Agree, FinishParts
<1>4. \A i \in WriteIds :
        /\ x.wp[i] \in Promise
        /\ x.wp[i] = "pending" => y.wp[i] = "err"
        /\ x.wp[i] # "pending" => y.wp[i] = x.wp[i]
  <2> TAKE i \in WriteIds
  <2>1. x.wp \in [WriteIds -> Promise] /\ x.inWrite = NoChunk
    BY <1>1 DEF Types
  <2>2. x.wp[i] = "pending" => i \in Elements(x.writeReqs)
    BY DEF Base, Promises, Waiting, Elements, WriteIds, NoChunk
  <2> QED
    BY <1>2, <2>1, <2>2, SettleType DEF Rejected
<1>5. Types(y)
  <2>1. y.wp \in [WriteIds -> Promise]
    BY <1>1, <1>2, SettleType DEF Types, Rejected
  <2>2. <<>> \in Seq(WriteIds) /\ <<>> \in Seq(0..MaxWrites)
    BY EmptySeq
  <2>3. y.closeP \in Promise /\ y.abortP \in Promise
    BY <1>1, <1>2, SettleType DEF Types
  <2>4. /\ y.closeReq \in BOOLEAN /\ y.algs \in BOOLEAN
        /\ y.pend \in SUBSET {"start", "write", "close", "abort"}
    BY <1>1, <1>2 DEF Types
  <2>5. y.wr \in Writers /\ y.total \in Nat
    BY <1>2 DEF WriterShows
  <2>6. /\ DOMAIN y = Fields /\ y.bp = x.bp /\ y.inClose = x.inClose
        /\ y.inWrite = x.inWrite /\ y.writer = x.writer /\ y.size = x.size
        /\ y.hwm = x.hwm /\ y.started = x.started /\ y.signalled = x.signalled
        /\ y.closeW = x.closeW /\ y.panic = x.panic /\ y.writes = x.writes
        /\ y.writers = x.writers
    BY <1>2 DEF Agree, FinishParts
  <2> QED
    BY <1>1, <1>2, <2>1, <2>2, <2>3, <2>4, <2>5, <2>6 DEF Types
<1>6. InFlight(y)
  BY <1>2, <1>3 DEF Base, InFlight, Finished
<1>7. Promises(y)
  <2>1. \A i \in WriteIds : y.wp[i] # "pending" /\ ~Waiting(y, i)
    BY <1>2, <1>3, <1>4 DEF Waiting, WriteIds, NoChunk
  <2>2. x.closeP = "pending" <=> x.closeReq
    BY DEF Base, Promises
  <2>3. x.abortP = "pending" <=> x.abortReq # "none"
    BY DEF Base, Promises, InFlight
  <2>4. y.closeP = "pending" <=> y.closeReq
    BY <1>1, <1>2, <2>2, SettleType DEF Types
  <2>5. y.abortP = "pending" <=> "abort" \in y.pend
    <3>1. "abort" \notin x.pend
      BY DEF Base, InFlight
    <3> QED
      BY <1>1, <1>2, <2>3, <3>1, SettleType DEF Types
  <2>6. y.closeReq => "abort" \in y.pend
    BY <1>2
  <2> QED
    BY <1>2, <1>3, <2>1, <2>4, <2>5, <2>6 DEF Promises
<1>8. Order(y)
  <2>1. x.closeP # "ok" /\ (y.closeP = "ok" => x.closeP = "ok")
    <3>1. x.closeP # "ok"
      BY DEF Base, Order
    <3> QED
      BY <1>1, <1>2, <3>1, SettleType DEF Types, Settle
  <2>2. \A i \in WriteIds : y.wp[i] = "none" <=> i > y.writes
    BY <1>3, <1>4 DEF Base, Order
  <2>3. \A i, j \in WriteIds : i < j /\ y.wp[j] = "ok" => y.wp[i] = "ok"
    BY <1>4 DEF Base, Order
  <2> QED
    BY <1>2, <1>3, <2>1, <2>2, <2>3 DEF Order, WriteIds, NoChunk
<1>9. Kept(x, y)
  BY <1>1, <1>2, <1>3, ShownKept DEF Kept, Types
<1>10. ASSUME Follows(x) PROVE Follows(y)
  <2> SUFFICES ASSUME Punctual(y)
               PROVE  /\ Shows(y, y.writer)
                      /\ y.wr[y.writer].closed \in {"pending", "err"} 
    BY <1>3 DEF Follows
  <2>1. x.writer \in WriterIds
    BY <1>1, <1>3 DEF Punctual, Types, NoWriter, MaybeWriter, WriterIds
  <2>2. Punctual(x) /\ w = x.writer
    BY <1>3, <1>9, <2>1 DEF Punctual, Kept, Told
  <2>3. x.wr[w].ready = "err" /\ x.wr[w].closed = "pending"
    BY <1>10, <2>2 DEF Follows, Shows
  <2> QED
    BY <1>2, <1>3, <2>1, <2>2, <2>3, SettleType DEF Shows, WriterShows, Settle
<1> QED
  BY <1>2, <1>5, <1>6, <1>7, <1>8, <1>9, <1>10 DEF Base, y

(* finish_erroring empties the queue and leaves the chunk in flight.       *)
LEMMA FinishErroringTame ==
  ASSUME NEW x, Types(x), NEW w \in MaybeWriter, x.abortReq = "fresh" => x.algs
  PROVE  LET y == FinishErroring(x, w)
         IN  Tame(x, y) /\ Exact(y) /\ Idle(y) /\ y.inWrite = x.inWrite
<1> DEFINE y == FinishErroring(x, w)
<1>1. /\ Agree(x, y, FinishParts)
      /\ y.st = "errored" /\ y.queue = <<>> /\ y.total = 0
      /\ y.writeReqs = <<>> /\ y.abortReq = "none"
      /\ y.wp = Rejected(x.wp, x.writeReqs)
      /\ y.closeReq = (x.closeReq /\ x.abortReq = "fresh")
      /\ y.closeP = IF x.closeReq /\ ~(x.abortReq = "fresh")
                    THEN Settle(x.closeP, "err") ELSE x.closeP
      /\ y.abortP = IF x.abortReq = "already" THEN Settle(x.abortP, "err") ELSE x.abortP
      /\ y.algs = (x.algs /\ ~(x.abortReq = "fresh"))
      /\ y.pend = IF x.abortReq = "fresh" THEN x.pend \cup {"abort"} ELSE x.pend
      /\ WriterShows(x, y, w, x.wr[w].ready,
           IF x.abortReq = "fresh" THEN x.wr[w].closed
           ELSE Settle(x.wr[w].closed, "err"))
  BY FinishErroringEffect, Zenon
<1> HIDE DEF y
<1>2. /\ y.hwm = x.hwm /\ y.inClose = x.inClose /\ y.inWrite = x.inWrite
      /\ x.total \in Nat /\ x.closeReq \in BOOLEAN
  BY <1>1 DEF Agree, FinishParts, Types
<1>3. Tame(x, y)
  BY <1>1, <1>2 DEF Tame, CloseQueuedOrInFlight
<1> QED
  BY <1>1, <1>2, <1>3, FailedExact DEF y

(* A writable stream that turns erroring rejects the ready promise of its  *)
(* writer.                                                                 *)
LEMMA EnterErroring ==
  ASSUME NEW x, Base(x), NEW w, Told(x, w), x.st = "writable", Held(x)
  PROVE  LET t == EnsureReadyRejected([x EXCEPT !.st = "erroring"], w)
         IN  /\ Base(t) /\ Kept(x, t) /\ Follows(t)
             /\ Agree(x, t, {"st", "wr"}) /\ t.st = "erroring"
<1> DEFINE a == [x EXCEPT !.st = "erroring"]
           t == EnsureReadyRejected(a, w)
<1>1. Types(x) /\ InFlight(x) /\ Promises(x) /\ Order(x) /\ w \in MaybeWriter
  BY DEF Base, Told
<1>2. Agree(x, a, {"st"}) /\ a.st = "erroring"
  BY <1>1 DEF Types, Agree, Fields
<1>3. Types(a)
  BY <1>1, <1>2, TypesCarry DEF Typed
<1> HIDE DEF a
<1>4. Agree(a, t, {"wr"}) /\ WriterShows(a, t, w, "err", a.wr[w].closed)
  BY <1>1, <1>3, EnsureReadyEffect
<1> HIDE DEF t
<1>5. Types(t)
  BY <1>3, <1>4, TypesCarry DEF Typed, WriterShows
<1>6. Agree(x, t, {"st", "wr"}) /\ t.st = "erroring" /\ a.wr = x.wr
  BY <1>2, <1>4 DEF Agree
<1>7. InFlight(t)
  BY <1>1, <1>6 DEF InFlight, Agree, Finished
<1>8. Promises(t)
  BY <1>1, <1>6 DEF Promises, Agree, Finished, Waiting
<1>9. Order(t)
  BY <1>1, <1>6 DEF Order, Agree
<1>10. Kept(x, t)
  BY <1>1, <1>3, <1>4, <1>6, ShownKept DEF Kept, Agree, Types
<1>11. Follows(t)
  <2> SUFFICES ASSUME Punctual(t)
               PROVE  /\ Shows(t, t.writer)
                      /\ t.inClose => t.closeW = t.writer
    BY <1>6 DEF Follows
  <2>1. t.writer = x.writer /\ t.inClose = x.inClose /\ t.closeW = x.closeW
    BY <1>6 DEF Agree
  <2>2. x.writer \in WriterIds
    BY <1>1, <2>1 DEF Punctual, Types, NoWriter, MaybeWriter, WriterIds
  <2>3. Punctual(x) /\ w = x.writer
    BY <1>10, <2>1, <2>2 DEF Punctual, Kept, Told
  <2>4. t.wr[w].ready = "err" /\ t.wr[w].closed = "pending"
    BY <1>4, <1>6, <2>2, <2>3 DEF WriterShows, Held
  <2> QED
    BY <1>6, <2>1, <2>3, <2>4 DEF Shows, Held
<1> QED
  BY <1>5, <1>6, <1>7, <1>8, <1>9, <1>10, <1>11 DEF Base, t, a

(* What two steps keep of the writers, both keep.                          *)
LEMMA KeptTrans ==
  ASSUME NEW x, NEW y, NEW z, Kept(x, y), Kept(y, z)
  PROVE  Kept(x, z)
BY DEF Kept

(* The writer a suspended call carries stays the one to tell while the     *)
(* lock does not change hands.                                             *)
LEMMA KeptTold ==
  ASSUME NEW x, NEW y, NEW w, Types(x), Kept(x, y), Told(x, w)
  PROVE  Told(y, w)
<1>1. ASSUME Punctual(y) PROVE Punctual(x)
  <2>1. x.writer \in WriterIds
    BY <1>1 DEF Punctual, Kept, Types, NoWriter, MaybeWriter, WriterIds
  <2> QED
    BY <1>1, <2>1 DEF Punctual, Kept
<1> QED
  BY <1>1 DEF Told, Kept

(* start_erroring finishes at once when nothing is in flight and the sink  *)
(* has started, and otherwise leaves the stream erroring with the          *)
(* operation that will finish it.                                          *)
LEMMA StartErroringKeeps ==
  ASSUME NEW x, Base(x), NEW w, Told(x, w), x.st = "writable", Held(x)
  PROVE  LET y == StartErroring(x, w)
         IN  /\ Base(y) /\ Busy(y) /\ Kept(x, y) /\ Follows(y)
             /\ y.st = IF HasOperationInFlight(x) \/ ~x.started
                       THEN "erroring" ELSE "errored"
<1> DEFINE t == EnsureReadyRejected([x EXCEPT !.st = "erroring"], w)
           y == StartErroring(x, w)
<1>1. /\ Base(t) /\ Kept(x, t) /\ Follows(t)
      /\ Agree(x, t, {"st", "wr"}) /\ t.st = "erroring"
  BY EnterErroring
<1>2. y = IF ~HasOperationInFlight(t) /\ t.started THEN FinishErroring(t, w) ELSE t
  BY DEF StartErroring
<1> HIDE DEF t, y
<1>3. t.inWrite = x.inWrite /\ t.inClose = x.inClose /\ t.started = x.started
  BY <1>1 DEF Agree
<1>4. CASE HasOperationInFlight(t) \/ ~t.started
  BY <1>1, <1>2, <1>3, <1>4 DEF Busy, HasOperationInFlight, y
<1>5. CASE ~HasOperationInFlight(t) /\ t.started
  <2>1. y = FinishErroring(t, w)
    BY <1>2, <1>5
  <2>2. Types(x) /\ Told(t, w)
    BY <1>1, KeptTold DEF Base
  <2>3. Base(y) /\ y.st = "errored" /\ Kept(t, y) /\ Follows(y)
    BY <1>1, <1>5, <2>1, <2>2, FinishErroringKeeps DEF HasOperationInFlight
  <2>4. Kept(x, y)
    BY <1>1, <2>3, KeptTrans
  <2> QED
    BY <1>3, <1>5, <2>3, <2>4 DEF Busy, HasOperationInFlight, y
<1> QED
  BY <1>4, <1>5

(* start_erroring leaves the chunk in flight.                              *)
LEMMA StartErroringTame ==
  ASSUME NEW x, Base(x), NEW w, Told(x, w), x.st = "writable", Held(x)
  PROVE  LET y == StartErroring(x, w)
         IN  Tame(x, y) /\ Exact(y) /\ Idle(y) /\ y.inWrite = x.inWrite
<1> DEFINE t == EnsureReadyRejected([x EXCEPT !.st = "erroring"], w)
           y == StartErroring(x, w)
<1>1. /\ Base(t) /\ Agree(x, t, {"st", "wr"}) /\ t.st = "erroring"
  BY EnterErroring
<1>2. y = IF ~HasOperationInFlight(t) /\ t.started THEN FinishErroring(t, w) ELSE t
  BY DEF StartErroring
<1> HIDE DEF t, y
<1>3. /\ t.hwm = x.hwm /\ t.total = x.total /\ x.total \in Nat /\ t.closeReq = x.closeReq
      /\ t.inClose = x.inClose /\ t.inWrite = x.inWrite
  BY <1>1 DEF Agree, Base, Types
<1>4. Tame(x, t) /\ Exact(t) /\ Idle(t)
  BY <1>1, <1>3, FailedExact DEF Tame, CloseQueuedOrInFlight
<1>5. CASE ~HasOperationInFlight(t) /\ t.started
  <2>1. t.abortReq = "fresh" => t.algs
    BY <1>1, <1>5 DEF Base, InFlight, HasOperationInFlight
  <2>2. w \in MaybeWriter /\ Types(t) /\ Types(x)
    BY <1>1 DEF Told, Base
  <2>3. y = FinishErroring(t, w)
    BY <1>2, <1>5
  <2>4. Tame(t, y) /\ Exact(y) /\ Idle(y) /\ y.inWrite = t.inWrite
    BY <2>1, <2>2, <2>3, FinishErroringTame
  <2> QED
    BY <1>3, <1>4, <2>2, <2>4, TameTrans DEF y
<1>6. CASE ~(~HasOperationInFlight(t) /\ t.started)
  BY <1>2, <1>3, <1>4, <1>6 DEF y
<1> QED
  BY <1>5, <1>6

(* A sink operation that rejected leaves the stream errored.               *)
LEMMA DealWithRejectionKeeps ==
  ASSUME NEW x, Base(x), NEW w, Told(x, w), x.st \in {"writable", "erroring"},
         x.inWrite = NoChunk, ~x.inClose, x.started,
         Held(x), x.st = "erroring" => Follows(x)
  PROVE  LET y == DealWithRejection(x, w)
         IN  Base(y) /\ y.st = "errored" /\ Kept(x, y) /\ Follows(y)
<1> DEFINE y == DealWithRejection(x, w)
<1>1. /\ x.st = "writable" => y = StartErroring(x, w)
      /\ x.st = "erroring" => y = FinishErroring(x, w)
  BY Zenon DEF DealWithRejection
<1> HIDE DEF y
<1>2. CASE x.st = "writable"
  <2>1. y = StartErroring(x, w) /\ ~HasOperationInFlight(x)
    BY <1>1, <1>2 DEF HasOperationInFlight
  <2> QED
    BY <1>2, <2>1, StartErroringKeeps DEF y
<1>3. CASE x.st = "erroring"
  BY <1>1, <1>3, FinishErroringKeeps DEF y
<1> QED
  BY <1>2, <1>3

(* Nor does a rejection put a chunk in flight.                             *)
LEMMA DealWithRejectionTame ==
  ASSUME NEW x, Base(x), NEW w, Told(x, w), x.st \in {"writable", "erroring"},
         x.inWrite = NoChunk, ~x.inClose, x.started, Held(x)
  PROVE  LET y == DealWithRejection(x, w)
         IN  Tame(x, y) /\ Exact(y) /\ Idle(y) /\ y.inWrite = x.inWrite
<1> DEFINE y == DealWithRejection(x, w)
<1>1. CASE x.st = "writable"
  <2>1. y = StartErroring(x, w)
    BY <1>1 DEF DealWithRejection
  <2> QED
    BY <1>1, <2>1, StartErroringTame
<1>2. CASE x.st = "erroring"
  <2>1. y = FinishErroring(x, w)
    BY <1>2 DEF DealWithRejection
  <2>2. x.abortReq = "fresh" => x.algs
    BY DEF Base, InFlight
  <2> QED
    BY <2>1, <2>2, FinishErroringTame DEF Told, Base
<1> QED
  BY <1>1, <1>2

(* The algorithms can go once no fresh abort still needs them.             *)
LEMMA ClearAlgorithmsKeeps ==
  ASSUME NEW x, Base(x), x.abortReq # "fresh"
  PROVE  LET y == ClearAlgorithms(x)
         IN  Base(y) /\ Agree(x, y, {"algs"}) /\ Kept(x, y)
<1> DEFINE y == ClearAlgorithms(x)
<1>1. Types(x) /\ InFlight(x) /\ Promises(x) /\ Order(x)
  BY DEF Base
<1>2. Agree(x, y, {"algs"}) /\ y.algs = FALSE
  BY <1>1 DEF Types, Agree, Fields, ClearAlgorithms
<1> HIDE DEF y
<1>3. Types(y)
  BY <1>1, <1>2, TypesCarry DEF Typed
<1>4. InFlight(y)
  BY <1>1, <1>2 DEF InFlight, Agree, Finished
<1>5. Promises(y)
  BY <1>1, <1>2 DEF Promises, Agree, Finished, Waiting
<1>6. Order(y) /\ Kept(x, y)
  BY <1>1, <1>2 DEF Order, Agree, Kept
<1> QED
  BY <1>2, <1>3, <1>4, <1>5, <1>6 DEF Base, y

(* Held reads the writer, its promises and the writer of the close only.   *)
LEMMA HeldCarry ==
  ASSUME NEW x, NEW y, NEW S, Types(x), Agree(x, y, S), Held(x),
         "writer" \notin S, "wr" \notin S, "closeW" \notin S,
         y.inClose => x.inClose
  PROVE  Held(y)
BY DEF Held, Agree, Punctual

(* The closed promise of a punctual writer is pending until the stream is  *)
(* finished.                                                               *)
LEMMA FollowsHeld ==
  ASSUME NEW x, Follows(x), x.st \in {"writable", "erroring"}
  PROVE  Held(x)
BY DEF Follows, Held, Shows

(* controller.error() and the size() that throws leave a stream that is no *)
(* longer writable.                                                        *)
LEMMA ControllerErrorKeeps ==
  ASSUME NEW x, Base(x), Busy(x), Follows(x), NEW w, Told(x, w),
         x.st = "writable" => x.abortReq = "none"
  PROVE  LET y == ControllerErrorIfNeeded(x, w)
         IN  /\ Base(y) /\ Busy(y) /\ Follows(y) /\ Kept(x, y)
             /\ y.st # "writable"
<1> DEFINE y == ControllerErrorIfNeeded(x, w)
<1>1. CASE x.st # "writable"
  <2>1. y = x
    BY <1>1 DEF ControllerErrorIfNeeded
  <2> QED
    BY <1>1, <2>1 DEF Kept
<1>2. CASE x.st = "writable"
  <2> DEFINE t == ClearAlgorithms(x)
  <2>1. Base(t) /\ Agree(x, t, {"algs"}) /\ Kept(x, t)
    BY <1>2, ClearAlgorithmsKeeps
  <2>2. y = StartErroring(t, w)
    BY <1>2 DEF ControllerErrorIfNeeded
  <2> HIDE DEF t, y
  <2>3. t.st = "writable" /\ t.inClose = x.inClose
    BY <1>2, <2>1 DEF Agree
  <2>4. Told(t, w)
    BY <2>1, KeptTold DEF Base
  <2>5. Held(t)
    BY <1>2, <2>1, <2>3, FollowsHeld, HeldCarry DEF Base
  <2>6. Base(y) /\ Busy(y) /\ Kept(t, y) /\ Follows(y) /\ y.st # "writable"
    BY <2>1, <2>2, <2>3, <2>4, <2>5, StartErroringKeeps
  <2>7. Kept(x, y)
    BY <2>1, <2>6, KeptTrans
  <2> QED
    BY <2>6, <2>7 DEF y
<1> QED
  BY <1>1, <1>2

(* Nor does the controller's error().                                      *)
LEMMA ControllerErrorTame ==
  ASSUME NEW x, Base(x), Follows(x), NEW w, Told(x, w),
         x.st = "writable" => x.abortReq = "none"
  PROVE  LET y == ControllerErrorIfNeeded(x, w)
         IN  Tame(x, y) /\ Exact(y) /\ Idle(y) /\ y.inWrite = x.inWrite
<1> DEFINE y == ControllerErrorIfNeeded(x, w)
           t == ClearAlgorithms(x)
<1>1. CASE x.st # "writable"
  <2>1. y = x /\ Types(x)
    BY <1>1 DEF ControllerErrorIfNeeded, Base
  <2>2. Tame(x, x)
    BY <2>1 DEF Tame, Types
  <2> QED
    BY <1>1, <2>1, <2>2, FailedExact
<1>2. CASE x.st = "writable"
  <2>1. y = StartErroring(t, w)
    BY <1>2 DEF ControllerErrorIfNeeded
  <2>2. Base(t) /\ Agree(x, t, {"algs"}) /\ Kept(x, t)
    BY <1>2, ClearAlgorithmsKeeps
  <2> HIDE DEF t, y
  <2>3. Types(x) /\ t.st = "writable" /\ t.inClose = x.inClose
    BY <1>2, <2>2 DEF Agree, Base
  <2>4. Held(t) /\ Told(t, w)
    BY <1>2, <2>2, <2>3, FollowsHeld, HeldCarry, KeptTold
  <2>5. Tame(t, y) /\ Exact(y) /\ Idle(y) /\ y.inWrite = t.inWrite
    BY <2>1, <2>2, <2>3, <2>4, StartErroringTame
  <2>6. Tame(x, t) /\ t.inWrite = x.inWrite
    BY <2>2, <2>3, AgreeTame
  <2> QED
    BY <2>3, <2>5, <2>6, TameTrans DEF y
<1> QED
  BY <1>1, <1>2

(* A write request or the close sentinel goes to the end of the queue of a *)
(* stream that is not closing.                                             *)
LEMMA ShapeAppend ==
  ASSUME NEW S, NEW r \in Seq(S), NEW i \in S, NEW e \in S, CloseSentinel \in S
  PROVE  /\ Append(Shape(i, r, FALSE), e) = Shape(i, Append(r, e), FALSE)
         /\ Append(Shape(i, r, FALSE), CloseSentinel) = Shape(i, r, TRUE)
<1> DEFINE h == IF i = NoChunk THEN <<>> ELSE <<i>>
<1>1. h \in Seq(S) /\ <<e>> \in Seq(S) /\ <<>> \in Seq(S)
  OBVIOUS
<1>2. h \o r \in Seq(S) /\ h \o Append(r, e) \in Seq(S) /\ Append(r, e) = r \o <<e>>
  <2>1. Append(r, e) \in Seq(S) /\ Append(r, e) = r \o <<e>>
    BY AppendProperties, AppendIsConcat
  <2> QED
    BY <1>1, <2>1, ConcatProperties
<1>3. Shape(i, r, FALSE) = h \o r /\ Shape(i, Append(r, e), FALSE) = h \o Append(r, e)
  BY <1>2, ConcatEmptySeq DEF Shape
<1>4. Shape(i, r, TRUE) = (h \o r) \o <<CloseSentinel>>
  BY DEF Shape
<1> HIDE DEF h
<1>5. Append(h \o r, e) = (h \o r) \o <<e>>
  BY <1>2, AppendIsConcat
<1>6. Append(h \o r, CloseSentinel) = (h \o r) \o <<CloseSentinel>>
  BY <1>2, AppendIsConcat
<1>7. (h \o r) \o <<e>> = h \o (r \o <<e>>)
  BY <1>1, ConcatAssociative
<1> QED
  BY <1>2, <1>3, <1>4, <1>5, <1>6, <1>7

(* The write in flight is the first element of the queue; without it the   *)
(* queue holds the requests.                                               *)
LEMMA ShapeFirst ==
  ASSUME NEW S, NEW r \in Seq(S), NEW i \in S, NEW c \in BOOLEAN,
         i # NoChunk, CloseSentinel \in S
  PROVE  /\ Shape(i, r, c) # <<>> /\ Head(Shape(i, r, c)) = i
         /\ Tail(Shape(i, r, c)) = Shape(NoChunk, r, c)
<1> DEFINE l == IF c THEN <<CloseSentinel>> ELSE <<>>
           q == r \o l
<1>1. l \in Seq(S) /\ <<i>> \in Seq(S) /\ <<>> \in Seq(S)
  OBVIOUS
<1>2. q \in Seq(S)
  BY <1>1, ConcatProperties
<1>3. Shape(i, r, c) = (<<i>> \o r) \o l /\ Shape(NoChunk, r, c) = q
  BY ConcatEmptySeq DEF Shape
<1>4. (<<i>> \o r) \o l = <<i>> \o q
  BY <1>1, ConcatAssociative
<1> HIDE DEF q, l
<1>5. /\ <<i>> \o q \in Seq(S) /\ Len(<<i>> \o q) = 1 + Len(q)
      /\ \A k \in 1 .. 1 + Len(q) :
           (<<i>> \o q)[k] = IF k <= 1 THEN i ELSE q[k - 1]
  BY <1>1, <1>2, ConcatProperties
<1>6. Len(q) \in Nat
  BY <1>2, LenProperties
<1>7. <<i>> \o q # <<>> /\ Head(<<i>> \o q) = i
  BY <1>5, <1>6
<1>8. /\ Tail(<<i>> \o q) \in Seq(S) /\ Len(Tail(<<i>> \o q)) = Len(q)
      /\ \A k \in 1 .. Len(q) : Tail(<<i>> \o q)[k] = (<<i>> \o q)[k + 1]
  BY <1>5, <1>6, <1>7, HeadTailProperties
<1>9. Tail(<<i>> \o q) = q
  <2>1. \A k \in 1 .. Len(q) : Tail(<<i>> \o q)[k] = q[k]
    BY <1>5, <1>6, <1>8
  <2> QED
    BY <1>2, <1>8, <2>1, SeqEqual
<1> QED
  BY <1>3, <1>4, <1>7, <1>9

(* Taking the first request into flight leaves the queue as it is.         *)
LEMMA ShapeNext ==
  ASSUME NEW S, NEW r \in Seq(S), r # <<>>, NEW c \in BOOLEAN,
         CloseSentinel \in S, Head(r) # NoChunk
  PROVE  /\ Shape(Head(r), Tail(r), c) = Shape(NoChunk, r, c)
         /\ Head(Shape(NoChunk, r, c)) = Head(r)
<1>1. Head(r) \in S /\ Tail(r) \in Seq(S)
  BY HeadTailProperties
<1>2. <<Head(r)>> \o Tail(r) = r
  <2>1. /\ Len(Tail(r)) = Len(r) - 1 /\ Len(r) \in Nat \ {0}
        /\ \A k \in 1 .. Len(Tail(r)) : Tail(r)[k] = r[k + 1]
        /\ Head(r) = r[1] /\ <<Head(r)>> \in Seq(S)
    BY <1>1, HeadTailProperties, EmptySeq
  <2>2. /\ <<Head(r)>> \o Tail(r) \in Seq(S) 
        /\ Len(<<Head(r)>> \o Tail(r)) = 1 + Len(Tail(r))
        /\ \A k \in 1 .. 1 + Len(Tail(r)) :
             (<<Head(r)>> \o Tail(r))[k] = IF k <= 1 THEN Head(r) ELSE Tail(r)[k - 1]
    BY <1>1, <2>1, ConcatProperties
  <2>3. \A k \in 1 .. Len(r) : (<<Head(r)>> \o Tail(r))[k] = r[k]
    BY <2>1, <2>2
  <2> QED
    BY <2>1, <2>2, <2>3, SeqEqual
<1>3. Shape(Head(r), Tail(r), c) = Shape(NoChunk, r, c)
  BY <1>2, ConcatEmptySeq DEF Shape
<1>4. Head(Shape(Head(r), Tail(r), c)) = Head(r)
  BY <1>1, ShapeFirst
<1> QED
  BY <1>3, <1>4

(* The queue of a stream without writes.                                   *)
LEMMA ShapeEmpty ==
  /\ Shape(NoChunk, <<>>, TRUE) = <<CloseSentinel>>
  /\ Shape(NoChunk, <<>>, FALSE) = <<>>
BY DEF Shape

(* What the operators keep; Busy may fail between two of them.             *)
Good(x) == Base(x) /\ Open(x) /\ Follows(x)

(* What advance_queue_if_needed finds at the head of the queue: the        *)
(* sentinel only behind every write, a chunk only with its write request.  *)
LEMMA QueueNext ==
  ASSUME NEW x, Good(x), x.st # "erroring", x.inWrite = NoChunk, x.queue # <<>>
  PROVE  /\ x.st = "writable" /\ ~x.inClose /\ x.algs
         /\ Head(x.queue) = CloseSentinel =>
              x.writeReqs = <<>> /\ x.closeReq /\ x.queue = <<CloseSentinel>>
         /\ Head(x.queue) # CloseSentinel =>
              /\ x.writeReqs # <<>> /\ Head(x.writeReqs) = Head(x.queue)
              /\ x.queue = Shape(Head(x.writeReqs), Tail(x.writeReqs), x.closeReq)
<1>1. /\ x.st \in {"writable", "erroring", "errored", "closed"}
      /\ x.writeReqs \in Seq(WriteIds) /\ x.closeReq \in BOOLEAN
      /\ x.algs \in BOOLEAN /\ x.inClose \in BOOLEAN
  BY DEF Good, Base, Types
<1>2. x.st = "writable" /\ ~x.inClose
  BY <1>1 DEF Good, Base, InFlight, Finished
<1>3. x.algs /\ x.queue = Shape(NoChunk, x.writeReqs, x.closeReq)
  BY <1>1, <1>2 DEF Good, Open
<1>4. CASE x.writeReqs = <<>>
  <2>1. x.closeReq
    BY <1>1, <1>3, <1>4, ShapeEmpty
  <2>2. x.queue = <<CloseSentinel>>
    BY <1>3, <1>4, <2>1, ShapeEmpty
  <2>3. Head(x.queue) = CloseSentinel
    BY <2>2
  <2> QED
    BY Zenon, <1>2, <1>3, <1>4, <2>1, <2>2, <2>3
<1>5. CASE x.writeReqs # <<>>
  <2>1. Head(x.writeReqs) \in WriteIds
    BY <1>1, <1>5, HeadTailProperties
  <2>2. Head(x.writeReqs) # NoChunk /\ Head(x.writeReqs) # CloseSentinel
    BY <2>1 DEF WriteIds, NoChunk, CloseSentinel
  <2>3. WriteIds \subseteq 0..MaxWrites /\ CloseSentinel \in 0..MaxWrites
    BY WritableBounds DEF WriteIds, CloseSentinel
  <2>4. x.writeReqs \in Seq(0..MaxWrites)
    BY <1>1, <2>3, SeqMonotonic
  <2>5. /\ Shape(Head(x.writeReqs), Tail(x.writeReqs), x.closeReq) = x.queue
        /\ Head(x.queue) = Head(x.writeReqs)
    BY ZenonT(30), <1>1, <1>3, <1>5, <2>2, <2>3, <2>4, ShapeNext
  <2> QED
    BY <1>2, <1>3, <1>5, <2>2, <2>5
<1> QED
  BY <1>4, <1>5

(* The oldest write request is older than the others, and every write      *)
(* before it is settled.                                                   *)
LEMMA FirstRequest ==
  ASSUME NEW x, Base(x), x.inWrite = NoChunk, x.writeReqs # <<>>
  PROVE  LET r == x.writeReqs
         IN  /\ Head(r) \in WriteIds /\ Tail(r) \in Seq(WriteIds)
             /\ \A i : (\E k \in DOMAIN r : r[k] = i) <=>
                       (i = Head(r) \/ \E k \in DOMAIN Tail(r) : Tail(r)[k] = i)
             /\ \A k \in DOMAIN Tail(r) : Head(r) < Tail(r)[k]
             /\ \A k, l \in DOMAIN Tail(r) : k < l => Tail(r)[k] < Tail(r)[l]
             /\ \A i \in WriteIds : i < Head(r) => x.wp[i] \in {"ok", "err"}
<1> DEFINE r == x.writeReqs
<1>1. r \in Seq(WriteIds) /\ r # <<>>
  BY DEF Base, Types
<1>2. \A k, l \in DOMAIN r : k < l => r[k] < r[l]
  BY DEF Base, Order
<1>3. /\ \A i \in WriteIds : x.wp[i] = "pending" <=> \E k \in DOMAIN r : r[k] = i
      /\ \A i \in WriteIds : x.wp[i] = "none" <=> i > x.writes
      /\ \A i \in WriteIds : x.wp[i] \in Promise
      /\ x.writes \in Nat
  BY SMTT(30), WritableBounds DEF Base, Promises, Waiting, Order, WriteIds, NoChunk, Types
<1> HIDE DEF r
<1>4. /\ Head(r) \in WriteIds /\ Tail(r) \in Seq(WriteIds)
      /\ Head(r) = r[1] /\ Len(Tail(r)) = Len(r) - 1 /\ Len(r) \in Nat \ {0}
      /\ \A k \in 1 .. Len(Tail(r)) : Tail(r)[k] = r[k + 1]
      /\ DOMAIN r = 1 .. Len(r) /\ DOMAIN Tail(r) = 1 .. Len(Tail(r))
  BY <1>1, HeadTailProperties, EmptySeq
<1>5. \A i : (\E k \in DOMAIN r : r[k] = i) <=>
             (i = Head(r) \/ \E k \in DOMAIN Tail(r) : Tail(r)[k] = i)
  <2> TAKE i
  <2>1. ASSUME NEW k \in DOMAIN r, r[k] = i
        PROVE  i = Head(r) \/ \E m \in DOMAIN Tail(r) : Tail(r)[m] = i
    <3>1. CASE k = 1
      BY <1>4, <2>1, <3>1
    <3>2. CASE k # 1
      <4>1. k - 1 \in DOMAIN Tail(r) /\ Tail(r)[k - 1] = r[k]
        BY <1>4, <3>2
      <4> QED
        BY <2>1, <4>1
    <3> QED
      BY <3>1, <3>2
  <2>2. ASSUME NEW k \in DOMAIN Tail(r), Tail(r)[k] = i
        PROVE  \E m \in DOMAIN r : r[m] = i
    <3>1. k + 1 \in DOMAIN r /\ r[k + 1] = i
      BY <1>4, <2>2
    <3> QED
      BY <3>1
  <2>3. 1 \in DOMAIN r /\ r[1] = Head(r)
    BY <1>4
  <2> QED
    BY <2>1, <2>2, <2>3
<1>6. \A k \in DOMAIN Tail(r) : Head(r) < Tail(r)[k]
  BY <1>2, <1>4
<1>7. \A k, l \in DOMAIN Tail(r) : k < l => Tail(r)[k] < Tail(r)[l]
  BY <1>2, <1>4
<1>8. ASSUME NEW i \in WriteIds, i < Head(r) PROVE x.wp[i] \in {"ok", "err"}
  <2>1. x.wp[i] # "pending"
    <3> SUFFICES ASSUME NEW k \in DOMAIN r, r[k] = i PROVE FALSE
      BY <1>3
    <3>1. k = 1 \/ r[1] < r[k]
      BY <1>2, <1>4
    <3> QED
      BY <1>4, <1>8, <3>1 DEF WriteIds
  <2>2. x.wp[Head(r)] = "pending"
    BY <1>3, <1>4
  <2>3. Head(r) <= x.writes
    BY <1>3, <1>4, <2>2 DEF WriteIds
  <2>4. x.wp[i] # "none"
    BY <1>3, <1>4, <1>8, <2>3 DEF WriteIds
  <2> QED
    BY <1>3, <2>1, <2>4 DEF Promise
<1> QED
  BY <1>4, <1>5, <1>6, <1>7, <1>8 DEF r

(* Follows reads the state, the backpressure, the close and the writer     *)
(* only.                                                                   *)
LEMMA FollowsCarry ==
  ASSUME NEW x, NEW y, NEW S, Follows(x), Agree(x, y, S),
         "st" \notin S, "bp" \notin S, "writer" \notin S, "wr" \notin S,
         "closeReq" \notin S, "inClose" \notin S, "closeW" \notin S,
         "abort" \in x.pend => "abort" \in y.pend
  PROVE  Follows(y)
<1>1. /\ y.st = x.st /\ y.bp = x.bp /\ y.writer = x.writer /\ y.wr = x.wr
      /\ y.closeReq = x.closeReq /\ y.inClose = x.inClose /\ y.closeW = x.closeW
  BY DEF Agree
<1> QED
  BY <1>1 DEF Follows, Punctual, Shows, CloseQueuedOrInFlight

(* process_write takes the oldest request into flight.                     *)
LEMMA ProcessWriteKeeps ==
  ASSUME NEW x, Good(x), x.started, x.st # "erroring", x.inWrite = NoChunk,
         x.queue # <<>>, Head(x.queue) # CloseSentinel
  PROVE  LET y == ProcessWrite(x)
         IN  Good(y) /\ y.st = "writable" /\ Kept(x, y)
<1> DEFINE r == x.writeReqs
           y == ProcessWrite(x)
<1>1. /\ x.st = "writable" /\ ~x.inClose /\ x.algs
      /\ r # <<>> /\ Head(r) = Head(x.queue)
      /\ x.queue = Shape(Head(r), Tail(r), x.closeReq)
  BY QueueNext
<1>2. Types(x) /\ InFlight(x) /\ Promises(x) /\ Order(x) /\ Open(x) /\ Follows(x)
  BY DEF Good, Base
<1>3. /\ Head(r) \in WriteIds /\ Tail(r) \in Seq(WriteIds)
      /\ \A i : (\E k \in DOMAIN r : r[k] = i) <=>
                (i = Head(r) \/ \E k \in DOMAIN Tail(r) : Tail(r)[k] = i)
      /\ \A k \in DOMAIN Tail(r) : Head(r) < Tail(r)[k]
      /\ \A k, l \in DOMAIN Tail(r) : k < l => Tail(r)[k] < Tail(r)[l]
      /\ \A i \in WriteIds : i < Head(r) => x.wp[i] \in {"ok", "err"}
  BY <1>1, FirstRequest DEF Good
<1> DEFINE Parts == {"inWrite", "writeReqs", "pend"}
<1>4. /\ Agree(x, y, Parts)
      /\ y.inWrite = Head(r) /\ y.writeReqs = Tail(r) /\ y.pend = x.pend \cup {"write"}
  BY <1>1, <1>2 DEF Types, ProcessWrite, MarkFirstWriteRequestInFlight, Agree, Fields
<1> HIDE DEF y, r
<1>5. /\ y.st = x.st /\ y.queue = x.queue /\ y.closeReq = x.closeReq
      /\ y.inClose = x.inClose /\ y.algs = x.algs /\ y.started = x.started
      /\ y.wp = x.wp /\ y.panic = x.panic /\ y.abortReq = x.abortReq
      /\ y.closeP = x.closeP /\ y.abortP = x.abortP /\ y.writes = x.writes
      /\ y.writer = x.writer /\ y.writers = x.writers /\ y.wr = x.wr
  BY <1>4 DEF Agree
<1>6. Types(y)
  <2>1. Head(r) \in 0..MaxWrites
    BY <1>3 DEF WriteIds
  <2>2. x.pend \in SUBSET {"start", "write", "close", "abort"}
    BY <1>2 DEF Types
  <2>3. Typed(y, Parts)
    BY <1>3, <1>4, <2>1, <2>2 DEF Typed
  <2> QED
    BY <1>2, <1>4, <2>3, TypesCarry
<1>7. Head(r) # NoChunk
  BY <1>3 DEF WriteIds, NoChunk
<1>8. InFlight(y)
  BY <1>1, <1>2, <1>4, <1>5, <1>7 DEF InFlight, Finished
<1>9. Promises(y)
  <2>1. \A i \in WriteIds : y.wp[i] = "pending" <=> Waiting(y, i)
    <3>1. \A i \in WriteIds : Waiting(x, i) <=> \E k \in DOMAIN r : r[k] = i
      BY DEF Waiting, r, WriteIds, NoChunk
    <3>2. \A i : Waiting(y, i) <=>
                   (i = Head(r) \/ \E k \in DOMAIN Tail(r) : Tail(r)[k] = i)
      BY <1>4 DEF Waiting
    <3>3. \A i \in WriteIds : Waiting(x, i) <=> Waiting(y, i)
      BY <1>3, <3>1, <3>2
    <3> QED
      BY <1>2, <1>5, <3>3 DEF Promises
  <2> QED
    BY <1>1, <1>2, <1>4, <1>5, <2>1 DEF Promises, Finished
<1>10. Order(y)
  <2>1. \A i \in WriteIds : i < Head(r) => x.wp[i] = "ok"
    BY <1>1, <1>2, <1>3 DEF Open
  <2>2. \A k \in DOMAIN y.writeReqs : y.inWrite < y.writeReqs[k]
    BY <1>3, <1>4
  <2>3. \A k, l \in DOMAIN y.writeReqs : k < l => y.writeReqs[k] < y.writeReqs[l]
    BY <1>3, <1>4
  <2> QED
    BY <1>2, <1>4, <1>5, <2>1, <2>2, <2>3 DEF Order
<1>11. Open(y)
  BY <1>1, <1>2, <1>4, <1>5 DEF Open
<1>12. Follows(y)
  BY <1>2, <1>4, FollowsCarry
<1> QED
  BY <1>1, <1>5, <1>6, <1>8, <1>9, <1>10, <1>11, <1>12 DEF Good, Base, Kept, y

(* process_close puts the close in flight, with the writer the call        *)
(* carries.                                                                *)
LEMMA ProcessCloseKeeps ==
  ASSUME NEW x, Good(x), x.started, x.st # "erroring", x.inWrite = NoChunk,
         x.queue # <<>>, Head(x.queue) = CloseSentinel, NEW w, Told(x, w)
  PROVE  LET y == ProcessClose(x, w)
         IN  Good(y) /\ y.st = "writable" /\ Kept(x, y)
<1> DEFINE y == ProcessClose(x, w)
<1>1. /\ x.st = "writable" /\ ~x.inClose /\ x.algs
      /\ x.writeReqs = <<>> /\ x.closeReq /\ x.queue = <<CloseSentinel>>
  BY QueueNext
<1>2. /\ Types(x) /\ InFlight(x) /\ Promises(x) /\ Order(x) /\ Open(x) /\ Follows(x)
      /\ w \in MaybeWriter
  BY DEF Good, Base, Told
<1> DEFINE Parts == {"inClose", "closeReq", "queue", "total", "algs", "pend", "closeW"}
           m == [x EXCEPT !.inClose = TRUE, !.closeReq = FALSE]
           d == [m EXCEPT !.queue = <<>>, !.total = x.total]
<1>3. MarkCloseRequestInFlight(x) = m
  BY <1>1 DEF MarkCloseRequestInFlight
<1>4. /\ Agree(x, m, {"inClose", "closeReq"}) /\ m.queue = <<CloseSentinel>>
      /\ m.total = x.total /\ m.inClose = TRUE /\ m.closeReq = FALSE
      /\ m.total \in Nat
  BY <1>1, <1>2 DEF Types, Agree, Fields
<1> HIDE DEF m
<1>5. DequeueValue(m) = [m EXCEPT !.queue = <<>>, !.total = x.total]
  <2>1. Head(m.queue) = CloseSentinel /\ Tail(m.queue) = <<>> /\ m.queue # <<>>
    BY <1>4
  <2>2. SizeOf(m, Head(m.queue)) = 0
    BY <2>1 DEF SizeOf
  <2>3. m.total - 0 = x.total /\ ~(x.total < 0)
    BY <1>4
  <2> QED
    BY <2>1, <2>2, <2>3 DEF DequeueValue
<1>6. /\ Agree(x, d, {"inClose", "closeReq", "queue", "total"})
      /\ d.queue = <<>> /\ d.total = x.total /\ d.inClose = TRUE /\ d.closeReq = FALSE
      /\ d.algs
  BY <1>1, <1>4 DEF Agree, Fields
<1>7. ProcessClose(x, w) = [d EXCEPT !.algs = FALSE, !.pend = @ \cup {"close"},
                                      !.closeW = w]
  BY <1>3, <1>5, <1>6 DEF ProcessClose, ClearAlgorithms
<1> HIDE DEF d
<1>8. /\ Agree(x, y, Parts) /\ y.queue = <<>> /\ y.total = x.total
      /\ y.inClose = TRUE /\ y.closeReq = FALSE /\ y.algs = FALSE
      /\ y.pend = x.pend \cup {"close"} /\ y.closeW = w
  <2>1. /\ Agree(d, y, {"algs", "pend", "closeW"}) /\ y.algs = FALSE
        /\ y.pend = d.pend \cup {"close"} /\ y.closeW = w
    BY <1>6, <1>7 DEF Agree, Fields
  <2> HIDE DEF y
  <2>2. Agree(x, y, Parts)
    BY <1>6, <2>1, AgreeTrans
  <2>3. /\ y.queue = d.queue /\ y.total = d.total /\ y.inClose = d.inClose
        /\ y.closeReq = d.closeReq /\ d.pend = x.pend
    BY <1>6, <2>1 DEF Agree
  <2> QED
    BY <1>6, <2>1, <2>2, <2>3
<1> HIDE DEF y
<1>9. /\ y.st = x.st /\ y.inWrite = x.inWrite /\ y.writeReqs = x.writeReqs
      /\ y.started = x.started /\ y.bp = x.bp
      /\ y.wp = x.wp /\ y.panic = x.panic /\ y.abortReq = x.abortReq
      /\ y.closeP = x.closeP /\ y.abortP = x.abortP /\ y.writes = x.writes
      /\ y.writer = x.writer /\ y.writers = x.writers /\ y.wr = x.wr
  BY <1>8 DEF Agree
<1>10. Types(y)
  <2>1. x.pend \in SUBSET {"start", "write", "close", "abort"} /\ x.total \in Nat
    BY <1>2 DEF Types
  <2>2. Typed(y, Parts)
    BY <1>2, <1>8, <2>1, EmptySeq DEF Typed
  <2> QED
    BY <1>2, <1>8, <2>2, TypesCarry
<1>11. InFlight(y)
  BY <1>1, <1>2, <1>8, <1>9 DEF InFlight, Finished
<1>12. Promises(y)
  <2>1. \A i \in WriteIds : y.wp[i] = "pending" <=> Waiting(y, i)
    BY <1>2, <1>9 DEF Promises, Waiting
  <2> QED
    BY <1>1, <1>2, <1>8, <1>9, <2>1 DEF Promises, Finished
<1>13. \A i \in WriteIds : x.wp[i] \in {"none", "ok"}
  <2> TAKE i \in WriteIds
  <2>1. x.wp[i] \in Promise
    BY <1>2 DEF Types
  <2>2. ~Waiting(x, i)
    BY <1>1 DEF Waiting, WriteIds, NoChunk
  <2>3. x.wp[i] # "pending" /\ x.wp[i] # "err"
    BY <1>1, <1>2, <2>2 DEF Promises, Open
  <2> QED
    BY <2>1, <2>3 DEF Promise
<1>14. Order(y)
  BY <1>2, <1>9, <1>13 DEF Order
<1>15. Open(y)
  <2>1. y.queue = Shape(y.inWrite, y.writeReqs, y.closeReq)
    BY <1>1, <1>8, <1>9, ShapeEmpty
  <2> QED
    BY <1>1, <1>2, <1>8, <1>9, <2>1 DEF Open
<1>16. Follows(y)
  <2> SUFFICES ASSUME Punctual(y)
               PROVE  Shows(y, y.writer) /\ y.closeW = y.writer
    BY <1>1, <1>9 DEF Follows
  <2>1. Punctual(x)
    BY <1>9 DEF Punctual
  <2> QED
    BY <1>1, <1>2, <1>8, <1>9, <2>1 DEF Follows, Shows, Told, CloseQueuedOrInFlight
<1> QED
  BY <1>1, <1>9, <1>10, <1>11, <1>12, <1>14, <1>15, <1>16 DEF Good, Base, Kept, y

(* advance_queue_if_needed starts the next operation or finishes an        *)
(* erroring stream.                                                        *)
LEMMA AdvanceKeeps ==
  ASSUME NEW x, Good(x), NEW w, Told(x, w),
         x.st = "erroring" /\ x.started /\ x.inWrite = NoChunk => ~x.inClose
  PROVE  LET y == AdvanceQueueIfNeeded(x, w)
         IN  Good(y) /\ Busy(y) /\ Kept(x, y)
<1> DEFINE y == AdvanceQueueIfNeeded(x, w)
<1>1. /\ ~x.started \/ x.inWrite # NoChunk => y = x
      /\ x.started /\ x.inWrite = NoChunk /\ x.st = "erroring" =>
           y = FinishErroring(x, w)
      /\ x.started /\ x.inWrite = NoChunk /\ x.st # "erroring" =>
           y = IF x.queue = <<>> THEN x
               ELSE IF Head(x.queue) = CloseSentinel THEN ProcessClose(x, w)
               ELSE ProcessWrite(x)
  <2>1. x.started \in BOOLEAN
    BY DEF Good, Base, Types
  <2> QED
    BY Zenon, <2>1 DEF AdvanceQueueIfNeeded
<1> HIDE DEF y
<1>2. Kept(x, x)
  BY DEF Kept
<1>3. CASE ~x.started \/ x.inWrite # NoChunk
  BY <1>1, <1>2, <1>3 DEF Busy, HasOperationInFlight, y
<1>4. CASE x.started /\ x.inWrite = NoChunk /\ x.st = "erroring"
  <2>1. Base(y) /\ y.st = "errored" /\ Kept(x, y) /\ Follows(y)
    BY <1>1, <1>4, FinishErroringKeeps DEF Good
  <2> QED
    BY <2>1 DEF Good, Open, Busy, y
<1>5. CASE x.started /\ x.inWrite = NoChunk /\ x.st # "erroring"
  <2>1. CASE x.queue = <<>>
    BY <1>1, <1>2, <1>5, <2>1 DEF Busy, y
  <2>2. CASE x.queue # <<>> /\ Head(x.queue) = CloseSentinel
    <3>1. y = ProcessClose(x, w)
      BY <1>1, <1>5, <2>2
    <3>2. Good(y) /\ y.st = "writable" /\ Kept(x, y)
      BY <1>5, <2>2, <3>1, ProcessCloseKeeps
    <3> QED
      BY <3>2 DEF Busy, y
  <2>3. CASE x.queue # <<>> /\ Head(x.queue) # CloseSentinel
    <3>1. y = ProcessWrite(x)
      BY <1>1, <1>5, <2>3
    <3>2. Good(y) /\ y.st = "writable" /\ Kept(x, y)
      BY <1>5, <2>3, <3>1, ProcessWriteKeeps
    <3> QED
      BY <3>2 DEF Busy, y
  <2> QED
    BY <2>1, <2>2, <2>3
<1> QED
  BY <1>3, <1>4, <1>5

(* Advancing the queue leaves no work undone.  A chunk in flight stays in  *)
(* flight, and without work in the queue none is put in flight.            *)
LEMMA AdvanceTame ==
  ASSUME NEW x, Good(x), NEW w, Told(x, w),
         x.st = "erroring" /\ x.started /\ x.inWrite = NoChunk => ~x.inClose
  PROVE  LET y == AdvanceQueueIfNeeded(x, w)
         IN  /\ Tame(x, y) /\ Idle(y) /\ (Exact(x) => Exact(y))
             /\ x.inWrite # NoChunk => y.inWrite = x.inWrite
             /\ y.inWrite # NoChunk /\ x.inWrite = NoChunk =>
                  x.writeReqs # <<>> /\ y.inWrite = Head(x.writeReqs)
             /\ x.queue = <<>> \/ Head(x.queue) = CloseSentinel => y.inWrite = x.inWrite
<1> DEFINE y == AdvanceQueueIfNeeded(x, w)
<1>0. /\ Types(x) /\ InFlight(x) /\ w \in MaybeWriter /\ x.total \in Nat
      /\ x.started \in BOOLEAN /\ DOMAIN x = Fields
  BY DEF Good, Base, Told, Types
<1>1. Tame(x, x)
  BY <1>0 DEF Tame
<1>2. CASE ~x.started \/ x.inWrite # NoChunk
  <2>1. y = x
    BY <1>2 DEF AdvanceQueueIfNeeded
  <2> QED
    BY <1>0, <1>1, <1>2, <2>1 DEF Idle
<1>3. CASE x.started /\ x.inWrite = NoChunk /\ x.st = "erroring"
  <2>1. y = FinishErroring(x, w)
    BY <1>3 DEF AdvanceQueueIfNeeded
  <2>2. x.abortReq = "fresh" => x.algs
    BY <1>0, <1>3 DEF InFlight
  <2> QED
    BY <1>0, <1>3, <2>1, <2>2, FinishErroringTame
<1>4. CASE x.started /\ x.inWrite = NoChunk /\ x.st # "erroring"
  <2>1. y = IF x.queue = <<>> THEN x
            ELSE IF Head(x.queue) = CloseSentinel THEN ProcessClose(x, w)
            ELSE ProcessWrite(x)
    BY <1>4 DEF AdvanceQueueIfNeeded
  <2>2. CASE x.queue = <<>>
    BY <1>1, <1>4, <2>1, <2>2 DEF Idle
  <2>3. CASE x.queue # <<>> /\ Head(x.queue) = CloseSentinel
    <3>1. /\ x.st = "writable" /\ ~x.inClose /\ x.algs /\ x.writeReqs = <<>> /\ x.closeReq
          /\ x.queue = <<CloseSentinel>>
      BY <1>4, <2>3, QueueNext
    <3>2. y = ProcessClose(x, w)
      BY <2>1, <2>3
    <3> DEFINE m == [x EXCEPT !.inClose = TRUE, !.closeReq = FALSE]
    <3>3. MarkCloseRequestInFlight(x) = m
      BY <3>1 DEF MarkCloseRequestInFlight
    <3>4. /\ Agree(x, m, {"inClose", "closeReq"}) /\ m.inClose = TRUE /\ m.closeReq = FALSE
      BY <1>0 DEF Agree, Fields
    <3> HIDE DEF m
    <3>5. m.queue = x.queue /\ m.total = x.total /\ m.hwm = x.hwm /\ m.st = x.st
          /\ m.inWrite = x.inWrite /\ m.started = x.started /\ m.algs = x.algs
      BY <3>4 DEF Agree
    <3> DEFINE d == [m EXCEPT !.queue = Tail(@), !.total = x.total]
    <3>6. DequeueValue(m) = d
      <4>1. SizeOf(m, Head(m.queue)) = 0
        BY <2>3, <3>5 DEF SizeOf
      <4>2. m.total - 0 = x.total /\ ~(x.total - 0 < 0)
        BY <1>0, <3>5
      <4>3. m.queue # <<>>
        BY <2>3, <3>5
      <4>4. (IF m.total - SizeOf(m, Head(m.queue)) < 0 THEN 0
             ELSE m.total - SizeOf(m, Head(m.queue))) = x.total
        BY <1>0, <3>5, <4>1, <4>2
      <4> QED
        BY <4>3, <4>4 DEF DequeueValue
    <3>7. d.algs = TRUE /\ DOMAIN d = Fields
      BY <1>0, <3>1, <3>4, <3>5 DEF Agree, Fields
    <3>8. /\ d.st = x.st /\ d.hwm = x.hwm /\ d.total = x.total /\ d.inClose = TRUE
          /\ d.closeReq = FALSE /\ d.inWrite = x.inWrite /\ d.queue = Tail(x.queue)
      BY <3>4, <3>5 DEF Agree, Fields
    <3> HIDE DEF d
    <3>9. y = [ClearAlgorithms(d) EXCEPT !.pend = @ \cup {"close"}, !.closeW = w]
      BY <3>2, <3>3, <3>6, <3>7 DEF ProcessClose
    <3>10. Agree(d, y, {"algs", "pend", "closeW"})
      BY <3>7, <3>9 DEF ClearAlgorithms, Agree, Fields
    <3>11. /\ y.st = x.st /\ y.hwm = x.hwm /\ y.total = x.total /\ y.inClose = TRUE
           /\ y.inWrite = x.inWrite /\ y.queue = Tail(x.queue)
      BY <3>8, <3>10 DEF Agree
    <3>12. Tail(x.queue) = <<>>
      BY <3>1
    <3> QED
      BY <1>0, <1>4, <3>1, <3>11, <3>12 DEF Tame, Idle, Exact, CloseQueuedOrInFlight
  <2>4. CASE x.queue # <<>> /\ Head(x.queue) # CloseSentinel
    <3>1. /\ x.st = "writable" /\ ~x.inClose /\ x.algs
          /\ x.writeReqs # <<>> /\ Head(x.writeReqs) = Head(x.queue)
      BY <1>4, <2>4, QueueNext
    <3>2. y = ProcessWrite(x)
      BY <2>1, <2>4
    <3>3. Agree(x, y, {"inWrite", "writeReqs", "pend"}) /\ y.inWrite = Head(x.writeReqs)
      BY <1>0, <3>1, <3>2 DEF ProcessWrite, MarkFirstWriteRequestInFlight, Agree, Fields
    <3> HIDE DEF y
    <3>4. Tame(x, y) /\ (Exact(x) => Exact(y))
      BY <1>0, <3>3, AgreeTame
    <3>5. y.inWrite # NoChunk
      <4>1. Head(x.writeReqs) \in WriteIds
        BY <1>0, <3>1 DEF Types
      <4> QED
        BY <3>3, <4>1 DEF WriteIds, NoChunk
    <3> QED
      BY <1>4, <2>4, <3>1, <3>3, <3>4, <3>5 DEF Idle, y
  <2> QED
    BY <2>2, <2>3, <2>4
<1> QED
  BY <1>0, <1>2, <1>3, <1>4

(* A change of backpressure gives the carried writer a new ready promise   *)
(* or resolves the one it has.                                             *)
LEMMA BackpressureEffect ==
  ASSUME NEW x, Types(x), NEW w \in MaybeWriter
  PROVE  LET y == UpdateBackpressure(x, w)
             b == Backpressure(x)
         IN  /\ Agree(x, y, {"bp", "wr"}) /\ y.bp = b /\ b \in BOOLEAN
             /\ WriterShows(x, y, w,
                  IF b = x.bp THEN x.wr[w].ready
                  ELSE IF b THEN "pending" ELSE Settle(x.wr[w].ready, "ok"),
                  x.wr[w].closed)
<1> DEFINE b == Backpressure(x)
           t == [x EXCEPT !.bp = b]
           y == UpdateBackpressure(x, w)
<1>1. /\ x.wr \in Writers /\ DOMAIN x = Fields /\ x.bp \in BOOLEAN /\ b \in BOOLEAN
  BY DEF Types, Backpressure
<1>2. Agree(x, t, {"bp"}) /\ t.bp = b /\ t.wr = x.wr
  BY <1>1 DEF Agree, Fields
<1>3. y = IF w = NoWriter \/ b = x.bp THEN t
          ELSE IF b THEN [t EXCEPT !.wr[w].ready = "pending"]
          ELSE [t EXCEPT !.wr[w].ready = Settle(@, "ok")]
  BY DEF UpdateBackpressure
<1> HIDE DEF t, y, b
<1>4. CASE w = NoWriter \/ b = x.bp
  <2>1. y = t
    BY <1>3, <1>4
  <2>2. Agree(x, y, {"bp", "wr"})
    BY <1>2, <2>1 DEF Agree
  <2>3. WriterShows(x, y, w,
                  IF b = x.bp THEN x.wr[w].ready
                  ELSE IF b THEN "pending" ELSE Settle(x.wr[w].ready, "ok"),
                  x.wr[w].closed)
    BY <1>1, <1>2, <1>4, <2>1 DEF WriterShows, NoWriter, WriterIds
  <2> QED
    BY <1>1, <1>2, <2>1, <2>2, <2>3 DEF b, y
<1>5. CASE w # NoWriter /\ b # x.bp
  <2>1. w \in WriterIds
    BY <1>5 DEF NoWriter, WriterIds, MaybeWriter
  <2>2. x.wr[w].ready \in Promise
    BY <1>1, <2>1 DEF Writers
  <2> DEFINE p == IF b THEN "pending" ELSE Settle(x.wr[w].ready, "ok")
             f == [x.wr EXCEPT ![w].ready = p]
  <2>3. p \in Promise
    BY <2>2, SettleType DEF Promise
  <2>4. y = [t EXCEPT !.wr = f]
    BY <1>2, <1>3, <1>5
  <2> HIDE DEF p
  <2>5. f \in Writers
    BY <1>1, <2>1, <2>3, WriterUpdate
  <2>6. Agree(t, y, {"wr"}) /\ y.wr = f
    BY <1>2, <2>4 DEF Agree, Fields
  <2>7. Agree(x, y, {"bp", "wr"}) /\ y.bp = b
    BY <1>2, <2>6 DEF Agree
  <2>8. \A v \in WriterIds \ {w} : f[v] = x.wr[v]
    BY <1>1 DEF Writers
  <2>9. f[w].ready = p /\ f[w].closed = x.wr[w].closed /\ f[w].late = x.wr[w].late
    BY <1>1, <2>1 DEF Writers
  <2>10. WriterShows(x, y, w, p, x.wr[w].closed)
    BY <2>5, <2>6, <2>8, <2>9 DEF WriterShows
  <2> QED
    BY <1>1, <1>5, <2>7, <2>10 DEF b, y, p
<1> QED
  BY <1>4, <1>5

(* Updating the backpressure of a stream that takes chunks keeps the ready *)
(* promise of its writer right.                                            *)
LEMMA BackpressureKeeps ==
  ASSUME NEW x, Good(x), NEW w, Told(x, w)
  PROVE  LET y == UpdateBackpressureIfOpen(x, w)
         IN  /\ Good(y) /\ Kept(x, y) /\ Agree(x, y, {"bp", "wr"})
             /\ Tame(x, y) /\ Exact(y) /\ y.inWrite = x.inWrite /\ (Idle(x) => Idle(y))
<1> DEFINE y == UpdateBackpressureIfOpen(x, w)
<1>1. /\ Types(x) /\ InFlight(x) /\ Promises(x) /\ Order(x) /\ Open(x) /\ Follows(x)
      /\ w \in MaybeWriter
  BY DEF Good, Base, Told
<1>2. CASE CloseQueuedOrInFlight(x) \/ x.st # "writable"
  <2>1. y = x
    BY <1>2 DEF UpdateBackpressureIfOpen
  <2>2. Tame(x, x) /\ Exact(x)
    BY <1>1, <1>2 DEF Tame, Exact, Types
  <2> QED
    BY <1>1, <2>1, <2>2 DEF Kept, Agree, Types
<1>3. CASE ~CloseQueuedOrInFlight(x) /\ x.st = "writable"
  <2> DEFINE b == Backpressure(x)
             p == IF b = x.bp THEN x.wr[w].ready
                  ELSE IF b THEN "pending" ELSE Settle(x.wr[w].ready, "ok")
  <2>1. y = UpdateBackpressure(x, w)
    BY <1>3 DEF UpdateBackpressureIfOpen
  <2>2. /\ Agree(x, y, {"bp", "wr"}) /\ y.bp = b /\ b \in BOOLEAN
        /\ WriterShows(x, y, w, p, x.wr[w].closed)
    BY <1>1, <2>1, BackpressureEffect
  <2> HIDE DEF y, b, p
  <2>3. Types(y)
    BY <1>1, <2>2, TypesCarry DEF Typed, WriterShows
  <2>4. InFlight(y)
    BY <1>1, <2>2 DEF InFlight, Agree, Finished
  <2>5. Promises(y)
    BY <1>1, <2>2 DEF Promises, Agree, Finished, Waiting
  <2>6. Order(y) /\ Open(y)
    BY <1>1, <2>2 DEF Order, Open, Agree
  <2>7. Kept(x, y)
    BY <1>1, <2>2, ShownKept DEF Kept, Agree, Types
  <2>8. Follows(y)
    <3> SUFFICES ASSUME Punctual(y)
                 PROVE  Shows(y, y.writer) /\ (y.inClose => y.closeW = y.writer)
      BY <1>3, <2>2 DEF Follows, Agree
    <3>1. /\ y.writer = x.writer /\ y.inClose = x.inClose /\ y.closeW = x.closeW
          /\ y.st = "writable" /\ y.closeReq = x.closeReq
      BY <1>3, <2>2 DEF Agree
    <3>2. x.writer \in WriterIds
      BY <1>1, <3>1 DEF Punctual, Types, NoWriter, MaybeWriter, WriterIds
    <3>3. Punctual(x) /\ w = x.writer
      BY <2>7, <3>1, <3>2 DEF Punctual, Kept, Told
    <3>4. /\ x.wr[w].ready = (IF x.bp THEN "pending" ELSE "ok")
          /\ x.wr[w].closed = "pending" /\ (x.inClose => x.closeW = x.writer)
      BY <1>1, <1>3, <3>3 DEF Follows, Shows
    <3>5. x.bp \in BOOLEAN
      BY <1>1 DEF Types
    <3>6. p = (IF b THEN "pending" ELSE "ok")
      BY <2>2, <3>4, <3>5 DEF p, Settle
    <3>7. y.wr[w].ready = p /\ y.wr[w].closed = "pending"
      BY <2>2, <3>2, <3>3, <3>4 DEF WriterShows
    <3>8. ~CloseQueuedOrInFlight(y)
      BY <1>3, <3>1 DEF CloseQueuedOrInFlight
    <3> QED
      BY <2>2, <3>1, <3>3, <3>4, <3>6, <3>7, <3>8 DEF Shows
  <2>9. Tame(x, y) /\ (Idle(x) => Idle(y)) /\ y.inWrite = x.inWrite
    BY <1>1, <2>2, AgreeTame
  <2>10. Exact(y)
    <3>1. y.hwm = x.hwm /\ y.total = x.total
      BY <2>2 DEF Agree
    <3> QED
      BY <2>2, <3>1 DEF Exact, Backpressure, b
  <2> QED
    BY <2>2, <2>3, <2>4, <2>5, <2>6, <2>7, <2>8, <2>9, <2>10 DEF Good, Base, y
<1> QED
  BY <1>2, <1>3

(* The reaction to the sink's start() promise.                             *)
LEMMA StartSettledKeeps ==
  ASSUME NEW x, Good(x), "start" \in x.pend, NEW ok \in BOOLEAN
  PROVE  LET y == StartSettled(x, ok)
         IN  /\ Good(y) /\ Busy(y) /\ Kept(x, y)
             /\ Tame(x, y) /\ (Exact(x) => Exact(y)) /\ Idle(y)
<1> DEFINE t == [x EXCEPT !.pend = @ \ {"start"}, !.started = TRUE]
           y == StartSettled(x, ok)
<1>1. Types(x) /\ InFlight(x) /\ Promises(x) /\ Order(x) /\ Open(x) /\ Follows(x)
  BY DEF Good, Base
<1>2. /\ Agree(x, t, {"pend", "started"}) /\ t.pend = x.pend \ {"start"}
      /\ t.started = TRUE
  BY <1>1 DEF Types, Agree, Fields
<1>3. y = IF ok THEN AdvanceQueueIfNeeded(t, t.writer) ELSE DealWithRejection(t, t.writer)
  BY DEF StartSettled
<1> HIDE DEF t, y
<1>4. Types(t)
  BY <1>1, <1>2, TypesCarry DEF Typed, Types
<1>5. InFlight(t)
  BY <1>1, <1>2 DEF InFlight, Agree, Finished
<1>6. Promises(t)
  BY <1>1, <1>2 DEF Promises, Agree, Finished, Waiting
<1>7. Order(t) /\ Open(t) /\ Kept(x, t)
  BY <1>1, <1>2 DEF Order, Open, Agree, Kept
<1>8. Follows(t)
  BY <1>1, <1>2, FollowsCarry
<1>9. Good(t) /\ Told(t, t.writer)
  BY <1>4, <1>5, <1>6, <1>7, <1>8 DEF Good, Base, Told, Types
<1>10. ~x.inClose /\ x.inWrite = NoChunk /\ x.st \in {"writable", "erroring"}
  BY <1>1 DEF InFlight, Types, Finished
<1>11. ~t.inClose /\ t.inWrite = NoChunk /\ t.st \in {"writable", "erroring"}
  BY <1>2, <1>10 DEF Agree
<1>14. Tame(x, t) /\ (Exact(x) => Exact(t))
  BY <1>1, <1>2, AgreeTame
<1>12. CASE ok
  <2>1. Good(y) /\ Busy(y) /\ Kept(t, y)
    BY <1>3, <1>9, <1>11, <1>12, AdvanceKeeps
  <2>2. Tame(t, y) /\ Idle(y) /\ (Exact(t) => Exact(y))
    BY <1>3, <1>9, <1>11, <1>12, AdvanceTame
  <2>3. Tame(x, y)
    BY <1>1, <1>14, <2>2, TameTrans
  <2> QED
    BY <1>7, <1>14, <2>1, <2>2, <2>3, KeptTrans DEF y
<1>13. CASE ~ok
  <2>1. Held(t)
    BY <1>8, <1>11, FollowsHeld
  <2>2. Base(y) /\ y.st = "errored" /\ Kept(t, y) /\ Follows(y)
    BY <1>2, <1>3, <1>8, <1>9, <1>11, <1>13, <2>1, DealWithRejectionKeeps DEF Good
  <2>3. Tame(t, y) /\ Idle(y) /\ Exact(y)
    BY <1>2, <1>3, <1>9, <1>11, <1>13, <2>1, DealWithRejectionTame DEF Good
  <2>4. Tame(x, y)
    BY <1>1, <1>14, <2>3, TameTrans
  <2> QED
    BY <1>7, <2>2, <2>3, <2>4, KeptTrans DEF y, Good, Open, Busy
<1> QED
  BY <1>12, <1>13

(* Settling the write in flight answers its promise and nobody else's.     *)
LEMMA FinishWriteKeeps ==
  ASSUME NEW x, Good(x), "write" \in x.pend, NEW o \in {"ok", "err"}
  PROVE  LET t == FinishInFlightWrite(x, o)
         IN  /\ Base(t) /\ Follows(t) /\ Kept(x, t)
             /\ Agree(x, t, {"pend", "inWrite", "wp"})
             /\ t.inWrite = NoChunk /\ ~t.inClose /\ t.started
             /\ t.st \in {"writable", "erroring"}
             /\ o = "ok" /\ x.st = "writable" => \A i \in WriteIds : t.wp[i] # "err"
<1> DEFINE t == FinishInFlightWrite(x, o)
           n == x.inWrite
<1>1. Types(x) /\ InFlight(x) /\ Promises(x) /\ Order(x) /\ Open(x) /\ Follows(x)
  BY DEF Good, Base
<1>2. n \in WriteIds /\ ~x.inClose /\ x.started /\ x.st \in {"writable", "erroring"}
  <2>1. n # NoChunk /\ n \in 0..MaxWrites
    BY <1>1 DEF InFlight, Types
  <2> QED
    BY <1>1, <2>1 DEF InFlight, Types, Finished, WriteIds, NoChunk
<1>3. x.wp[n] = "pending" /\ x.wp \in [WriteIds -> Promise]
  BY <1>1, <1>2 DEF Promises, Waiting, Types
<1> DEFINE f == [x.wp EXCEPT ![n] = o]
<1>4. /\ Agree(x, t, {"pend", "inWrite", "wp"})
      /\ t.pend = x.pend \ {"write"} /\ t.inWrite = NoChunk /\ t.wp = f
  BY <1>1, <1>2, <1>3 DEF Types, FinishInFlightWrite, Agree, Fields, Settle
<1>5. f \in [WriteIds -> Promise] /\ f[n] = o /\ \A i \in WriteIds : i # n => f[i] = x.wp[i]
  BY <1>2, <1>3 DEF Promise
<1> HIDE DEF t, f
<1>6. /\ t.st = x.st /\ t.queue = x.queue /\ t.closeReq = x.closeReq
      /\ t.inClose = x.inClose /\ t.algs = x.algs /\ t.started = x.started
      /\ t.writeReqs = x.writeReqs /\ t.panic = x.panic /\ t.abortReq = x.abortReq
      /\ t.closeP = x.closeP /\ t.abortP = x.abortP /\ t.writes = x.writes
      /\ t.writer = x.writer /\ t.writers = x.writers /\ t.wr = x.wr
  BY <1>4 DEF Agree
<1>7. Types(t)
  <2>1. 0 \in 0..MaxWrites /\ x.pend \in SUBSET {"start", "write", "close", "abort"}
    BY <1>1, WritableBounds DEF Types
  <2>2. Typed(t, {"pend", "inWrite", "wp"})
    BY <1>4, <1>5, <2>1 DEF Typed, NoChunk
  <2> QED
    BY <1>1, <1>4, <2>2, TypesCarry
<1>8. InFlight(t)
  BY <1>1, <1>2, <1>4, <1>6 DEF InFlight, Finished
<1>9. \A k \in DOMAIN x.writeReqs : x.writeReqs[k] \in WriteIds /\ n < x.writeReqs[k]
  BY <1>1 DEF Types, Order
<1>10. Promises(t)
  <2>1. \A i \in WriteIds : t.wp[i] = "pending" <=> Waiting(t, i)
    <3> TAKE i \in WriteIds
    <3>1. Waiting(t, i) <=> \E k \in DOMAIN x.writeReqs : x.writeReqs[k] = i
      BY <1>4, <1>6 DEF Waiting, WriteIds, NoChunk
    <3>2. Waiting(x, i) <=> i = n \/ Waiting(t, i)
      BY <3>1 DEF Waiting
    <3>3. i = n => ~Waiting(t, i)
      BY <1>9, <3>1 DEF WriteIds
    <3>4. x.wp[i] = "pending" <=> Waiting(x, i)
      BY <1>1 DEF Promises
    <3> QED
      BY <1>4, <1>5, <3>2, <3>3, <3>4
  <2> QED
    BY <1>1, <1>4, <1>6, <2>1 DEF Promises, Finished
<1>11. Order(t)
  <2>1. \A i \in WriteIds : t.wp[i] = "none" <=> i > t.writes
    BY <1>1, <1>3, <1>4, <1>5, <1>6 DEF Order
  <2>2. \A k \in DOMAIN t.writeReqs : t.inWrite < t.writeReqs[k]
    BY <1>4, <1>6, <1>9 DEF WriteIds, NoChunk
  <2>3. \A i, j \in WriteIds : i < j /\ t.wp[j] = "ok" => t.wp[i] = "ok"
    <3> TAKE i, j \in WriteIds
    <3> HAVE i < j /\ t.wp[j] = "ok"
    <3>1. i # n
      <4>1. x.wp[n] # "ok"
        BY <1>3
      <4>2. i = n => x.wp[j] # "ok"
        BY <1>1, <1>2, <4>1 DEF Order
      <4>3. i = n => j # n
        BY DEF WriteIds
      <4> QED
        BY <1>4, <1>5, <4>2, <4>3
    <3>2. x.wp[i] = "ok"
      <4>1. CASE j = n
        BY <1>1, <4>1 DEF Order
      <4>2. CASE j # n
        BY <1>1, <1>4, <1>5, <4>2 DEF Order
      <4> QED
        BY <4>1, <4>2
    <3> QED
      BY <1>4, <1>5, <3>1, <3>2
  <2>4. t.closeP # "ok"
    BY <1>1, <1>2, <1>6 DEF Order
  <2>5. \A i \in WriteIds : ~(i < t.inWrite)
    BY <1>4 DEF WriteIds, NoChunk
  <2> QED
    BY <1>1, <1>2, <1>6, <2>1, <2>2, <2>3, <2>4, <2>5 DEF Order
<1>12. Follows(t)
  BY <1>1, <1>4, FollowsCarry
<1>13. ASSUME o = "ok", x.st = "writable" PROVE \A i \in WriteIds : t.wp[i] # "err"
  BY <1>1, <1>4, <1>5, <1>13 DEF Open
<1> QED
  BY <1>2, <1>4, <1>6, <1>7, <1>8, <1>10, <1>11, <1>12, <1>13 DEF Base, Kept, t

(* A chunk that was written leaves the queue together with its request.    *)
LEMMA DequeueWritten ==
  ASSUME NEW x, Good(x), "write" \in x.pend
  PROVE  LET t == FinishInFlightWrite(x, "ok")
             d == DequeueValue(t)
         IN  /\ Good(d) /\ Kept(x, d) /\ ~d.inClose /\ d.started /\ d.inWrite = NoChunk
             /\ Tame(x, d) /\ d.writeReqs = x.writeReqs
<1> DEFINE t == FinishInFlightWrite(x, "ok")
           d == DequeueValue(t)
<1>1. /\ Base(t) /\ Follows(t) /\ Kept(x, t)
      /\ Agree(x, t, {"pend", "inWrite", "wp"})
      /\ t.inWrite = NoChunk /\ ~t.inClose /\ t.started
      /\ t.st \in {"writable", "erroring"}
      /\ x.st = "writable" => \A i \in WriteIds : t.wp[i] # "err"
  BY FinishWriteKeeps
<1>2. Types(x) /\ Types(t) /\ InFlight(t) /\ Promises(t) /\ Order(t) /\ InFlight(x)
  BY <1>1 DEF Good, Base
<1> HIDE DEF t
<1>3. /\ t.st = x.st /\ t.queue = x.queue /\ t.writeReqs = x.writeReqs
      /\ t.closeReq = x.closeReq /\ t.algs = x.algs /\ t.abortReq = x.abortReq
  BY <1>1 DEF Agree
<1>4. t.queue \in Seq(0..MaxWrites) /\ t.queue # <<>> /\ t.total \in Nat
  BY <1>2, <1>3 DEF InFlight, Types
<1> DEFINE rest == t.total - SizeOf(t, Head(t.queue))
           n == IF rest < 0 THEN 0 ELSE rest
<1>5. n \in Nat /\ n <= t.total
  <2>1. Head(t.queue) \in 0..MaxWrites
    BY <1>4, HeadTailProperties
  <2>2. t.size \in [WriteIds -> Nat]
    BY <1>2 DEF Types
  <2>3. Head(t.queue) = CloseSentinel \/ Head(t.queue) \in WriteIds
    BY <2>1 DEF WriteIds, CloseSentinel
  <2>4. SizeOf(t, Head(t.queue)) \in Nat
    BY <2>2, <2>3 DEF SizeOf
  <2> QED
    BY <1>4, <2>4
<1>6. d = [t EXCEPT !.queue = Tail(t.queue), !.total = n]
  BY <1>4 DEF DequeueValue
<1> HIDE DEF n, d
<1>7. /\ Agree(t, d, {"queue", "total"}) /\ d.queue = Tail(t.queue) /\ d.total = n
  BY <1>2, <1>6 DEF Types, Agree, Fields
<1>8. /\ d.st = t.st /\ d.closeReq = t.closeReq /\ d.pend = t.pend
      /\ d.inClose = t.inClose /\ d.algs = t.algs /\ d.started = t.started
      /\ d.writeReqs = t.writeReqs /\ d.panic = t.panic /\ d.abortReq = t.abortReq
      /\ d.closeP = t.closeP /\ d.abortP = t.abortP /\ d.writes = t.writes
      /\ d.writer = t.writer /\ d.writers = t.writers /\ d.wr = t.wr
      /\ d.inWrite = t.inWrite /\ d.wp = t.wp
  BY <1>7 DEF Agree
<1>9. Types(d)
  <2>1. Tail(t.queue) \in Seq(0..MaxWrites)
    BY <1>4, HeadTailProperties
  <2>2. Typed(d, {"queue", "total"})
    BY <1>5, <1>7, <2>1 DEF Typed
  <2> QED
    BY <1>2, <1>7, <2>2, TypesCarry
<1>10. InFlight(d)
  BY <1>1, <1>2, <1>8 DEF InFlight, Finished
<1>11. Promises(d)
  BY <1>2, <1>8 DEF Promises, Finished, Waiting
<1>12. Order(d)
  BY <1>2, <1>8 DEF Order
<1>13. Follows(d)
  BY <1>1, <1>7, <1>8, FollowsCarry
<1>14. ASSUME d.st = "writable" PROVE d.queue = Shape(d.inWrite, d.writeReqs, d.closeReq)
  <2>1. x.queue = Shape(x.inWrite, x.writeReqs, x.closeReq)
    BY <1>3, <1>8, <1>14 DEF Good, Open
  <2>2. x.inWrite # NoChunk /\ x.inWrite \in 0..MaxWrites
    BY <1>2 DEF InFlight, Types
  <2>3. x.writeReqs \in Seq(WriteIds) /\ x.closeReq \in BOOLEAN
    BY <1>2 DEF Types
  <2>4. WriteIds \subseteq 0..MaxWrites /\ CloseSentinel \in 0..MaxWrites
    BY WritableBounds DEF WriteIds, CloseSentinel
  <2>5. x.writeReqs \in Seq(0..MaxWrites)
    BY <2>3, <2>4, SeqMonotonic
  <2>6. Tail(x.queue) = Shape(NoChunk, x.writeReqs, x.closeReq)
    BY <2>1, <2>2, <2>3, <2>4, <2>5, ShapeFirst
  <2> QED
    BY <1>1, <1>3, <1>7, <1>8, <2>6
<1>15. Open(d)
  <2>1. ASSUME d.st = "writable"
        PROVE  (d.algs \/ d.inClose) /\ d.abortReq = "none" /\ \A i \in WriteIds : d.wp[i] # "err"
    <3>1. x.st = "writable" /\ ~x.inClose
      BY <1>1, <1>2, <1>3, <1>8, <2>1 DEF InFlight
    <3> QED
      BY <1>1, <1>3, <1>8, <3>1 DEF Good, Open
  <2> QED
    BY <1>14, <2>1 DEF Open
<1>16. Kept(x, d)
  BY <1>1, <1>8 DEF Kept
<1>17. Tame(x, d)
  <2>1. t.total = x.total /\ t.hwm = x.hwm /\ d.hwm = t.hwm /\ t.inClose = x.inClose
    BY <1>1, <1>7 DEF Agree
  <2> QED
    BY <1>3, <1>5, <1>7, <1>8, <2>1 DEF Tame, CloseQueuedOrInFlight
<1> QED
  BY <1>1, <1>3, <1>8, <1>9, <1>10, <1>11, <1>12, <1>13, <1>15, <1>16, <1>17 DEF Good, Base, d, t

(* The reaction to the sink's write() promise.                             *)
LEMMA WriteSettledKeeps ==
  ASSUME NEW x, Good(x), "write" \in x.pend, NEW ok \in BOOLEAN
  PROVE  LET y == WriteSettled(x, ok)
         IN  /\ Good(y) /\ Busy(y) /\ Kept(x, y)
             /\ Tame(x, y) /\ Exact(y) /\ Idle(y)
             /\ y.inWrite # NoChunk => y.inWrite # x.inWrite
<1> DEFINE y == WriteSettled(x, ok)
<1>0. Types(x) /\ Order(x)
  BY DEF Good, Base
<1>1. CASE ok
  <2> DEFINE t == FinishInFlightWrite(x, "ok")
             d == DequeueValue(t)
             b == UpdateBackpressureIfOpen(d, t.writer)
  <2>1. y = AdvanceQueueIfNeeded(b, t.writer)
    BY <1>1 DEF WriteSettled
  <2>2. /\ Good(d) /\ Kept(x, d) /\ ~d.inClose /\ d.started /\ d.inWrite = NoChunk
        /\ Tame(x, d) /\ d.writeReqs = x.writeReqs
    BY DequeueWritten
  <2>3. Base(t) /\ Kept(x, t)
    BY FinishWriteKeeps
  <2>4. Told(x, t.writer)
    BY <2>3 DEF Told, Kept, Good, Base, Types
  <2> HIDE DEF t, d
  <2>5. Told(d, t.writer)
    BY <2>2, <2>4, KeptTold DEF Good, Base
  <2>6. /\ Good(b) /\ Kept(d, b) /\ Agree(d, b, {"bp", "wr"})
        /\ Tame(d, b) /\ Exact(b) /\ b.inWrite = d.inWrite
    BY <2>2, <2>5, BackpressureKeeps
  <2> HIDE DEF b, y
  <2>7. Told(b, t.writer)
    BY <2>2, <2>5, <2>6, KeptTold DEF Good, Base
  <2>8. ~b.inClose
    BY <2>2, <2>6 DEF Agree
  <2>9. Good(y) /\ Busy(y) /\ Kept(b, y)
    BY <2>1, <2>6, <2>7, <2>8, AdvanceKeeps
  <2>10. Kept(x, y)
    BY <2>2, <2>6, <2>9, KeptTrans
  <2>11. /\ Tame(b, y) /\ Idle(y) /\ Exact(y)
         /\ y.inWrite # NoChunk => b.writeReqs # <<>> /\ y.inWrite = Head(b.writeReqs)
    BY <2>1, <2>2, <2>6, <2>7, <2>8, AdvanceTame
  <2>12. Tame(x, y)
    <3>1. Tame(x, b)
      BY <1>0, <2>2, <2>6, TameTrans
    <3> QED
      BY <1>0, <2>11, <3>1, TameTrans
  <2>13. ASSUME y.inWrite # NoChunk PROVE y.inWrite # x.inWrite
    <3>1. b.writeReqs = x.writeReqs
      BY <2>2, <2>6 DEF Agree
    <3>2. x.writeReqs # <<>> /\ y.inWrite = Head(x.writeReqs) /\ x.writeReqs \in Seq(WriteIds)
      BY <1>0, <2>11, <2>13, <3>1 DEF Types
    <3>3. 1 \in DOMAIN x.writeReqs /\ y.inWrite = x.writeReqs[1]
      BY <3>2
    <3>4. x.inWrite < x.writeReqs[1]
      BY <1>0, <3>3 DEF Order
    <3>5. x.inWrite \in Int
      BY <1>0 DEF Types
    <3> QED
      BY <3>3, <3>4, <3>5
  <2> QED
    BY <2>9, <2>10, <2>11, <2>12, <2>13 DEF y
<1>2. CASE ~ok
  <2> DEFINE t == FinishInFlightWrite(x, "err")
             u == IF t.st = "writable" THEN ClearAlgorithms(t) ELSE t
  <2>1. y = DealWithRejection(u, t.writer)
    BY <1>2 DEF WriteSettled
  <2>2. /\ Base(t) /\ Follows(t) /\ Kept(x, t)
        /\ Agree(x, t, {"pend", "inWrite", "wp"})
        /\ t.inWrite = NoChunk /\ ~t.inClose /\ t.started
        /\ t.st \in {"writable", "erroring"}
    BY FinishWriteKeeps
  <2> HIDE DEF t
  <2>3. t.st = "writable" => t.abortReq = "none"
    BY <2>2 DEF Agree, Good, Open
  <2>4. Base(u) /\ Kept(t, u) /\ Agree(t, u, {"algs"})
    <3>1. CASE t.st = "writable"
      BY <2>2, <2>3, <3>1, ClearAlgorithmsKeeps
    <3>2. CASE t.st # "writable"
      BY <2>2, <3>2 DEF Kept, Agree, Base, Types
    <3> QED
      BY <3>1, <3>2
  <2> HIDE DEF u
  <2>5. Follows(u)
    <3>1. u.pend = t.pend
      BY <2>4 DEF Agree
    <3> QED
      BY <2>2, <2>4, <3>1, FollowsCarry
  <2>6. /\ u.inWrite = NoChunk /\ ~u.inClose /\ u.started
        /\ u.st \in {"writable", "erroring"} /\ u.writer = t.writer
    BY <2>2, <2>4 DEF Agree
  <2>7. Held(u)
    BY <2>5, <2>6, FollowsHeld
  <2>8. Told(u, t.writer)
    BY <2>4, <2>6 DEF Told, Base, Types
  <2> HIDE DEF y
  <2>9. Base(y) /\ y.st = "errored" /\ Kept(u, y) /\ Follows(y)
    BY <2>1, <2>4, <2>5, <2>6, <2>7, <2>8, DealWithRejectionKeeps
  <2>10. Kept(x, y)
    BY <2>2, <2>4, <2>9, KeptTrans
  <2>11. Tame(u, y) /\ Exact(y) /\ Idle(y) /\ y.inWrite = u.inWrite
    BY <2>1, <2>4, <2>6, <2>7, <2>8, DealWithRejectionTame
  <2>12. Tame(x, t) /\ Tame(t, u)
    BY <1>0, <2>2, <2>4, AgreeTame DEF Base
  <2>13. Tame(x, y)
    <3>1. Tame(x, u)
      BY <1>0, <2>12, TameTrans
    <3> QED
      BY <1>0, <2>11, <3>1, TameTrans
  <2> QED
    BY <2>6, <2>9, <2>10, <2>11, <2>13 DEF y, Good, Open, Busy
<1> QED
  BY <1>1, <1>2

(* The reaction to a close() of the sink that resolved: every write had    *)
(* succeeded.                                                              *)
LEMMA CloseOkKeeps ==
  ASSUME NEW x, Good(x), "close" \in x.pend
  PROVE  LET y == FinishInFlightClose(x, x.closeW)
         IN  /\ Good(y) /\ Busy(y) /\ Kept(x, y)
             /\ Tame(x, y) /\ Exact(y) /\ Idle(y) /\ y.inWrite = x.inWrite
<1> DEFINE w == x.closeW
           t == [x EXCEPT !.pend = @ \ {"close"}, !.inClose = FALSE,
                          !.closeP = Settle(@, "ok"), !.st = "closed"]
           a == [t EXCEPT !.abortReq = "none", !.abortP = Settle(@, "ok")]
           u == IF x.st = "erroring" /\ x.abortReq # "none" THEN a ELSE t
           y == FinishInFlightClose(x, w)
           Parts == {"pend", "inClose", "closeP", "st", "abortReq", "abortP"}
<1>1. Types(x) /\ InFlight(x) /\ Promises(x) /\ Order(x) /\ Open(x) /\ Follows(x)
  BY DEF Good, Base
<1>2. /\ x.inClose /\ x.queue = <<>> /\ x.writeReqs = <<>> /\ x.inWrite = NoChunk
      /\ x.started /\ ~x.closeReq /\ x.st \in {"writable", "erroring"}
      /\ "abort" \notin x.pend
  BY <1>1 DEF InFlight, Types, Finished
<1>3. x.closeP = "pending" /\ (x.st = "writable" => x.abortReq = "none")
  BY <1>1, <1>2 DEF Promises, Open
<1>4. /\ Agree(x, t, {"pend", "inClose", "closeP", "st"})
      /\ t.pend = x.pend \ {"close"} /\ t.inClose = FALSE /\ t.closeP = "ok"
      /\ t.st = "closed" /\ t.abortReq = x.abortReq /\ t.abortP = x.abortP
  BY <1>1, <1>3 DEF Types, Agree, Fields, Settle
<1>5. y = IF w = NoWriter THEN u ELSE [u EXCEPT !.wr[w].closed = Settle(@, "ok")]
  BY DEF FinishInFlightClose
<1> HIDE DEF t, y
<1>6. /\ Agree(t, a, {"abortReq", "abortP"}) /\ a.abortReq = "none"
      /\ a.abortP = Settle(x.abortP, "ok")
  BY <1>4 DEF Agree, Fields
<1> HIDE DEF a
<1>7. /\ Agree(t, u, {"abortReq", "abortP"})
      /\ u.abortReq = "none"
      /\ u.abortP = IF x.abortReq # "none" THEN Settle(x.abortP, "ok") ELSE x.abortP
  BY <1>2, <1>3, <1>4, <1>6 DEF Agree
<1> HIDE DEF u
<1>8. Agree(x, u, Parts)
  BY <1>4, <1>7, AgreeTrans
<1>9. u.abortP \in Promise /\ u.abortP # "pending"
  <2>1. x.abortP = "pending" <=> x.abortReq # "none"
    BY <1>1, <1>2 DEF Promises
  <2>2. x.abortP \in Promise
    BY <1>1 DEF Types
  <2> QED
    BY <1>7, <2>1, <2>2, SettleType
<1>10. /\ u.pend = x.pend \ {"close"} /\ u.inClose = FALSE /\ u.closeP = "ok"
       /\ u.st = "closed"
  BY <1>4, <1>7 DEF Agree
<1>11. x.wr \in Writers /\ x.closeW \in MaybeWriter /\ u.wr = x.wr /\ DOMAIN u = Fields
  BY <1>1, <1>8 DEF Types, Agree
<1>12. /\ Agree(u, y, {"wr"})
       /\ WriterShows(u, y, w, u.wr[w].ready, Settle(u.wr[w].closed, "ok"))
  <2>1. CASE w = NoWriter
    BY <1>5, <1>11, <2>1 DEF Agree, WriterShows, NoWriter, WriterIds
  <2>2. CASE w # NoWriter
    <3>1. w \in WriterIds
      BY <1>11, <2>2 DEF NoWriter, WriterIds, MaybeWriter
    <3>2. x.wr[w].closed \in Promise
      BY <1>11, <3>1 DEF Writers
    <3> DEFINE p == Settle(x.wr[w].closed, "ok")
               f == [x.wr EXCEPT ![w].closed = p]
    <3>3. f \in Writers
      BY <1>11, <3>1, <3>2, WriterUpdate, SettleType
    <3>4. y = [u EXCEPT !.wr = f]
      BY <1>5, <1>11, <2>2
    <3> HIDE DEF p
    <3>5. Agree(u, y, {"wr"}) /\ y.wr = f
      BY <1>11, <3>4 DEF Agree, Fields
    <3>6. \A v \in WriterIds \ {w} : f[v] = x.wr[v]
      BY <1>11 DEF Writers
    <3>7. f[w].ready = x.wr[w].ready /\ f[w].closed = p /\ f[w].late = x.wr[w].late
      BY <1>11, <3>1 DEF Writers
    <3> QED
      BY <1>11, <3>3, <3>5, <3>6, <3>7 DEF WriterShows, p
  <2> QED
    BY <2>1, <2>2
<1>13. /\ y.pend = x.pend \ {"close"} /\ y.inClose = FALSE /\ y.closeP = "ok"
       /\ y.st = "closed" /\ y.abortReq = "none" /\ y.abortP = u.abortP
  BY <1>7, <1>10, <1>12 DEF Agree
<1>14. Agree(x, y, Parts \cup {"wr"})
  BY <1>8, <1>12, AgreeTrans
<1>15. /\ y.queue = <<>> /\ y.writeReqs = <<>> /\ y.inWrite = NoChunk /\ y.started
       /\ y.closeReq = x.closeReq /\ y.panic = x.panic /\ y.wp = x.wp
       /\ y.writes = x.writes /\ y.writer = x.writer /\ y.writers = x.writers
  BY <1>2, <1>14 DEF Agree
<1>16. Types(y)
  <2>1. x.pend \in SUBSET {"start", "write", "close", "abort"}
    BY <1>1 DEF Types
  <2>2. Typed(y, Parts \cup {"wr"})
    BY <1>9, <1>12, <1>13, <2>1 DEF Typed, WriterShows, Promise
  <2> QED
    BY <1>1, <1>14, <2>2, TypesCarry
<1>17. InFlight(y)
  BY <1>1, <1>2, <1>13, <1>15 DEF InFlight, Finished
<1>18. Promises(y)
  <2>1. \A i \in WriteIds : y.wp[i] = "pending" <=> Waiting(y, i)
    BY <1>1, <1>2, <1>15 DEF Promises, Waiting
  <2> QED
    BY <1>2, <1>9, <1>13, <1>15, <2>1 DEF Promises
<1>19. Order(y)
  BY <1>1, <1>2, <1>13, <1>15 DEF Order
<1>20. Kept(x, y)
  BY <1>11, <1>12, <1>15, ShownKept DEF Kept
<1>21. Follows(y)
  <2> SUFFICES ASSUME Punctual(y)
               PROVE  y.wr[y.writer].closed = "ok" /\ y.wr[y.writer].ready # "pending"
    BY <1>13 DEF Follows, Shows
  <2>1. x.writer \in WriterIds
    BY <1>1, <1>15 DEF Punctual, Types, NoWriter, MaybeWriter, WriterIds
  <2>2. Punctual(x)
    BY <1>15, <1>20, <2>1 DEF Punctual, Kept
  <2>3. /\ w = x.writer /\ x.wr[w].closed = "pending"
        /\ x.wr[w].ready # "pending"
    BY <1>1, <1>2, <2>2 DEF Follows, Shows, CloseQueuedOrInFlight
  <2> QED
    BY <1>11, <1>12, <1>15, <2>1, <2>3 DEF WriterShows, Settle
<1>22. Tame(x, y)
  <2>1. y.hwm = x.hwm /\ y.total = x.total /\ x.total \in Nat
    BY <1>1, <1>14 DEF Agree, Types
  <2> QED
    BY <1>2, <1>13, <1>15, <2>1 DEF Tame, CloseQueuedOrInFlight
<1> QED
  BY <1>2, <1>13, <1>15, <1>16, <1>17, <1>18, <1>19, <1>20, <1>21, <1>22, FailedExact
     DEF Good, Base, Open, Busy, y

(* The reaction to a close() of the sink that rejected.                    *)
LEMMA CloseFailedKeeps ==
  ASSUME NEW x, Good(x), "close" \in x.pend
  PROVE  LET y == FinishInFlightCloseWithError(x, x.closeW)
         IN  /\ Good(y) /\ Busy(y) /\ Kept(x, y)
             /\ Tame(x, y) /\ Exact(y) /\ Idle(y) /\ y.inWrite = x.inWrite
<1> DEFINE w == x.closeW
           t == [x EXCEPT !.pend = @ \ {"close"}, !.inClose = FALSE,
                          !.closeP = Settle(@, "err")]
           a == [t EXCEPT !.abortReq = "none", !.abortP = Settle(@, "err")]
           u == IF x.abortReq # "none" THEN a ELSE t
           y == FinishInFlightCloseWithError(x, w)
           Parts == {"pend", "inClose", "closeP", "abortReq", "abortP"}
<1>1. Types(x) /\ InFlight(x) /\ Promises(x) /\ Order(x) /\ Open(x) /\ Follows(x)
  BY DEF Good, Base
<1>2. /\ x.inClose /\ x.queue = <<>> /\ x.writeReqs = <<>> /\ x.inWrite = NoChunk
      /\ x.started /\ ~x.closeReq /\ x.st \in {"writable", "erroring"}
      /\ "abort" \notin x.pend
  BY <1>1 DEF InFlight, Types, Finished
<1>3. x.closeP = "pending"
  BY <1>1, <1>2 DEF Promises
<1>4. /\ Agree(x, t, {"pend", "inClose", "closeP"})
      /\ t.pend = x.pend \ {"close"} /\ t.inClose = FALSE /\ t.closeP = "err"
      /\ t.abortReq = x.abortReq /\ t.abortP = x.abortP
  BY <1>1, <1>3 DEF Types, Agree, Fields, Settle
<1>5. y = DealWithRejection(u, w)
  BY DEF FinishInFlightCloseWithError
<1> HIDE DEF t, y
<1>6. /\ Agree(t, a, {"abortReq", "abortP"}) /\ a.abortReq = "none"
      /\ a.abortP = Settle(x.abortP, "err")
  BY <1>4 DEF Agree, Fields
<1> HIDE DEF a
<1>7. /\ Agree(t, u, {"abortReq", "abortP"})
      /\ u.abortReq = "none"
      /\ u.abortP = IF x.abortReq # "none" THEN Settle(x.abortP, "err") ELSE x.abortP
  BY <1>4, <1>6 DEF Agree
<1> HIDE DEF u
<1>8. Agree(x, u, Parts)
  BY <1>4, <1>7, AgreeTrans
<1>9. u.abortP \in Promise /\ u.abortP # "pending"
  <2>1. x.abortP = "pending" <=> x.abortReq # "none"
    BY <1>1, <1>2 DEF Promises
  <2>2. x.abortP \in Promise
    BY <1>1 DEF Types
  <2> QED
    BY <1>7, <2>1, <2>2, SettleType
<1>10. u.pend = x.pend \ {"close"} /\ u.inClose = FALSE /\ u.closeP = "err"
  BY <1>4, <1>7 DEF Agree
<1>11. /\ u.queue = <<>> /\ u.writeReqs = <<>> /\ u.inWrite = NoChunk /\ u.started
       /\ u.closeReq = x.closeReq /\ u.panic = x.panic /\ u.wp = x.wp /\ u.st = x.st
       /\ u.writes = x.writes /\ u.writer = x.writer /\ u.writers = x.writers
       /\ u.wr = x.wr
  BY <1>2, <1>8 DEF Agree
<1>12. Types(u)
  <2>1. x.pend \in SUBSET {"start", "write", "close", "abort"}
    BY <1>1 DEF Types
  <2>2. Typed(u, Parts)
    BY <1>7, <1>9, <1>10, <2>1 DEF Typed, Promise
  <2> QED
    BY <1>1, <1>8, <2>2, TypesCarry
<1>13. InFlight(u)
  BY <1>1, <1>2, <1>7, <1>10, <1>11 DEF InFlight, Finished
<1>14. Promises(u)
  <2>1. \A i \in WriteIds : u.wp[i] = "pending" <=> Waiting(u, i)
    BY <1>1, <1>2, <1>11 DEF Promises, Waiting
  <2> QED
    BY <1>2, <1>7, <1>9, <1>10, <1>11, <2>1 DEF Promises
<1>15. Order(u)
  BY <1>1, <1>2, <1>10, <1>11 DEF Order
<1>16. Held(u)
  <2>1. Held(x)
    BY <1>1, <1>2, FollowsHeld
  <2> QED
    BY <1>10, <1>11, <2>1 DEF Held, Punctual
<1>17. ASSUME u.st = "erroring" PROVE Follows(u)
  BY <1>1, <1>10, <1>11, <1>17 DEF Follows, Punctual, Shows
<1>18. Told(u, w) /\ Kept(x, u)
  <2>1. Punctual(x) => x.closeW = x.writer
    BY <1>1, <1>2 DEF Follows
  <2> QED
    BY <1>1, <1>11, <2>1 DEF Told, Kept, Punctual, Types
<1>19. Base(y) /\ y.st = "errored" /\ Kept(u, y) /\ Follows(y)
  BY <1>2, <1>5, <1>10, <1>11, <1>12, <1>13, <1>14, <1>15, <1>16, <1>17, <1>18,
     DealWithRejectionKeeps DEF Base
<1>20. Kept(x, y)
  BY <1>18, <1>19, KeptTrans
<1>21. Tame(u, y) /\ Exact(y) /\ Idle(y) /\ y.inWrite = u.inWrite
  BY <1>2, <1>5, <1>10, <1>11, <1>12, <1>13, <1>14, <1>15, <1>16, <1>18,
     DealWithRejectionTame DEF Base
<1>22. Tame(x, y)
  <2>1. u.hwm = x.hwm /\ u.total = x.total /\ x.total \in Nat /\ y.st = "errored"
    BY <1>1, <1>8, <1>19 DEF Agree, Types
  <2> QED
    BY <1>2, <1>10, <1>11, <1>21, <2>1 DEF Tame, CloseQueuedOrInFlight
<1> QED
  BY <1>2, <1>11, <1>19, <1>20, <1>21, <1>22 DEF Good, Open, Busy, y

(* The reaction to the sink's abort() promise, which ends the pending      *)
(* close and the writer.                                                   *)
LEMMA AbortSettledKeeps ==
  ASSUME NEW x, Good(x), "abort" \in x.pend, NEW ok \in BOOLEAN
  PROVE  LET y == AbortSettled(x, ok)
         IN  /\ Good(y) /\ Busy(y) /\ Kept(x, y)
             /\ Tame(x, y) /\ Exact(y) /\ Idle(y) /\ y.inWrite = x.inWrite
<1> DEFINE o == IF ok THEN "ok" ELSE "err"
           t == [x EXCEPT !.pend = @ \ {"abort"}, !.abortP = Settle(@, o)]
           w == x.writer
           y == AbortSettled(x, ok)
           Parts == {"pend", "abortP", "wr", "closeReq", "closeP"}
<1>1. Types(x) /\ InFlight(x) /\ Promises(x) /\ Order(x) /\ Open(x) /\ Follows(x)
  BY DEF Good, Base
<1>2. /\ x.st = "errored" /\ x.queue = <<>> /\ x.writeReqs = <<>> /\ x.started
      /\ x.abortReq = "none" /\ x.inWrite = NoChunk /\ ~x.inClose /\ x.abortP = "pending"
  BY <1>1 DEF InFlight, Finished, Promises
<1>3. /\ Agree(x, t, {"pend", "abortP"}) /\ t.pend = x.pend \ {"abort"}
      /\ t.abortP = o /\ o \in {"ok", "err"} /\ t.wr = x.wr
  BY <1>1, <1>2 DEF Types, Agree, Fields, Settle
<1>4. y = RejectCloseAndClosed(t, w)
  BY DEF AbortSettled
<1> HIDE DEF t, y, o
<1>5. Types(t) /\ w \in MaybeWriter
  <2>1. w \in MaybeWriter /\ x.pend \in SUBSET {"start", "write", "close", "abort"}
    BY <1>1 DEF Types
  <2>2. Typed(t, {"pend", "abortP"})
    BY <1>3, <2>1 DEF Typed, Promise
  <2> QED
    BY <1>1, <1>3, <2>1, <2>2, TypesCarry
<1>6. /\ Agree(t, y, {"wr", "closeReq", "closeP"})
      /\ y.closeReq = FALSE
      /\ y.closeP = IF t.closeReq THEN Settle(t.closeP, "err") ELSE t.closeP
      /\ WriterShows(t, y, w, t.wr[w].ready, Settle(t.wr[w].closed, "err"))
  BY <1>4, <1>5, RejectCloseEffect
<1>7. Agree(x, y, Parts)
  BY <1>3, <1>6, AgreeTrans
<1>8. /\ y.st = x.st /\ y.queue = x.queue /\ y.writeReqs = x.writeReqs
      /\ y.started = x.started /\ y.abortReq = x.abortReq /\ y.inWrite = x.inWrite
      /\ y.inClose = x.inClose /\ y.panic = x.panic /\ y.wp = x.wp
      /\ y.writes = x.writes /\ y.writer = x.writer /\ y.writers = x.writers
  BY <1>7 DEF Agree
<1>9. y.pend = x.pend \ {"abort"} /\ y.abortP \in {"ok", "err"}
  BY <1>3, <1>6 DEF Agree
<1>10. t.closeReq = x.closeReq /\ t.closeP = x.closeP
  BY <1>3 DEF Agree
<1>11. y.closeP \in Promise /\ y.closeP # "pending" /\ y.closeP # "ok"
  <2>1. x.closeP \in Promise
    BY <1>1 DEF Types
  <2>2. x.closeP # "ok"
    BY <1>1, <1>2 DEF Order
  <2>3. x.closeP = "pending" <=> x.closeReq
    BY <1>1, <1>2 DEF Promises
  <2> QED
    BY <1>6, <1>10, <2>1, <2>2, <2>3, SettleType
<1>12. Types(y)
  <2>1. x.pend \in SUBSET {"start", "write", "close", "abort"}
    BY <1>1 DEF Types
  <2>2. Typed(y, Parts)
    BY <1>6, <1>9, <1>11, <2>1 DEF Typed, Promise, WriterShows
  <2> QED
    BY <1>1, <1>7, <2>2, TypesCarry
<1>13. InFlight(y)
  BY <1>1, <1>2, <1>8, <1>9 DEF InFlight, Finished
<1>14. Promises(y)
  <2>1. \A i \in WriteIds : y.wp[i] = "pending" <=> Waiting(y, i)
    BY <1>1, <1>8 DEF Promises, Waiting
  <2> QED
    BY <1>2, <1>6, <1>8, <1>9, <1>11, <2>1 DEF Promises
<1>15. Order(y)
  BY <1>1, <1>2, <1>8, <1>11 DEF Order
<1>16. x.wr \in Writers
  BY <1>1 DEF Types
<1>17. Kept(x, y)
  BY <1>3, <1>6, <1>8, <1>16, ShownKept DEF Kept
<1>18. Follows(y)
  <2> SUFFICES ASSUME Punctual(y)
               PROVE  y.wr[y.writer].closed = "err" /\ y.wr[y.writer].ready = "err"
    BY <1>2, <1>8 DEF Follows, Shows
  <2>1. x.writer \in WriterIds
    BY <1>1, <1>8 DEF Punctual, Types, NoWriter, MaybeWriter, WriterIds
  <2>2. Punctual(x)
    BY <1>8, <1>17, <2>1 DEF Punctual, Kept
  <2>3. x.wr[w].closed \in {"pending", "err"} /\ x.wr[w].ready = "err"
    BY <1>1, <1>2, <2>2 DEF Follows, Shows
  <2> QED
    BY <1>3, <1>6, <1>8, <2>1, <2>3 DEF WriterShows, Settle
<1>19. Tame(x, y)
  <2>1. y.hwm = x.hwm /\ y.total = x.total /\ x.total \in Nat
    BY <1>1, <1>7 DEF Agree, Types
  <2> QED
    BY <1>2, <1>6, <1>8, <2>1 DEF Tame, CloseQueuedOrInFlight
<1> QED
  BY <1>2, <1>8, <1>12, <1>13, <1>14, <1>15, <1>17, <1>18, <1>19, FailedExact
     DEF Good, Base, Open, Busy, y

(* An aborted signal is all that changes before its listeners run.         *)
LEMMA SignalKeeps ==
  ASSUME NEW x, Good(x), Busy(x)
  PROVE  LET y == [x EXCEPT !.signalled = TRUE]
         IN  Good(y) /\ Busy(y) /\ Kept(x, y) /\ Agree(x, y, {"signalled"}) /\ Steady(x, y)
<1> DEFINE y == [x EXCEPT !.signalled = TRUE]
<1>1. Types(x) /\ InFlight(x) /\ Promises(x) /\ Order(x) /\ Open(x) /\ Follows(x)
  BY DEF Good, Base
<1>2. Agree(x, y, {"signalled"}) /\ y.signalled = TRUE
  BY <1>1 DEF Types, Agree, Fields
<1> HIDE DEF y
<1>3. Types(y)
  BY <1>1, <1>2, TypesCarry DEF Typed
<1>4. InFlight(y)
  BY <1>1, <1>2 DEF InFlight, Agree, Finished
<1>5. Promises(y)
  BY <1>1, <1>2 DEF Promises, Agree, Finished, Waiting
<1>6. Order(y) /\ Open(y)
  BY <1>1, <1>2 DEF Order, Open, Agree
<1>7. y.pend = x.pend /\ Kept(x, y)
  BY <1>2 DEF Agree, Kept
<1>8. Follows(y)
  BY <1>1, <1>2, <1>7, FollowsCarry
<1>9. Busy(y)
  BY <1>2 DEF Busy, Agree, HasOperationInFlight
<1>10. Steady(x, y)
  BY <1>1, <1>2, AgreeTame DEF Steady
<1> QED
  BY <1>2, <1>3, <1>4, <1>5, <1>6, <1>7, <1>8, <1>9, <1>10 DEF Good, Base, y

(* abort() after the listeners of the abort signal ran, whatever they did  *)
(* to the stream.                                                          *)
LEMMA AbortAfterSignalKeeps ==
  ASSUME NEW x, Good(x), Busy(x), NEW w, Told(x, w)
  PROVE  LET y == AbortAfterSignal(x, w)
         IN  /\ Good(y) /\ Busy(y) /\ Kept(x, y)
             /\ Steady(x, y) /\ y.inWrite = x.inWrite
<1> DEFINE y == AbortAfterSignal(x, w)
           a == [x EXCEPT !.abortReq = "already", !.abortP = "pending"]
           f == [x EXCEPT !.abortReq = "fresh", !.abortP = "pending"]
<1>1. Types(x) /\ InFlight(x) /\ Promises(x) /\ Order(x) /\ Open(x) /\ Follows(x)
  BY DEF Good, Base
<1>2. /\ x.st \in {"closed", "errored"} \/ x.abortReq # "none" => y = x
      /\ x.st = "erroring" /\ x.abortReq = "none" => y = a
      /\ x.st = "writable" /\ x.abortReq = "none" => y = StartErroring(f, w)
  BY Zenon DEF AbortAfterSignal
<1> HIDE DEF y
<1>3. CASE x.st \in {"closed", "errored"} \/ x.abortReq # "none"
  <2>1. Tame(x, x)
    BY <1>1 DEF Tame, Types
  <2> QED
    BY <1>2, <1>3, <2>1 DEF Kept, Steady, y
<1>4. CASE x.st = "erroring" /\ x.abortReq = "none"
  <2>1. Agree(x, a, {"abortReq", "abortP"}) /\ a.abortReq = "already" /\ a.abortP = "pending"
    BY <1>1 DEF Types, Agree, Fields
  <2> HIDE DEF a
  <2>2. Types(a)
    BY <1>1, <2>1, TypesCarry DEF Typed, Promise
  <2>3. InFlight(a)
    BY <1>1, <1>4, <2>1 DEF InFlight, Agree, Finished
  <2>4. Promises(a)
    BY <1>1, <2>1 DEF Promises, Agree, Finished, Waiting
  <2>5. Order(a) /\ Kept(x, a)
    BY <1>1, <2>1 DEF Order, Agree, Kept
  <2>6. a.pend = x.pend /\ a.st = x.st
    BY <2>1 DEF Agree
  <2>7. Follows(a)
    BY <1>1, <2>1, <2>6, FollowsCarry
  <2>8. Busy(a)
    BY <2>1 DEF Busy, Agree, HasOperationInFlight
  <2>9. Steady(x, a) /\ a.inWrite = x.inWrite
    BY <1>1, <2>1, AgreeTame DEF Steady
  <2> QED
    BY <1>2, <1>4, <2>2, <2>3, <2>4, <2>5, <2>6, <2>7, <2>8, <2>9 DEF Good, Base, Open, y
<1>5. CASE x.st = "writable" /\ x.abortReq = "none"
  <2>1. Agree(x, f, {"abortReq", "abortP"}) /\ f.abortReq = "fresh" /\ f.abortP = "pending"
    BY <1>1 DEF Types, Agree, Fields
  <2> HIDE DEF f
  <2>2. Types(f)
    BY <1>1, <2>1, TypesCarry DEF Typed, Promise
  <2>3. x.algs \/ x.inClose
    BY <1>1, <1>5 DEF Open
  <2>4. InFlight(f)
    BY <1>1, <1>5, <2>1, <2>3 DEF InFlight, Agree, Finished
  <2>5. Promises(f)
    BY <1>1, <2>1 DEF Promises, Agree, Finished, Waiting
  <2>6. Order(f) /\ Kept(x, f)
    BY <1>1, <2>1 DEF Order, Agree, Kept
  <2>7. f.pend = x.pend /\ f.st = x.st /\ f.inClose = x.inClose
    BY <2>1 DEF Agree
  <2>8. Held(f)
    BY <1>1, <1>5, <2>1, <2>7, FollowsHeld, HeldCarry
  <2>9. Told(f, w)
    BY <1>1, <2>6, KeptTold
  <2>10. Base(y) /\ Busy(y) /\ Kept(f, y) /\ Follows(y) /\ y.st # "writable"
    BY <1>2, <1>5, <2>2, <2>4, <2>5, <2>6, <2>7, <2>8, <2>9, StartErroringKeeps DEF Base
  <2>11. Kept(x, y)
    BY <2>6, <2>10, KeptTrans
  <2>12. Tame(f, y) /\ Exact(y) /\ Idle(y) /\ y.inWrite = f.inWrite
    BY <1>2, <1>5, <2>2, <2>4, <2>5, <2>6, <2>7, <2>8, <2>9, StartErroringTame DEF Base
  <2>13. Tame(x, f) /\ f.inWrite = x.inWrite
    BY <1>1, <2>1, AgreeTame
  <2>14. Tame(x, y)
    BY <1>1, <2>12, <2>13, TameTrans
  <2> QED
    BY <2>10, <2>11, <2>12, <2>13, <2>14 DEF Good, Open, Steady, y
<1> QED
  <2>1. x.st \in {"writable", "erroring", "errored", "closed"}
    BY <1>1 DEF Types
  <2> QED
    BY <1>3, <1>4, <1>5, <2>1

(* getWriter(): the new writer's promises show the state it finds.         *)
LEMMA AcquireKeeps ==
  ASSUME NEW x, Good(x), Busy(x), x.writers < MaxWriters, NEW late \in BOOLEAN,
         x.inClose => late
  PROVE  LET y == AcquireWriter(x, late)
         IN  /\ Good(y) /\ Busy(y) /\ y.writes = x.writes
             /\ Punctual(y) => ~late
             /\ Agree(x, y, {"writers", "writer", "wr"}) /\ y.writer = x.writers + 1
             /\ y.wr[y.writer].late = late
<1> DEFINE y == AcquireWriter(x, late)
           w == x.writers + 1
           ready == CASE x.st = "writable" ->
                           IF ~CloseQueuedOrInFlight(x) /\ x.bp THEN "pending" ELSE "ok"
                      [] x.st = "closed" -> "ok"
                      [] x.st \in {"erroring", "errored"} -> "err"
           closed == CASE x.st \in {"writable", "erroring"} -> "pending"
                       [] x.st = "closed"  -> "ok"
                       [] x.st = "errored" -> "err"
           e == [ready |-> ready, closed |-> closed, late |-> late]
           Parts == {"writers", "writer", "wr"}
<1>1. Types(x) /\ InFlight(x) /\ Promises(x) /\ Order(x) /\ Open(x) /\ Follows(x)
  BY DEF Good, Base
<1>2. w \in WriterIds /\ w # NoWriter
  BY SMTT(30), <1>1, WritableBounds DEF Types, MaybeWriter, WriterIds, NoWriter
<1>3. /\ x.st = "writable" =>
           ready = IF ~CloseQueuedOrInFlight(x) /\ x.bp THEN "pending" ELSE "ok"
      /\ x.st = "closed" => ready = "ok"
      /\ x.st = "erroring" => ready = "err"
      /\ x.st = "errored" => ready = "err"
  BY Zenon
<1>4. /\ x.st = "writable" => closed = "pending"
      /\ x.st = "erroring" => closed = "pending"
      /\ x.st = "closed" => closed = "ok"
      /\ x.st = "errored" => closed = "err"
  BY Zenon
<1>5. y = [x EXCEPT !.writers = w, !.writer = w, !.wr[w] = e]
  BY Zenon DEF AcquireWriter
<1> HIDE DEF ready, closed
<1>6. ready \in Promise /\ closed \in Promise
  <2>1. x.st \in {"writable", "erroring", "errored", "closed"}
    BY <1>1 DEF Types
  <2> QED
    BY <1>3, <1>4, <2>1 DEF Promise
<1>7. x.wr \in Writers /\ DOMAIN x = Fields
  BY <1>1 DEF Types
<1> DEFINE f == [x.wr EXCEPT ![w] = e]
<1>8. f \in Writers
  BY <1>2, <1>6, <1>7 DEF Writers
<1> HIDE DEF y, w
<1>9. /\ Agree(x, y, Parts) /\ y.writers = w /\ y.writer = w /\ y.wr = f
  BY <1>5, <1>7 DEF Agree, Fields
<1>10. y.wr[w].ready = ready /\ y.wr[w].closed = closed /\ y.wr[w].late = late
  BY <1>2, <1>7, <1>9 DEF Writers
<1> HIDE DEF f
<1>11. Types(y)
  <2>1. w \in MaybeWriter
    BY <1>2 DEF WriterIds, MaybeWriter
  <2>2. Typed(y, Parts)
    BY <1>8, <1>9, <2>1 DEF Typed
  <2> QED
    BY <1>1, <1>9, <2>2, TypesCarry
<1>12. InFlight(y)
  BY <1>1, <1>9 DEF InFlight, Agree, Finished
<1>13. Promises(y)
  BY <1>1, <1>9 DEF Promises, Agree, Finished, Waiting
<1>14. Order(y) /\ Open(y)
  BY <1>1, <1>9 DEF Order, Open, Agree
<1>15. Busy(y)
  BY <1>9 DEF Busy, Agree, HasOperationInFlight
<1>16. /\ y.st = x.st /\ y.bp = x.bp /\ y.closeReq = x.closeReq /\ y.writes = x.writes
       /\ y.inClose = x.inClose
  BY <1>9 DEF Agree
<1>17. Punctual(y) => ~late
  BY <1>9, <1>10 DEF Punctual
<1>18. Follows(y)
  <2> SUFFICES ASSUME ~late
               PROVE  /\ Shows(y, w) 
                      /\ y.st = "errored" => y.wr[w].closed \in {"pending", "err"}
                      /\ ~y.inClose
    BY <1>9, <1>17 DEF Follows
  <2>1. y.st \in {"writable", "erroring", "errored", "closed"} /\ ~y.inClose
    BY <1>11, <1>16 DEF Types
  <2>2. CloseQueuedOrInFlight(y) = CloseQueuedOrInFlight(x)
    BY <1>16 DEF CloseQueuedOrInFlight
  <2> QED
    BY <1>3, <1>4, <1>10, <1>16, <2>1, <2>2 DEF Shows
<1> QED
  BY <1>9, <1>10, <1>11, <1>12, <1>13, <1>14, <1>15, <1>16, <1>17, <1>18
     DEF Good, Base, y, w

(* releaseLock() leaves the stream without a punctual writer.              *)
LEMMA ReleaseKeeps ==
  ASSUME NEW x, Good(x), Busy(x), x.writer # NoWriter
  PROVE  LET y == ReleaseWriter(x, x.writer)
         IN  /\ Good(y) /\ Busy(y) /\ ~Punctual(y) /\ y.writes = x.writes
             /\ Agree(x, y, {"wr", "writer"})
<1> DEFINE w == x.writer
           y == ReleaseWriter(x, w)
           Parts == {"wr", "writer"}
           f == [x.wr EXCEPT ![w].ready = "err", ![w].closed = "err"]
<1>1. Types(x) /\ InFlight(x) /\ Promises(x) /\ Order(x) /\ Open(x)
  BY DEF Good, Base
<1>2. w \in WriterIds /\ x.wr \in Writers /\ DOMAIN x = Fields
  BY <1>1 DEF Types, MaybeWriter, WriterIds, NoWriter
<1>3. y = [x EXCEPT !.wr[w].ready = "err", !.wr[w].closed = "err", !.writer = NoWriter]
  BY DEF ReleaseWriter
<1>4. f \in Writers
  <2>1. "err" \in Promise
    BY DEF Promise
  <2> DEFINE g == [x.wr EXCEPT ![w].ready = "err"]
  <2>2. g \in Writers
    BY <1>2, <2>1, WriterUpdate
  <2>3. f = [g EXCEPT ![w].closed = "err"]
    OBVIOUS
  <2> HIDE DEF g
  <2> QED
    BY <1>2, <2>1, <2>2, <2>3, WriterUpdate
<1>5. Agree(x, y, Parts) /\ y.writer = NoWriter /\ y.wr = f
  BY <1>2, <1>3 DEF Agree, Fields
<1> HIDE DEF y, f
<1>6. Types(y)
  <2>1. NoWriter \in MaybeWriter
    BY WritableBounds DEF NoWriter, MaybeWriter
  <2> QED
    BY <1>1, <1>4, <1>5, <2>1, TypesCarry DEF Typed
<1>7. InFlight(y)
  BY <1>1, <1>5 DEF InFlight, Agree, Finished
<1>8. Promises(y)
  BY <1>1, <1>5 DEF Promises, Agree, Finished, Waiting
<1>9. Order(y) /\ Open(y) /\ y.writes = x.writes
  BY <1>1, <1>5 DEF Order, Open, Agree
<1>10. Busy(y)
  BY <1>5 DEF Busy, Agree, HasOperationInFlight
<1>11. ~Punctual(y)
  BY <1>5 DEF Punctual
<1> QED
  BY <1>5, <1>6, <1>7, <1>8, <1>9, <1>10, <1>11 DEF Good, Base, Follows, y

(* close() queues the sentinel behind every write request.                 *)
LEMMA WritableCloseKeeps ==
  ASSUME NEW x, Good(x), Busy(x), ~CloseQueuedOrInFlight(x)
  PROVE  LET y == WritableClose(x, x.writer)
         IN  /\ Good(y) /\ Busy(y) /\ Kept(x, y)
             /\ y.hwm = x.hwm /\ y.total \in Nat /\ y.total <= x.total
             /\ y.st = "writable" => x.st = "writable" /\ CloseQueuedOrInFlight(y)
             /\ y.st = "closed" \/ y.inClose => x.st \in {"writable", "closed"}
             /\ Idle(x) => Idle(y) /\ y.inWrite = x.inWrite
<1> DEFINE w == x.writer
           y == WritableClose(x, w)
           t == [x EXCEPT !.closeReq = TRUE, !.closeP = "pending"]
           u == IF w # NoWriter /\ t.bp /\ t.st = "writable"
                THEN [t EXCEPT !.wr[w].ready = Settle(@, "ok")] ELSE t
           v == [u EXCEPT !.queue = Append(@, CloseSentinel)]
           Parts == {"closeReq", "closeP", "wr", "queue"}
<1>1. Types(x) /\ InFlight(x) /\ Promises(x) /\ Order(x) /\ Open(x) /\ Follows(x)
  BY DEF Good, Base
<1>2. CASE x.st \in {"closed", "errored"}
  <2>1. y = x
    BY <1>2 DEF WritableClose
  <2>2. x.total \in Nat /\ (x.inClose => ~Finished(x))
    BY <1>1 DEF Types, InFlight
  <2> QED
    BY <1>2, <2>1, <2>2 DEF Kept, Finished
<1>3. CASE x.st \in {"writable", "erroring"}
  <2>1. y = AdvanceQueueIfNeeded(v, w)
    BY <1>3 DEF WritableClose, ControllerClose
  <2> HIDE DEF y
  <2>2. /\ w \in MaybeWriter /\ x.wr \in Writers /\ x.queue \in Seq(0..MaxWrites)
        /\ x.writeReqs \in Seq(WriteIds) /\ x.inWrite \in 0..MaxWrites
        /\ DOMAIN x = Fields /\ x.bp \in BOOLEAN
        /\ x.closeReq \in BOOLEAN /\ x.inClose \in BOOLEAN
    BY <1>1 DEF Types
  <2>3. /\ Agree(x, t, {"closeReq", "closeP"}) /\ t.closeReq = TRUE
        /\ t.closeP = "pending" /\ t.wr = x.wr /\ t.bp = x.bp /\ t.st = x.st
        /\ t.queue = x.queue
    BY <2>2 DEF Agree, Fields
  <2> HIDE DEF t
  <2> DEFINE p == IF x.bp /\ x.st = "writable"
                  THEN Settle(x.wr[w].ready, "ok") ELSE x.wr[w].ready
  <2>4. Agree(t, u, {"wr"}) /\ WriterShows(x, u, w, p, x.wr[w].closed)
    <3>1. CASE w = NoWriter
      BY <2>2, <2>3, <3>1 DEF Agree, WriterShows, NoWriter, WriterIds
    <3>2. CASE w # NoWriter /\ ~(x.bp /\ x.st = "writable")
      <4>1. u = t
        BY <2>3, <3>2
      <4> QED
        BY <2>2, <2>3, <3>2, <4>1 DEF Agree, WriterShows
    <3>3. CASE w # NoWriter /\ x.bp /\ x.st = "writable"
      <4>1. w \in WriterIds
        BY <2>2, <3>3 DEF NoWriter, WriterIds, MaybeWriter
      <4>2. x.wr[w].ready \in Promise
        BY <2>2, <4>1 DEF Writers
      <4> DEFINE f == [x.wr EXCEPT ![w].ready = p]
      <4>3. p = Settle(x.wr[w].ready, "ok") /\ p \in Promise
        BY <3>3, <4>2, SettleType
      <4>4. u = [t EXCEPT !.wr = f]
        BY <2>3, <3>3, <4>3
      <4> HIDE DEF p
      <4>5. f \in Writers
        BY <2>2, <4>1, <4>3, WriterUpdate
      <4>6. Agree(t, u, {"wr"}) /\ u.wr = f
        BY <2>3, <4>4 DEF Agree, Fields
      <4>7. \A i \in WriterIds \ {w} : f[i] = x.wr[i]
        BY <2>2 DEF Writers
      <4>8. f[w].ready = p /\ f[w].closed = x.wr[w].closed /\ f[w].late = x.wr[w].late
        BY <2>2, <4>1 DEF Writers
      <4> QED
        BY <4>5, <4>6, <4>7, <4>8 DEF WriterShows
    <3> QED
      BY <3>1, <3>2, <3>3
  <2> HIDE DEF u, p
  <2>5. u.queue = x.queue /\ u.closeReq = TRUE /\ u.closeP = "pending"
    BY <2>3, <2>4 DEF Agree
  <2>6. Agree(u, v, {"queue"}) /\ v.queue = Append(x.queue, CloseSentinel)
    BY <2>4, <2>5 DEF Agree, Fields
  <2> HIDE DEF v
  <2>7. v.closeReq = TRUE /\ v.closeP = "pending" /\ v.wr = u.wr
    BY <2>5, <2>6 DEF Agree
  <2>8. Agree(x, v, Parts)
    <3>1. Agree(x, u, {"closeReq", "closeP", "wr"})
      BY <2>3, <2>4, AgreeTrans
    <3> QED
      BY <2>6, <3>1, AgreeTrans
  <2>9. WriterShows(x, v, w, p, x.wr[w].closed)
    BY <2>4, <2>7 DEF WriterShows
  <2>10. /\ v.st = x.st /\ v.bp = x.bp /\ v.writer = x.writer /\ v.writers = x.writers
         /\ v.inClose = x.inClose /\ v.inWrite = x.inWrite /\ v.started = x.started
         /\ v.writeReqs = x.writeReqs /\ v.algs = x.algs /\ v.abortReq = x.abortReq
         /\ v.wp = x.wp /\ v.abortP = x.abortP /\ v.pend = x.pend /\ v.panic = x.panic
         /\ v.writes = x.writes /\ v.closeW = x.closeW
    BY <2>8 DEF Agree
  <2>11. /\ v.queue \in Seq(0..MaxWrites) /\ v.queue # <<>>
         /\ x.queue # <<>> => Head(v.queue) = Head(x.queue)
         /\ CloseSentinel \in 0..MaxWrites
    <3>1. CloseSentinel \in 0..MaxWrites
      BY WritableBounds DEF CloseSentinel
    <3> QED
      BY <2>2, <2>6, <3>1, AppendProperties, HeadTailAppend
  <2>12. ~x.closeReq /\ ~x.inClose
    BY DEF CloseQueuedOrInFlight
  <2>13. Types(v)
    <3>1. Typed(v, Parts)
      BY <2>7, <2>9, <2>11 DEF Typed, Promise, WriterShows
    <3> QED
      BY <1>1, <2>8, <3>1, TypesCarry
  <2>14. InFlight(v)
    BY <1>1, <1>3, <2>10, <2>11, <2>12 DEF InFlight, Finished
  <2>15. Promises(v)
    <3>1. \A i \in WriteIds : v.wp[i] = "pending" <=> Waiting(v, i)
      BY <1>1, <2>10 DEF Promises, Waiting
    <3> QED
      BY <1>1, <1>3, <2>7, <2>10, <3>1 DEF Promises, Finished
  <2>16. Order(v)
    BY <1>1, <2>7, <2>10, <2>12 DEF Order
  <2>17. Open(v)
    <3>1. ASSUME v.st = "writable" PROVE v.queue = Shape(v.inWrite, v.writeReqs, v.closeReq)
      <4>1. x.queue = Shape(x.inWrite, x.writeReqs, FALSE)
        BY <1>1, <2>2, <2>10, <2>12, <3>1 DEF Open
      <4>2. x.writeReqs \in Seq(0..MaxWrites)
        <5>1. WriteIds \subseteq 0..MaxWrites
          BY DEF WriteIds
        <5> QED
          BY <2>2, <5>1, SeqMonotonic
      <4>3. Append(x.queue, CloseSentinel) = Shape(x.inWrite, x.writeReqs, TRUE)
        BY <2>2, <2>11, <4>1, <4>2, ShapeAppend
      <4> QED
        BY <2>6, <2>7, <2>10, <4>3
    <3> QED
      BY <1>1, <2>10, <3>1 DEF Open
  <2>18. Kept(x, v)
    BY <2>2, <2>9, <2>10, ShownKept DEF Kept
  <2>19. Told(v, w)
    BY <2>2, <2>10 DEF Told
  <2>20. Follows(v)
    <3> SUFFICES ASSUME Punctual(v)
                 PROVE  Shows(v, v.writer)
      BY <1>3, <2>10, <2>12 DEF Follows
    <3>1. x.writer \in WriterIds
      BY <2>2, <2>10 DEF Punctual, NoWriter, MaybeWriter, WriterIds
    <3>2. Punctual(x)
      BY <2>10, <2>18, <3>1 DEF Punctual, Kept
    <3>3. /\ x.wr[w].closed = "pending"
          /\ x.st = "erroring" => x.wr[w].ready = "err"
          /\ x.st = "writable" => x.wr[w].ready = IF x.bp THEN "pending" ELSE "ok"
      BY <1>1, <1>3, <2>2, <3>2 DEF Follows, Shows
    <3>4. p = IF x.st = "writable" THEN "ok" ELSE "err"
      BY <1>3, <2>2, <3>3 DEF p, Settle
    <3>5. v.wr[w].ready = p /\ v.wr[w].closed = "pending"
      BY <2>9, <3>1, <3>3 DEF WriterShows
    <3>6. CloseQueuedOrInFlight(v)
      BY <2>7 DEF CloseQueuedOrInFlight
    <3> QED
      BY <1>3, <2>10, <3>4, <3>5, <3>6 DEF Shows
  <2>21. Good(v) /\ ~v.inClose
    BY <2>10, <2>12, <2>13, <2>14, <2>15, <2>16, <2>17, <2>20 DEF Good, Base
  <2>22. Good(y) /\ Busy(y) /\ Kept(v, y)
    BY <2>1, <2>19, <2>21, AdvanceKeeps
  <2>23. /\ Tame(v, y) /\ Idle(y)
         /\ v.inWrite # NoChunk => y.inWrite = v.inWrite
         /\ y.inWrite # NoChunk /\ v.inWrite = NoChunk =>
              v.writeReqs # <<>> /\ y.inWrite = Head(v.writeReqs)
         /\ v.queue = <<>> \/ Head(v.queue) = CloseSentinel => y.inWrite = v.inWrite
    BY <2>1, <2>19, <2>21, AdvanceTame
  <2>24. v.hwm = x.hwm /\ v.total = x.total
    BY <2>8 DEF Agree
  <2>25. /\ y.hwm = x.hwm /\ y.total \in Nat /\ y.total <= x.total
         /\ y.st = "writable" => x.st = "writable" /\ CloseQueuedOrInFlight(y)
         /\ y.st = "closed" \/ y.inClose => x.st \in {"writable", "closed"}
    <3>1. CloseQueuedOrInFlight(v)
      BY <2>7 DEF CloseQueuedOrInFlight
    <3>2. CloseQueuedOrInFlight(y) \in BOOLEAN
      BY DEF CloseQueuedOrInFlight
    <3> QED
      BY <2>10, <2>12, <2>23, <2>24, <3>1, <3>2 DEF Tame
  <2>26. ASSUME Idle(x) PROVE y.inWrite = x.inWrite
    <3>1. CASE x.inWrite # NoChunk
      BY <2>10, <2>23, <3>1
    <3>2. CASE x.inWrite = NoChunk /\ ~x.started
      BY <2>1, <2>10, <3>2 DEF AdvanceQueueIfNeeded
    <3>3. CASE x.inWrite = NoChunk /\ x.started /\ x.st = "writable"
      <4>1. x.queue = <<>>
        BY <2>26, <3>3 DEF Idle
      <4>2. Head(v.queue) = CloseSentinel
        BY <2>6, <4>1
      <4> QED
        BY <2>10, <2>23, <4>2
    <3>4. CASE x.inWrite = NoChunk /\ x.started /\ x.st = "erroring"
      BY <2>10, <2>12, <3>4 DEF Busy, HasOperationInFlight
    <3> QED
      BY <1>3, <3>1, <3>2, <3>3, <3>4
  <2> QED
    BY <2>18, <2>22, <2>23, <2>25, <2>26, KeptTrans DEF y
<1> QED
  BY <1>1, <1>2, <1>3 DEF Types

(* y has the writers of x.                                                 *)
KeptWriter(x, y) ==
  /\ y.writer = x.writer
  /\ \A v \in WriterIds : y.wr[v].late = x.wr[v].late

(* write() adds the newest request.                                        *)
LEMMA RequestAdded ==
  ASSUME NEW x, Base(x), x.writes < MaxWrites, x.st = "writable",
         ~x.closeReq, ~x.inClose
  PROVE  LET i == x.writes + 1
             u == [x EXCEPT !.writes = i, !.wp[i] = "pending",
                            !.writeReqs = Append(@, i)]
         IN  /\ Base(u) /\ KeptWriter(x, u) /\ i \in WriteIds
             /\ Agree(x, u, {"writes", "wp", "writeReqs"})
             /\ u.writes = i /\ u.writeReqs = Append(x.writeReqs, i)
             /\ \A j \in WriteIds : u.wp[j] = IF j = i THEN "pending" ELSE x.wp[j]
<1> DEFINE i == x.writes + 1
           r == x.writeReqs
           f == [x.wp EXCEPT ![i] = "pending"]
           q == Append(r, i)
           u == [x EXCEPT !.writes = i, !.wp[i] = "pending",
                          !.writeReqs = Append(@, i)]
<1>1. Types(x) /\ InFlight(x) /\ Promises(x) /\ Order(x)
  BY DEF Base
<1>2. /\ x.writes \in 0..MaxWrites /\ r \in Seq(WriteIds) /\ x.wp \in [WriteIds -> Promise]
      /\ x.inWrite \in 0..MaxWrites
  BY <1>1 DEF Types
<1>3. i \in WriteIds /\ i \in 0..MaxWrites
  BY <1>2, WritableBounds DEF WriteIds
<1>4. /\ Agree(x, u, {"writes", "wp", "writeReqs"}) /\ u.writes = i
      /\ u.writeReqs = q /\ u.wp = f
  BY <1>1 DEF Types, Agree, Fields
<1> HIDE DEF u
<1>5. f \in [WriteIds -> Promise] /\ \A j \in WriteIds : f[j] = IF j = i THEN "pending" ELSE x.wp[j]
  BY <1>2, <1>3 DEF Promise
<1> HIDE DEF f
<1>6. /\ q \in Seq(WriteIds) /\ Len(q) = Len(r) + 1 /\ Len(r) \in Nat
      /\ \A k \in 1..Len(r) : q[k] = r[k]
      /\ q[Len(r) + 1] = i /\ DOMAIN q = 1..Len(q) /\ DOMAIN r = 1..Len(r)
  BY <1>2, <1>3, AppendProperties, LenProperties
<1> HIDE DEF q, r
<1>7. Types(u)
  BY <1>1, <1>3, <1>4, <1>5, <1>6, TypesCarry DEF Typed
<1>8. /\ u.st = x.st /\ u.queue = x.queue /\ u.closeReq = x.closeReq
      /\ u.inClose = x.inClose /\ u.algs = x.algs /\ u.started = x.started
      /\ u.inWrite = x.inWrite /\ u.panic = x.panic /\ u.abortReq = x.abortReq
      /\ u.closeP = x.closeP /\ u.abortP = x.abortP /\ u.pend = x.pend
      /\ u.writer = x.writer /\ u.wr = x.wr
  BY <1>4 DEF Agree
<1>9. InFlight(u)
  BY <1>1, <1>8 DEF InFlight, Finished
<1>10. \A j \in WriteIds : Waiting(u, j) <=> j = i \/ Waiting(x, j)
  <2> TAKE j \in WriteIds
  <2>1. ASSUME NEW k \in DOMAIN q, q[k] = j PROVE j = i \/ \E m \in DOMAIN r : r[m] = j
    <3>1. k = Len(r) + 1 \/ k \in DOMAIN r
      BY <1>6
    <3> QED
      BY <1>6, <2>1, <3>1
  <2>2. ASSUME NEW k \in DOMAIN r, r[k] = j PROVE \E m \in DOMAIN q : q[m] = j
    <3>1. k \in DOMAIN q /\ q[k] = j
      BY <1>6, <2>2
    <3> QED
      BY <3>1
  <2>3. Len(r) + 1 \in DOMAIN q /\ q[Len(r) + 1] = i
    BY <1>6
  <2>4. Waiting(u, j) <=> j = x.inWrite \/ \E k \in DOMAIN q : q[k] = j
    BY <1>4, <1>8 DEF Waiting
  <2>5. Waiting(x, j) <=> j = x.inWrite \/ \E k \in DOMAIN r : r[k] = j
    BY DEF Waiting, r
  <2> QED
    BY <2>1, <2>2, <2>3, <2>4, <2>5
<1>11. \A j \in WriteIds : Waiting(x, j) => j < i
  <2> TAKE j \in WriteIds
  <2> HAVE Waiting(x, j)
  <2>1. x.wp[j] # "none"
    BY <1>1 DEF Promises
  <2>2. ~(j > x.writes)
    BY <1>1, <2>1 DEF Order
  <2> QED
    BY <1>2, <2>2 DEF WriteIds
<1>12. Promises(u)
  <2>1. \A j \in WriteIds : u.wp[j] = "pending" <=> Waiting(u, j)
    BY <1>1, <1>4, <1>5, <1>10 DEF Promises
  <2> QED
    BY <1>1, <1>8, <2>1 DEF Promises, Finished
<1>13. Order(u)
  <2>1. \A j \in WriteIds : u.wp[j] = "none" <=> j > u.writes
    <3> TAKE j \in WriteIds
    <3>1. x.wp[j] = "none" <=> j > x.writes
      BY <1>1 DEF Order
    <3>2. j > i <=> j > x.writes /\ j # i
      BY <1>2 DEF WriteIds
    <3> QED
      BY <1>4, <1>5, <3>1, <3>2
  <2>2. \A k \in DOMAIN r : r[k] \in WriteIds /\ r[k] < i
    <3> TAKE k \in DOMAIN r
    <3>1. r[k] \in WriteIds
      BY <1>2, <1>6 DEF r
    <3>2. Waiting(x, r[k])
      BY DEF Waiting, r
    <3> QED
      BY <1>11, <3>1, <3>2
  <2>3. \A k, l \in DOMAIN q : k < l => q[k] < q[l]
    <3> TAKE k, l \in DOMAIN q
    <3> HAVE k < l
    <3>1. k \in DOMAIN r /\ q[k] = r[k]
      BY <1>6
    <3>2. CASE l \in DOMAIN r
      <4>1. q[l] = r[l]
        BY <1>6, <3>2
      <4>2. r[k] < r[l]
        BY <1>1, <3>1, <3>2 DEF Order, r
      <4> QED
        BY <3>1, <4>1, <4>2
    <3>3. CASE l \notin DOMAIN r
      <4>1. q[l] = i
        BY <1>6, <3>3
      <4> QED
        BY <2>2, <3>1, <4>1
    <3> QED
      BY <3>2, <3>3
  <2>4. x.inWrite < i
    <3>1. CASE x.inWrite = 0
      BY <1>2, <3>1
    <3>2. CASE x.inWrite # 0
      <4>1. x.inWrite \in WriteIds
        BY <1>2, <3>2 DEF WriteIds
      <4>2. Waiting(x, x.inWrite)
        BY DEF Waiting
      <4> QED
        BY <1>11, <4>1, <4>2
    <3> QED
      BY <3>1, <3>2
  <2>5. \A k \in DOMAIN q : x.inWrite < q[k]
    <3> TAKE k \in DOMAIN q
    <3>1. CASE k \in DOMAIN r
      <4>1. q[k] = r[k]
        BY <1>6, <3>1
      <4> QED
        BY <1>1, <3>1, <4>1 DEF Order, r
    <3>2. CASE k \notin DOMAIN r
      <4>1. q[k] = i
        BY <1>6, <3>2
      <4> QED
        BY <2>4, <4>1
    <3> QED
      BY <3>1, <3>2
  <2>6. \A j \in WriteIds : j < x.inWrite => u.wp[j] = "ok"
    <3> TAKE j \in WriteIds
    <3> HAVE j < x.inWrite
    <3>1. j # i
      BY <1>2, <2>4 DEF WriteIds
    <3> QED
      BY <1>1, <1>4, <1>5, <3>1 DEF Order
  <2>7. \A j, k \in WriteIds : j < k /\ u.wp[k] = "ok" => u.wp[j] = "ok"
    <3> TAKE j, k \in WriteIds
    <3> HAVE j < k /\ u.wp[k] = "ok"
    <3>1. k # i /\ x.wp[k] = "ok"
      BY <1>4, <1>5
    <3>2. ~(k > x.writes)
      BY <1>1, <3>1 DEF Order
    <3>3. j # i
      BY <1>2, <3>2 DEF WriteIds
    <3> QED
      BY <1>1, <1>4, <1>5, <3>1, <3>3 DEF Order
  <2>8. u.closeP # "ok"
    BY <1>1, <1>8 DEF Order
  <2>9. \A k, l \in DOMAIN u.writeReqs : k < l => u.writeReqs[k] < u.writeReqs[l]
    BY <1>4, <2>3
  <2>10. \A k \in DOMAIN u.writeReqs : u.inWrite < u.writeReqs[k]
    BY <1>4, <1>8, <2>5
  <2> QED
    BY <1>8, <2>1, <2>6, <2>7, <2>8, <2>9, <2>10 DEF Order
<1>14. KeptWriter(x, u)
  BY <1>8 DEF KeptWriter
<1> QED
  BY <1>3, <1>4, <1>5, <1>7, <1>9, <1>12, <1>13, <1>14 DEF Base, q, r, u

(* write() queues the chunk of the request it added, so that queue and     *)
(* requests stay aligned.                                                  *)
LEMMA ChunkQueued ==
  ASSUME NEW x, Good(x), x.writes < MaxWrites, x.st = "writable",
         ~x.closeReq, ~x.inClose, NEW size \in Nat
  PROVE  LET i == x.writes + 1
             u == [x EXCEPT !.writes = i, !.wp[i] = "pending",
                            !.writeReqs = Append(@, i)]
             v == [u EXCEPT !.queue = Append(@, u.writes),
                            !.size[u.writes] = size, !.total = @ + size]
         IN  /\ Good(v) /\ v.st = "writable" /\ ~v.inClose /\ KeptWriter(x, v) /\ v.writes = i
             /\ Agree(x, v, {"writes", "wp", "writeReqs", "queue", "size", "total"})
             /\ v.total = x.total + size
<1> DEFINE i == x.writes + 1
           u == [x EXCEPT !.writes = i, !.wp[i] = "pending",
                          !.writeReqs = Append(@, i)]
           v == [u EXCEPT !.queue = Append(@, u.writes),
                          !.size[u.writes] = size, !.total = @ + size]
           Parts == {"queue", "size", "total"}
<1>1. /\ Base(u) /\ KeptWriter(x, u) /\ i \in WriteIds
      /\ Agree(x, u, {"writes", "wp", "writeReqs"})
      /\ u.writes = i /\ u.writeReqs = Append(x.writeReqs, i)
      /\ \A j \in WriteIds : u.wp[j] = IF j = i THEN "pending" ELSE x.wp[j]
  BY RequestAdded DEF Good
<1> HIDE DEF u
<1>2. Types(u) /\ InFlight(u) /\ Promises(u) /\ Order(u)
  BY <1>1 DEF Base
<1>3. Types(x) /\ Open(x) /\ Follows(x)
  BY DEF Good, Base
<1>4. /\ Agree(u, v, Parts) /\ v.queue = Append(u.queue, i)
      /\ v.size = [u.size EXCEPT ![i] = size] /\ v.total = u.total + size
  BY <1>1, <1>2 DEF Types, Agree, Fields
<1> HIDE DEF v
<1>5. /\ u.queue \in Seq(0..MaxWrites) /\ u.size \in [WriteIds -> Nat] /\ u.total \in Nat
  BY <1>2 DEF Types
<1>6. i \in 0..MaxWrites
  BY <1>1 DEF WriteIds
<1>7. /\ v.queue \in Seq(0..MaxWrites) /\ v.queue # <<>>
      /\ u.queue # <<>> => Head(v.queue) = Head(u.queue)
  BY <1>4, <1>5, <1>6, AppendProperties, HeadTailAppend
<1>8. Types(v)
  <2>1. Typed(v, Parts)
    BY <1>1, <1>4, <1>5, <1>7 DEF Typed
  <2> QED
    BY <1>2, <1>4, <2>1, TypesCarry
<1>9. /\ v.st = u.st /\ v.closeReq = u.closeReq
      /\ v.inClose = u.inClose /\ v.algs = u.algs /\ v.started = u.started
      /\ v.inWrite = u.inWrite /\ v.panic = u.panic /\ v.abortReq = u.abortReq
      /\ v.closeP = u.closeP /\ v.abortP = u.abortP /\ v.pend = u.pend
      /\ v.writer = u.writer /\ v.wr = u.wr /\ v.writeReqs = u.writeReqs
      /\ v.wp = u.wp /\ v.writes = u.writes
  BY <1>4 DEF Agree
<1>10. /\ u.st = "writable" /\ ~u.closeReq /\ ~u.inClose /\ u.algs = x.algs
       /\ u.inWrite = x.inWrite /\ u.queue = x.queue /\ u.abortReq = x.abortReq
       /\ u.closeReq = x.closeReq /\ u.pend = x.pend
  BY <1>1 DEF Agree
<1>11. InFlight(v)
  BY <1>2, <1>7, <1>9, <1>10 DEF InFlight, Finished
<1>12. Promises(v)
  BY <1>2, <1>9 DEF Promises, Finished, Waiting
<1>13. Order(v)
  BY <1>2, <1>9 DEF Order
<1>14. Open(v)
  <2>1. x.closeReq = FALSE /\ x.inWrite \in 0..MaxWrites /\ x.writeReqs \in Seq(WriteIds)
    BY <1>3 DEF Types
  <2>2. x.queue = Shape(x.inWrite, x.writeReqs, FALSE)
    BY <1>3, <2>1 DEF Open
  <2>3. WriteIds \subseteq 0..MaxWrites /\ CloseSentinel \in 0..MaxWrites
    BY WritableBounds DEF WriteIds, CloseSentinel
  <2>4. x.writeReqs \in Seq(0..MaxWrites)
    BY <2>1, <2>3, SeqMonotonic
  <2> HIDE DEF i
  <2>5. Append(x.queue, i) = Shape(x.inWrite, Append(x.writeReqs, i), FALSE)
    <3>1. Append(Shape(x.inWrite, x.writeReqs, FALSE), i)
            = Shape(x.inWrite, Append(x.writeReqs, i), FALSE)
      BY ZenonT(30), <1>6, <2>1, <2>3, <2>4, ShapeAppend
    <3> QED
      BY <2>2, <3>1
  <2>6. v.queue = Shape(v.inWrite, v.writeReqs, v.closeReq)
    BY <1>1, <1>4, <1>9, <1>10, <2>1, <2>5
  <2>7. v.algs /\ v.abortReq = "none"
    BY <1>3, <1>9, <1>10 DEF Open
  <2>8. \A j \in WriteIds : v.wp[j] # "err"
    BY <1>1, <1>3, <1>9 DEF Open
  <2> QED
    BY <2>6, <2>7, <2>8 DEF Open
<1>15. Follows(v)
  <2>1. Follows(u)
    BY <1>1, <1>3, <1>10, FollowsCarry
  <2> QED
    BY <1>4, <1>9, <2>1, FollowsCarry
<1>16. KeptWriter(x, v)
  BY <1>1, <1>9 DEF KeptWriter
<1>17. /\ Agree(x, v, {"writes", "wp", "writeReqs", "queue", "size", "total"})
       /\ u.total = x.total
  BY <1>1, <1>4 DEF Agree
<1> QED
  BY <1>1, <1>4, <1>8, <1>9, <1>10, <1>11, <1>12, <1>13, <1>14, <1>15, <1>16, <1>17
     DEF Good, Base, v, u

(* KeptTold, for a step that may add a write.                              *)
LEMMA KeptWriterTold ==
  ASSUME NEW x, NEW y, NEW w, Types(x), KeptWriter(x, y), Told(x, w)
  PROVE  Told(y, w)
<1>1. ASSUME Punctual(y) PROVE Punctual(x)
  <2>1. x.writer \in WriterIds
    BY <1>1 DEF Punctual, KeptWriter, Types, NoWriter, MaybeWriter, WriterIds
  <2> QED
    BY <1>1, <2>1 DEF Punctual, KeptWriter
<1> QED
  BY <1>1 DEF Told, KeptWriter

(* write() after size() returned, whatever size() did to the stream        *)
(* meanwhile.                                                              *)
LEMMA WriteAfterSizeKeeps ==
  ASSUME NEW x, Good(x), Busy(x), NEW w, Told(x, w), x.writes < MaxWrites,
         NEW size \in Nat \cup {BadSize, SizeThrows}
  PROVE  LET y == WriteAfterSize(x, w, size)
         IN  Good(y) /\ Busy(y) /\ KeptWriter(x, y) /\ y.writes <= x.writes + 1
<1> DEFINE t == IF size = SizeThrows THEN ControllerErrorIfNeeded(x, w) ELSE x
           Refused == \/ t.writer # w
                      \/ t.st \in {"errored", "closed", "erroring"}
                      \/ CloseQueuedOrInFlight(t)
           i == t.writes + 1
           u == [t EXCEPT !.writes = i, !.wp[i] = "pending",
                          !.writeReqs = Append(@, i)]
           y == WriteAfterSize(x, w, size)
<1>1. y = IF Refused THEN t
          ELSE ControllerWrite(u, w, IF size = SizeThrows THEN 1 ELSE size)
  BY DEF WriteAfterSize
<1>2. Good(t) /\ Busy(t) /\ Kept(x, t) /\ (size = SizeThrows => t.st # "writable")
  <2>1. CASE size = SizeThrows
    <3>1. /\ Base(t) /\ Busy(t) /\ Follows(t) /\ Kept(x, t) /\ t.st # "writable"
      BY <2>1, ControllerErrorKeeps DEF Good, Open
    <3> QED
      BY <3>1 DEF Good, Open
  <2>2. CASE size # SizeThrows
    BY <2>2 DEF Kept
  <2> QED
    BY <2>1, <2>2
<1>3. x.writes \in Nat
  BY WritableBounds DEF Good, Base, Types
<1> HIDE DEF t, y
<1>4. CASE Refused
  <2>1. y = t
    BY <1>1, <1>4
  <2>2. t.writes <= x.writes + 1 /\ KeptWriter(x, t)
    BY <1>2, <1>3 DEF Kept, KeptWriter
  <2> QED
    BY <1>2, <2>1, <2>2 DEF y
<1>5. CASE ~Refused
  <2>1. t.st = "writable" /\ ~t.closeReq /\ ~t.inClose /\ t.writer = w
    <3>1. t.st \in {"writable", "erroring", "errored", "closed"}
      BY <1>2 DEF Good, Base, Types
    <3> QED
      BY <1>5, <3>1 DEF CloseQueuedOrInFlight
  <2>2. size # SizeThrows /\ t = x
    BY <1>2, <2>1 DEF t
  <2>3. y = ControllerWrite(u, w, size)
    BY <1>1, <1>5, <2>2
  <2>4. t.writes < MaxWrites /\ Told(t, w) /\ Types(t)
    BY <1>2, <2>2 DEF Good, Base
  <2>5. CASE size = BadSize
    <3>1. y = ControllerErrorIfNeeded(u, w)
      BY <2>3, <2>5 DEF ControllerWrite
    <3>2. /\ Base(u) /\ KeptWriter(t, u) /\ Agree(t, u, {"writes", "wp", "writeReqs"})
          /\ u.writes = i
      BY <1>2, <2>1, <2>4, RequestAdded DEF Good
    <3> HIDE DEF u
    <3>3. /\ u.abortReq = t.abortReq /\ u.st = t.st /\ u.pend = t.pend
          /\ u.inWrite = t.inWrite /\ u.inClose = t.inClose /\ u.started = t.started
      BY <3>2 DEF Agree
    <3>4. Follows(u)
      BY <1>2, <3>2, <3>3, FollowsCarry DEF Good
    <3>5. Busy(u) /\ u.abortReq = "none"
      BY <1>2, <2>1, <3>3 DEF Busy, Good, Open
    <3>6. Told(u, w)
      BY <2>4, <3>2, KeptWriterTold
    <3>7. Base(y) /\ Busy(y) /\ Follows(y) /\ Kept(u, y) /\ y.st # "writable"
      BY <3>1, <3>2, <3>4, <3>5, <3>6, ControllerErrorKeeps
    <3>8. y.writes = x.writes + 1 /\ KeptWriter(x, y)
      BY <2>2, <3>2, <3>7 DEF Kept, KeptWriter
    <3> QED
      BY <1>3, <3>7, <3>8 DEF Good, Open, y
  <2>6. CASE size # BadSize
    <3>1. size \in Nat
      BY <2>2, <2>6
    <3> DEFINE v == [u EXCEPT !.queue = Append(@, u.writes),
                              !.size[u.writes] = size, !.total = @ + size]
               b == UpdateBackpressureIfOpen(v, w)
    <3>2. y = AdvanceQueueIfNeeded(b, w)
      BY <2>3, <2>6 DEF ControllerWrite
    <3>3. Good(v) /\ v.st = "writable" /\ ~v.inClose /\ KeptWriter(t, v) /\ v.writes = i
      BY <1>2, <2>1, <2>4, <3>1, ChunkQueued
    <3> HIDE DEF v, u
    <3>4. Told(v, w) /\ Types(v)
      BY <2>4, <3>3, KeptWriterTold DEF Good, Base
    <3>5. Good(b) /\ Kept(v, b) /\ Agree(v, b, {"bp", "wr"})
      BY <3>3, <3>4, BackpressureKeeps
    <3> HIDE DEF b
    <3>6. Told(b, w) /\ ~b.inClose
      <4>1. Told(b, w)
        BY <3>4, <3>5, KeptTold
      <4> QED
        BY <3>3, <3>5, <4>1 DEF Agree
    <3>7. Good(y) /\ Busy(y) /\ Kept(b, y)
      BY <3>2, <3>5, <3>6, AdvanceKeeps
    <3>8. y.writes = x.writes + 1 /\ KeptWriter(x, y)
      BY <2>2, <3>3, <3>5, <3>7 DEF Kept, KeptWriter
    <3> QED
      BY <1>3, <3>7, <3>8 DEF y
  <2> QED
    BY <2>5, <2>6
<1> QED
  BY <1>4, <1>5

(* write() of a chunk with a size, by the writer that holds the stream: an *)
(* open stream accepts it, any other ignores it.                           *)
LEMMA WriteAccepted ==
  ASSUME NEW x, Good(x), NEW w, Told(x, w), x.writes < MaxWrites, NEW size \in Nat
  PROVE  LET y == WriteAfterSize(x, w, size)
         IN  /\ x.writer # w \/ x.st # "writable" \/ CloseQueuedOrInFlight(x) => y = x
             /\ x.writer = w /\ x.st = "writable" /\ ~CloseQueuedOrInFlight(x) =>
                  /\ y.writes = x.writes + 1 /\ y.hwm = x.hwm
                  /\ y.total \in Nat /\ y.total <= x.total + size
                  /\ Exact(y) /\ Idle(y) /\ ~CloseQueuedOrInFlight(y) /\ y.st # "closed"
                  /\ x.inWrite # NoChunk => y.inWrite = x.inWrite
<1> DEFINE i == x.writes + 1
           u == [x EXCEPT !.writes = i, !.wp[i] = "pending",
                          !.writeReqs = Append(@, i)]
           v == [u EXCEPT !.queue = Append(@, u.writes),
                          !.size[u.writes] = size, !.total = @ + size]
           b == UpdateBackpressureIfOpen(v, w)
           y == WriteAfterSize(x, w, size)
<1>1. size # SizeThrows /\ size # BadSize
  BY DEF SizeThrows, BadSize
<1>2. Types(x) /\ x.st \in {"writable", "erroring", "errored", "closed"}
  BY DEF Good, Base, Types
<1>3. ASSUME x.writer # w \/ x.st # "writable" \/ CloseQueuedOrInFlight(x) PROVE y = x
  BY <1>1, <1>2, <1>3 DEF WriteAfterSize
<1>4. ASSUME x.writer = w, x.st = "writable", ~CloseQueuedOrInFlight(x)
      PROVE  /\ y.writes = x.writes + 1 /\ y.hwm = x.hwm
             /\ y.total \in Nat /\ y.total <= x.total + size
             /\ Exact(y) /\ Idle(y) /\ ~CloseQueuedOrInFlight(y) /\ y.st # "closed"
             /\ x.inWrite # NoChunk => y.inWrite = x.inWrite
  <2>1. y = AdvanceQueueIfNeeded(b, w)
    BY <1>1, <1>4 DEF WriteAfterSize, ControllerWrite
  <2>2. ~x.closeReq /\ ~x.inClose
    BY <1>4 DEF CloseQueuedOrInFlight
  <2>3. /\ Good(v) /\ v.st = "writable" /\ ~v.inClose /\ KeptWriter(x, v) /\ v.writes = i
        /\ Agree(x, v, {"writes", "wp", "writeReqs", "queue", "size", "total"})
        /\ v.total = x.total + size
    BY <1>4, <2>2, ChunkQueued
  <2> HIDE DEF v, u
  <2>4. Told(v, w) /\ Types(v)
    BY <1>2, <2>3, KeptWriterTold DEF Good, Base
  <2>5. /\ Good(b) /\ Kept(v, b) /\ Agree(v, b, {"bp", "wr"})
        /\ Tame(v, b) /\ Exact(b) /\ b.inWrite = v.inWrite
    BY <2>3, <2>4, BackpressureKeeps
  <2> HIDE DEF b, y
  <2>6. Told(b, w) /\ ~b.inClose /\ b.st = "writable" /\ b.closeReq = v.closeReq
    <3>1. Told(b, w)
      BY <2>4, <2>5, KeptTold
    <3> QED
      BY <2>3, <2>5, <3>1 DEF Agree
  <2>7. Kept(b, y)
    BY <2>1, <2>5, <2>6, AdvanceKeeps
  <2>8. /\ Tame(b, y) /\ Idle(y) /\ Exact(y)
        /\ b.inWrite # NoChunk => y.inWrite = b.inWrite
    BY <2>1, <2>5, <2>6, AdvanceTame
  <2>9. v.closeReq = x.closeReq /\ v.hwm = x.hwm /\ v.inWrite = x.inWrite /\ x.total \in Nat
    BY <1>2, <2>3 DEF Agree, Types
  <2>10. y.writes = x.writes + 1
    BY <2>3, <2>5, <2>7 DEF Kept
  <2>11. y.hwm = x.hwm /\ y.total \in Nat /\ y.total <= x.total + size
    BY <2>3, <2>5, <2>8, <2>9 DEF Tame
  <2>12. ~CloseQueuedOrInFlight(b) /\ b.st # "closed"
    BY <2>2, <2>6, <2>9 DEF CloseQueuedOrInFlight
  <2>13. ~CloseQueuedOrInFlight(y) /\ y.st # "closed"
    BY <2>8, <2>12 DEF Tame
  <2> QED
    BY <2>5, <2>8, <2>9, <2>10, <2>11, <2>13
<1> QED
  BY <1>3, <1>4

(* Keeping the writers and the writes keeps the writers.                   *)
LEMMA KeptIsKeptWriter ==
  ASSUME NEW x, NEW y, Kept(x, y)
  PROVE  KeptWriter(x, y) /\ y.writes = x.writes
BY DEF Kept, KeptWriter

(* A new stream satisfies the invariant.                                   *)
LEMMA NewWritableGood ==
  ASSUME NEW hwm \in Nat
  PROVE  LET x == NewWritable(hwm)
         IN  /\ Good(x) /\ Busy(x) /\ ~Punctual(x) /\ x.writer = NoWriter
             /\ x.writes = 0 /\ x.writers = 0
             /\ Exact(x) /\ Idle(x) /\ x.total = 0 /\ x.hwm = hwm /\ x.inWrite = NoChunk
             /\ x.st = "writable" /\ ~CloseQueuedOrInFlight(x)
<1> DEFINE x == NewWritable(hwm)
<1>2. /\ DOMAIN x = Fields /\ x.st = "writable" /\ x.bp = (hwm <= 0)
      /\ x.closeReq = FALSE /\ x.inClose = FALSE /\ x.inWrite = NoChunk
      /\ x.abortReq = "none" /\ x.writer = NoWriter /\ x.writeReqs = <<>>
      /\ x.queue = <<>> /\ x.total = 0 /\ x.hwm = hwm
      /\ x.started = FALSE /\ x.algs = TRUE /\ x.signalled = FALSE
      /\ x.closeW = NoWriter /\ x.pend = {"start"} /\ x.panic = FALSE /\ x.writes = 0
      /\ x.closeP = "none" /\ x.abortP = "none" /\ x.writers = 0
  BY DEF NewWritable, Fields
<1>3. /\ x.size = [i \in WriteIds |-> 0] /\ x.wp = [i \in WriteIds |-> "none"]
      /\ x.wr = [v \in WriterIds |-> [ready |-> "none", closed |-> "none", late |-> FALSE]]
  BY DEF NewWritable, WriteIds, WriterIds
<1> HIDE DEF x
<1>4. Types(x)
  <2>1. /\ 0 \in 0..MaxWrites /\ 0 \in MaybeWriter /\ hwm \in Nat
        /\ <<>> \in Seq(WriteIds) /\ <<>> \in Seq(0..MaxWrites)
        /\ (hwm <= 0) \in BOOLEAN
    BY WritableBounds, EmptySeq DEF MaybeWriter
  <2>2. x.size \in [WriteIds -> Nat] /\ x.wp \in [WriteIds -> Promise]
    BY <1>3 DEF Promise
  <2>3. x.wr \in Writers
    BY <1>3 DEF Writers, Promise
  <2>4. x.pend \in SUBSET {"start", "write", "close", "abort"}
    BY <1>2
  <2>5. x.closeP \in Promise /\ x.abortP \in Promise
    BY <1>2 DEF Promise
  <2>6. x.bp \in BOOLEAN
    BY <1>2, <2>1
  <2>7. /\ x.inWrite \in 0..MaxWrites /\ x.writer \in MaybeWriter
        /\ x.writeReqs \in Seq(WriteIds) /\ x.queue \in Seq(0..MaxWrites)
        /\ x.total \in Nat /\ x.hwm \in Nat /\ x.closeW \in MaybeWriter
        /\ x.writes \in 0..MaxWrites /\ x.writers \in MaybeWriter
    BY <1>2, <2>1 DEF NoChunk, NoWriter
  <2>8. /\ x.st \in {"writable", "erroring", "errored", "closed"}
        /\ x.abortReq \in {"none", "already", "fresh"}
        /\ x.closeReq \in BOOLEAN /\ x.inClose \in BOOLEAN /\ x.started \in BOOLEAN
        /\ x.algs \in BOOLEAN /\ x.signalled \in BOOLEAN /\ x.panic \in BOOLEAN
    BY <1>2
  <2> QED
    BY <1>2, <2>2, <2>3, <2>4, <2>5, <2>6, <2>7, <2>8 DEF Types
<1>5. InFlight(x)
  BY <1>2 DEF InFlight, Finished
<1>6. \A i \in WriteIds : x.wp[i] = "none" /\ ~Waiting(x, i) /\ i > 0
  BY <1>2, <1>3 DEF Waiting, WriteIds, NoChunk
<1>7. Promises(x)
  BY <1>2, <1>6 DEF Promises
<1>8. Order(x)
  <2>1. \A i \in WriteIds : ~(i < NoChunk)
    BY DEF WriteIds, NoChunk
  <2> QED
    BY <1>2, <1>6, <2>1 DEF Order
<1>9. Open(x)
  <2>1. x.queue = Shape(x.inWrite, x.writeReqs, x.closeReq)
    BY <1>2, ShapeEmpty
  <2> QED
    BY <1>2, <1>6, <2>1 DEF Open
<1>10. Busy(x) /\ Follows(x) /\ ~Punctual(x)
  BY <1>2 DEF Busy, Follows, Punctual
<1>11. Exact(x) /\ Idle(x) /\ ~CloseQueuedOrInFlight(x)
  BY <1>2 DEF Exact, Idle, Backpressure, CloseQueuedOrInFlight
<1> QED
  BY <1>2, <1>11, <1>4, <1>5, <1>7, <1>8, <1>9, <1>10 DEF Good, Base, x

------------------------------------------------------------------------------
(* The readable stream.                                                    *)

ChunkIds == 1..MaxChunks
ReadIds == 1..MaxReads
ReaderIds == 1..MaxReaders
MaybeReader == 0..MaxReaders
ReadAnswer == {"none", "pending", "chunk", "done", "err"}

RFields ==
  {"st", "reader", "disturbed", "queue", "total", "size", "closeRequested",
   "pulling", "pullAgain", "started", "algs", "hwm", "pend", "panic",
   "chunks", "reads", "readers", "reqs", "closed", "rp", "rv", "cancelP"}

(* A field of a stream has its type; RTyped says so of the fields in S.     *)
RTyped(y, S) ==
  /\ "st" \in S => y.st \in {"readable", "closed", "errored"}
  /\ "reader" \in S => y.reader \in MaybeReader
  /\ "disturbed" \in S => y.disturbed \in BOOLEAN
  /\ "queue" \in S => y.queue \in Seq(ChunkIds)
  /\ "total" \in S => y.total \in Nat
  /\ "size" \in S => y.size \in [ChunkIds -> Nat]
  /\ "closeRequested" \in S => y.closeRequested \in BOOLEAN
  /\ "pulling" \in S => y.pulling \in BOOLEAN
  /\ "pullAgain" \in S => y.pullAgain \in BOOLEAN
  /\ "started" \in S => y.started \in BOOLEAN
  /\ "algs" \in S => y.algs \in BOOLEAN
  /\ "hwm" \in S => y.hwm \in Nat
  /\ "pend" \in S => y.pend \in SUBSET {"start", "pull", "cancel"}
  /\ "panic" \in S => y.panic \in BOOLEAN
  /\ "chunks" \in S => y.chunks \in 0..MaxChunks
  /\ "reads" \in S => y.reads \in 0..MaxReads
  /\ "readers" \in S => y.readers \in MaybeReader
  /\ "reqs" \in S => y.reqs \in [ReaderIds -> Seq(ReadIds)]
  /\ "closed" \in S => y.closed \in [ReaderIds -> Promise]
  /\ "rp" \in S => y.rp \in [ReadIds -> ReadAnswer]
  /\ "rv" \in S => y.rv \in [ReadIds -> 0..MaxChunks]
  /\ "cancelP" \in S => y.cancelP \in Promise

RTypes(x) ==
  /\ DOMAIN x = RFields
  /\ x.st \in {"readable", "closed", "errored"} /\ x.reader \in MaybeReader
  /\ x.disturbed \in BOOLEAN /\ x.queue \in Seq(ChunkIds)
  /\ x.total \in Nat /\ x.size \in [ChunkIds -> Nat]
  /\ x.closeRequested \in BOOLEAN /\ x.pulling \in BOOLEAN
  /\ x.pullAgain \in BOOLEAN /\ x.started \in BOOLEAN /\ x.algs \in BOOLEAN
  /\ x.hwm \in Nat /\ x.pend \in SUBSET {"start", "pull", "cancel"}
  /\ x.panic \in BOOLEAN /\ x.chunks \in 0..MaxChunks
  /\ x.reads \in 0..MaxReads /\ x.readers \in MaybeReader
  /\ x.reqs \in [ReaderIds -> Seq(ReadIds)]
  /\ x.closed \in [ReaderIds -> Promise]
  /\ x.rp \in [ReadIds -> ReadAnswer] /\ x.rv \in [ReadIds -> 0..MaxChunks]
  /\ x.cancelP \in Promise

(* y is a stream that differs from x in the fields of S at most.           *)
RAgree(x, y, S) ==
  /\ DOMAIN y = RFields
  /\ ("st" \in S \/ y.st = x.st) /\ ("reader" \in S \/ y.reader = x.reader)
  /\ ("disturbed" \in S \/ y.disturbed = x.disturbed)
  /\ ("queue" \in S \/ y.queue = x.queue) /\ ("total" \in S \/ y.total = x.total)
  /\ ("size" \in S \/ y.size = x.size)
  /\ ("closeRequested" \in S \/ y.closeRequested = x.closeRequested)
  /\ ("pulling" \in S \/ y.pulling = x.pulling)
  /\ ("pullAgain" \in S \/ y.pullAgain = x.pullAgain)
  /\ ("started" \in S \/ y.started = x.started) /\ ("algs" \in S \/ y.algs = x.algs)
  /\ ("hwm" \in S \/ y.hwm = x.hwm) /\ ("pend" \in S \/ y.pend = x.pend)
  /\ ("panic" \in S \/ y.panic = x.panic) /\ ("chunks" \in S \/ y.chunks = x.chunks)
  /\ ("reads" \in S \/ y.reads = x.reads) /\ ("readers" \in S \/ y.readers = x.readers)
  /\ ("reqs" \in S \/ y.reqs = x.reqs) /\ ("closed" \in S \/ y.closed = x.closed)
  /\ ("rp" \in S \/ y.rp = x.rp) /\ ("rv" \in S \/ y.rv = x.rv)
  /\ ("cancelP" \in S \/ y.cancelP = x.cancelP)

------------------------------------------------------------------------------
(* The inductive invariant.                                                *)

Got(x, i) == x.rp[i] = "chunk"
InQueue(x, v) == \E k \in DOMAIN x.queue : x.queue[k] = v
WasRead(x, v) == \E i \in ReadIds : Got(x, i) /\ x.rv[i] = v
NoRequests(x) == \A d \in ReaderIds : x.reqs[d] = <<>>

(* Only the current reader has read requests; they are its pending reads,  *)
(* oldest first; a read that was not made yet has no promise.              *)
Requests(x) ==
  /\ \A d \in ReaderIds : d # x.reader => x.reqs[d] = <<>>
  /\ \A d \in ReaderIds : \A k \in DOMAIN x.reqs[d] : x.rp[x.reqs[d][k]] = "pending"
  /\ \A d \in ReaderIds : \A k, l \in DOMAIN x.reqs[d] :
       k < l => x.reqs[d][k] < x.reqs[d][l]
  /\ \A i \in ReadIds : i > x.reads => x.rp[i] = "none"

(* The queue holds chunks in the order they were enqueued, and no chunk is *)
(* both queued and read, or read twice.                                    *)
Stored(x) ==
  /\ \A k, l \in DOMAIN x.queue : k < l => x.queue[k] < x.queue[l]
  /\ \A k \in DOMAIN x.queue : x.queue[k] <= x.chunks
  /\ \A i \in ReadIds : Got(x, i) => x.rv[i] \in 1..x.chunks /\ ~InQueue(x, x.rv[i])
  /\ \A i, j \in ReadIds : Got(x, i) /\ Got(x, j) /\ x.rv[i] = x.rv[j] => i = j

(* Every chunk outside S is queued or was read, while x is readable.       *)
Retained(x, S) ==
  x.st = "readable" =>
    \A v \in ChunkIds : v <= x.chunks /\ v \notin S => InQueue(x, v) \/ WasRead(x, v)

(* Every chunk outside S was read, when x closed without a cancel.         *)
Complete(x, S) ==
  x.st = "closed" /\ x.cancelP = "none" =>
    \A v \in ChunkIds : v <= x.chunks /\ v \notin S => WasRead(x, v)

(* What was read is older than what waits, and was read in order.          *)
Ordered(x) ==
  /\ \A i, j \in ReadIds : i < j /\ Got(x, i) /\ Got(x, j) => x.rv[i] < x.rv[j]
  /\ \A i \in ReadIds : Got(x, i) => \A k \in DOMAIN x.queue : x.rv[i] < x.queue[k]
  /\ x.queue # <<>> => NoRequests(x)
  /\ \A d \in ReaderIds : \A k \in DOMAIN x.reqs[d] :
       \A j \in ReadIds : Got(x, j) => j < x.reqs[d][k]

(* The reader's closed promise shows the state of the stream.              *)
Shown(x) ==
  x.reader # NoReader =>
    /\ x.st = "readable" => x.closed[x.reader] = "pending"
    /\ x.st = "closed" => x.closed[x.reader] = "ok"
    /\ x.st = "errored" => x.closed[x.reader] = "err"

Ended(x) == Shown(x) /\ (x.st # "readable" => NoRequests(x))

RBase(x) == RTypes(x) /\ ~x.panic /\ Requests(x) /\ Stored(x)
RGood(x) == RBase(x) /\ (x.st = "readable" => x.algs) /\ Retained(x, {})
Fine(x) == Complete(x, {}) /\ Ordered(x) /\ Ended(x)

------------------------------------------------------------------------------
(* Records.                                                                *)

(* Differences add up.                                                     *)
LEMMA RAgreeTrans ==
  ASSUME NEW x, NEW y, NEW z, NEW S, NEW T, NEW U, S \subseteq U, T \subseteq U,
         RAgree(x, y, S), RAgree(y, z, T)
  PROVE  RAgree(x, z, U)
BY DEF RAgree

(* A stream keeps its type when the fields that changed have theirs.       *)
LEMMA RTypesCarry ==
  ASSUME NEW x, NEW y, NEW S, RTypes(x), RAgree(x, y, S), RTyped(y, S)
  PROVE  RTypes(y)
<1>1. /\ DOMAIN y = RFields
      /\ y.st \in {"readable", "closed", "errored"} /\ y.reader \in MaybeReader
      /\ y.disturbed \in BOOLEAN /\ y.queue \in Seq(ChunkIds)
      /\ y.total \in Nat /\ y.size \in [ChunkIds -> Nat]
      /\ y.closeRequested \in BOOLEAN /\ y.pulling \in BOOLEAN
  BY DEF RTypes, RAgree, RTyped
<1>2. /\ y.pullAgain \in BOOLEAN /\ y.started \in BOOLEAN /\ y.algs \in BOOLEAN
      /\ y.hwm \in Nat /\ y.pend \in SUBSET {"start", "pull", "cancel"}
      /\ y.panic \in BOOLEAN /\ y.chunks \in 0..MaxChunks
      /\ y.reads \in 0..MaxReads /\ y.readers \in MaybeReader
  BY DEF RTypes, RAgree, RTyped
<1>3. /\ y.reqs \in [ReaderIds -> Seq(ReadIds)]
      /\ y.closed \in [ReaderIds -> Promise]
      /\ y.rp \in [ReadIds -> ReadAnswer] /\ y.rv \in [ReadIds -> 0..MaxChunks]
      /\ y.cancelP \in Promise
  BY DEF RTypes, RAgree, RTyped
<1> QED
  BY <1>1, <1>2, <1>3 DEF RTypes

(* The fields no part of the invariant reads, beyond their type.           *)
Minor == {"disturbed", "total", "size", "closeRequested", "pulling",
          "pullAgain", "started", "hwm", "pend"}

(* The invariant does not look at the minor fields.                        *)
LEMMA MinorCarry ==
  ASSUME NEW x, NEW y, NEW S, RAgree(x, y, Minor), RTypes(y)
  PROVE  /\ RBase(x) => RBase(y)
         /\ Retained(x, S) => Retained(y, S)
         /\ Complete(x, S) => Complete(y, S)
         /\ (Ordered(x) => Ordered(y)) /\ (Ended(x) => Ended(y))
         /\ RGood(x) => RGood(y)
         /\ Fine(x) => Fine(y)
<1>1. /\ y.st = x.st /\ y.reader = x.reader /\ y.queue = x.queue
      /\ y.algs = x.algs /\ y.panic = x.panic /\ y.chunks = x.chunks
      /\ y.reads = x.reads /\ y.reqs = x.reqs /\ y.closed = x.closed
      /\ y.rp = x.rp /\ y.rv = x.rv /\ y.cancelP = x.cancelP
  BY DEF RAgree, Minor
<1>2. RBase(x) => RBase(y)
  BY <1>1 DEF RBase, Requests, Stored, Got, InQueue
<1>3. \A T : (Retained(x, T) => Retained(y, T)) /\ (Complete(x, T) => Complete(y, T))
  BY <1>1 DEF Retained, Complete, Got, InQueue, WasRead
<1>4. Ordered(x) => Ordered(y)
  BY <1>1 DEF Ordered, Got, NoRequests
<1>5. Ended(x) => Ended(y)
  BY <1>1 DEF Ended, Shown, NoRequests
<1> QED
  BY <1>1, <1>2, <1>3, <1>4, <1>5 DEF RGood, Fine

------------------------------------------------------------------------------
(* The operators.                                                          *)

PullParts == {"pulling", "pullAgain", "pend"}

(* A pull notes that it runs, and nothing else, of a controller that has   *)
(* its algorithms while its stream is readable.                            *)
LEMMA CallPullEffect ==
  ASSUME NEW x, RTypes(x), x.st = "readable" => x.algs, NEW d \in MaybeReader
  PROVE  LET y == CallPullIfNeeded(x, d)
         IN  RAgree(x, y, PullParts) /\ RTypes(y) /\ RAgree(x, y, Minor)
<1> DEFINE y == CallPullIfNeeded(x, d)
           a == [x EXCEPT !.pullAgain = TRUE]
           b == [x EXCEPT !.pulling = TRUE, !.pend = @ \cup {"pull"}]
<1>1. ShouldCallPull(x, d) => x.st = "readable"
  BY DEF ShouldCallPull, CanCloseOrEnqueue
<1>2. x.pulling \in BOOLEAN /\ DOMAIN x = RFields
  BY DEF RTypes
<1>3. ShouldCallPull(x, d) \in BOOLEAN
  BY DEF ShouldCallPull, CanCloseOrEnqueue
<1>4. /\ ~ShouldCallPull(x, d) => y = x
      /\ ShouldCallPull(x, d) /\ x.pulling => y = a
      /\ ShouldCallPull(x, d) /\ ~x.pulling =>
           y = IF x.algs THEN b ELSE Panicked(x)
  BY <1>2, <1>3, Zenon DEF CallPullIfNeeded
<1>5. y \in {x, a, b}
  BY <1>1, <1>2, <1>3, <1>4
<1>6. RAgree(x, x, PullParts) /\ RAgree(x, a, PullParts) /\ RAgree(x, b, PullParts)
  BY <1>2 DEF RAgree, RFields, PullParts
<1>7. /\ a.pullAgain \in BOOLEAN /\ a.pulling \in BOOLEAN /\ a.pend = x.pend
      /\ b.pullAgain \in BOOLEAN /\ b.pulling \in BOOLEAN /\ b.pend = x.pend \cup {"pull"}
  BY DEF RTypes, RFields
<1>8. RTyped(a, PullParts) /\ RTyped(b, PullParts)
  BY <1>7 DEF RTyped, RTypes, PullParts
<1> HIDE DEF a, b, y
<1>9. RTypes(y) /\ RAgree(x, y, PullParts)
  BY <1>5, <1>6, <1>8, RTypesCarry
<1>10. RAgree(x, y, Minor)
  BY <1>9 DEF RAgree, PullParts, Minor
<1> QED
  BY <1>9, <1>10 DEF y

(* Settling the requests of a reader empties its list and gives each the   *)
(* same answer.                                                            *)
LEMMA SettleReadsEffect ==
  ASSUME NEW x, RTypes(x), NEW d \in ReaderIds, NEW o \in ReadAnswer
  PROVE  LET y == SettleReads(x, d, o)
         IN  /\ RAgree(x, y, {"rp", "reqs"}) /\ RTypes(y)
             /\ y.reqs = [x.reqs EXCEPT ![d] = <<>>]
             /\ \A i \in ReadIds : y.rp[i] = IF i \in Elements(x.reqs[d]) THEN o ELSE x.rp[i]
<1> DEFINE y == SettleReads(x, d, o)
           p == [i \in DOMAIN x.rp |-> IF i \in Elements(x.reqs[d]) THEN o ELSE x.rp[i]]
           q == [x.reqs EXCEPT ![d] = <<>>]
<1>1. DOMAIN x = RFields /\ x.rp \in [ReadIds -> ReadAnswer] /\ x.reqs \in [ReaderIds -> Seq(ReadIds)]
  BY DEF RTypes
<1>2. y = [x EXCEPT !.rp = p, !.reqs = q]
  BY <1>1 DEF SettleReads, RFields
<1>3. RAgree(x, y, {"rp", "reqs"}) /\ y.rp = p /\ y.reqs = q
  BY <1>1, <1>2 DEF RAgree, RFields
<1>4. p \in [ReadIds -> ReadAnswer]
  BY <1>1
<1>5. q \in [ReaderIds -> Seq(ReadIds)]
  BY <1>1, EmptySeq
<1>6. RTyped(y, {"rp", "reqs"})
  BY <1>3, <1>4, <1>5 DEF RTyped
<1>7. RTypes(y)
  BY <1>3, <1>6, RTypesCarry
<1> QED
  BY <1>1, <1>3, <1>7

EndParts == {"st", "closed", "rp", "reqs"}

(* What the end of a stream, as o ("done" or "err") tells the reads of d   *)
(* and c tells its closed promise, changes.                                *)
Ends(x, y, d, s, c, o) ==
  /\ RAgree(x, y, EndParts) /\ RTypes(y) /\ y.st = s
  /\ \A e \in ReaderIds : y.reqs[e] = IF e = d THEN <<>> ELSE x.reqs[e]
  /\ \A e \in ReaderIds : y.closed[e] = IF e = d THEN Settle(x.closed[e], c) ELSE x.closed[e]
  /\ \A i \in ReadIds : y.rp[i] = IF d \in ReaderIds /\ i \in Elements(x.reqs[d])
                                  THEN o ELSE x.rp[i]

(* A settled promise has its type, and is no longer pending.               *)
LEMMA RSettleType ==
  ASSUME NEW p \in Promise, NEW o \in {"ok", "err"}
  PROVE  /\ Settle(p, o) \in Promise
         /\ p = "pending" => Settle(p, o) = o
         /\ Settle(p, o) = "none" <=> p = "none"
BY DEF Settle, Promise

(* A stream that ends tells the reader it was given, and no other.         *)
LEMMA EndEffect ==
  ASSUME NEW x, RTypes(x), NEW d \in MaybeReader
  PROVE  /\ Ends(x, ReadableError(x, d), d, "errored", "err", "err")
         /\ Ends(x, ReadableClose(x, d), d, "closed", "ok", "done")
<1>0. ASSUME NEW s \in {"closed", "errored"}, NEW c \in {"ok", "err"}, NEW o \in ReadAnswer,
             NEW y, y = LET t == [x EXCEPT !.st = s]
                        IN  IF d = NoReader THEN t
                            ELSE SettleReads([t EXCEPT !.closed[d] = Settle(@, c)], d, o)
      PROVE  Ends(x, y, d, s, c, o)
  <2> DEFINE t == [x EXCEPT !.st = s]
  <2>1. DOMAIN x = RFields /\ x.closed \in [ReaderIds -> Promise]
    BY DEF RTypes
  <2>2. RAgree(x, t, {"st"}) /\ t.st = s
    BY <2>1 DEF RAgree, RFields
  <2>3. RTyped(t, {"st"})
    BY <2>2 DEF RTyped
  <2>4. y = IF d = NoReader THEN t
            ELSE SettleReads([t EXCEPT !.closed[d] = Settle(@, c)], d, o)
    BY <1>0
  <2> HIDE DEF t
  <2>5. RTypes(t)
    BY <2>2, <2>3, RTypesCarry
  <2>6. t.closed = x.closed /\ t.rp = x.rp /\ t.reqs = x.reqs /\ DOMAIN t = RFields
    BY <2>2 DEF RAgree
  <2>7. CASE d = NoReader
    <3>1. d \notin ReaderIds
      BY <2>7 DEF NoReader, ReaderIds
    <3>2. RAgree(x, t, EndParts)
      BY <2>2 DEF RAgree, EndParts
    <3> QED
      BY <2>2, <2>4, <2>5, <2>6, <2>7, <3>1, <3>2 DEF Ends
  <2>8. CASE d # NoReader
    <3>1. d \in ReaderIds
      BY <2>8 DEF NoReader, ReaderIds, MaybeReader
    <3> DEFINE f == [x.closed EXCEPT ![d] = Settle(@, c)]
               u == [t EXCEPT !.closed = f]
    <3>2. x.closed[d] \in Promise
      BY <2>1, <3>1
    <3>3. f \in [ReaderIds -> Promise]
      BY <2>1, <3>2, RSettleType
    <3>4. \A e \in ReaderIds : f[e] = IF e = d THEN Settle(x.closed[e], c) ELSE x.closed[e]
      BY <2>1
    <3>5. y = SettleReads(u, d, o)
      BY <2>4, <2>6, <2>8
    <3> HIDE DEF f
    <3>6. RAgree(t, u, {"closed"}) /\ u.closed = f
      BY <2>6 DEF RAgree, RFields
    <3>7. RTyped(u, {"closed"})
      BY <3>3, <3>6 DEF RTyped
    <3> HIDE DEF u
    <3>8. RTypes(u) /\ u.rp = x.rp /\ u.reqs = x.reqs /\ u.st = s
      <4>1. RTypes(u)
        BY <2>5, <3>6, <3>7, RTypesCarry
      <4> QED
        BY <2>2, <2>6, <3>6, <4>1 DEF RAgree
    <3>9. /\ RAgree(u, y, {"rp", "reqs"}) /\ RTypes(y)
          /\ y.reqs = [u.reqs EXCEPT ![d] = <<>>]
          /\ \A i \in ReadIds : y.rp[i] = IF i \in Elements(u.reqs[d]) THEN o ELSE u.rp[i]
      BY <3>1, <3>5, <3>8, SettleReadsEffect
    <3>10. RAgree(x, y, EndParts) /\ y.st = s /\ y.closed = f
      BY <2>2, <3>6, <3>8, <3>9 DEF RAgree, EndParts
    <3>11. \A e \in ReaderIds : y.reqs[e] = IF e = d THEN <<>> ELSE x.reqs[e]
      BY <3>8, <3>9 DEF RTypes
    <3> QED
      BY <3>1, <3>4, <3>8, <3>9, <3>10, <3>11 DEF Ends
  <2> QED
    BY <2>7, <2>8
<1>1. "err" \in ReadAnswer /\ "done" \in ReadAnswer
  BY DEF ReadAnswer
<1>2. Ends(x, ReadableError(x, d), d, "errored", "err", "err")
  BY <1>0, <1>1 DEF ReadableError
<1>3. Ends(x, ReadableClose(x, d), d, "closed", "ok", "done")
  BY <1>0, <1>1 DEF ReadableClose
<1> QED
  BY <1>2, <1>3

------------------------------------------------------------------------------
(* What the operators keep.                                                *)

(* Ending a stream leaves the chunks where they are and takes only pending *)
(* reads; and when it is told to the current reader it ends that too.      *)
LEMMA EndKeeps ==
  ASSUME NEW x, NEW y, NEW d \in MaybeReader, RBase(x),
         NEW s \in {"closed", "errored"}, NEW c, NEW o \in {"done", "err"},
         c = IF s = "closed" THEN "ok" ELSE "err",
         Ends(x, y, d, s, c, o)
  PROVE  /\ RBase(y)
         /\ \A i \in ReadIds : Got(y, i) <=> Got(x, i)
         /\ \A v : WasRead(y, v) <=> WasRead(x, v)
         /\ Ordered(x) => Ordered(y)
         /\ NoRequests(x) => NoRequests(y)
         /\ x.st = "readable" /\ Shown(x) /\ d = x.reader => Ended(y)
<1>1. /\ RTypes(x) /\ RTypes(y) /\ ~x.panic /\ Requests(x) /\ Stored(x)
  BY DEF RBase, Ends
<1>2. /\ y.reader = x.reader /\ y.queue = x.queue /\ y.panic = x.panic
      /\ y.chunks = x.chunks /\ y.reads = x.reads /\ y.rv = x.rv /\ y.st = s
  BY DEF Ends, RAgree, EndParts
<1>3. /\ \A e \in ReaderIds : y.reqs[e] = IF e = d THEN <<>> ELSE x.reqs[e]
      /\ \A e \in ReaderIds : y.closed[e] = IF e = d THEN Settle(x.closed[e], c) ELSE x.closed[e]
      /\ \A i \in ReadIds : y.rp[i] = IF d \in ReaderIds /\ i \in Elements(x.reqs[d])
                                      THEN o ELSE x.rp[i]
  BY DEF Ends
<1>4. \A i \in ReadIds : d \in ReaderIds /\ i \in Elements(x.reqs[d]) => x.rp[i] = "pending"
  BY <1>1 DEF Requests, Elements
<1>5. \A i \in ReadIds : Got(y, i) <=> Got(x, i)
  BY <1>3, <1>4 DEF Got
<1>6. \A v : WasRead(y, v) <=> WasRead(x, v)
  BY <1>2, <1>5 DEF WasRead
<1>7. Stored(y)
  BY <1>1, <1>2, <1>5 DEF Stored, InQueue
<1>8. Requests(y)
  <2>1. \A e \in ReaderIds : e # y.reader => y.reqs[e] = <<>>
    BY <1>1, <1>2, <1>3 DEF Requests
  <2>2. ASSUME NEW e \in ReaderIds, NEW k \in DOMAIN y.reqs[e]
        PROVE  y.rp[y.reqs[e][k]] = "pending"
    <3>1. e # d /\ y.reqs[e] = x.reqs[e]
      BY <1>3, <2>2
    <3>2. x.reqs[e][k] \in ReadIds
      BY <1>1, <2>2, <3>1 DEF RTypes
    <3>3. x.reqs[e] # <<>>
      BY <2>2, <3>1
    <3>4. d \in ReaderIds => x.reqs[d] = <<>>
      BY <1>1, <3>1, <3>3 DEF Requests
    <3>5. d \in ReaderIds => x.reqs[e][k] \notin Elements(x.reqs[d])
      BY <3>4 DEF Elements
    <3> QED
      BY <1>1, <1>3, <2>2, <3>1, <3>2, <3>5 DEF Requests
  <2>3. \A e \in ReaderIds : \A k, l \in DOMAIN y.reqs[e] :
          k < l => y.reqs[e][k] < y.reqs[e][l]
    BY <1>1, <1>3 DEF Requests
  <2>4. \A i \in ReadIds : i > y.reads => y.rp[i] = "none"
    BY <1>1, <1>2, <1>3, <1>4 DEF Requests
  <2> QED
    BY <2>1, <2>2, <2>3, <2>4 DEF Requests
<1>9. NoRequests(x) => NoRequests(y)
  BY <1>3 DEF NoRequests
<1>10. ASSUME Ordered(x) PROVE Ordered(y)
  <2>1. /\ \A i, j \in ReadIds : i < j /\ Got(y, i) /\ Got(y, j) => y.rv[i] < y.rv[j]
        /\ \A i \in ReadIds : Got(y, i) => \A k \in DOMAIN y.queue : y.rv[i] < y.queue[k]
        /\ y.queue # <<>> => NoRequests(y)
    BY <1>2, <1>5, <1>9, <1>10 DEF Ordered
  <2>2. \A e \in ReaderIds : \A k \in DOMAIN y.reqs[e] :
          \A j \in ReadIds : Got(y, j) => j < y.reqs[e][k]
    BY <1>3, <1>5, <1>10 DEF Ordered
  <2> QED
    BY <2>1, <2>2 DEF Ordered
<1>11. ASSUME x.st = "readable", Shown(x), d = x.reader PROVE Ended(y)
  <2>1. NoRequests(y)
    BY <1>1, <1>3, <1>11 DEF NoRequests, Requests
  <2>2. y.reader # NoReader => y.reader \in ReaderIds
    BY <1>1 DEF RTypes, MaybeReader, ReaderIds, NoReader
  <2>3. y.reader # NoReader => x.closed[d] = "pending"
    BY <1>2, <1>11 DEF Shown
  <2>4. y.reader # NoReader => y.closed[y.reader] = c
    BY <1>2, <1>3, <1>11, <2>2, <2>3 DEF Settle
  <2> QED
    BY <1>2, <2>1, <2>4 DEF Ended, Shown
<1> QED
  BY <1>1, <1>2, <1>5, <1>6, <1>7, <1>8, <1>9, <1>10, <1>11 DEF RBase

(* What a step from x to y does for a reader that keeps the lock: outside  *)
(* S only pending reads get an answer, an end is final, and a chunk comes  *)
(* from a readable stream that does not err by the same step.              *)
Onward(x, y, S) ==
  /\ y.reader = x.reader /\ y.readers = x.readers /\ (x.st # "readable" => y.st = x.st)
  /\ \A j \in ReadIds \ S :
       x.rp[j] # "pending" => y.rp[j] = x.rp[j] /\ y.rv[j] = x.rv[j]
  /\ \A j \in ReadIds : Got(y, j) => Got(x, j) \/ (x.st = "readable" /\ y.st # "errored")

(* A step of the source.                                                   *)
Moves(x, y) == Onward(x, y, {}) /\ y.reads = x.reads /\ y.cancelP = x.cancelP

(* A step that no read can notice.                                         *)
Unseen(x, y) ==
  /\ y.st = x.st /\ y.reader = x.reader /\ y.readers = x.readers
  /\ y.rp = x.rp /\ y.rv = x.rv

(* Steps no read can notice may come before and after.                     *)
LEMMA OnwardVia ==
  ASSUME NEW x, NEW t, NEW u, NEW y, NEW S, Unseen(x, t), Onward(t, u, S), Unseen(u, y)
  PROVE  Onward(x, y, S)
BY DEF Unseen, Onward, Got

(* Such a step is one a reader may see.                                    *)
LEMMA UnseenOnward ==
  ASSUME NEW x, NEW y, NEW S, Unseen(x, y)
  PROVE  Onward(x, y, S)
BY DEF Unseen, Onward, Got

(* The end of a readable stream answers the reads its reader waits for.    *)
LEMMA EndOnward ==
  ASSUME NEW x, NEW y, RBase(x), x.st = "readable", NEW s \in {"closed", "errored"}, NEW c,
         NEW o \in {"done", "err"}, Ends(x, y, x.reader, s, c, o)
  PROVE  Moves(x, y)
<1>1. /\ y.reader = x.reader /\ y.readers = x.readers /\ y.reads = x.reads /\ y.rv = x.rv /\ y.cancelP = x.cancelP
  BY DEF Ends, RAgree, EndParts
<1>2. \A i \in ReadIds : y.rp[i] = IF x.reader \in ReaderIds /\ i \in Elements(x.reqs[x.reader])
                                   THEN o ELSE x.rp[i]
  BY DEF Ends
<1>3. \A i \in ReadIds : x.reader \in ReaderIds /\ i \in Elements(x.reqs[x.reader])
                          => x.rp[i] = "pending"
  BY DEF RBase, Requests, Elements
<1>4. \A j \in ReadIds : Got(y, j) => Got(x, j)
  BY <1>2 DEF Got
<1> QED
  BY <1>1, <1>2, <1>3, <1>4 DEF Moves, Onward

(* What each step keeps of the counters.                                   *)
Counts(x, y) == y.reader = x.reader /\ y.chunks = x.chunks

(* The controller's error empties the queue and errs the stream.           *)
LEMMA RControllerErrorKeeps ==
  ASSUME NEW x, NEW d \in MaybeReader, RGood(x)
  PROVE  LET y == RControllerError(x, d)
         IN  /\ RGood(y) /\ Counts(x, y)
             /\ Fine(x) /\ d = x.reader => Fine(y)
             /\ NoRequests(x) => NoRequests(y)
             /\ x.st # "closed" => y.st # "closed"
             /\ d = x.reader => Moves(x, y)
<1> DEFINE y == RControllerError(x, d)
           t == RClearAlgorithms(ResetQueue(x))
           Parts == {"queue", "total", "algs"}
<1>1. CASE x.st # "readable"
  <2>1. y = x
    BY <1>1 DEF RControllerError
  <2>2. Moves(x, x)
    BY UnseenOnward DEF Unseen, Moves
  <2> QED
    BY <2>1, <2>2 DEF Counts
<1>2. CASE x.st = "readable"
  <2>1. RBase(x) /\ RTypes(x) /\ Requests(x) /\ Stored(x) /\ ~x.panic
    BY DEF RGood, RBase
  <2>2. RAgree(x, t, Parts) /\ t.queue = <<>> /\ t.total = 0 /\ t.algs = FALSE
    BY <2>1 DEF RClearAlgorithms, ResetQueue, RAgree, RTypes, RFields
  <2>3. y = ReadableError(t, d)
    BY <1>2 DEF RControllerError
  <2> HIDE DEF t
  <2>4. RTyped(t, Parts)
    <3>1. t.queue \in Seq(ChunkIds)
      BY <2>2, EmptySeq
    <3>2. t.total \in Nat
      BY <2>2
    <3>3. t.algs \in BOOLEAN
      BY <2>2
    <3> QED
      BY <3>1, <3>2, <3>3 DEF RTyped
  <2>5. RTypes(t)
    BY <2>1, <2>2, <2>4, RTypesCarry
  <2>6. /\ t.reader = x.reader /\ t.panic = x.panic /\ t.chunks = x.chunks
        /\ t.reads = x.reads /\ t.reqs = x.reqs /\ t.closed = x.closed
        /\ t.rp = x.rp /\ t.rv = x.rv /\ t.st = x.st
    BY <2>2 DEF RAgree
  <2>7. Requests(t)
    BY <2>1, <2>6 DEF Requests
  <2>8. Stored(t)
    BY <2>1, <2>2, <2>6 DEF Stored, InQueue, Got
  <2>9. RBase(t) /\ (NoRequests(x) => NoRequests(t))
    BY <2>1, <2>5, <2>6, <2>7, <2>8 DEF RBase, NoRequests
  <2>10. Ordered(x) => Ordered(t)
    BY <2>2, <2>6 DEF Ordered, Got
  <2>11. Ends(t, y, d, "errored", "err", "err")
    BY <2>3, <2>5, EndEffect
  <2>12. y.st = "errored" /\ Counts(t, y)
    BY <2>11 DEF Ends, RAgree, EndParts, Counts
  <2> HIDE DEF y
  <2>13. /\ RBase(y) /\ (Ordered(t) => Ordered(y)) /\ (NoRequests(t) => NoRequests(y))
         /\ t.st = "readable" /\ Shown(t) /\ d = t.reader => Ended(y)
    BY <2>9, <2>11, EndKeeps
  <2>14. RGood(y) /\ Counts(x, y)
    BY <2>6, <2>12, <2>13 DEF RGood, Retained, Counts
  <2>15. Shown(x) => Shown(t)
    BY <2>6 DEF Shown
  <2>16. Fine(x) /\ d = x.reader => Fine(y)
    BY <1>2, <2>6, <2>10, <2>12, <2>13, <2>15 DEF Fine, Ended, Complete
  <2>17. ASSUME d = x.reader PROVE Moves(x, y)
    <3>1. Moves(t, y)
      BY <1>2, <2>6, <2>9, <2>11, <2>17, EndOnward
    <3>2. Unseen(x, t) /\ t.cancelP = x.cancelP
      BY <2>2 DEF Unseen, RAgree
    <3>3. Unseen(y, y)
      BY DEF Unseen
    <3> QED
      BY <2>6, <3>1, <3>2, <3>3, OnwardVia DEF Moves
  <2> QED
    BY <2>9, <2>12, <2>13, <2>14, <2>16, <2>17 DEF y
<1> QED
  BY <1>1, <1>2

(* The controller's close closes a stream whose queue is empty, which has  *)
(* then delivered every chunk.                                             *)
LEMMA ControllerCloseKeeps ==
  ASSUME NEW x, RGood(x)
  PROVE  LET y == RControllerClose(x, x.reader)
         IN  RGood(y) /\ Counts(x, y) /\ (Fine(x) => Fine(y)) /\ Moves(x, y)
<1> DEFINE y == RControllerClose(x, x.reader)
           t == [x EXCEPT !.closeRequested = TRUE]
           u == RClearAlgorithms(t)
<1>1. RBase(x) /\ RTypes(x) /\ DOMAIN x = RFields /\ x.reader \in MaybeReader
  BY DEF RGood, RBase, RTypes
<1>2. RAgree(x, t, {"closeRequested"}) /\ t.closeRequested = TRUE
  BY <1>1 DEF RAgree, RFields
<1>3. RAgree(t, u, {"algs"}) /\ u.algs = FALSE
  BY <1>1 DEF RAgree, RFields, RClearAlgorithms
<1>4. /\ y \in {x, t, ReadableClose(u, x.reader)}
      /\ y = ReadableClose(u, x.reader) \/ y = x \/ y = t
      /\ y # x /\ y # t => CanCloseOrEnqueue(x) /\ t.queue = <<>>
  BY DEF RControllerClose
<1> HIDE DEF t
<1>5. t.queue = x.queue
  BY <1>2 DEF RAgree
<1> HIDE DEF u, y
<1>6. RTypes(t)
  <2>1. RTyped(t, {"closeRequested"})
    BY <1>2 DEF RTyped
  <2> QED
    BY <1>1, <1>2, <2>1, RTypesCarry
<1>7. RAgree(x, t, Minor)
  BY <1>2 DEF RAgree, Minor
<1>8. RGood(t) /\ Counts(x, t) /\ (Fine(x) => Fine(t))
  <2>1. RGood(t) /\ (Fine(x) => Fine(t))
    BY <1>6, <1>7, MinorCarry
  <2> QED
    BY <1>2, <2>1 DEF Counts, RAgree
<1>9. CASE y = x \/ y = t
  <2>1. Unseen(x, t) /\ Unseen(x, x) /\ t.reads = x.reads /\ t.cancelP = x.cancelP
    BY <1>2 DEF Unseen, RAgree
  <2>2. Moves(x, y)
    BY <1>9, <2>1, UnseenOnward DEF Moves
  <2> QED
    BY <1>8, <1>9, <2>2 DEF Counts, y
<1>10. CASE y # x /\ y # t
  <2>1. y = ReadableClose(u, x.reader) /\ x.st = "readable" /\ t.queue = <<>>
    BY <1>4, <1>10 DEF CanCloseOrEnqueue
  <2>2. RTypes(u)
    <3>1. RTyped(u, {"algs"})
      BY <1>3 DEF RTyped
    <3> QED
      BY <1>3, <1>6, <3>1, RTypesCarry
  <2>3. /\ u.reader = t.reader /\ u.panic = t.panic /\ u.chunks = t.chunks
        /\ u.reads = t.reads /\ u.reqs = t.reqs /\ u.closed = t.closed
        /\ u.rp = t.rp /\ u.rv = t.rv /\ u.st = t.st /\ u.queue = t.queue
        /\ u.cancelP = t.cancelP
    BY <1>3 DEF RAgree
  <2>4. t.st = "readable" /\ t.reader = x.reader
    BY <1>2, <2>1 DEF RAgree
  <2>5. RBase(u) /\ (Ordered(t) => Ordered(u)) /\ (Shown(t) => Shown(u))
    <3>1. Requests(u) /\ Stored(u)
      BY <1>8, <2>3 DEF RGood, RBase, Requests, Stored, Got, InQueue
    <3>2. Ordered(t) => Ordered(u)
      BY <2>3 DEF Ordered, Got, NoRequests
    <3>3. Shown(t) => Shown(u)
      BY <2>3 DEF Shown
    <3> QED
      BY <1>8, <2>2, <2>3, <3>1, <3>2, <3>3 DEF RGood, RBase
  <2>6. \A v \in ChunkIds : v <= u.chunks => WasRead(u, v)
    <3>1. \A v \in ChunkIds : v <= t.chunks => InQueue(t, v) \/ WasRead(t, v)
      BY <1>8, <2>4 DEF RGood, Retained
    <3>2. \A v : ~InQueue(t, v)
      BY <2>1 DEF InQueue
    <3> QED
      BY <2>3, <3>1, <3>2 DEF WasRead, Got
  <2>7. Ends(u, y, x.reader, "closed", "ok", "done")
    BY <1>1, <2>1, <2>2, EndEffect
  <2>8. /\ RBase(y) /\ (Ordered(u) => Ordered(y))
        /\ \A v : WasRead(y, v) <=> WasRead(u, v)
        /\ u.st = "readable" /\ Shown(u) /\ x.reader = u.reader => Ended(y)
    BY <1>1, <2>5, <2>7, EndKeeps
  <2>9. y.st = "closed" /\ y.reader = u.reader /\ y.chunks = u.chunks
    BY <2>7 DEF Ends, RAgree, EndParts
  <2>10. Complete(y, {})
    BY <2>6, <2>8, <2>9 DEF Complete
  <2>11. RGood(y) /\ Counts(x, y)
    BY <1>8, <2>3, <2>8, <2>9 DEF RGood, Retained, Counts
  <2>12. Fine(t) => Fine(y)
    BY <2>3, <2>4, <2>5, <2>8, <2>10 DEF Fine, Ended
  <2>13. Moves(x, y)
    <3>1. Moves(u, y)
      BY <2>3, <2>4, <2>5, <2>7, EndOnward
    <3>2. Unseen(x, t) /\ t.reads = x.reads /\ t.cancelP = x.cancelP
      BY <1>2 DEF Unseen, RAgree
    <3>3. Unseen(x, u) /\ Unseen(y, y)
      BY <1>3, <3>2 DEF Unseen, RAgree
    <3> QED
      BY <2>3, <3>1, <3>2, <3>3, OnwardVia DEF Moves
  <2> QED
    BY <1>8, <2>11, <2>12, <2>13 DEF y
<1> QED
  BY <1>9, <1>10

(* enqueue() for a waiting reader hands the new chunk to its oldest read.  *)
LEMMA EnqueueToReaderKeeps ==
  ASSUME NEW x, RGood(x), x.reader \in ReaderIds, x.reqs[x.reader] # <<>>,
         x.chunks < MaxChunks
  PROVE  LET y == EnqueueToReader(x, x.reader)
         IN  /\ RGood(y) /\ y.chunks = x.chunks + 1 /\ y.reader = x.reader
             /\ Fine(x) => Fine(y) /\ Moves(x, y)
<1> DEFINE d == x.reader
           v == x.chunks + 1
           q == x.reqs[d]
           i == Head(q)
           c == [x EXCEPT !.chunks = v]
           fq == [x.reqs EXCEPT ![d] = Tail(q)]
           fp == [x.rp EXCEPT ![i] = "chunk"]
           fv == [x.rv EXCEPT ![i] = v]
           u == [x EXCEPT !.chunks = v, !.reqs = fq, !.rp = fp, !.rv = fv]
           y == EnqueueToReader(x, d)
           Parts == {"chunks", "reqs", "rp", "rv"}
<1>1. RBase(x) /\ RTypes(x) /\ Requests(x) /\ Stored(x) /\ Retained(x, {}) /\ ~x.panic
  BY DEF RGood, RBase
<1>2. /\ DOMAIN x = RFields /\ x.chunks \in 0..MaxChunks /\ x.reqs \in [ReaderIds -> Seq(ReadIds)]
      /\ x.rp \in [ReadIds -> ReadAnswer] /\ x.rv \in [ReadIds -> 0..MaxChunks]
      /\ q \in Seq(ReadIds) /\ x.queue \in Seq(ChunkIds)
  BY <1>1 DEF RTypes
<1>3. v \in ChunkIds /\ v \in 0..MaxChunks /\ x.chunks \in Nat /\ MaxChunks \in Nat
  BY <1>2, ReadableBounds DEF ChunkIds
<1>4. /\ Len(q) \in Nat \ {0} /\ i \in ReadIds /\ Tail(q) \in Seq(ReadIds) /\ i = q[1]
      /\ Len(Tail(q)) = Len(q) - 1 /\ 1 \in DOMAIN q
      /\ \A k \in DOMAIN Tail(q) : k + 1 \in DOMAIN q /\ k \in DOMAIN q /\ Tail(q)[k] = q[k + 1]
  BY <1>2, HeadTailProperties, LenProperties, EmptySeq
<1>5. y = CallPullIfNeeded(u, d)
  <2>1. c.reqs = x.reqs /\ c.rp = x.rp /\ c.rv = x.rv /\ DOMAIN c = RFields
    BY <1>2 DEF RFields
  <2>2. FulfillReadRequest(c, d, v) = [c EXCEPT !.reqs = fq, !.rp = fp, !.rv = fv]
    BY <2>1 DEF FulfillReadRequest
  <2>3. [c EXCEPT !.reqs = fq, !.rp = fp, !.rv = fv] = u
    BY <1>2 DEF RFields
  <2> QED
    BY <2>2, <2>3 DEF EnqueueToReader
<1>6. /\ fq \in [ReaderIds -> Seq(ReadIds)] /\ fp \in [ReadIds -> ReadAnswer]
      /\ fv \in [ReadIds -> 0..MaxChunks]
  BY <1>2, <1>3, <1>4 DEF ReadAnswer
<1>7. /\ \A e \in ReaderIds : fq[e] = IF e = d THEN Tail(q) ELSE x.reqs[e]
      /\ \A j \in ReadIds : fp[j] = IF j = i THEN "chunk" ELSE x.rp[j]
      /\ \A j \in ReadIds : fv[j] = IF j = i THEN v ELSE x.rv[j]
  BY <1>2
<1> HIDE DEF fq, fp, fv, y
<1>8. /\ RAgree(x, u, Parts) /\ u.chunks = v /\ u.reqs = fq /\ u.rp = fp /\ u.rv = fv
  BY <1>2 DEF RAgree, RFields
<1> HIDE DEF u
<1>9. RTypes(u)
  <2>1. RTyped(u, Parts)
    BY <1>3, <1>6, <1>8 DEF RTyped
  <2> QED
    BY <1>1, <1>8, <2>1, RTypesCarry
<1>10. /\ u.reader = d /\ u.queue = x.queue /\ u.panic = x.panic /\ u.st = x.st
       /\ u.algs = x.algs /\ u.reads = x.reads /\ u.closed = x.closed /\ u.cancelP = x.cancelP
  BY <1>8 DEF RAgree
<1>11. x.rp[i] = "pending" /\ \A k \in DOMAIN Tail(q) : i < Tail(q)[k]
  <2>1. \A k, l \in DOMAIN q : k < l => q[k] < q[l]
    BY <1>1 DEF Requests
  <2>2. \A k \in DOMAIN Tail(q) : k \in Nat \ {0}
    BY <1>4, LenProperties
  <2>3. \A k \in DOMAIN Tail(q) : 1 < k + 1
    BY <2>2
  <2>4. \A k \in DOMAIN Tail(q) : q[1] < q[k + 1]
    BY <1>4, <2>1, <2>3
  <2>5. x.rp[q[1]] = "pending"
    BY <1>1, <1>4 DEF Requests
  <2> QED
    BY <1>4, <2>4, <2>5
<1>12. \A j \in ReadIds : Got(u, j) <=> j = i \/ Got(x, j)
  BY <1>7, <1>8 DEF Got
<1>13. ~Got(x, i)
  BY <1>11 DEF Got
<1>14. Requests(u)
  <2>1. \A e \in ReaderIds : e # u.reader => u.reqs[e] = <<>>
    BY <1>1, <1>7, <1>8, <1>10 DEF Requests
  <2>2. ASSUME NEW k \in DOMAIN Tail(q)
        PROVE  u.rp[Tail(q)[k]] = "pending"
    <3>1. Tail(q)[k] \in ReadIds /\ Tail(q)[k] = q[k + 1] /\ k + 1 \in DOMAIN q
      BY <1>2, <1>4
    <3>2. Tail(q)[k] # i
      BY <1>11, <3>1 DEF ReadIds
    <3>3. x.rp[q[k + 1]] = "pending"
      BY <1>1, <3>1 DEF Requests
    <3> QED
      BY <1>7, <1>8, <3>1, <3>2, <3>3
  <2>3. ASSUME NEW k \in DOMAIN Tail(q), NEW l \in DOMAIN Tail(q), k < l
        PROVE  Tail(q)[k] < Tail(q)[l]
    <3>1. k \in Nat /\ l \in Nat /\ k + 1 < l + 1
      BY SMTT(30), <1>4, <2>3, LenProperties
    <3> QED
      BY <1>1, <1>4, <3>1 DEF Requests
  <2>4. \A e \in ReaderIds : u.reqs[e] = IF e = d THEN Tail(q) ELSE <<>>
    BY <1>7, <1>8, <1>10, <2>1
  <2>5. \A j \in ReadIds : j > u.reads => u.rp[j] = "none"
    <3>1. \A j \in ReadIds : j > x.reads => x.rp[j] = "none"
      BY <1>1 DEF Requests
    <3> QED
      BY <1>7, <1>8, <1>10, <1>11, <3>1
  <2>6. \A e \in ReaderIds : \A k \in DOMAIN u.reqs[e] : e = d /\ k \in DOMAIN Tail(q)
    <3>1. \A e \in ReaderIds \ {d} : u.reqs[e] = <<>> /\ DOMAIN u.reqs[e] = {}
      BY <2>4, EmptySeq
    <3>2. u.reqs[d] = Tail(q)
      BY <2>4
    <3> QED
      BY <3>1, <3>2
  <2>7. \A e \in ReaderIds : \A k \in DOMAIN u.reqs[e] : u.rp[u.reqs[e][k]] = "pending"
    BY <2>2, <2>4, <2>6
  <2>8. \A e \in ReaderIds : \A k, l \in DOMAIN u.reqs[e] :
          k < l => u.reqs[e][k] < u.reqs[e][l]
    BY <2>3, <2>4, <2>6
  <2> QED
    BY <2>1, <2>5, <2>7, <2>8 DEF Requests
<1>15. Stored(u)
  <2>1. /\ \A k, l \in DOMAIN u.queue : k < l => u.queue[k] < u.queue[l]
    BY <1>1, <1>10 DEF Stored
  <2>2. \A k \in DOMAIN x.queue : x.queue[k] \in ChunkIds /\ x.queue[k] <= x.chunks
    BY <1>1, <1>2 DEF Stored
  <2>3. \A k \in DOMAIN u.queue : u.queue[k] <= u.chunks /\ u.queue[k] # v
    BY <1>3, <1>8, <1>10, <2>2 DEF ChunkIds
  <2>4. \A j \in ReadIds : Got(x, j) => x.rv[j] \in 1..x.chunks /\ ~InQueue(x, x.rv[j])
    BY <1>1 DEF Stored
  <2>5. v \in 1..v /\ \A a \in 1..x.chunks : a \in 1..v /\ a # v
    BY <1>3
  <2>6. \A j \in ReadIds : Got(u, j) => u.rv[j] \in 1..u.chunks
    BY <1>7, <1>8, <1>12, <2>4, <2>5
  <2>7. \A j \in ReadIds : Got(u, j) => ~InQueue(u, u.rv[j])
    BY <1>7, <1>8, <1>10, <1>12, <2>3, <2>4 DEF InQueue
  <2>8. ASSUME NEW j \in ReadIds, NEW l \in ReadIds, Got(u, j), Got(u, l), u.rv[j] = u.rv[l]
        PROVE  j = l
    <3>1. \A m \in ReadIds : m # i /\ Got(u, m) => Got(x, m) /\ u.rv[m] = x.rv[m] /\ u.rv[m] # v
      BY <1>7, <1>8, <1>12, <2>4, <2>5
    <3>2. u.rv[i] = v
      BY <1>4, <1>7, <1>8
    <3> QED
      BY <1>1, <2>8, <3>1, <3>2 DEF Stored
  <2> QED
    BY <2>1, <2>3, <2>6, <2>7, <2>8 DEF Stored
<1>16. \A a : WasRead(u, a) <=> a = v \/ WasRead(x, a)
  BY <1>4, <1>7, <1>8, <1>12, <1>13 DEF WasRead
<1>17. Retained(u, {}) /\ (Complete(x, {}) => Complete(u, {}))
  <2>1. \A a \in ChunkIds : a <= v => a = v \/ a <= x.chunks
    BY <1>3 DEF ChunkIds
  <2> QED
    BY <1>1, <1>8, <1>10, <1>16, <2>1 DEF Retained, Complete, InQueue
<1>18. RGood(u) /\ u.chunks = v
  BY <1>1, <1>8, <1>9, <1>10, <1>14, <1>15, <1>17 DEF RGood, RBase
<1>19. ASSUME Fine(x) PROVE Fine(u)
  <2>1. Ordered(x) /\ Ended(x) /\ Complete(x, {})
    BY <1>19 DEF Fine
  <2>2. x.queue = <<>>
    BY <2>1 DEF Ordered, NoRequests
  <2>3. \A j \in ReadIds : Got(x, j) => j < i /\ x.rv[j] < v
    <3>1. \A j \in ReadIds : Got(x, j) => j < q[1]
      BY <1>4, <2>1 DEF Ordered
    <3>2. \A j \in ReadIds : Got(x, j) => x.rv[j] \in 1..x.chunks
      BY <1>1 DEF Stored
    <3> QED
      BY <1>3, <1>4, <3>1, <3>2
  <2>4. \A j \in ReadIds : Got(u, j) => j <= i
    BY <1>4, <1>12, <2>3 DEF ReadIds
  <2>5. ASSUME NEW j \in ReadIds, NEW l \in ReadIds, j < l, Got(u, j), Got(u, l)
        PROVE  u.rv[j] < u.rv[l]
    <3>1. l <= i
      BY <2>4, <2>5
    <3>2. j # i
      BY <2>5, <3>1, <1>4 DEF ReadIds
    <3>3. Got(x, j) /\ u.rv[j] = x.rv[j]
      BY <1>7, <1>8, <1>12, <2>5, <3>2
    <3>4. CASE l = i
      BY <1>7, <1>8, <2>3, <3>3, <3>4
    <3>5. CASE l # i
      BY <1>7, <1>8, <1>12, <2>1, <2>5, <3>3, <3>5 DEF Ordered
    <3> QED
      BY <3>4, <3>5
  <2>6. ASSUME NEW e \in ReaderIds, NEW k \in DOMAIN u.reqs[e], NEW j \in ReadIds, Got(u, j)
        PROVE  j < u.reqs[e][k]
    <3>1. u.reqs[e] = Tail(q)
      BY <1>7, <1>8, <1>14, <1>10, <2>6 DEF Requests
    <3>2. Tail(q)[k] \in ReadIds /\ i < Tail(q)[k]
      BY <1>4, <1>11, <2>6, <3>1
    <3>3. j <= i
      BY <2>4, <2>6
    <3>4. i \in ReadIds /\ j \in ReadIds /\ Tail(q)[k] \in ReadIds
      BY <1>4, <3>2, <2>6
    <3>5. \A a, b, m \in ReadIds : a <= b /\ b < m => a < m
      BY DEF ReadIds
    <3>6. j < Tail(q)[k]
      BY <3>2, <3>3, <3>4, <3>5, Zenon
    <3> QED
      BY <3>1, <3>6
  <2>7. Ordered(u)
    BY <1>10, <2>2, <2>5, <2>6 DEF Ordered
  <2>8. x.st = "readable"
    BY <2>1 DEF Ended, NoRequests
  <2>9. Ended(u)
    BY <1>10, <2>1, <2>8 DEF Ended, Shown
  <2> QED
    BY <1>17, <2>1, <2>7, <2>9 DEF Fine
<1>20. RAgree(u, y, Minor) /\ RTypes(y)
  <2>1. u.st = "readable" => u.algs
    BY <1>18 DEF RGood
  <2>2. d \in MaybeReader
    BY <1>1 DEF RTypes
  <2> QED
    BY <1>5, <1>9, <2>1, <2>2, CallPullEffect
<1>21. RGood(y) /\ (Fine(u) => Fine(y))
  BY <1>18, <1>20, MinorCarry
<1>22. y.chunks = u.chunks /\ y.reader = u.reader
  BY <1>20 DEF RAgree, Minor
<1>23. ASSUME Fine(x) PROVE Moves(x, y)
  <2>1. x.st = "readable"
    BY <1>23 DEF Fine, Ended, NoRequests
  <2>2. Onward(x, u, {})
    <3>1. \A j \in ReadIds : x.rp[j] # "pending" => u.rp[j] = x.rp[j] /\ u.rv[j] = x.rv[j]
      BY <1>7, <1>8, <1>11
    <3>2. u.readers = x.readers
      BY <1>8 DEF RAgree
    <3> QED
      BY <1>10, <2>1, <3>1, <3>2 DEF Onward
  <2>3. Unseen(u, y) /\ y.reads = u.reads /\ y.cancelP = u.cancelP
    BY <1>20 DEF Unseen, RAgree, Minor
  <2>4. Unseen(x, x)
    BY DEF Unseen
  <2> QED
    BY <1>10, <2>2, <2>3, <2>4, OnwardVia DEF Moves
<1> QED
  BY <1>8, <1>10, <1>19, <1>21, <1>22, <1>23 DEF y

(* enqueue() after size(): the chunk goes behind the queue, whatever state *)
(* the stream is in by then.                                               *)
LEMMA EnqueueAfterSizeKeeps ==
  ASSUME NEW x, RGood(x), NEW d \in MaybeReader, NEW z \in Nat \cup {-1, -2},
         x.chunks < MaxChunks
  PROVE  LET y == EnqueueAfterSize(x, d, z)
         IN  /\ RGood(y) /\ y.chunks \in {x.chunks, x.chunks + 1} /\ y.reader = x.reader
             /\ Fine(x) /\ NoRequests(x) /\ x.st # "closed" /\ d = x.reader
                  => Fine(y) /\ NoRequests(y) /\ y.st # "closed"
             /\ d = x.reader => Moves(x, y)
<1> DEFINE v == x.chunks + 1
           q == Append(x.queue, v)
           f == [x.size EXCEPT ![v] = z]
           u == [x EXCEPT !.chunks = v, !.queue = q, !.size = f, !.total = @ + z]
           y == EnqueueAfterSize(x, d, z)
           Parts == {"chunks", "queue", "size", "total"}
<1>1. RBase(x) /\ RTypes(x) /\ Requests(x) /\ Stored(x) /\ Retained(x, {}) /\ ~x.panic
  BY DEF RGood, RBase
<1>2. CASE z \in {BadSize, SizeThrows}
  <2>1. y = RControllerError(x, d)
    BY <1>2 DEF EnqueueAfterSize
  <2> HIDE DEF y
  <2>2. /\ RGood(y) /\ Counts(x, y)
        /\ Fine(x) /\ d = x.reader => Fine(y)
        /\ NoRequests(x) => NoRequests(y)
        /\ x.st # "closed" => y.st # "closed"
        /\ d = x.reader => Moves(x, y)
    BY <2>1, RControllerErrorKeeps
  <2> QED
    BY <2>2 DEF Counts, y
<1>3. CASE z \notin {BadSize, SizeThrows}
  <2>1. z \in Nat
    BY <1>3 DEF BadSize, SizeThrows
  <2>2. /\ DOMAIN x = RFields /\ x.chunks \in 0..MaxChunks /\ x.queue \in Seq(ChunkIds)
        /\ x.size \in [ChunkIds -> Nat] /\ x.total \in Nat
    BY <1>1 DEF RTypes
  <2>3. v \in ChunkIds /\ v \in 0..MaxChunks /\ x.chunks \in Nat /\ MaxChunks \in Nat
    BY <2>2, ReadableBounds DEF ChunkIds
  <2>4. /\ q \in Seq(ChunkIds) /\ q # <<>> /\ Len(q) = Len(x.queue) + 1
        /\ \A k \in 1..Len(x.queue) : q[k] = x.queue[k]
        /\ q[Len(x.queue) + 1] = v
        /\ Len(x.queue) \in Nat /\ DOMAIN x.queue = 1..Len(x.queue)
        /\ DOMAIN q = 1..(Len(x.queue) + 1)
    BY SMTT(30), <2>2, <2>3, AppendProperties, LenProperties
  <2>5. y = CallPullIfNeeded(u, d)
    BY <1>3 DEF EnqueueAfterSize
  <2>6. f \in [ChunkIds -> Nat]
    BY <2>1, <2>2
  <2> HIDE DEF q, f, y
  <2>7. /\ RAgree(x, u, Parts) /\ u.chunks = v /\ u.queue = q /\ u.size = f
        /\ u.total = x.total + z
    BY <2>2 DEF RAgree, RFields
  <2> HIDE DEF u
  <2>8. RTypes(u)
    <3>1. x.total + z \in Nat
      BY <2>1, <2>2
    <3>2. RTyped(u, Parts)
      BY <2>3, <2>4, <2>6, <2>7, <3>1 DEF RTyped
    <3> QED
      BY <1>1, <2>7, <3>2, RTypesCarry
  <2>9. /\ u.reader = x.reader /\ u.panic = x.panic /\ u.st = x.st /\ u.algs = x.algs
        /\ u.reads = x.reads /\ u.reqs = x.reqs /\ u.closed = x.closed
        /\ u.rp = x.rp /\ u.rv = x.rv /\ u.cancelP = x.cancelP
    BY <2>7 DEF RAgree
  <2>10. \A k \in DOMAIN q : \/ k \in DOMAIN x.queue /\ q[k] = x.queue[k]
                             \/ k = Len(x.queue) + 1 /\ q[k] = v
    BY <2>4
  <2>11. \A k \in DOMAIN x.queue : x.queue[k] \in 1..x.chunks
    <3>1. \A k \in DOMAIN x.queue : x.queue[k] <= x.chunks
      BY <1>1 DEF Stored
    <3>2. \A k \in DOMAIN x.queue : x.queue[k] \in ChunkIds
      BY <2>2, LenProperties
    <3>3. \A a \in ChunkIds : a <= x.chunks => a \in 1..x.chunks
      BY <2>2, <2>3 DEF ChunkIds
    <3> QED
      BY <3>1, <3>2, <3>3
  <2>12. \A k \in DOMAIN x.queue : k < Len(x.queue) + 1 /\ x.queue[k] < v /\ k \in DOMAIN q
    BY <2>3, <2>4, <2>11
  <2>13. Requests(u)
    BY <1>1, <2>9 DEF Requests
  <2>14. \A a : InQueue(u, a) <=> a = v \/ InQueue(x, a)
    <3>1. Len(x.queue) + 1 \in DOMAIN q
      BY <2>4
    <3> QED
      BY <2>4, <2>7, <2>10, <2>12, <3>1 DEF InQueue
  <2>15. \A i \in ReadIds : Got(u, i) => x.rv[i] \in 1..x.chunks /\ x.rv[i] < v /\ x.rv[i] <= u.chunks
    <3>1. \A i \in ReadIds : Got(u, i) => x.rv[i] \in 1..x.chunks
      BY <1>1, <2>9 DEF Stored, Got
    <3>2. \A a \in 1..x.chunks : a < v /\ a <= v
      BY <2>3
    <3> QED
      BY <2>7, <3>1, <3>2
  <2>16. Stored(u)
    <3>1. \A k, l \in DOMAIN q : k < l => q[k] < q[l]
      <4>1. SUFFICES ASSUME NEW k \in DOMAIN q, NEW l \in DOMAIN q, k < l
                     PROVE  q[k] < q[l]
        OBVIOUS
      <4>2. k \in DOMAIN x.queue /\ q[k] = x.queue[k]
        BY <2>4, <4>1
      <4>3. CASE l \in DOMAIN x.queue /\ q[l] = x.queue[l]
        BY <1>1, <4>1, <4>2, <4>3 DEF Stored
      <4>4. CASE q[l] = v
        BY <2>12, <4>2, <4>4
      <4> QED
        BY <2>10, <4>3, <4>4
    <3>2. \A k \in DOMAIN q : q[k] <= v
      BY <2>3, <2>10, <2>11
    <3>3. \A i \in ReadIds : Got(u, i) => u.rv[i] \in 1..u.chunks
      BY <2>3, <2>7, <2>9, <2>15
    <3>4. \A i \in ReadIds : Got(u, i) => ~InQueue(u, u.rv[i])
      <4>1. \A i \in ReadIds : Got(u, i) => ~InQueue(x, x.rv[i])
        BY <1>1, <2>9 DEF Stored, Got
      <4>2. \A a \in 1..x.chunks : a # v
        BY <2>3
      <4> QED
        BY <2>9, <2>14, <2>15, <4>1, <4>2
    <3>5. \A i, j \in ReadIds : Got(u, i) /\ Got(u, j) /\ u.rv[i] = u.rv[j] => i = j
      BY <1>1, <2>9 DEF Stored, Got
    <3> QED
      BY <2>7, <3>1, <3>2, <3>3, <3>4, <3>5 DEF Stored
  <2>17. Retained(u, {})
    <3>1. \A a \in ChunkIds : a <= v => a = v \/ a <= x.chunks
      BY <2>3 DEF ChunkIds
    <3>2. \A a : WasRead(x, a) => WasRead(u, a)
      BY <2>9 DEF WasRead, Got
    <3> QED
      BY <1>1, <2>7, <2>9, <2>14, <3>1, <3>2 DEF Retained
  <2>18. RGood(u)
    BY <1>1, <2>8, <2>9, <2>13, <2>16, <2>17 DEF RGood, RBase
  <2>19. ASSUME Fine(x), NoRequests(x), x.st # "closed"
         PROVE  Fine(u) /\ NoRequests(u) /\ u.st # "closed"
    <3>1. NoRequests(u) /\ u.st # "closed"
      BY <2>9, <2>19 DEF NoRequests
    <3>2. Ended(u)
      BY <2>9, <2>19, <3>1 DEF Fine, Ended, Shown
    <3>3. Complete(u, {})
      BY <3>1 DEF Complete
    <3>4. \A i \in ReadIds : Got(u, i) => \A k \in DOMAIN u.queue : u.rv[i] < u.queue[k]
      <4>1. \A i \in ReadIds : Got(u, i) => \A k \in DOMAIN x.queue : u.rv[i] < x.queue[k]
        BY <2>9, <2>19 DEF Fine, Ordered, Got
      <4> QED
        BY <2>7, <2>9, <2>10, <2>15, <4>1
    <3>5. \A i, j \in ReadIds : i < j /\ Got(u, i) /\ Got(u, j) => u.rv[i] < u.rv[j]
      BY <2>9, <2>19 DEF Fine, Ordered, Got
    <3>6. \A e \in ReaderIds : DOMAIN u.reqs[e] = {}
      BY <3>1 DEF NoRequests
    <3>7. Ordered(u)
      BY <3>1, <3>4, <3>5, <3>6 DEF Ordered
    <3> QED
      BY <3>1, <3>2, <3>3, <3>7 DEF Fine
  <2>20. RAgree(u, y, Minor) /\ RTypes(y)
    BY <2>5, <2>8, <2>18, CallPullEffect DEF RGood
  <2>21. RGood(y) /\ (Fine(u) => Fine(y))
    BY <2>18, <2>20, MinorCarry
  <2>22. y.chunks = u.chunks /\ y.reader = u.reader /\ y.reqs = u.reqs /\ y.st = u.st
    BY <2>20 DEF RAgree, Minor
  <2>23. NoRequests(u) => NoRequests(y)
    BY <2>22 DEF NoRequests
  <2>24. Unseen(x, y) /\ y.reads = x.reads /\ y.cancelP = x.cancelP
    BY <2>7, <2>20 DEF Unseen, RAgree, Minor
  <2>25. Moves(x, y)
    BY <2>24, UnseenOnward DEF Moves
  <2> QED
    BY <2>7, <2>9, <2>19, <2>21, <2>22, <2>23, <2>25 DEF y
<1> QED
  BY <1>2, <1>3

(* What giving the chunk v to the newest read i keeps.                     *)
LEMMA DeliverKeeps ==
  ASSUME NEW u, NEW y, NEW i \in ReadIds, NEW v \in ChunkIds, RBase(u), i = u.reads,
         v <= u.chunks, u.rp[i] = "none", ~InQueue(u, v), ~WasRead(u, v),
         y = [u EXCEPT !.rp[i] = "chunk", !.rv[i] = v]
  PROVE  /\ RBase(y) /\ RAgree(u, y, {"rp", "rv"})
         /\ Retained(u, {v}) => Retained(y, {})
         /\ Complete(u, {v}) => Complete(y, {})
         /\ Ended(u) => Ended(y)
         /\ Ordered(u) /\ NoRequests(u)
              /\ (\A j \in ReadIds : Got(u, j) => u.rv[j] < v)
              /\ (\A k \in DOMAIN u.queue : v < u.queue[k])
              => Ordered(y)
<1> DEFINE fp == [u.rp EXCEPT ![i] = "chunk"]
           fv == [u.rv EXCEPT ![i] = v]
<1>1. RTypes(u) /\ ~u.panic /\ Requests(u) /\ Stored(u)
  BY DEF RBase
<1>2. /\ DOMAIN u = RFields /\ u.rp \in [ReadIds -> ReadAnswer] /\ u.rv \in [ReadIds -> 0..MaxChunks]
      /\ u.reqs \in [ReaderIds -> Seq(ReadIds)] /\ u.chunks \in Nat /\ v \in 0..MaxChunks
  BY SMTT(30), <1>1, ReadableBounds DEF RTypes, ChunkIds
<1>3. y = [u EXCEPT !.rp = fp, !.rv = fv]
  BY <1>2 DEF RFields
<1>4. RAgree(u, y, {"rp", "rv"}) /\ y.rp = fp /\ y.rv = fv
  BY <1>2, <1>3 DEF RAgree, RFields
<1>5. fp \in [ReadIds -> ReadAnswer] /\ fv \in [ReadIds -> 0..MaxChunks]
  BY <1>2 DEF ReadAnswer
<1>6. /\ \A j \in ReadIds : y.rp[j] = IF j = i THEN "chunk" ELSE u.rp[j]
      /\ \A j \in ReadIds : y.rv[j] = IF j = i THEN v ELSE u.rv[j]
  BY <1>2, <1>4
<1> HIDE DEF fp, fv
<1>7. RTypes(y)
  <2>1. RTyped(y, {"rp", "rv"})
    BY <1>4, <1>5 DEF RTyped
  <2> QED
    BY <1>1, <1>4, <2>1, RTypesCarry
<1>8. /\ y.reader = u.reader /\ y.queue = u.queue /\ y.panic = u.panic /\ y.st = u.st
      /\ y.chunks = u.chunks /\ y.reads = u.reads /\ y.reqs = u.reqs
      /\ y.closed = u.closed /\ y.cancelP = u.cancelP
  BY <1>4 DEF RAgree
<1>9. \A j \in ReadIds : Got(y, j) <=> j = i \/ Got(u, j)
  BY <1>6 DEF Got
<1>10. Requests(y)
  <2>1. \A d \in ReaderIds : \A k \in DOMAIN u.reqs[d] : u.reqs[d][k] \in ReadIds /\ u.reqs[d][k] # i
    BY <1>1, <1>2 DEF Requests
  <2>2. \A d \in ReaderIds : \A k \in DOMAIN u.reqs[d] : y.rp[u.reqs[d][k]] = "pending"
    BY <1>1, <1>6, <2>1 DEF Requests
  <2>3. \A j \in ReadIds : j > y.reads => y.rp[j] = "none"
    <3>1. i \in Int /\ ~(i > u.reads)
      BY DEF ReadIds
    <3> QED
      BY <1>1, <1>6, <1>8, <3>1 DEF Requests
  <2> QED
    BY <1>1, <1>8, <2>2, <2>3 DEF Requests
<1>11. Stored(y)
  <2>1. v \in 1..u.chunks
    BY <1>2 DEF ChunkIds
  <2>2. \A j \in ReadIds : Got(y, j) => y.rv[j] \in 1..y.chunks /\ ~InQueue(y, y.rv[j])
    BY <1>1, <1>6, <1>8, <1>9, <2>1 DEF Stored, InQueue
  <2>3. \A j \in ReadIds : Got(u, j) => u.rv[j] # v
    BY DEF WasRead
  <2>4. \A j, l \in ReadIds : Got(y, j) /\ Got(y, l) /\ y.rv[j] = y.rv[l] => j = l
    BY <1>1, <1>6, <1>9, <2>3 DEF Stored
  <2> QED
    BY <1>1, <1>8, <2>2, <2>4 DEF Stored
<1>12. \A a : WasRead(y, a) <=> a = v \/ WasRead(u, a)
  <2>1. ~Got(u, i)
    BY DEF Got
  <2> QED
    BY <1>6, <1>9, <2>1 DEF WasRead
<1>13. Retained(u, {v}) => Retained(y, {})
  BY <1>8, <1>12 DEF Retained, InQueue
<1>14. Complete(u, {v}) => Complete(y, {})
  BY <1>8, <1>12 DEF Complete
<1>15. Ended(u) => Ended(y)
  BY <1>8 DEF Ended, Shown, NoRequests
<1>16. ASSUME Ordered(u), NoRequests(u), \A j \in ReadIds : Got(u, j) => u.rv[j] < v,
              \A k \in DOMAIN u.queue : v < u.queue[k]
       PROVE  Ordered(y)
  <2>1. \A j \in ReadIds : Got(u, j) => j < i
    <3>1. \A j \in ReadIds : Got(u, j) => ~(j > u.reads) /\ j # i
      BY <1>1 DEF Requests, Got
    <3> QED
      BY <3>1 DEF ReadIds
  <2>2. \A j \in ReadIds : ~(i < j /\ Got(y, j))
    BY <1>9, <2>1 DEF ReadIds
  <2>3. \A j, l \in ReadIds : j < l /\ Got(y, j) /\ Got(y, l) => y.rv[j] < y.rv[l]
    BY <1>6, <1>9, <1>16, <2>2 DEF Ordered
  <2>4. \A j \in ReadIds : Got(y, j) => \A k \in DOMAIN y.queue : y.rv[j] < y.queue[k]
    BY <1>6, <1>8, <1>9, <1>16 DEF Ordered
  <2>5. NoRequests(y) /\ \A e \in ReaderIds : DOMAIN y.reqs[e] = {}
    BY <1>8, <1>16 DEF NoRequests
  <2> QED
    BY <2>3, <2>4, <2>5 DEF Ordered
<1> QED
  BY <1>1, <1>4, <1>7, <1>8, <1>10, <1>11, <1>13, <1>14, <1>15, <1>16 DEF RBase

(* Dequeuing takes the oldest chunk h, which then is nowhere.              *)
LEMMA DequeueKeeps ==
  ASSUME NEW x, RGood(x), x.queue # <<>>
  PROVE  LET t == RDequeueValue(x)
             h == Head(x.queue)
         IN  /\ RBase(t) /\ RAgree(x, t, {"queue", "total"}) /\ Retained(t, {h})
             /\ h \in ChunkIds /\ h <= x.chunks /\ ~InQueue(t, h) /\ ~WasRead(t, h)
             /\ \A k \in DOMAIN t.queue : h < t.queue[k]
             /\ Ordered(x) => Ordered(t) /\ NoRequests(t)
                              /\ \A j \in ReadIds : Got(t, j) => t.rv[j] < h
             /\ Ended(x) => Ended(t)
<1> DEFINE t == RDequeueValue(x)
           q == x.queue
           h == Head(q)
           rest == x.total - x.size[h]
           n == IF rest < 0 THEN 0 ELSE rest
           Parts == {"queue", "total"}
<1>1. RTypes(x) /\ ~x.panic /\ Requests(x) /\ Stored(x) /\ Retained(x, {})
  BY DEF RGood, RBase
<1>2. /\ DOMAIN x = RFields /\ q \in Seq(ChunkIds) /\ x.total \in Nat
      /\ x.size \in [ChunkIds -> Nat]
  BY <1>1 DEF RTypes
<1>3. /\ Len(q) \in Nat \ {0} /\ h \in ChunkIds /\ Tail(q) \in Seq(ChunkIds) /\ h = q[1]
      /\ 1 \in DOMAIN q
      /\ \A k \in DOMAIN Tail(q) : k + 1 \in DOMAIN q /\ k \in Nat /\ k > 0 /\ Tail(q)[k] = q[k + 1]
      /\ \A k \in DOMAIN q : k = 1 \/ (k - 1 \in DOMAIN Tail(q) /\ Tail(q)[k - 1] = q[k])
  BY SMTT(30), <1>2, HeadTailProperties, LenProperties, EmptySeq
<1>4. x.size[h] \in Nat
  BY <1>2, <1>3
<1>5. n \in Nat
  <2> HIDE DEF h
  <2> QED
    BY <1>2, <1>4
<1>6. t = [x EXCEPT !.queue = Tail(q), !.total = n]
  BY DEF RDequeueValue
<1> HIDE DEF n, t
<1>7. RAgree(x, t, Parts) /\ t.queue = Tail(q) /\ t.total = n
  BY <1>2, <1>6 DEF RAgree, RFields
<1>8. RTypes(t)
  <2>1. RTyped(t, Parts)
    BY <1>3, <1>5, <1>7 DEF RTyped
  <2> QED
    BY <1>1, <1>7, <2>1, RTypesCarry
<1>9. /\ t.reader = x.reader /\ t.panic = x.panic /\ t.st = x.st /\ t.algs = x.algs
      /\ t.chunks = x.chunks /\ t.reads = x.reads /\ t.reqs = x.reqs
      /\ t.closed = x.closed /\ t.rp = x.rp /\ t.rv = x.rv /\ t.cancelP = x.cancelP
  BY <1>7 DEF RAgree
<1>10. Requests(t)
  BY <1>1, <1>9 DEF Requests
<1>11. h <= x.chunks /\ ~WasRead(t, h)
  <2>1. InQueue(x, h) /\ h <= x.chunks
    BY <1>1, <1>3 DEF InQueue, Stored
  <2> QED
    BY <1>1, <1>9, <2>1 DEF Stored, WasRead, Got
<1>12. \A k, l \in DOMAIN t.queue : k < l => t.queue[k] < t.queue[l]
  <2>1. \A k, l \in DOMAIN Tail(q) : k < l => k + 1 < l + 1
    BY <1>3
  <2> QED
    BY <1>1, <1>3, <1>7, <2>1 DEF Stored
<1>13. \A k \in DOMAIN t.queue : h < t.queue[k]
  <2>1. \A k \in DOMAIN Tail(q) : 1 < k + 1
    BY <1>3
  <2> QED
    BY <1>1, <1>3, <1>7, <2>1 DEF Stored
<1>14. \A a : InQueue(x, a) => a = h \/ InQueue(t, a)
  BY <1>3, <1>7 DEF InQueue
<1>15. \A a : InQueue(t, a) => InQueue(x, a)
  BY <1>3, <1>7 DEF InQueue
<1>16. ~InQueue(t, h)
  BY <1>3, <1>13 DEF InQueue, ChunkIds
<1>17. Stored(t)
  <2>1. \A k \in DOMAIN t.queue : t.queue[k] <= t.chunks
    BY <1>1, <1>3, <1>7, <1>9 DEF Stored
  <2>2. \A i \in ReadIds : Got(t, i) => t.rv[i] \in 1..t.chunks /\ ~InQueue(t, t.rv[i])
    BY <1>1, <1>9, <1>15 DEF Stored, Got
  <2>3. \A i, j \in ReadIds : Got(t, i) /\ Got(t, j) /\ t.rv[i] = t.rv[j] => i = j
    BY <1>1, <1>9 DEF Stored, Got
  <2> QED
    BY <1>12, <2>1, <2>2, <2>3 DEF Stored
<1>18. RBase(t)
  BY <1>1, <1>8, <1>9, <1>10, <1>17 DEF RBase
<1>19. Retained(t, {h})
  <2>1. \A a : WasRead(x, a) => WasRead(t, a)
    BY <1>9 DEF WasRead, Got
  <2> QED
    BY <1>1, <1>9, <1>14, <2>1 DEF Retained
<1>20. ASSUME Ordered(x)
       PROVE  Ordered(t) /\ NoRequests(t) /\ \A j \in ReadIds : Got(t, j) => t.rv[j] < h
  <2>1. NoRequests(t)
    BY <1>9, <1>20 DEF Ordered, NoRequests
  <2>2. \A j \in ReadIds : Got(t, j) => t.rv[j] < h
    BY <1>3, <1>9, <1>20 DEF Ordered, Got
  <2>3. \A j \in ReadIds : Got(t, j) => \A k \in DOMAIN t.queue : t.rv[j] < t.queue[k]
    BY <1>3, <1>7, <1>9, <1>20 DEF Ordered, Got
  <2>4. \A i, j \in ReadIds : i < j /\ Got(t, i) /\ Got(t, j) => t.rv[i] < t.rv[j]
    BY <1>9, <1>20 DEF Ordered, Got
  <2>5. \A e \in ReaderIds : DOMAIN t.reqs[e] = {}
    BY <2>1 DEF NoRequests
  <2> QED
    BY <2>1, <2>2, <2>3, <2>4, <2>5 DEF Ordered
<1>21. Ended(x) => Ended(t)
  BY <1>9 DEF Ended, Shown, NoRequests
<1> QED
  BY <1>3, <1>7, <1>11, <1>13, <1>16, <1>18, <1>19, <1>20, <1>21 DEF t

(* A read takes the oldest queued chunk, closing the stream if it was the  *)
(* last before a requested close, or waits.                                *)
LEMMA PullStepsKeeps ==
  ASSUME NEW x, RGood(x), x.st = "readable", x.reader \in ReaderIds,
         NEW i \in ReadIds, i = x.reads, x.rp[i] = "none"
  PROVE  LET y == PullSteps(x, x.reader, i)
         IN  /\ RGood(y) /\ Counts(x, y) /\ (Fine(x) => Fine(y))
             /\ Onward(x, y, {i}) /\ y.reads = x.reads /\ y.cancelP = x.cancelP
<1> DEFINE d == x.reader
           y == PullSteps(x, d, i)
<1>1. RBase(x) /\ RTypes(x) /\ Requests(x) /\ Stored(x) /\ Retained(x, {}) /\ x.algs
      /\ ~x.panic
  BY DEF RGood, RBase
<1>2. d \in MaybeReader /\ DOMAIN x = RFields
  BY <1>1 DEF RTypes
<1>3. CASE x.queue # <<>>
  <2> DEFINE t == RDequeueValue(x)
             h == Head(x.queue)
             c == RClearAlgorithms(t)
             u == IF t.closeRequested /\ t.queue = <<>>
                  THEN ReadableClose(c, d) ELSE CallPullIfNeeded(t, d)
  <2>1. y = [u EXCEPT !.rp[i] = "chunk", !.rv[i] = h]
    BY <1>3 DEF PullSteps
  <2>2. /\ RBase(t) /\ RAgree(x, t, {"queue", "total"}) /\ Retained(t, {h})
        /\ h \in ChunkIds /\ h <= x.chunks /\ ~InQueue(t, h) /\ ~WasRead(t, h)
        /\ \A k \in DOMAIN t.queue : h < t.queue[k]
        /\ Ordered(x) => Ordered(t) /\ NoRequests(t)
                         /\ \A j \in ReadIds : Got(t, j) => t.rv[j] < h
        /\ Ended(x) => Ended(t)
    BY <1>3, DequeueKeeps
  <2> HIDE DEF t, h, y
  <2>3. /\ t.reader = d /\ t.st = "readable" /\ t.algs = x.algs /\ t.chunks = x.chunks
        /\ t.reads = i /\ t.rp[i] = "none" /\ t.rv = x.rv /\ RTypes(t) /\ Requests(t)
    BY <2>2 DEF RAgree, RBase
  <2>4. /\ RBase(u) /\ Retained(u, {h}) /\ (u.st = "readable" => u.algs)
        /\ u.queue = t.queue /\ u.chunks = t.chunks /\ u.reads = i /\ u.reader = d
        /\ u.rv = t.rv /\ u.rp[i] = "none"
        /\ \A j \in ReadIds : Got(u, j) <=> Got(t, j)
        /\ NoRequests(t) => NoRequests(u)
        /\ Ordered(t) => Ordered(u)
        /\ Ended(t) => Ended(u)
        /\ Complete(u, {h})
        /\ Onward(t, u, {}) /\ u.cancelP = t.cancelP /\ u.st # "errored"
    <3>1. CASE t.closeRequested /\ t.queue = <<>>
      <4>1. u = ReadableClose(c, d)
        BY <3>1
      <4>2. DOMAIN t = RFields
        BY <2>3 DEF RTypes
      <4>3. RAgree(t, c, {"algs"}) /\ c.algs = FALSE
        BY <4>2 DEF RAgree, RFields, RClearAlgorithms
      <4> HIDE DEF c, u
      <4>4. RTypes(c)
        <5>1. RTyped(c, {"algs"})
          BY <4>3 DEF RTyped
        <5> QED
          BY <2>3, <4>3, <5>1, RTypesCarry
      <4>5. /\ c.reader = t.reader /\ c.panic = t.panic /\ c.st = t.st
            /\ c.chunks = t.chunks /\ c.reads = t.reads /\ c.reqs = t.reqs
            /\ c.closed = t.closed /\ c.rp = t.rp /\ c.rv = t.rv /\ c.queue = t.queue
        BY <4>3 DEF RAgree
      <4>6. Requests(c) /\ Stored(c)
        BY <2>2, <4>5 DEF RBase, Requests, Stored, Got, InQueue
      <4>7. RBase(c)
        BY <2>2, <4>4, <4>5, <4>6 DEF RBase
      <4>8. /\ (Ordered(t) => Ordered(c)) /\ (NoRequests(t) => NoRequests(c))
            /\ (Shown(t) => Shown(c)) /\ \A j \in ReadIds : Got(c, j) <=> Got(t, j)
        <5>1. Ordered(t) => Ordered(c)
          BY <4>5 DEF Ordered, Got, NoRequests
        <5> QED
          BY <4>5, <5>1 DEF Shown, Got, NoRequests
      <4>9. Ends(c, u, d, "closed", "ok", "done")
        BY <1>2, <4>1, <4>4, EndEffect
      <4>10. /\ RBase(u)
             /\ \A j \in ReadIds : Got(u, j) <=> Got(c, j)
             /\ \A v : WasRead(u, v) <=> WasRead(c, v)
             /\ Ordered(c) => Ordered(u)
             /\ NoRequests(c) => NoRequests(u)
             /\ c.st = "readable" /\ Shown(c) /\ d = c.reader => Ended(u)
        BY <1>2, <4>7, <4>9, EndKeeps
      <4>11. /\ u.queue = c.queue /\ u.chunks = c.chunks /\ u.reads = c.reads
             /\ u.reader = c.reader /\ u.rv = c.rv /\ u.st = "closed"
        BY <4>9 DEF Ends, RAgree, EndParts
      <4>12. u.rp[i] = "none"
        <5>1. i \notin Elements(c.reqs[d])
          BY <2>3, <4>5, <4>6 DEF Requests, Elements
        <5> QED
          BY <2>3, <4>5, <4>9, <5>1 DEF Ends
      <4>13. Complete(u, {h})
        <5>1. \A v : ~InQueue(t, v)
          BY <3>1 DEF InQueue
        <5>2. \A v \in ChunkIds : v <= t.chunks /\ v \notin {h} => WasRead(t, v)
          BY <2>2, <2>3, <5>1 DEF Retained
        <5>3. \A v : WasRead(t, v) => WasRead(c, v)
          BY <4>5 DEF WasRead, Got
        <5> QED
          BY <4>5, <4>10, <4>11, <5>2, <5>3 DEF Complete
      <4>14. Ended(t) => Ended(u)
        BY <2>3, <4>5, <4>8, <4>10 DEF Ended
      <4>15. Retained(u, {h})
        BY <4>11 DEF Retained
      <4>16. Onward(t, u, {}) /\ u.cancelP = t.cancelP
        <5>1. Moves(c, u)
          BY <2>3, <4>5, <4>7, <4>9, EndOnward
        <5>2. Unseen(t, c) /\ Unseen(u, u) /\ c.cancelP = t.cancelP
          BY <4>3 DEF Unseen, RAgree
        <5> QED
          BY <5>1, <5>2, OnwardVia DEF Moves
      <4> QED
        BY <2>3, <4>5, <4>8, <4>10, <4>11, <4>12, <4>13, <4>14, <4>15, <4>16
    <3>2. CASE ~(t.closeRequested /\ t.queue = <<>>)
      <4>1. u = CallPullIfNeeded(t, d)
        BY <3>2
      <4>2. RAgree(t, u, Minor) /\ RTypes(u)
        BY <1>1, <1>2, <2>3, <4>1, CallPullEffect
      <4> HIDE DEF u
      <4>3. /\ RBase(u) /\ Retained(u, {h})
            /\ (Ordered(t) => Ordered(u)) /\ (Ended(t) => Ended(u))
        BY <2>2, <4>2, MinorCarry
      <4>4. /\ u.queue = t.queue /\ u.chunks = t.chunks /\ u.reads = t.reads
            /\ u.reader = t.reader /\ u.rv = t.rv /\ u.rp = t.rp /\ u.st = t.st
            /\ u.algs = t.algs /\ u.reqs = t.reqs
        BY <4>2 DEF RAgree, Minor
      <4>5. (\A j \in ReadIds : Got(u, j) <=> Got(t, j)) /\ (NoRequests(t) => NoRequests(u))
        BY <4>4 DEF Got, NoRequests
      <4>6. Complete(u, {h})
        BY <2>3, <4>4 DEF Complete
      <4>7. Onward(t, u, {}) /\ u.cancelP = t.cancelP
        <5>1. Unseen(t, u) /\ u.cancelP = t.cancelP
          BY <4>2 DEF Unseen, RAgree, Minor
        <5> QED
          BY <5>1, UnseenOnward
      <4> QED
        BY <1>1, <2>3, <4>3, <4>4, <4>5, <4>6, <4>7
    <3> QED
      BY <3>1, <3>2
  <2> HIDE DEF u
  <2>5. ~InQueue(u, h) /\ ~WasRead(u, h)
    BY <2>2, <2>4 DEF InQueue, WasRead
  <2>6. /\ RBase(y) /\ RAgree(u, y, {"rp", "rv"})
        /\ Retained(u, {h}) => Retained(y, {})
        /\ Complete(u, {h}) => Complete(y, {})
        /\ Ended(u) => Ended(y)
        /\ Ordered(u) /\ NoRequests(u)
             /\ (\A j \in ReadIds : Got(u, j) => u.rv[j] < h)
             /\ (\A k \in DOMAIN u.queue : h < u.queue[k])
             => Ordered(y)
    <3>1. h \in ChunkIds /\ h <= u.chunks /\ i = u.reads
      BY <2>2, <2>3, <2>4
    <3> QED
      BY <2>1, <2>4, <2>5, <3>1, DeliverKeeps
  <2>7. y.st = u.st /\ y.algs = u.algs /\ y.reader = u.reader /\ y.chunks = u.chunks
    BY <2>6 DEF RAgree
  <2>8. RGood(y) /\ Counts(x, y)
    BY <2>3, <2>4, <2>6, <2>7 DEF RGood, Counts
  <2>9. Fine(x) => Fine(y)
    BY <2>2, <2>4, <2>6 DEF Fine
  <2>10. \A j \in ReadIds \ {i} : y.rp[j] = u.rp[j] /\ y.rv[j] = u.rv[j]
    <3>1. DOMAIN u = RFields /\ u.rp \in [ReadIds -> ReadAnswer] /\ u.rv \in [ReadIds -> 0..MaxChunks]
      BY <2>4 DEF RBase, RTypes
    <3> QED
      BY <2>1, <3>1 DEF RFields
  <2>12. /\ y.reads = u.reads /\ y.cancelP = u.cancelP
         /\ t.rp = x.rp /\ t.cancelP = x.cancelP
         /\ y.readers = u.readers /\ t.readers = x.readers
    BY <2>2, <2>6 DEF RAgree
  <2>13. Onward(x, y, {i})
    <3>1. \A j \in ReadIds \ {i} : x.rp[j] # "pending" => y.rp[j] = x.rp[j] /\ y.rv[j] = x.rv[j]
      BY <2>3, <2>4, <2>10, <2>12 DEF Onward
    <3> QED
      BY <2>3, <2>4, <2>7, <2>12, <3>1 DEF Onward
  <2> QED
    BY <2>3, <2>4, <2>8, <2>9, <2>12, <2>13 DEF y
<1>4. CASE x.queue = <<>>
  <2> DEFINE q == x.reqs[d]
             n == Append(q, i)
             fp == [x.rp EXCEPT ![i] = "pending"]
             fq == [x.reqs EXCEPT ![d] = n]
             u == [x EXCEPT !.rp = fp, !.reqs = fq]
             Parts == {"rp", "reqs"}
  <2>1. x.rp \in [ReadIds -> ReadAnswer] /\ x.reqs \in [ReaderIds -> Seq(ReadIds)] /\ q \in Seq(ReadIds)
    BY <1>1 DEF RTypes
  <2>2. y = CallPullIfNeeded(u, d)
    BY <1>2, <1>4 DEF PullSteps, RFields
  <2>3. /\ n \in Seq(ReadIds) /\ Len(q) \in Nat /\ DOMAIN q = 1..Len(q)
        /\ DOMAIN n = 1..(Len(q) + 1) /\ n[Len(q) + 1] = i
        /\ \A k \in 1..Len(q) : n[k] = q[k]
    BY <2>1, AppendProperties, LenProperties
  <2> HIDE DEF n
  <2>4. fp \in [ReadIds -> ReadAnswer] /\ fq \in [ReaderIds -> Seq(ReadIds)]
    BY <2>1, <2>3 DEF ReadAnswer
  <2>5. /\ \A j \in ReadIds : fp[j] = IF j = i THEN "pending" ELSE x.rp[j]
        /\ \A e \in ReaderIds : fq[e] = IF e = d THEN n ELSE x.reqs[e]
    BY <2>1
  <2> HIDE DEF fp, fq, y
  <2>6. RAgree(x, u, Parts) /\ u.rp = fp /\ u.reqs = fq
    BY <1>2 DEF RAgree, RFields
  <2> HIDE DEF u
  <2>7. RTypes(u)
    <3>1. RTyped(u, Parts)
      BY <2>4, <2>6 DEF RTyped
    <3> QED
      BY <1>1, <2>6, <3>1, RTypesCarry
  <2>8. /\ u.reader = x.reader /\ u.queue = x.queue /\ u.panic = x.panic /\ u.st = x.st
        /\ u.algs = x.algs /\ u.chunks = x.chunks /\ u.reads = x.reads
        /\ u.closed = x.closed /\ u.rv = x.rv /\ u.cancelP = x.cancelP
    BY <2>6 DEF RAgree
  <2>9. \A j \in ReadIds : Got(u, j) <=> Got(x, j)
    BY <2>5, <2>6 DEF Got
  <2>10. \A k \in DOMAIN q : q[k] \in ReadIds /\ q[k] < i /\ x.rp[q[k]] = "pending"
    <3>1. \A k \in DOMAIN q : q[k] \in ReadIds /\ x.rp[q[k]] = "pending"
      BY <1>1, <2>1 DEF Requests
    <3>2. \A k \in DOMAIN q : ~(q[k] > x.reads) /\ q[k] # i
      BY <1>1, <3>1 DEF Requests
    <3>3. \A a \in ReadIds : ~(a > i) /\ a # i => a < i
      BY DEF ReadIds
    <3> QED
      BY <3>1, <3>2, <3>3
  <2>11. \A k \in DOMAIN n : \/ k \in DOMAIN q /\ n[k] = q[k]
                             \/ k = Len(q) + 1 /\ n[k] = i
    BY <2>3
  <2>12. \A e \in ReaderIds : u.reqs[e] = IF e = d THEN n ELSE <<>>
    BY <1>1, <2>5, <2>6 DEF Requests
  <2>13. \A e \in ReaderIds : \A k \in DOMAIN u.reqs[e] : e = d /\ u.reqs[e] = n /\ k \in DOMAIN n
    <3>1. \A e \in ReaderIds \ {d} : u.reqs[e] = <<>> /\ DOMAIN u.reqs[e] = {}
      BY <2>12, EmptySeq
    <3>2. u.reqs[d] = n
      BY <2>12
    <3> QED
      BY <3>1, <3>2
  <2>14. Requests(u)
    <3>1. \A e \in ReaderIds : e # u.reader => u.reqs[e] = <<>>
      BY <2>8, <2>12
    <3>2. \A k \in DOMAIN n : u.rp[n[k]] = "pending"
      BY <2>5, <2>6, <2>10, <2>11
    <3>3. ASSUME NEW k \in DOMAIN n, NEW l \in DOMAIN n, k < l PROVE n[k] < n[l]
      <4>1. k \in DOMAIN q /\ n[k] = q[k]
        BY <2>3, <3>3
      <4>2. CASE l \in DOMAIN q /\ n[l] = q[l]
        BY <1>1, <3>3, <4>1, <4>2 DEF Requests
      <4>3. CASE n[l] = i
        BY <2>10, <4>1, <4>3
      <4> QED
        BY <2>11, <4>2, <4>3
    <3>4. \A j \in ReadIds : j > u.reads => u.rp[j] = "none"
      <4>1. i \in Int /\ ~(i > x.reads)
        BY DEF ReadIds
      <4> QED
        BY <1>1, <2>5, <2>6, <2>8, <4>1 DEF Requests
    <3>5. \A e \in ReaderIds : \A k \in DOMAIN u.reqs[e] : u.rp[u.reqs[e][k]] = "pending"
      BY <2>13, <3>2
    <3>6. \A e \in ReaderIds : \A k, l \in DOMAIN u.reqs[e] :
            k < l => u.reqs[e][k] < u.reqs[e][l]
      BY <2>13, <3>3
    <3> QED
      BY <3>1, <3>4, <3>5, <3>6 DEF Requests
  <2>15. Stored(u)
    BY <1>1, <2>8, <2>9 DEF Stored, InQueue
  <2>16. Retained(u, {})
    BY <1>1, <2>8, <2>9 DEF Retained, InQueue, WasRead
  <2>17. RGood(u)
    BY <1>1, <2>7, <2>8, <2>14, <2>15, <2>16 DEF RGood, RBase
  <2>18. ASSUME Fine(x) PROVE Fine(u)
    <3>1. \A j \in ReadIds : Got(x, j) => j < i
      <4>1. \A j \in ReadIds : Got(x, j) => ~(j > x.reads) /\ j # i
        BY <1>1 DEF Requests, Got
      <4>2. \A a \in ReadIds : ~(a > i) /\ a # i => a < i
        BY DEF ReadIds
      <4> QED
        BY <4>1, <4>2
    <3>2. \A k \in DOMAIN n : \A j \in ReadIds : Got(u, j) => j < n[k]
      <4>1. \A k \in DOMAIN q : \A j \in ReadIds : Got(x, j) => j < q[k]
        BY <2>18 DEF Fine, Ordered
      <4> QED
        BY <2>9, <2>11, <3>1, <4>1
    <3>3. \A e \in ReaderIds : \A k \in DOMAIN u.reqs[e] :
            \A j \in ReadIds : Got(u, j) => j < u.reqs[e][k]
      BY <2>13, <3>2
    <3>4. Ordered(u)
      BY <1>4, <2>8, <2>9, <2>18, <3>3 DEF Fine, Ordered
    <3>5. Complete(u, {})
      BY <2>8 DEF Complete
    <3>6. Ended(u)
      BY <2>8, <2>18 DEF Fine, Ended, Shown
    <3> QED
      BY <3>4, <3>5, <3>6 DEF Fine
  <2>19. RAgree(u, y, Minor) /\ RTypes(y)
    BY <1>1, <1>2, <2>2, <2>7, <2>8, CallPullEffect
  <2>20. RGood(y) /\ (Fine(u) => Fine(y))
    BY <2>17, <2>19, MinorCarry
  <2>21. y.chunks = u.chunks /\ y.reader = u.reader
    BY <2>19 DEF RAgree, Minor
  <2>22. Onward(x, u, {i})
    <3>1. \A j \in ReadIds \ {i} : u.rp[j] = x.rp[j] /\ u.rv[j] = x.rv[j]
      BY <2>5, <2>6, <2>8
    <3>2. u.readers = x.readers
      BY <2>6 DEF RAgree
    <3> QED
      BY <2>8, <2>9, <3>1, <3>2 DEF Onward
  <2>23. Unseen(u, y) /\ Unseen(x, x) /\ y.reads = u.reads /\ y.cancelP = u.cancelP
    BY <2>19 DEF Unseen, RAgree, Minor
  <2>24. Onward(x, y, {i})
    BY <2>22, <2>23, OnwardVia
  <2> QED
    BY <2>8, <2>18, <2>20, <2>21, <2>23, <2>24 DEF Counts, y
<1> QED
  BY <1>3, <1>4

(* read() on a stream that ended is answered at once.                      *)
LEMMA ReadKeeps ==
  ASSUME NEW x, RGood(x), x.reader \in ReaderIds, x.reads < MaxReads
  PROVE  LET y == DefaultReaderRead(x, x.reader)
         IN  /\ RGood(y) /\ Counts(x, y) /\ (Fine(x) => Fine(y))
             /\ Onward(x, y, {x.reads + 1}) /\ y.reads = x.reads + 1 /\ y.cancelP = x.cancelP
             /\ x.st = "closed" => y.rp[y.reads] = "done"
             /\ x.st = "errored" => y.rp[y.reads] = "err"
<1> DEFINE i == x.reads + 1
           t == [x EXCEPT !.reads = i, !.disturbed = TRUE]
           y == DefaultReaderRead(x, x.reader)
           Parts == {"reads", "disturbed"}
<1>1. RBase(x) /\ RTypes(x) /\ Requests(x) /\ Stored(x) /\ ~x.panic
  BY DEF RGood, RBase
<1>2. DOMAIN x = RFields /\ x.reads \in 0..MaxReads
  BY <1>1 DEF RTypes
<1>3. i \in ReadIds /\ i \in 0..MaxReads /\ i > x.reads
  BY <1>2, ReadableBounds DEF ReadIds
<1>4. \A j \in ReadIds : j > i => j > x.reads
  BY <1>2, ReadableBounds DEF ReadIds
<1>5. RAgree(x, t, Parts) /\ t.reads = i /\ t.disturbed = TRUE
  BY <1>2 DEF RAgree, RFields
<1>6. /\ t.st = "closed" => y = [t EXCEPT !.rp[i] = "done"]
      /\ t.st = "errored" => y = [t EXCEPT !.rp[i] = "err"]
      /\ t.st = "readable" => y = PullSteps(t, x.reader, i)
  BY Zenon DEF DefaultReaderRead
<1> HIDE DEF t, y, i
<1>7. RTypes(t)
  <2>1. RTyped(t, Parts)
    BY <1>3, <1>5 DEF RTyped
  <2> QED
    BY <1>1, <1>5, <2>1, RTypesCarry
<1>8. /\ t.reader = x.reader /\ t.queue = x.queue /\ t.panic = x.panic /\ t.st = x.st
      /\ t.algs = x.algs /\ t.chunks = x.chunks /\ t.reqs = x.reqs
      /\ t.closed = x.closed /\ t.rp = x.rp /\ t.rv = x.rv /\ t.cancelP = x.cancelP
  BY <1>5 DEF RAgree
<1>9. Requests(t)
  BY <1>1, <1>4, <1>5, <1>8 DEF Requests
<1>10. RGood(t)
  <2>1. Stored(t)
    BY <1>1, <1>8 DEF Stored, Got, InQueue
  <2>2. Retained(t, {})
    BY <1>8 DEF RGood, Retained, InQueue, WasRead, Got
  <2> QED
    BY <1>1, <1>7, <1>8, <1>9, <2>1, <2>2 DEF RGood, RBase
<1>11. Fine(x) => Fine(t)
  BY <1>8 DEF Fine, Ordered, Complete, WasRead, Ended, Shown, NoRequests, Got
<1>12. t.rp[i] = "none"
  BY <1>1, <1>3, <1>8 DEF Requests
<1>13. CASE t.st = "readable"
  <2>1. /\ RGood(y) /\ Counts(t, y) /\ (Fine(t) => Fine(y))
        /\ Onward(t, y, {i}) /\ y.reads = t.reads /\ y.cancelP = t.cancelP
    BY <1>3, <1>5, <1>6, <1>8, <1>10, <1>12, <1>13, PullStepsKeeps
  <2>2. Unseen(x, t) /\ Unseen(y, y)
    BY <1>5 DEF Unseen, RAgree
  <2>3. Onward(x, y, {i})
    BY <2>1, <2>2, OnwardVia
  <2> QED
    BY <1>5, <1>8, <1>11, <1>13, <2>1, <2>3 DEF Counts, y, i
<1>14. CASE t.st # "readable"
  <2>1. PICK o \in {"done", "err"} : y = [t EXCEPT !.rp[i] = o]
    BY <1>6, <1>7, <1>14 DEF RTypes
  <2> DEFINE f == [t.rp EXCEPT ![i] = o]
  <2>2. DOMAIN t = RFields /\ t.rp \in [ReadIds -> ReadAnswer]
    BY <1>7 DEF RTypes
  <2>3. RAgree(t, y, {"rp"}) /\ y.rp = f
    BY <2>1, <2>2 DEF RAgree, RFields
  <2>4. f \in [ReadIds -> ReadAnswer] /\ \A j \in ReadIds : f[j] = IF j = i THEN o ELSE t.rp[j]
    BY <1>3, <2>2 DEF ReadAnswer
  <2> HIDE DEF f
  <2>5. RTypes(y)
    <3>1. RTyped(y, {"rp"})
      BY <2>3, <2>4 DEF RTyped
    <3> QED
      BY <1>7, <2>3, <3>1, RTypesCarry
  <2>6. /\ y.reader = t.reader /\ y.queue = t.queue /\ y.panic = t.panic /\ y.st = t.st
        /\ y.algs = t.algs /\ y.chunks = t.chunks /\ y.reqs = t.reqs /\ y.reads = t.reads
        /\ y.closed = t.closed /\ y.rv = t.rv /\ y.cancelP = t.cancelP
    BY <2>3 DEF RAgree
  <2>7. \A j \in ReadIds : Got(y, j) <=> Got(t, j)
    BY <1>12, <2>3, <2>4 DEF Got
  <2>8. Requests(y)
    <3>1. \A d \in ReaderIds : \A k \in DOMAIN t.reqs[d] :
            t.reqs[d][k] \in ReadIds /\ t.reqs[d][k] # i
      BY <1>7, <1>9, <1>12 DEF Requests, RTypes
    <3>2. \A d \in ReaderIds : \A k \in DOMAIN y.reqs[d] : y.rp[y.reqs[d][k]] = "pending"
      BY <1>9, <2>3, <2>4, <2>6, <3>1 DEF Requests
    <3>3. i \in Int /\ ~(i > t.reads)
      BY <1>3, <1>5 DEF ReadIds
    <3>4. \A j \in ReadIds : j > y.reads => y.rp[j] = "none"
      BY <1>9, <2>3, <2>4, <2>6, <3>3 DEF Requests
    <3> QED
      BY <1>9, <2>6, <3>2, <3>4 DEF Requests
  <2>9. Stored(y)
    BY <1>10, <2>6, <2>7 DEF RGood, RBase, Stored, InQueue
  <2>10. RGood(y)
    BY <1>10, <1>14, <2>5, <2>6, <2>8, <2>9 DEF RGood, RBase, Retained
  <2>11. Fine(t) => Fine(y)
    <3>1. Ordered(t) => Ordered(y)
      BY <2>6, <2>7 DEF Ordered, NoRequests
    <3>2. Complete(t, {}) => Complete(y, {})
      BY <2>6, <2>7 DEF Complete, WasRead
    <3>3. Ended(t) => Ended(y)
      BY <2>6 DEF Ended, Shown, NoRequests
    <3> QED
      BY <3>1, <3>2, <3>3 DEF Fine
  <2>12. Onward(x, y, {i})
    <3>1. \A j \in ReadIds : i # j => y.rp[j] = x.rp[j] /\ y.rv[j] = x.rv[j]
      BY <1>8, <2>3, <2>4, <2>6
    <3>2. y.readers = x.readers
      BY <1>5, <2>3 DEF RAgree
    <3>3. \A j \in ReadIds : Got(y, j) => Got(x, j)
      BY <1>8, <2>7 DEF Got
    <3> QED
      BY <1>8, <2>6, <3>1, <3>2, <3>3 DEF Onward
  <2>13. /\ x.st = "closed" => y.rp[i] = "done"
         /\ x.st = "errored" => y.rp[i] = "err"
    <3>1. DOMAIN t = RFields /\ t.rp \in [ReadIds -> ReadAnswer]
      BY <1>7 DEF RTypes
    <3> QED
      BY <1>3, <1>6, <1>8, <3>1 DEF RFields
  <2> QED
    BY <1>5, <1>8, <1>11, <2>6, <2>10, <2>11, <2>12, <2>13 DEF Counts, y, i
<1> QED
  BY <1>13, <1>14

(* cancel() closes the stream under its reader and drops the queue.        *)
LEMMA CancelKeeps ==
  ASSUME NEW x, RGood(x), x.st = "readable"
  PROVE  LET y == ReadableCancel(x, x.reader)
         IN  /\ RGood(y) /\ Counts(x, y) /\ (Fine(x) => Fine(y))
             /\ Onward(x, y, {}) /\ y.reads = x.reads /\ y.st = "closed" /\ y.cancelP = "pending"
             /\ \A j \in ReadIds : Got(y, j) => Got(x, j)
<1> DEFINE t == [x EXCEPT !.disturbed = TRUE, !.cancelP = "pending"]
           u == ReadableClose(t, x.reader)
           y == ReadableCancel(x, x.reader)
           p == u.pend \cup {"cancel"}
           Parts == {"disturbed", "cancelP"}
           Rest == {"queue", "total", "algs", "pend"}
<1>1. RBase(x) /\ RTypes(x) /\ Requests(x) /\ Stored(x) /\ ~x.panic /\ x.algs
  BY DEF RGood, RBase
<1>2. DOMAIN x = RFields /\ x.reader \in MaybeReader
  BY <1>1 DEF RTypes
<1>3. y = CancelSteps(u)
  <2>1. [x EXCEPT !.disturbed = TRUE].st = "readable"
    BY <1>2 DEF RFields
  <2>2. y = CancelSteps(ReadableClose([[x EXCEPT !.disturbed = TRUE] EXCEPT !.cancelP = "pending"], x.reader))
    BY <2>1, Zenon DEF ReadableCancel
  <2> QED
    BY <2>2
<1>4. RAgree(x, t, Parts) /\ t.disturbed = TRUE /\ t.cancelP = "pending"
  BY <1>2 DEF RAgree, RFields
<1> HIDE DEF t
<1>5. RTypes(t)
  <2>1. RTyped(t, Parts)
    BY <1>4 DEF RTyped, Promise
  <2> QED
    BY <1>1, <1>4, <2>1, RTypesCarry
<1>6. /\ t.reader = x.reader /\ t.queue = x.queue /\ t.panic = x.panic /\ t.st = x.st
      /\ t.algs = x.algs /\ t.chunks = x.chunks /\ t.reqs = x.reqs /\ t.reads = x.reads
      /\ t.closed = x.closed /\ t.rp = x.rp /\ t.rv = x.rv
  BY <1>4 DEF RAgree
<1>7. Requests(t) /\ Stored(t)
  BY <1>1, <1>6 DEF Requests, Stored, Got, InQueue
<1>8. RBase(t)
  BY <1>1, <1>5, <1>6, <1>7 DEF RBase
<1>9. (Ordered(x) => Ordered(t)) /\ (Shown(x) => Shown(t))
  <2>1. Ordered(x) => Ordered(t)
    BY <1>6 DEF Ordered, Got, NoRequests
  <2> QED
    BY <1>6, <2>1 DEF Shown
<1>10. Ends(t, u, x.reader, "closed", "ok", "done")
  BY <1>2, <1>5, EndEffect
<1> HIDE DEF u
<1>11. /\ RBase(u) /\ (Ordered(t) => Ordered(u))
       /\ t.st = "readable" /\ Shown(t) /\ x.reader = t.reader => Ended(u)
  BY <1>2, <1>8, <1>10, EndKeeps
<1>12. u.st = "closed" /\ u.cancelP = "pending" /\ u.algs /\ u.reader = x.reader
       /\ u.chunks = x.chunks
  BY ZenonT(30), <1>1, <1>4, <1>6, <1>10 DEF Ends, RAgree, EndParts
<1>13. RTypes(u) /\ DOMAIN u = RFields /\ u.pend \in SUBSET {"start", "pull", "cancel"}
       /\ Requests(u) /\ Stored(u) /\ ~u.panic
  BY <1>11 DEF RBase, RTypes
<1>14. /\ RAgree(u, y, Rest) /\ y.queue = <<>> /\ y.total = 0 /\ y.algs = FALSE /\ y.pend = p
  BY <1>3, <1>12, <1>13 DEF CancelSteps, RClearAlgorithms, ResetQueue, RAgree, RFields
<1> HIDE DEF y
<1>15. RTypes(y)
  <2>1. y.queue \in Seq(ChunkIds) /\ y.total \in Nat
    BY <1>14, EmptySeq
  <2>2. y.algs \in BOOLEAN
    BY <1>14
  <2>3. y.pend \in SUBSET {"start", "pull", "cancel"}
    BY <1>13, <1>14
  <2>4. RTyped(y, Rest)
    BY <2>1, <2>2, <2>3 DEF RTyped
  <2> QED
    BY <1>13, <1>14, <2>4, RTypesCarry
<1>16. /\ y.reader = u.reader /\ y.panic = u.panic /\ y.st = u.st
       /\ y.chunks = u.chunks /\ y.reqs = u.reqs /\ y.reads = u.reads
       /\ y.closed = u.closed /\ y.rp = u.rp /\ y.rv = u.rv /\ y.cancelP = u.cancelP
  BY <1>14 DEF RAgree
<1>17. Requests(y)
  BY <1>13, <1>16 DEF Requests
<1>18. Stored(y)
  BY <1>13, <1>14, <1>16 DEF Stored, Got, InQueue
<1>19. RGood(y) /\ Counts(x, y)
  BY <1>12, <1>13, <1>15, <1>16, <1>17, <1>18 DEF RGood, RBase, Retained, Counts
<1>20. Ordered(u) => Ordered(y)
  BY <1>14, <1>16 DEF Ordered, Got
<1>21. Ended(u) => Ended(y)
  BY <1>16 DEF Ended, Shown, NoRequests
<1>22. Complete(y, {})
  BY <1>12, <1>16 DEF Complete
<1>23. Fine(x) => Fine(y)
  BY <1>6, <1>9, <1>11, <1>20, <1>21, <1>22 DEF Fine, Ended
<1>24. Moves(t, u)
  BY <1>1, <1>6, <1>8, <1>10, EndOnward DEF RGood
<1>25. Unseen(x, t) /\ Unseen(u, y)
  BY <1>4, <1>14 DEF Unseen, RAgree
<1>26. Onward(x, y, {}) /\ y.reads = x.reads
  BY <1>6, <1>16, <1>24, <1>25, OnwardVia DEF Moves
<1>27. \A j \in ReadIds : Got(y, j) => Got(x, j)
  BY <1>2, <1>6, <1>8, <1>10, <1>16, EndKeeps DEF Got
<1> QED
  BY <1>12, <1>16, <1>19, <1>23, <1>26, <1>27 DEF y

(* The reactions to the source's promises.                                 *)
LEMMA RStartSettledKeeps ==
  ASSUME NEW x, RGood(x), NEW ok \in BOOLEAN
  PROVE  LET y == RStartSettled(x, ok)
         IN  RGood(y) /\ Counts(x, y) /\ (Fine(x) => Fine(y)) /\ Moves(x, y)
<1> DEFINE t == [x EXCEPT !.pend = @ \ {"start"}]
           u == [t EXCEPT !.started = TRUE]
           y == RStartSettled(x, ok)
<1>1. RTypes(x) /\ DOMAIN x = RFields /\ x.reader \in MaybeReader
      /\ x.pend \in SUBSET {"start", "pull", "cancel"}
  BY DEF RGood, RBase, RTypes
<1>2. RAgree(x, t, {"pend"}) /\ t.pend = x.pend \ {"start"}
  BY <1>1 DEF RAgree, RFields
<1>3. RAgree(t, u, {"started"}) /\ u.started = TRUE
  BY <1>1 DEF RAgree, RFields
<1>4. y = IF ok THEN CallPullIfNeeded(u, t.reader) ELSE RControllerError(t, t.reader)
  BY DEF RStartSettled
<1> HIDE DEF t, u, y
<1>5. RTypes(t) /\ RAgree(x, t, Minor)
  <2>1. RTyped(t, {"pend"})
    BY <1>1, <1>2 DEF RTyped
  <2>2. RTypes(t)
    BY <1>1, <1>2, <2>1, RTypesCarry
  <2> QED
    BY <1>2, <2>2 DEF RAgree, Minor
<1>6. RGood(t) /\ (Fine(x) => Fine(t))
  BY <1>5, MinorCarry
<1>7. RTypes(u) /\ RAgree(t, u, Minor)
  <2>1. RTyped(u, {"started"})
    BY <1>3 DEF RTyped
  <2>2. RTypes(u)
    BY <1>3, <1>5, <2>1, RTypesCarry
  <2> QED
    BY <1>3, <2>2 DEF RAgree, Minor
<1>8. RGood(u) /\ (Fine(t) => Fine(u))
  BY <1>6, <1>7, MinorCarry
<1>9. t.reader = x.reader /\ t.chunks = x.chunks /\ u.reader = x.reader /\ u.chunks = x.chunks
  BY <1>2, <1>3 DEF RAgree
<1>12. Unseen(x, t) /\ t.reads = x.reads /\ t.cancelP = x.cancelP
  BY <1>2 DEF Unseen, RAgree
<1>10. CASE ok
  <2>1. RAgree(u, y, Minor) /\ RTypes(y)
    BY <1>1, <1>4, <1>7, <1>8, <1>9, <1>10, CallPullEffect DEF RGood
  <2>2. RGood(y) /\ (Fine(u) => Fine(y))
    BY <1>8, <2>1, MinorCarry
  <2>3. Counts(u, y)
    BY <2>1 DEF RAgree, Minor, Counts
  <2>4. Unseen(x, y) /\ y.reads = x.reads /\ y.cancelP = x.cancelP
    BY <1>3, <1>12, <2>1 DEF Unseen, RAgree, Minor
  <2>5. Moves(x, y)
    BY <2>4, UnseenOnward DEF Moves
  <2> QED
    BY <1>6, <1>8, <1>9, <2>2, <2>3, <2>5 DEF Counts, y
<1>11. CASE ~ok
  <2>1. RGood(y) /\ Counts(t, y) /\ (Fine(t) => Fine(y)) /\ Moves(t, y)
    BY <1>1, <1>4, <1>6, <1>9, <1>11, RControllerErrorKeeps
  <2>2. Unseen(y, y)
    BY DEF Unseen
  <2>3. Moves(x, y)
    BY <1>12, <2>1, <2>2, OnwardVia DEF Moves
  <2> QED
    BY <1>6, <1>9, <2>1, <2>3 DEF Counts, y
<1> QED
  BY <1>10, <1>11

(* A pull that settled makes way for the next one, or errs the stream.     *)
LEMMA PullSettledKeeps ==
  ASSUME NEW x, RGood(x), NEW ok \in BOOLEAN
  PROVE  LET y == PullSettled(x, ok)
         IN  RGood(y) /\ Counts(x, y) /\ (Fine(x) => Fine(y)) /\ Moves(x, y)
<1> DEFINE t == [x EXCEPT !.pend = @ \ {"pull"}]
           u == [t EXCEPT !.pulling = FALSE, !.pullAgain = FALSE]
           w == [t EXCEPT !.pulling = FALSE]
           y == PullSettled(x, ok)
<1>1. RTypes(x) /\ DOMAIN x = RFields /\ x.reader \in MaybeReader
      /\ x.pend \in SUBSET {"start", "pull", "cancel"}
  BY DEF RGood, RBase, RTypes
<1>2. RAgree(x, t, {"pend"}) /\ t.pend = x.pend \ {"pull"}
  BY <1>1 DEF RAgree, RFields
<1>3. /\ RAgree(t, u, {"pulling", "pullAgain"}) /\ u.pulling = FALSE /\ u.pullAgain = FALSE
      /\ RAgree(t, w, {"pulling"}) /\ w.pulling = FALSE
  BY <1>1 DEF RAgree, RFields
<1>4. y = IF ~ok THEN RControllerError(t, t.reader)
          ELSE IF t.pullAgain THEN CallPullIfNeeded(u, t.reader) ELSE w
  BY DEF PullSettled
<1> HIDE DEF t, u, w, y
<1>5. RTypes(t) /\ RAgree(x, t, Minor)
  <2>1. RTyped(t, {"pend"})
    BY <1>1, <1>2 DEF RTyped
  <2>2. RTypes(t)
    BY <1>1, <1>2, <2>1, RTypesCarry
  <2> QED
    BY <1>2, <2>2 DEF RAgree, Minor
<1>6. RGood(t) /\ (Fine(x) => Fine(t))
  BY <1>5, MinorCarry
<1>7. RTypes(u) /\ RAgree(t, u, Minor) /\ RTypes(w) /\ RAgree(t, w, Minor)
  <2>1. RTyped(u, {"pulling", "pullAgain"}) /\ RTyped(w, {"pulling"})
    BY <1>3 DEF RTyped
  <2>2. RTypes(u) /\ RTypes(w)
    BY <1>3, <1>5, <2>1, RTypesCarry
  <2> QED
    BY <1>3, <2>2 DEF RAgree, Minor
<1>8. RGood(u) /\ (Fine(t) => Fine(u)) /\ RGood(w) /\ (Fine(t) => Fine(w))
  BY <1>6, <1>7, MinorCarry
<1>9. /\ t.reader = x.reader /\ t.chunks = x.chunks /\ u.reader = x.reader
      /\ u.chunks = x.chunks /\ w.reader = x.reader /\ w.chunks = x.chunks
  BY <1>2, <1>3 DEF RAgree
<1>13. /\ Unseen(x, t) /\ t.reads = x.reads /\ t.cancelP = x.cancelP
       /\ Unseen(x, w) /\ w.reads = x.reads /\ w.cancelP = x.cancelP
  BY <1>2, <1>3 DEF Unseen, RAgree
<1>10. CASE ok /\ t.pullAgain
  <2>1. RAgree(u, y, Minor) /\ RTypes(y)
    BY <1>1, <1>4, <1>7, <1>8, <1>9, <1>10, CallPullEffect DEF RGood
  <2>2. RGood(y) /\ (Fine(u) => Fine(y))
    BY <1>8, <2>1, MinorCarry
  <2>3. Counts(u, y)
    BY <2>1 DEF RAgree, Minor, Counts
  <2>4. Unseen(x, y) /\ y.reads = x.reads /\ y.cancelP = x.cancelP
    BY <1>3, <1>13, <2>1 DEF Unseen, RAgree, Minor
  <2>5. Moves(x, y)
    BY <2>4, UnseenOnward DEF Moves
  <2> QED
    BY <1>6, <1>8, <1>9, <2>2, <2>3, <2>5 DEF Counts, y
<1>11. CASE ok /\ ~t.pullAgain
  <2>1. y = w
    BY <1>4, <1>11
  <2>2. Moves(x, w)
    BY <1>13, UnseenOnward DEF Moves
  <2> QED
    BY <1>6, <1>8, <1>9, <2>1, <2>2 DEF Counts, y
<1>12. CASE ~ok
  <2>1. RGood(y) /\ Counts(t, y) /\ (Fine(t) => Fine(y)) /\ Moves(t, y)
    BY <1>1, <1>4, <1>6, <1>9, <1>12, RControllerErrorKeeps
  <2>2. Unseen(y, y)
    BY DEF Unseen
  <2>3. Moves(x, y)
    BY <1>13, <2>1, <2>2, OnwardVia DEF Moves
  <2> QED
    BY <1>6, <1>9, <2>1, <2>3 DEF Counts, y
<1> QED
  BY <1>10, <1>11, <1>12

(* The promise of a cancel() is settled, not taken back.                   *)
LEMMA CancelSettledKeeps ==
  ASSUME NEW x, RGood(x), NEW ok \in BOOLEAN
  PROVE  LET y == CancelSettled(x, ok)
         IN  /\ RGood(y) /\ Counts(x, y) /\ (Fine(x) => Fine(y))
             /\ RAgree(x, y, {"pend", "cancelP"})
             /\ y.cancelP = "none" <=> x.cancelP = "none"
<1> DEFINE y == CancelSettled(x, ok)
           o == IF ok THEN "ok" ELSE "err"
           Parts == {"pend", "cancelP"}
<1>1. /\ RTypes(x) /\ DOMAIN x = RFields /\ x.pend \in SUBSET {"start", "pull", "cancel"}
      /\ x.cancelP \in Promise /\ Requests(x) /\ Stored(x) /\ ~x.panic
  BY DEF RGood, RBase, RTypes
<1>2. /\ RAgree(x, y, Parts) /\ y.pend = x.pend \ {"cancel"}
      /\ y.cancelP = Settle(x.cancelP, o)
  BY <1>1 DEF CancelSettled, RAgree, RFields
<1> HIDE DEF y
<1>3. y.cancelP \in Promise /\ (y.cancelP = "none" <=> x.cancelP = "none")
  <2>1. o \in {"ok", "err"}
    OBVIOUS
  <2> HIDE DEF o
  <2> QED
    BY <1>1, <1>2, <2>1, RSettleType
<1>4. RTypes(y)
  <2>1. RTyped(y, Parts)
    BY <1>1, <1>2, <1>3 DEF RTyped
  <2> QED
    BY <1>1, <1>2, <2>1, RTypesCarry
<1>5. /\ y.reader = x.reader /\ y.queue = x.queue /\ y.panic = x.panic /\ y.st = x.st
      /\ y.algs = x.algs /\ y.chunks = x.chunks /\ y.reqs = x.reqs /\ y.reads = x.reads
      /\ y.closed = x.closed /\ y.rp = x.rp /\ y.rv = x.rv
  BY <1>2 DEF RAgree
<1>6. Requests(y) /\ Stored(y)
  BY <1>1, <1>5 DEF Requests, Stored, Got, InQueue
<1>7. Retained(y, {})
  BY <1>5 DEF RGood, Retained, InQueue, WasRead, Got
<1>8. RGood(y) /\ Counts(x, y)
  BY <1>1, <1>4, <1>5, <1>6, <1>7 DEF RGood, RBase, Counts
<1>9. Fine(x) => Fine(y)
  <2>1. Ordered(x) => Ordered(y)
    BY <1>5 DEF Ordered, Got, NoRequests
  <2>2. Complete(x, {}) => Complete(y, {})
    BY <1>3, <1>5 DEF Complete, WasRead, Got
  <2>3. Ended(x) => Ended(y)
    BY <1>5 DEF Ended, Shown, NoRequests
  <2> QED
    BY <2>1, <2>2, <2>3 DEF Fine
<1> QED
  BY <1>2, <1>3, <1>8, <1>9 DEF y

(* getReader() on an unlocked stream, where no request is left over.       *)
LEMMA AcquireReaderKeeps ==
  ASSUME NEW x, RGood(x), x.reader = NoReader, x.readers < MaxReaders
  PROVE  LET y == AcquireReader(x)
         IN  /\ RGood(y) /\ y.chunks = x.chunks /\ (Fine(x) => Fine(y))
             /\ RAgree(x, y, {"readers", "reader", "closed"}) /\ y.reader = x.readers + 1
<1> DEFINE d == x.readers + 1
           p == CASE x.st = "readable" -> "pending" [] x.st = "closed" -> "ok"
                  [] x.st = "errored" -> "err"
           f == [x.closed EXCEPT ![d] = p]
           y == AcquireReader(x)
           Parts == {"readers", "reader", "closed"}
<1>1. /\ RTypes(x) /\ DOMAIN x = RFields /\ Requests(x) /\ Stored(x) /\ ~x.panic
      /\ x.readers \in MaybeReader /\ x.closed \in [ReaderIds -> Promise]
      /\ x.st \in {"readable", "closed", "errored"}
  BY DEF RGood, RBase, RTypes
<1>2. d \in ReaderIds /\ d \in MaybeReader /\ d # NoReader
  BY <1>1, ReadableBounds DEF ReaderIds, MaybeReader, NoReader
<1>3. /\ x.st = "readable" => p = "pending"
      /\ x.st = "closed" => p = "ok"
      /\ x.st = "errored" => p = "err"
  BY Zenon
<1>4. y = [x EXCEPT !.readers = d, !.reader = d, !.closed = f]
  BY Zenon DEF AcquireReader
<1> HIDE DEF p, y
<1>5. p \in Promise
  BY <1>1, <1>3 DEF Promise
<1>6. f \in [ReaderIds -> Promise] /\ f[d] = p
  BY <1>1, <1>2, <1>5
<1> HIDE DEF f
<1>7. RAgree(x, y, Parts) /\ y.readers = d /\ y.reader = d /\ y.closed = f
  BY <1>1, <1>4 DEF RAgree, RFields
<1>8. RTypes(y)
  <2>1. RTyped(y, Parts)
    BY <1>2, <1>6, <1>7 DEF RTyped
  <2> QED
    BY <1>1, <1>7, <2>1, RTypesCarry
<1>9. /\ y.queue = x.queue /\ y.panic = x.panic /\ y.st = x.st /\ y.algs = x.algs
      /\ y.chunks = x.chunks /\ y.reqs = x.reqs /\ y.reads = x.reads
      /\ y.rp = x.rp /\ y.rv = x.rv /\ y.cancelP = x.cancelP
  BY <1>7 DEF RAgree
<1>10. NoRequests(x) /\ NoRequests(y)
  <2>1. \A e \in ReaderIds : e # NoReader
    BY DEF ReaderIds, NoReader
  <2> QED
    BY <1>1, <1>9, <2>1 DEF NoRequests, Requests
<1>11. Requests(y)
  BY <1>1, <1>9, <1>10 DEF Requests, NoRequests
<1>12. Stored(y) /\ Retained(y, {})
  <2>1. Stored(y)
    BY <1>1, <1>9 DEF Stored, Got, InQueue
  <2>2. Retained(y, {})
    BY <1>9 DEF RGood, Retained, InQueue, WasRead, Got
  <2> QED
    BY <2>1, <2>2
<1>13. RGood(y)
  BY <1>1, <1>8, <1>9, <1>11, <1>12 DEF RGood, RBase
<1>14. Fine(x) => Fine(y)
  <2>1. Ordered(x) => Ordered(y)
    BY <1>9 DEF Ordered, Got, NoRequests
  <2>2. Complete(x, {}) => Complete(y, {})
    BY <1>9 DEF Complete, WasRead, Got
  <2>3. Ended(y)
    BY <1>3, <1>6, <1>7, <1>9, <1>10 DEF Ended, Shown
  <2> QED
    BY <2>1, <2>2, <2>3 DEF Fine
<1> QED
  BY <1>7, <1>9, <1>13, <1>14 DEF y

(* releaseLock() drops the requests of the reader.                         *)
LEMMA ReleaseReaderKeeps ==
  ASSUME NEW x, RGood(x), x.reader \in ReaderIds
  PROVE  LET y == ReleaseReader(x, x.reader)
         IN  /\ RGood(y) /\ y.chunks = x.chunks /\ (Fine(x) => Fine(y))
             /\ y.st = x.st /\ y.cancelP = x.cancelP /\ y.reads = x.reads
<1> DEFINE d == x.reader
           fq == [x.reqs EXCEPT ![d] = <<>>]
           fc == [x.closed EXCEPT ![d] = "err"]
           t == [x EXCEPT !.reqs = fq, !.closed = fc, !.reader = NoReader]
           y == ReleaseReader(x, d)
           Parts == {"reqs", "closed", "reader"}
<1>1. /\ RTypes(x) /\ DOMAIN x = RFields /\ Requests(x) /\ Stored(x) /\ ~x.panic
      /\ x.reqs \in [ReaderIds -> Seq(ReadIds)] /\ x.closed \in [ReaderIds -> Promise]
  BY DEF RGood, RBase, RTypes
<1>2. /\ fq \in [ReaderIds -> Seq(ReadIds)] /\ fc \in [ReaderIds -> Promise]
      /\ \A e \in ReaderIds : fq[e] = <<>>
  BY <1>1, EmptySeq DEF Promise, Requests
<1>3. y = SettleReads(t, d, "err")
  BY DEF ReleaseReader
<1> HIDE DEF fq, fc, y
<1>4. RAgree(x, t, Parts) /\ t.reqs = fq /\ t.closed = fc /\ t.reader = NoReader
  BY <1>1 DEF RAgree, RFields
<1> HIDE DEF t
<1>5. RTypes(t)
  <2>1. NoReader \in MaybeReader
    BY ReadableBounds DEF NoReader, MaybeReader
  <2>2. RTyped(t, Parts)
    BY <1>2, <1>4, <2>1 DEF RTyped
  <2> QED
    BY <1>1, <1>4, <2>2, RTypesCarry
<1>6. /\ RAgree(t, y, {"rp", "reqs"}) /\ RTypes(y)
      /\ y.reqs = [t.reqs EXCEPT ![d] = <<>>]
      /\ \A i \in ReadIds : y.rp[i] = IF i \in Elements(t.reqs[d]) THEN "err" ELSE t.rp[i]
  <2>1. "err" \in ReadAnswer
    BY DEF ReadAnswer
  <2> QED
    BY <1>3, <1>5, <2>1, SettleReadsEffect
<1>7. /\ y.reader = NoReader /\ y.queue = x.queue /\ y.panic = x.panic /\ y.st = x.st
      /\ y.algs = x.algs /\ y.chunks = x.chunks /\ y.reads = x.reads
      /\ y.rv = x.rv /\ y.cancelP = x.cancelP /\ t.rp = x.rp
  BY <1>4, <1>6 DEF RAgree
<1>8. \A i \in ReadIds : y.rp[i] = x.rp[i]
  <2>1. Elements(t.reqs[d]) = {}
    BY <1>2, <1>4 DEF Elements
  <2> QED
    BY <1>6, <1>7, <2>1
<1>9. NoRequests(y)
  BY <1>1, <1>2, <1>4, <1>6 DEF NoRequests
<1>10. \A i \in ReadIds : Got(y, i) <=> Got(x, i)
  BY <1>8 DEF Got
<1>11. Requests(y)
  BY <1>1, <1>7, <1>8, <1>9 DEF Requests, NoRequests
<1>12. Stored(y) /\ Retained(y, {})
  <2>1. Stored(y)
    BY <1>1, <1>7, <1>10 DEF Stored, InQueue
  <2>2. Retained(y, {})
    BY <1>7, <1>10 DEF RGood, Retained, InQueue, WasRead
  <2> QED
    BY <2>1, <2>2
<1>13. RGood(y)
  BY <1>1, <1>6, <1>7, <1>11, <1>12 DEF RGood, RBase
<1>14. Fine(x) => Fine(y)
  <2>1. \A e \in ReaderIds : DOMAIN y.reqs[e] = {}
    BY <1>9 DEF NoRequests
  <2>2. Ordered(x) => Ordered(y)
    BY <1>7, <1>9, <1>10, <2>1 DEF Ordered
  <2>3. Complete(x, {}) => Complete(y, {})
    BY <1>7, <1>10 DEF Complete, WasRead
  <2>4. Ended(y)
    BY <1>7, <1>9 DEF Ended, Shown
  <2> QED
    BY <2>2, <2>3, <2>4 DEF Fine
<1> QED
  BY <1>7, <1>13, <1>14 DEF y

(* The reader of a locked stream is one of its readers.                    *)
LEMMA LockedReader ==
  ASSUME NEW x, RGood(x)
  PROVE  x.reader \in MaybeReader /\ (x.reader # NoReader <=> x.reader \in ReaderIds)
<1>1. x.reader \in MaybeReader
  BY DEF RGood, RBase, RTypes
<1> QED
  BY <1>1 DEF MaybeReader, ReaderIds, NoReader

(* A new stream satisfies the invariant.                                   *)
LEMMA NewReadableGood ==
  ASSUME NEW hwm \in Nat, NEW r, r = NewReadable(hwm)
  PROVE  /\ RGood(r) /\ Fine(r) /\ r.chunks = 0 /\ r.reads = 0
         /\ r.reader = NoReader /\ r.readers = 0 /\ r.st = "readable" /\ r.cancelP = "none"
         /\ \A i \in ReadIds : r.rp[i] = "none"
<1>2. /\ DOMAIN r = RFields /\ r.st = "readable" /\ r.reader = NoReader /\ r.queue = <<>>
      /\ r.disturbed = FALSE /\ r.total = 0 /\ r.closeRequested = FALSE
      /\ r.pulling = FALSE /\ r.pullAgain = FALSE /\ r.started = FALSE /\ r.algs = TRUE
  BY DEF NewReadable, RFields
<1>3. /\ r.hwm = hwm /\ r.pend = {"start"} /\ r.panic = FALSE /\ r.chunks = 0
      /\ r.reads = 0 /\ r.readers = 0 /\ r.cancelP = "none"
      /\ r.size = [v \in ChunkIds |-> 0] /\ r.reqs = [e \in ReaderIds |-> <<>>]
      /\ r.closed = [e \in ReaderIds |-> "none"] /\ r.rp = [i \in ReadIds |-> "none"]
      /\ r.rv = [i \in ReadIds |-> NoChunk]
  BY DEF NewReadable, RFields, ChunkIds, ReaderIds, ReadIds
<1>4. RTypes(r)
  <2>1. /\ 0 \in MaybeReader /\ 0 \in 0..MaxChunks /\ 0 \in 0..MaxReads /\ hwm \in Nat
    BY ReadableBounds DEF MaybeReader
  <2>2. r.reqs \in [ReaderIds -> Seq(ReadIds)] /\ r.queue \in Seq(ChunkIds)
    BY <1>2, <1>3, EmptySeq
  <2>3. /\ r.size \in [ChunkIds -> Nat] /\ r.closed \in [ReaderIds -> Promise]
        /\ r.rp \in [ReadIds -> ReadAnswer] /\ r.rv \in [ReadIds -> 0..MaxChunks]
        /\ r.cancelP \in Promise
    BY <1>3, <2>1 DEF Promise, ReadAnswer, NoChunk
  <2>4. r.reader \in MaybeReader /\ r.pend \in SUBSET {"start", "pull", "cancel"}
    BY <1>2, <1>3, <2>1 DEF NoReader
  <2>5. /\ r.disturbed \in BOOLEAN /\ r.closeRequested \in BOOLEAN /\ r.pulling \in BOOLEAN
        /\ r.pullAgain \in BOOLEAN /\ r.started \in BOOLEAN /\ r.algs \in BOOLEAN
        /\ r.panic \in BOOLEAN
    BY <1>2, <1>3
  <2>6. /\ r.total \in Nat /\ r.hwm \in Nat /\ r.chunks \in 0..MaxChunks
        /\ r.reads \in 0..MaxReads /\ r.readers \in MaybeReader
        /\ r.st \in {"readable", "closed", "errored"}
    BY <1>2, <1>3, <2>1
  <2> QED
    BY <1>2, <2>2, <2>3, <2>4, <2>5, <2>6 DEF RTypes
<1>5. NoRequests(r) /\ \A i \in ReadIds : r.rp[i] = "none" /\ ~Got(r, i)
  BY <1>3 DEF NoRequests, Got
<1>6. \A e \in ReaderIds : DOMAIN r.reqs[e] = {}
  BY <1>5 DEF NoRequests
<1>7. Requests(r)
  BY <1>5, <1>6 DEF Requests, NoRequests
<1>8. Stored(r) /\ Ordered(r)
  BY <1>2, <1>5, <1>6 DEF Stored, Ordered
<1>9. Retained(r, {}) /\ Complete(r, {})
  <2>1. \A v \in ChunkIds : ~(v <= 0)
    BY DEF ChunkIds
  <2> QED
    BY <1>3, <2>1 DEF Retained, Complete
<1>10. RGood(r)
  BY <1>2, <1>3, <1>4, <1>7, <1>8, <1>9 DEF RGood, RBase
<1>11. Fine(r)
  BY <1>2, <1>5, <1>8, <1>9 DEF Fine, Ended, Shown
<1> QED
  BY <1>2, <1>3, <1>5, <1>10, <1>11

==============================================================================
