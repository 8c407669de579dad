----------------------------- MODULE PipeProofs -----------------------------
(***************************************************************************)
(* Proofs about Pipe, for every pair of high water marks, every set of     *)
(* options, any number of chunks, and every interleaving of the pipe's     *)
(* reactions with those of the source, the sink and the signal: chunks are *)
(* written in order and within the destination's high water mark, a chunk  *)
(* that was read is written while the destination is open, and a pipe that *)
(* succeeds has moved everything.                                          *)
(*                                                                         *)
(* The streams keep the invariants of StreamLemmas.  What relates them is  *)
(* said by the operators below, of a source x, a destination y and a pipe  *)
(* q: a step of Pipe computes new records before it assigns them, and its  *)
(* parts are shown to keep PipeFits of those records.                      *)
(***************************************************************************)
EXTENDS Pipe, StreamLemmas

PipeFields ==
  {"preventClose", "preventAbort", "preventCancel", "throws", "signal",
   "armed", "loop", "ready", "sent", "cur", "waitFor", "shutting", "phase",
   "action", "failed", "needs", "rejected", "result"}

Begun(q) == q.phase # "off"
Going(q) == q.phase \notin {"done", "threw"}

(* The destination takes a write, or has begun to end without an error.    *)
Accepts(y) == y.st = "writable" /\ ~CloseQueuedOrInFlight(y)
Ending(y) == CloseQueuedOrInFlight(y) \/ y.st = "closed"

PipeTypes(q) ==
  /\ DOMAIN q = PipeFields
  /\ q.loop \in {"off", "next", "ready", "reading", "ended"}
  /\ q.phase \in {"off", "piping", "waiting", "acting", "done", "threw"}
  /\ q.action \in {"none", "abort", "cancel", "close", "both"}
  /\ q.result \in {"none", "pending", "ok", "err"}
  /\ q.shutting \in BOOLEAN /\ q.failed \in BOOLEAN /\ q.armed \in BOOLEAN
  /\ q.rejected \in BOOLEAN
  /\ q.sent \in Seq(Nat) /\ q.cur \in Nat

(* A pipe that goes on holds both locks, each the stream's first; only a   *)
(* shutdown can have met a close in flight.                                *)
Locks(x, y, q) ==
  /\ ~Begun(q) => /\ x.reader = NoReader /\ x.readers = 0
                  /\ y.writer = NoWriter /\ y.writers = 0
  /\ Begun(q) /\ Going(q) => x.reader = Reader /\ y.writer = Writer
  /\ Begun(q) /\ Going(q) /\ y.wr[Writer].late => q.shutting /\ q.loop \in {"next", "ended"}

(* The phases of the pipe.                                                 *)
Control(q) ==
  /\ ~Begun(q) => /\ q.loop = "off" /\ ~q.shutting /\ ~q.armed /\ q.action = "none"
                  /\ q.result = "none" /\ q.sent = <<>> /\ q.cur = NoChunk
  /\ Begun(q) /\ q.phase # "done" => q.result = "pending" /\ q.loop # "off"
  /\ q.phase \in {"waiting", "acting", "done", "threw"} => q.shutting
  /\ q.phase \in {"off", "piping", "waiting"} => q.needs = {}
  /\ q.phase = "piping" => ~q.shutting
  /\ q.phase = "acting" => q.action # "none"

(* The i-th read got chunk i, and what the reads got was sent.             *)
Sent(x, q) ==
  /\ \A k \in DOMAIN q.sent : q.sent[k] = k
  /\ Going(q) =>
       /\ \A i \in ReadIds : Got(x, i) <=> i <= Len(q.sent)
       /\ \A i \in ReadIds : Got(x, i) => x.rv[i] = i
       /\ \A i \in ReadIds : x.rp[i] = "pending" => q.loop = "reading" /\ i = x.reads
       /\ q.loop = "reading" => x.reads = Len(q.sent) + 1
       /\ q.loop \in {"off", "next", "ready"} => x.reads = Len(q.sent)

(* The loop reads, or is about to, only what an open destination has room  *)
(* for.                                                                    *)
Room(y, q) ==
  /\ y.total <= y.hwm /\ Exact(y)
  /\ Going(q) /\ (q.loop = "reading" \/ (q.loop = "ready" /\ q.ready = "ok")) /\ Accepts(y)
       => y.total < y.hwm

(* What was sent was written, unless the destination failed.               *)
Written(y, q) ==
  /\ y.st \in {"writable", "closed"} \/ y.inClose => y.writes = Len(q.sent)
  /\ y.writes <= Len(q.sent)
  /\ y.st = "writable" => q.cur = y.writes

(* A destination that is being closed gets no more chunks.                 *)
Closing(x, y, q) ==
  /\ Ending(y) => \/ x.st # "readable" \/ q.loop \in {"off", "ended"}
                  \/ q.loop = "next" /\ q.shutting
  /\ Ending(y) /\ ~q.shutting => q.sent = <<>>

(* A shutdown without an error comes of a source that ended by itself.     *)
Reasons(x, q) ==
  /\ q.shutting /\ ~q.failed => x.st = "closed"
  /\ x.cancelP # "none" => q.shutting /\ q.failed /\ x.st # "readable"
  /\ q.action = "close" => q.shutting /\ ~q.failed
  /\ q.action \in {"cancel", "both"} => q.failed

(* No write is pending.                                                    *)
Flushed(y) == \A i \in WriteIds : y.wp[i] # "pending"

(* What the pipe's promise says when it settles.                           *)
Outcome(x, y, q) ==
  q.phase = "done" =>
    /\ q.action = "none" /\ y.st = "writable" => Flushed(y)
    /\ q.result = "ok" => /\ x.st = "closed" /\ Len(q.sent) = x.chunks
                          /\ "close" \in q.needs =>
                               y.st = "closed" /\ \A i \in 1..x.chunks : y.wp[i] = "ok"

Streams(x, y) == RGood(x) /\ Fine(x) /\ Good(y) /\ Busy(y)

PipeFits(x, y, q) ==
  /\ Streams(x, y) /\ PipeTypes(q) /\ Locks(x, y, q) /\ Control(q) /\ Sent(x, q)
  /\ Room(y, q) /\ Written(y, q) /\ Closing(x, y, q) /\ Reasons(x, q) /\ Outcome(x, y, q)

(* The inductive invariant.                                                *)
PInv == PipeFits(r, w, p)

------------------------------------------------------------------------------
(* Records.                                                                *)

(* q2 differs from q in what the invariant does not read.                  *)
Alike(q, q2) ==
  /\ DOMAIN q2 = PipeFields /\ q2.loop = q.loop /\ q2.ready = q.ready
  /\ q2.sent = q.sent /\ q2.cur = q.cur /\ q2.shutting = q.shutting
  /\ q2.phase = q.phase /\ q2.action = q.action /\ q2.failed = q.failed
  /\ q2.needs = q.needs /\ q2.result = q.result
  /\ q2.armed \in BOOLEAN /\ q2.rejected \in BOOLEAN
  /\ q.phase = "off" => q2.armed = q.armed

(* The other fields do not matter.                                         *)
LEMMA AlikeFits ==
  ASSUME NEW x, NEW y, NEW q, NEW q2, PipeFits(x, y, q), Alike(q, q2)
  PROVE  PipeFits(x, y, q2)
<1>1. /\ PipeTypes(q2) /\ Control(q2)
  BY DEF PipeFits, Alike, PipeTypes, Control, Begun
<1>2. /\ Locks(x, y, q2) /\ Sent(x, q2) /\ Room(y, q2)
  BY DEF PipeFits, Alike, Locks, Sent, Room, Begun, Going
<1>3. /\ Written(y, q2) /\ Closing(x, y, q2) /\ Reasons(x, q2) /\ Outcome(x, y, q2)
  BY DEF PipeFits, Alike, Written, Closing, Reasons, Outcome
<1> QED
  BY <1>1, <1>2, <1>3 DEF PipeFits

(* A writer that is ready means room in the queue of an open destination.  *)
LEMMA ReadyMeansRoom ==
  ASSUME NEW y, Good(y), Exact(y), y.writer = Writer, ~y.wr[Writer].late,
         y.wr[Writer].ready = "ok", Accepts(y)
  PROVE  y.total < y.hwm
<1>1. Punctual(y) /\ Shows(y, Writer) /\ y.total \in Nat /\ y.hwm \in Nat /\ y.bp \in BOOLEAN
  BY DEF Good, Base, Types, Follows, Punctual, Writer, NoWriter
<1>2. ~y.bp
  BY <1>1 DEF Shows, Accepts
<1> QED
  BY <1>1, <1>2 DEF Exact, Accepts, Backpressure

(* The promise the loop waits for follows the writer's.                    *)
LEMMA StepFits ==
  ASSUME NEW x, NEW y, NEW q, PipeFits(x, y, q), Step(x, y, q)
  PROVE  PInv'
<1> DEFINE v == IF q.ready = "pending" THEN y.wr[Writer].ready ELSE q.ready
           q2 == [q EXCEPT !.ready = v]
<1>1. r' = x /\ w' = y /\ p' = q2
  BY DEF Step
<1>2. DOMAIN q = PipeFields /\ Streams(x, y) /\ Locks(x, y, q) /\ Control(q) /\ Room(y, q)
  BY DEF PipeFits, PipeTypes
<1>3. /\ DOMAIN q2 = PipeFields /\ q2.loop = q.loop /\ q2.ready = v
      /\ q2.sent = q.sent /\ q2.cur = q.cur /\ q2.shutting = q.shutting
      /\ q2.phase = q.phase /\ q2.action = q.action /\ q2.failed = q.failed
      /\ q2.needs = q.needs /\ q2.result = q.result /\ q2.armed = q.armed
      /\ q2.rejected = q.rejected
  BY <1>2 DEF PipeFields
<1> HIDE DEF q2
<1>4. PipeTypes(q2) /\ Control(q2)
  BY <1>3 DEF PipeFits, PipeTypes, Control, Begun
<1>5. Locks(x, y, q2) /\ Sent(x, q2)
  BY <1>3 DEF PipeFits, Locks, Sent, Begun, Going
<1>6. /\ Written(y, q2) /\ Closing(x, y, q2) /\ Reasons(x, q2) /\ Outcome(x, y, q2)
  BY <1>3 DEF PipeFits, Written, Closing, Reasons, Outcome
<1>7. Room(y, q2)
  <2>1. SUFFICES ASSUME Going(q), q.loop = "ready", v = "ok", q.ready # "ok", Accepts(y)
                 PROVE  y.total < y.hwm
    BY <1>2, <1>3 DEF Room, Going
  <2>2. y.wr[Writer].ready = "ok" /\ Begun(q)
    BY <1>2, <2>1 DEF Control
  <2>3. y.writer = Writer /\ ~y.wr[Writer].late
    BY <1>2, <2>1, <2>2 DEF Locks
  <2> QED
    BY <1>2, <2>1, <2>2, <2>3, ReadyMeansRoom DEF Streams, Room
<1>8. PipeFits(x, y, q2)
  BY <1>2, <1>4, <1>5, <1>6, <1>7 DEF PipeFits
<1> QED
  BY <1>1, <1>8 DEF PInv

------------------------------------------------------------------------------
(* What the sink, the source and the callers of the destination do.        *)

(* A tame step of the destination.                                         *)
LEMMA SinkFits ==
  ASSUME NEW x, NEW y, NEW q, NEW y2, PipeFits(x, y, q), Going(q), Good(y2), Busy(y2),
         Kept(y, y2), Tame(y, y2), Exact(y) => Exact(y2)
  PROVE  PipeFits(x, y2, q)
<1>1. /\ Streams(x, y) /\ PipeTypes(q) /\ Locks(x, y, q) /\ Control(q) /\ Sent(x, q)
      /\ Room(y, q) /\ Written(y, q) /\ Closing(x, y, q) /\ Reasons(x, q)
  BY DEF PipeFits
<1>2. Writer \in WriterIds
  BY PipeBounds, WritableBounds DEF Writer, WriterIds
<1>3. Locks(x, y2, q)
  BY <1>1, <1>2 DEF Locks, Kept
<1>4. Room(y2, q)
  <2>1. /\ y.total \in Nat /\ y.hwm \in Nat /\ y2.total \in Nat /\ y2.total <= y.total
        /\ y2.hwm = y.hwm /\ (Accepts(y2) => Accepts(y))
    BY <1>1 DEF Streams, Good, Base, Types, Tame, Accepts
  <2> QED
    BY <1>1, <2>1 DEF Room
<1>5. Written(y2, q)
  BY <1>1 DEF Written, Kept, Tame
<1>6. Closing(x, y2, q)
  BY <1>1 DEF Closing, Ending, Tame
<1>7. Outcome(x, y2, q)
  BY DEF Outcome, Going
<1> QED
  BY <1>1, <1>3, <1>4, <1>5, <1>6, <1>7 DEF PipeFits, Streams

(* Closing the destination before the pipe, or when the source has ended.  *)
LEMMA CloseFits ==
  ASSUME NEW x, NEW y, NEW q, PipeFits(x, y, q), Going(q), ~CloseQueuedOrInFlight(y),
         ~Begun(q) \/ (q.shutting /\ x.st # "readable")
  PROVE  PipeFits(x, WritableClose(y, y.writer), q)
<1> DEFINE y2 == WritableClose(y, y.writer)
<1>1. /\ Streams(x, y) /\ PipeTypes(q) /\ Locks(x, y, q) /\ Control(q) /\ Sent(x, q)
      /\ Room(y, q) /\ Written(y, q) /\ Closing(x, y, q) /\ Reasons(x, q)
  BY DEF PipeFits
<1>2. /\ Good(y2) /\ Busy(y2) /\ Kept(y, y2)
      /\ y2.hwm = y.hwm /\ y2.total \in Nat /\ y2.total <= y.total
      /\ y2.st = "writable" => y.st = "writable" /\ CloseQueuedOrInFlight(y2)
      /\ y2.st = "closed" \/ y2.inClose => y.st \in {"writable", "closed"}
  BY <1>1, WritableCloseKeeps DEF Streams
<1> HIDE DEF y2
<1>3. Writer \in WriterIds
  BY PipeBounds, WritableBounds DEF Writer, WriterIds
<1>4. Locks(x, y2, q)
  BY <1>1, <1>2, <1>3 DEF Locks, Kept
<1>5. Room(y2, q)
  <2>1. y.total \in Nat /\ y.hwm \in Nat /\ Exact(y2) /\ ~Accepts(y2)
    BY <1>1, <1>2 DEF Streams, Good, Base, Types, Accepts, Exact
  <2> QED
    BY <1>1, <1>2, <2>1 DEF Room
<1>6. Written(y2, q)
  BY <1>1, <1>2 DEF Written, Kept
<1>7. Closing(x, y2, q)
  BY <1>1 DEF Closing, Control
<1>8. Outcome(x, y2, q)
  BY DEF Outcome, Going
<1> QED
  BY <1>1, <1>2, <1>4, <1>5, <1>6, <1>7, <1>8 DEF PipeFits, Streams, y2

(* The abort of the destination, with the signal's listeners.              *)
LEMMA AbortFits ==
  ASSUME NEW x, NEW y, NEW q, PipeFits(x, y, q), Going(q), NEW v, v = y.writer
  PROVE  /\ PipeFits(x, AbortAfterSignal([y EXCEPT !.signalled = TRUE], v), q)
         /\ PipeFits(x, [y EXCEPT !.signalled = TRUE], q)
<1> DEFINE t == [y EXCEPT !.signalled = TRUE]
           z == AbortAfterSignal(t, v)
<1>1. Good(y) /\ Busy(y) /\ Types(y)
  BY DEF PipeFits, Streams, Good, Base
<1>2. Good(t) /\ Busy(t) /\ Kept(y, t) /\ Steady(y, t)
  BY <1>1, SignalKeeps
<1> HIDE DEF t
<1>3. Told(t, v) /\ Types(t)
  BY <1>2 DEF Told, Kept, Good, Base, Types
<1>4. Good(z) /\ Busy(z) /\ Kept(t, z) /\ Steady(t, z)
  BY <1>2, <1>3, AbortAfterSignalKeeps
<1> HIDE DEF z
<1>5. Kept(y, z) /\ Tame(y, z) /\ (Exact(y) => Exact(z))
  BY <1>1, <1>2, <1>4, TameTrans, KeptTrans DEF Steady
<1>6. PipeFits(x, z, q)
  BY <1>4, <1>5, SinkFits
<1>7. PipeFits(x, t, q)
  BY <1>2, SinkFits DEF Steady
<1> QED
  BY <1>6, <1>7 DEF z, t

------------------------------------------------------------------------------
(* Reading.                                                                *)

(* The read i is the one the loop waits for.                               *)
Newest(x, q, i) == q.loop = "reading" /\ i = x.reads

(* Between the step of the source and its delivery: the newest read may    *)
(* have an answer, and if that is a chunk it is the next one and the       *)
(* destination is not being closed.                                        *)
Answered(x, y, q) ==
  /\ Streams(x, y) /\ PipeTypes(q) /\ Going(q) /\ Locks(x, y, q) /\ Control(q)
  /\ Room(y, q) /\ Written(y, q) /\ Closing(x, y, q) /\ Reasons(x, q)
  /\ \A k \in DOMAIN q.sent : q.sent[k] = k
  /\ \A i \in ReadIds : ~Newest(x, q, i) =>
       /\ Got(x, i) <=> i <= Len(q.sent)
       /\ Got(x, i) => x.rv[i] = i
       /\ x.rp[i] # "pending"
  /\ q.loop = "reading" => x.reads = Len(q.sent) + 1
  /\ q.loop \in {"off", "next", "ready"} => x.reads = Len(q.sent)
  /\ q.loop = "reading" /\ Got(x, x.reads) => x.rv[x.reads] = x.reads /\ ~Ending(y)

(* The chunk after those that were read, when none is lost, is the next.   *)
LEMMA NextChunk ==
  ASSUME NEW x, RGood(x), Fine(x), NEW n \in Nat, x.reads = n + 1, Got(x, n + 1),
         \A i \in ReadIds : i # n + 1 => (Got(x, i) => i <= n /\ x.rv[i] = i),
         \A i \in ReadIds : i <= n => Got(x, i),
         x.st # "errored", x.st = "closed" => x.cancelP = "none"
  PROVE  x.rv[n + 1] = n + 1
<1> DEFINE m == n + 1
           v == x.rv[m]
<1>1. /\ RTypes(x) /\ Stored(x) /\ Retained(x, {}) /\ Complete(x, {}) /\ Ordered(x)
  BY DEF RGood, RBase, Fine
<1>2. m \in ReadIds /\ MaxReads \in Nat /\ MaxChunks \in Nat /\ x.chunks \in Nat
      /\ x.chunks <= MaxChunks
  BY <1>1, ReadableBounds DEF RTypes, ReadIds
<1>3. v \in 1..x.chunks
  BY <1>1, <1>2 DEF Stored
<1>4. v >= m
  <2>1. CASE n = 0
    BY <1>3, <2>1
  <2>2. CASE n # 0
    <3>1. n \in ReadIds /\ n < m /\ n <= n /\ n # n + 1
      BY <1>2, <2>2 DEF ReadIds
    <3>2. Got(x, n) /\ x.rv[n] = n
      BY <3>1
    <3>3. n < v
      BY <1>1, <1>2, <3>1, <3>2 DEF Ordered
    <3> QED
      BY <1>3, <3>3
  <2> QED
    BY <2>1, <2>2
<1>5. ASSUME v # m PROVE FALSE
  <2>1. m \in ChunkIds /\ m <= x.chunks /\ m < v
    BY <1>2, <1>3, <1>4, <1>5 DEF ChunkIds
  <2>2. InQueue(x, m) \/ WasRead(x, m)
    <3>1. x.st \in {"readable", "closed"}
      BY <1>1 DEF RTypes
    <3> QED
      BY <1>1, <2>1, <3>1 DEF Retained, Complete
  <2>3. ~WasRead(x, m)
    <3>1. \A i \in ReadIds : Got(x, i) => x.rv[i] # m
      BY <1>5
    <3> QED
      BY <3>1 DEF WasRead
  <2>4. ~InQueue(x, m)
    <3>1. \A k \in DOMAIN x.queue : v < x.queue[k]
      BY <1>1, <1>2 DEF Ordered
    <3>2. ~(v < m)
      BY <1>3, <2>1
    <3> QED
      BY <3>1, <3>2 DEF InQueue
  <2> QED
    BY <2>2, <2>3, <2>4
<1> QED
  BY <1>5

(* No more was sent than the source has enqueued.                          *)
LEMMA SentBound ==
  ASSUME NEW x, RGood(x), NEW n \in Nat, n \in ReadIds \/ n = 0,
         \A i \in ReadIds : i <= n => Got(x, i) /\ x.rv[i] = i
  PROVE  n <= x.chunks /\ x.chunks \in 0..MaxChunks
<1>1. Stored(x) /\ x.chunks \in 0..MaxChunks
  BY DEF RGood, RBase, RTypes
<1>2. n \in ReadIds => n \in 1..x.chunks
  <2>1. n <= n
    OBVIOUS
  <2> QED
    BY <1>1, <2>1 DEF Stored
<1> QED
  BY <1>1, <1>2, ReadableBounds

(* A step of the source.                                                   *)
LEMMA SourceFits ==
  ASSUME NEW x, NEW y, NEW q, NEW x2, PipeFits(x, y, q), Going(q),
         RGood(x2), Fine(x2), Moves(x, x2)
  PROVE  Answered(x2, y, q)
<1>1. /\ Streams(x, y) /\ PipeTypes(q) /\ Locks(x, y, q) /\ Control(q) /\ Sent(x, q)
      /\ Room(y, q) /\ Written(y, q) /\ Closing(x, y, q) /\ Reasons(x, q)
  BY DEF PipeFits
<1>2. /\ x2.reader = x.reader /\ x2.readers = x.readers /\ x2.reads = x.reads
      /\ x2.cancelP = x.cancelP /\ (x.st # "readable" => x2.st = x.st)
      /\ \A j \in ReadIds :
           x.rp[j] # "pending" => x2.rp[j] = x.rp[j] /\ x2.rv[j] = x.rv[j]
      /\ \A j \in ReadIds : Got(x2, j) => Got(x, j) \/ (x.st = "readable" /\ x2.st # "errored")
  BY DEF Moves, Onward
<1>3. Locks(x2, y, q)
  BY <1>1, <1>2 DEF Locks
<1>4. Closing(x2, y, q)
  BY <1>1, <1>2 DEF Closing
<1>5. Reasons(x2, q)
  BY <1>1, <1>2 DEF Reasons
<1>6. ASSUME NEW i \in ReadIds, ~Newest(x2, q, i)
      PROVE  /\ Got(x2, i) <=> i <= Len(q.sent)
             /\ Got(x2, i) => x2.rv[i] = i
             /\ x2.rp[i] # "pending"
  <2>1. x.rp[i] # "pending"
    BY <1>1, <1>2, <1>6 DEF Sent, Newest
  <2> QED
    BY <1>1, <1>2, <2>1 DEF Sent, Got
<1>7. ASSUME q.loop = "reading", Got(x2, x2.reads)
      PROVE  x2.rv[x2.reads] = x2.reads /\ ~Ending(y)
  <2> DEFINE n == Len(q.sent)
  <2>1. n \in Nat /\ x2.reads = n + 1
    BY <1>1, <1>2, <1>7 DEF Sent, PipeTypes
  <2> HIDE DEF n
  <2>2. n + 1 \in ReadIds
    <3>1. x2.reads \in 0..MaxReads
      BY DEF RGood, RBase, RTypes
    <3> QED
      BY <2>1, <3>1, ReadableBounds DEF ReadIds
  <2>3. ~Got(x, n + 1)
    BY <1>1, <2>1, <2>2 DEF Sent, n
  <2>4. x.st = "readable" /\ x2.st # "errored"
    BY <1>2, <1>7, <2>1, <2>2, <2>3
  <2>5. x2.cancelP = "none" /\ ~Ending(y)
    BY <1>1, <1>2, <1>7, <2>4 DEF Reasons, Closing
  <2>6. \A i \in ReadIds : i # n + 1 => /\ (Got(x2, i) <=> i <= n)
                                        /\ (Got(x2, i) => x2.rv[i] = i)
    BY <1>6, <2>1 DEF Newest, n
  <2>7. \A i \in ReadIds : i <= n => i # n + 1
    BY <2>1
  <2>8. x2.rv[n + 1] = n + 1
    BY <1>7, <2>1, <2>4, <2>5, <2>6, <2>7, NextChunk
  <2> QED
    BY <2>1, <2>5, <2>8
<1>8. /\ \A k \in DOMAIN q.sent : q.sent[k] = k
      /\ q.loop = "reading" => x2.reads = Len(q.sent) + 1
      /\ q.loop \in {"off", "next", "ready"} => x2.reads = Len(q.sent)
  BY <1>1, <1>2 DEF Sent
<1> QED
  BY <1>1, <1>3, <1>4, <1>5, <1>6, <1>7, <1>8 DEF Answered, Streams

(* The loop's read, of a destination that was ready.                       *)
LEMMA ReadFits ==
  ASSUME NEW x, NEW y, NEW q, PipeFits(x, y, q), Going(q), q.loop = "ready", q.ready = "ok"
  PROVE  Answered(DefaultReaderRead(x, Reader), y, [q EXCEPT !.loop = "reading"])
<1> DEFINE x2 == DefaultReaderRead(x, Reader)
           q2 == [q EXCEPT !.loop = "reading"]
           n == Len(q.sent)
<1>1. /\ Streams(x, y) /\ PipeTypes(q) /\ Locks(x, y, q) /\ Control(q) /\ Sent(x, q)
      /\ Room(y, q) /\ Written(y, q) /\ Closing(x, y, q) /\ Reasons(x, q)
      /\ RGood(x) /\ Fine(x)
  BY DEF PipeFits, Streams
<1>2. /\ n \in Nat /\ x.reads = n /\ x.reads \in 0..MaxReads /\ Begun(q)
      /\ x.reader = Reader /\ Reader \in ReaderIds
  BY <1>1, PipeBounds, ReadableBounds
     DEF PipeTypes, Sent, RGood, RBase, RTypes, Control, Locks, Reader, ReaderIds
<1>3. x.reads < MaxReads /\ n + 1 \in ReadIds
  <2>1. n \in ReadIds \/ n = 0
    BY <1>2, ReadableBounds DEF ReadIds
  <2>2. n <= x.chunks /\ x.chunks \in 0..MaxChunks
    BY <1>1, <1>2, <2>1, SentBound DEF Sent
  <2> HIDE DEF n
  <2> QED
    BY <1>2, <2>2, PipeBounds, ReadableBounds DEF ReadIds
<1>4. /\ DOMAIN q2 = PipeFields /\ q2.loop = "reading" /\ q2.ready = q.ready
      /\ q2.sent = q.sent /\ q2.cur = q.cur /\ q2.shutting = q.shutting
      /\ q2.phase = q.phase /\ q2.action = q.action /\ q2.failed = q.failed
      /\ q2.needs = q.needs /\ q2.result = q.result /\ q2.armed = q.armed
      /\ q2.rejected = q.rejected
  BY <1>1 DEF PipeTypes, PipeFields
<1> HIDE DEF q2, n
<1>5. /\ RGood(x2) /\ Fine(x2) /\ Onward(x, x2, {n + 1}) /\ x2.reads = n + 1
      /\ x2.cancelP = x.cancelP
      /\ x.st = "closed" => x2.rp[x2.reads] = "done"
      /\ x.st = "errored" => x2.rp[x2.reads] = "err"
  BY <1>1, <1>2, <1>3, ReadKeeps
<1> HIDE DEF x2
<1>6. /\ x2.reader = x.reader /\ x2.readers = x.readers
      /\ (x.st # "readable" => x2.st = x.st)
      /\ \A j \in ReadIds \ {n + 1} :
           x.rp[j] # "pending" => x2.rp[j] = x.rp[j] /\ x2.rv[j] = x.rv[j]
      /\ \A j \in ReadIds : Got(x2, j) => Got(x, j) \/ (x.st = "readable" /\ x2.st # "errored")
  BY <1>5 DEF Onward
<1>7. PipeTypes(q2) /\ Control(q2) /\ Going(q2)
  BY <1>1, <1>2, <1>4 DEF PipeTypes, Control, Begun, Going
<1>8. Locks(x2, y, q2)
  BY <1>1, <1>2, <1>4, <1>6 DEF Locks, Begun, Going
<1>9. Room(y, q2) /\ Written(y, q2)
  BY <1>1, <1>4 DEF Room, Written, Going
<1>10. Closing(x2, y, q2) /\ Reasons(x2, q2)
  BY <1>1, <1>4, <1>5, <1>6 DEF Closing, Reasons
<1>11. ASSUME NEW i \in ReadIds, i # n + 1
       PROVE  /\ Got(x2, i) <=> i <= n
              /\ Got(x2, i) => x2.rv[i] = i
              /\ x2.rp[i] # "pending"
  <2>1. x.rp[i] # "pending"
    BY <1>1 DEF Sent
  <2>2. x2.rp[i] = x.rp[i] /\ x2.rv[i] = x.rv[i]
    BY <1>6, <1>11, <2>1
  <2> QED
    BY <1>1, <2>1, <2>2 DEF Sent, Got, n
<1>12. ASSUME Got(x2, n + 1)
       PROVE  x2.rv[n + 1] = n + 1 /\ ~Ending(y)
  <2>1. x.st = "readable"
    <3>1. x.st \in {"readable", "closed", "errored"}
      BY <1>1 DEF RGood, RBase, RTypes
    <3> QED
      BY <1>5, <1>12, <3>1 DEF Got
  <2>2. x2.cancelP = "none" /\ ~Ending(y)
    BY <1>1, <1>5, <2>1 DEF Reasons, Closing
  <2>3. ~(n + 1 <= n)
    BY <1>2
  <2>4. ~Got(x, n + 1)
    BY <1>1, <1>3, <2>3 DEF Sent, n
  <2>5. x2.st # "errored"
    BY <1>3, <1>6, <1>12, <2>4
  <2>6. \A i \in ReadIds : i <= n => i # n + 1
    BY <1>2
  <2>7. x2.rv[n + 1] = n + 1
    BY <1>2, <1>5, <1>11, <1>12, <2>2, <2>5, <2>6, NextChunk
  <2> QED
    BY <2>2, <2>7
<1>13. \A k \in DOMAIN q2.sent : q2.sent[k] = k
  BY <1>1, <1>4 DEF Sent
<1>14. Answered(x2, y, q2)
  BY <1>1, <1>4, <1>5, <1>7, <1>8, <1>9, <1>10, <1>11, <1>12, <1>13
     DEF Answered, Streams, Newest, n
<1> QED
  BY <1>14 DEF x2, q2

(* What the delivery makes of the pipe: it goes on, or the loop ends.      *)
LEMMA NoChunkFits ==
  ASSUME NEW x, NEW y, NEW q, Answered(x, y, q)
  PROVE  /\ q.loop # "reading" \/ x.rp[x.reads] = "pending" => PipeFits(x, y, q)
         /\ q.loop = "reading" /\ x.rp[x.reads] \notin {"pending", "chunk"} =>
              PipeFits(x, y, [q EXCEPT !.loop = "ended"])
<1>1. /\ Streams(x, y) /\ PipeTypes(q) /\ Going(q) /\ Locks(x, y, q) /\ Control(q)
      /\ Room(y, q) /\ Written(y, q) /\ Closing(x, y, q) /\ Reasons(x, q)
      /\ \A k \in DOMAIN q.sent : q.sent[k] = k
      /\ \A i \in ReadIds : ~Newest(x, q, i) =>
           /\ Got(x, i) <=> i <= Len(q.sent)
           /\ Got(x, i) => x.rv[i] = i
           /\ x.rp[i] # "pending"
      /\ q.loop = "reading" => x.reads = Len(q.sent) + 1
      /\ q.loop \in {"off", "next", "ready"} => x.reads = Len(q.sent)
  BY DEF Answered
<1>2. Len(q.sent) \in Nat
  BY <1>1 DEF PipeTypes
<1>3. ~(Len(q.sent) + 1 <= Len(q.sent))
  BY <1>2
<1>4. Outcome(x, y, q)
  BY <1>1 DEF Outcome, Going
<1>5. ASSUME q.loop # "reading" \/ x.rp[x.reads] = "pending" PROVE PipeFits(x, y, q)
  <2>1. Sent(x, q)
    BY <1>1, <1>3, <1>5 DEF Sent, Newest, Got
  <2> QED
    BY <1>1, <1>4, <2>1 DEF PipeFits
<1>6. ASSUME q.loop = "reading", x.rp[x.reads] \notin {"pending", "chunk"}
      PROVE  PipeFits(x, y, [q EXCEPT !.loop = "ended"])
  <2> DEFINE q2 == [q EXCEPT !.loop = "ended"]
  <2>1. /\ DOMAIN q2 = PipeFields /\ q2.loop = "ended" /\ q2.ready = q.ready
        /\ q2.sent = q.sent /\ q2.cur = q.cur /\ q2.shutting = q.shutting
        /\ q2.phase = q.phase /\ q2.action = q.action /\ q2.failed = q.failed
        /\ q2.needs = q.needs /\ q2.result = q.result /\ q2.armed = q.armed
        /\ q2.rejected = q.rejected
    BY <1>1 DEF PipeTypes, PipeFields
  <2> HIDE DEF q2
  <2>2. PipeTypes(q2) /\ Control(q2)
    BY <1>1, <1>6, <2>1 DEF PipeTypes, Control, Begun
  <2>3. Locks(x, y, q2)
    BY <1>1, <1>6, <2>1 DEF Locks, Begun, Going
  <2>4. Sent(x, q2)
    BY <1>1, <1>3, <1>6, <2>1 DEF Sent, Newest, Got, Going
  <2>5. Room(y, q2) /\ Written(y, q2)
    BY <1>1, <2>1 DEF Room, Written, Going
  <2>6. Closing(x, y, q2) /\ Reasons(x, q2) /\ Outcome(x, y, q2)
    BY <1>1, <1>4, <2>1 DEF Closing, Reasons, Outcome
  <2>7. PipeFits(x, y, q2)
    BY <1>1, <2>2, <2>3, <2>4, <2>5, <2>6 DEF PipeFits
  <2> QED
    BY <2>7 DEF q2
<1> QED
  BY <1>5, <1>6

(* A chunk is written at once: an open destination takes it, one that has  *)
(* failed does not.                                                        *)
LEMMA ChunkFits ==
  ASSUME NEW x, NEW y, NEW q, Answered(x, y, q), q.loop = "reading", Got(x, x.reads)
  PROVE  LET y2 == WriteAfterSize(y, Writer, 1)
         IN  PipeFits(x, y2,
               [q EXCEPT !.loop = "next", !.sent = Append(@, x.rv[x.reads]),
                         !.cur = IF y2.writes > y.writes THEN y2.writes ELSE NoChunk])
<1> DEFINE y2 == WriteAfterSize(y, Writer, 1)
           c == IF y2.writes > y.writes THEN y2.writes ELSE NoChunk
           n == Len(q.sent)
           s2 == Append(q.sent, x.rv[x.reads])
           q2 == [q EXCEPT !.loop = "next", !.sent = s2, !.cur = c]
<1>1. /\ Streams(x, y) /\ PipeTypes(q) /\ Going(q) /\ Locks(x, y, q) /\ Control(q)
      /\ Room(y, q) /\ Written(y, q) /\ Reasons(x, q)
      /\ \A k \in DOMAIN q.sent : q.sent[k] = k
      /\ \A i \in ReadIds : ~Newest(x, q, i) =>
           /\ Got(x, i) <=> i <= n
           /\ Got(x, i) => x.rv[i] = i
           /\ x.rp[i] # "pending"
      /\ x.reads = n + 1 /\ x.rv[x.reads] = x.reads /\ ~Ending(y)
  BY DEF Answered
<1>2. /\ n \in Nat /\ q.sent \in Seq(Nat) /\ n + 1 \in ReadIds
      /\ Begun(q) /\ y.writer = Writer /\ ~y.wr[Writer].late
  <2>1. x.reads \in 0..MaxReads
    BY <1>1 DEF Streams, RGood, RBase, RTypes
  <2> QED
    BY <1>1, <2>1, ReadableBounds DEF PipeTypes, ReadIds, Control, Begun, Locks
<1>3. /\ s2 \in Seq(Nat) /\ Len(s2) = n + 1 /\ \A k \in DOMAIN s2 : s2[k] = k
  BY <1>1, <1>2
<1>4. Good(y) /\ Busy(y) /\ Told(y, Writer) /\ y.writes \in Nat /\ y.total \in Nat
      /\ y.hwm \in Nat /\ y.st \in {"writable", "erroring", "errored", "closed"}
      /\ Writer \in WriterIds
  BY <1>1, <1>2, PipeBounds, WritableBounds
     DEF Streams, Good, Base, Types, Told, Writer, MaybeWriter, WriterIds
<1>5. y.writes < MaxWrites
  <2>1. \A i \in ReadIds : i <= n + 1 => Got(x, i) /\ x.rv[i] = i
    <3>1. \A i \in ReadIds : i <= n + 1 => i <= n \/ i = n + 1
      BY <1>2 DEF ReadIds
    <3> QED
      BY <1>1, <3>1 DEF Newest
  <2>2. n + 1 <= x.chunks /\ x.chunks \in 0..MaxChunks
    BY <1>1, <1>2, <2>1, SentBound DEF Streams
  <2> HIDE DEF n
  <2>3. y.writes <= n
    BY <1>1 DEF Written, n
  <2> QED
    BY <1>2, <1>4, <2>2, <2>3, PipeBounds, ReadableBounds, WritableBounds
<1>6. /\ Good(y2) /\ Busy(y2) /\ KeptWriter(y, y2) /\ y2.writes \in Nat
      /\ ~Accepts(y) => y2 = y
      /\ Accepts(y) =>
           /\ y2.writes = y.writes + 1 /\ y2.hwm = y.hwm
           /\ y2.total \in Nat /\ y2.total <= y.total + 1
           /\ Exact(y2) /\ ~CloseQueuedOrInFlight(y2) /\ y2.st # "closed"
  <2>1. Good(y2) /\ Busy(y2) /\ KeptWriter(y, y2)
    BY <1>4, <1>5, WriteAfterSizeKeeps
  <2>2. /\ y.writer # Writer \/ y.st # "writable" \/ CloseQueuedOrInFlight(y) => y2 = y
        /\ y.writer = Writer /\ y.st = "writable" /\ ~CloseQueuedOrInFlight(y) =>
             /\ y2.writes = y.writes + 1 /\ y2.hwm = y.hwm
             /\ y2.total \in Nat /\ y2.total <= y.total + 1
             /\ Exact(y2) /\ Idle(y2) /\ ~CloseQueuedOrInFlight(y2) /\ y2.st # "closed"
             /\ y.inWrite # NoChunk => y2.inWrite = y.inWrite
    BY <1>4, <1>5, WriteAccepted
  <2> HIDE DEF y2
  <2>3. y2.writes \in Nat
    BY <2>1, WritableBounds DEF Good, Base, Types
  <2> QED
    BY <1>2, <2>1, <2>2, <2>3 DEF Accepts
<1> HIDE DEF y2
<1>7. c \in Nat /\ (y2.writes = y.writes + 1 => c = y2.writes)
  BY <1>4, <1>6 DEF NoChunk
<1> HIDE DEF c, s2
<1>8. /\ DOMAIN q2 = PipeFields /\ q2.loop = "next" /\ q2.ready = q.ready
      /\ q2.sent = s2 /\ q2.cur = c /\ q2.shutting = q.shutting
      /\ q2.phase = q.phase /\ q2.action = q.action /\ q2.failed = q.failed
      /\ q2.needs = q.needs /\ q2.result = q.result /\ q2.armed = q.armed
      /\ q2.rejected = q.rejected
  BY <1>1 DEF PipeTypes, PipeFields
<1> HIDE DEF q2, n
<1>9. PipeTypes(q2) /\ Control(q2) /\ Going(q2) /\ Begun(q2)
  BY <1>1, <1>2, <1>3, <1>7, <1>8 DEF PipeTypes, Control, Begun, Going
<1>10. Locks(x, y2, q2)
  BY <1>1, <1>2, <1>4, <1>6, <1>8, <1>9 DEF Locks, KeptWriter, Going
<1>11. Sent(x, q2)
  <2>1. \A i \in ReadIds : i <= n + 1 <=> i <= n \/ i = n + 1
    BY <1>2 DEF ReadIds
  <2>2. ASSUME NEW i \in ReadIds
        PROVE  /\ Got(x, i) <=> i <= n + 1
               /\ Got(x, i) => x.rv[i] = i
               /\ x.rp[i] # "pending"
    BY <1>1, <2>1 DEF Newest, Got
  <2> QED
    BY <1>1, <1>3, <1>8, <2>2 DEF Sent
<1>12. Room(y2, q2)
  <2>1. CASE Accepts(y)
    <3>1. y.total < y.hwm
      BY <1>1, <2>1 DEF Room
    <3> QED
      BY <1>4, <1>6, <1>8, <2>1, <3>1 DEF Room
  <2>2. CASE ~Accepts(y)
    BY <1>1, <1>6, <1>8, <2>2 DEF Room
  <2> QED
    BY <2>1, <2>2
<1>13. Written(y2, q2)
  <2>1. CASE Accepts(y)
    <3>1. y.writes = n
      BY <1>1, <2>1 DEF Written, Accepts, n
    <3> QED
      BY <1>2, <1>3, <1>6, <1>7, <1>8, <2>1, <3>1 DEF Written
  <2>2. CASE ~Accepts(y)
    <3>1. y2 = y /\ y.st \notin {"writable", "closed"} /\ ~y.inClose
      BY <1>1, <1>6, <2>2 DEF Accepts, Ending, CloseQueuedOrInFlight
    <3>2. y.writes <= n
      BY <1>1 DEF Written, n
    <3> QED
      BY <1>2, <1>3, <1>4, <1>8, <3>1, <3>2 DEF Written
  <2> QED
    BY <2>1, <2>2
<1>14. Closing(x, y2, q2)
  BY <1>1, <1>6 DEF Closing, Ending
<1>15. Reasons(x, q2) /\ Outcome(x, y2, q2)
  BY <1>1, <1>8, <1>9 DEF Reasons, Outcome, Going
<1>16. PipeFits(x, y2, q2)
  BY <1>1, <1>6, <1>9, <1>10, <1>11, <1>12, <1>13, <1>14, <1>15 DEF PipeFits, Streams
<1> QED
  BY <1>16 DEF q2, y2, c, s2

(* The answer to the loop's read is delivered in the step that gives it.   *)
LEMMA DeliverFits ==
  ASSUME NEW x, NEW q, Answered(x, w, q), Deliver(x, q)
  PROVE  PInv'
<1> DEFINE i == x.reads
           w1 == WriteAfterSize(w, Writer, 1)
           qc == [q EXCEPT !.loop = "next", !.sent = Append(@, x.rv[i]),
                           !.cur = IF w1.writes > w.writes THEN w1.writes ELSE NoChunk]
           qe == [q EXCEPT !.loop = "ended"]
<1>1. CASE q.loop # "reading" \/ x.rp[i] = "pending"
  <2>1. Step(x, w, q)
    BY <1>1 DEF Deliver
  <2>2. PipeFits(x, w, q)
    BY <1>1, NoChunkFits
  <2> QED
    BY <2>1, <2>2, StepFits
<1>2. CASE q.loop = "reading" /\ x.rp[i] = "chunk"
  <2>1. Step(x, w1, qc)
    BY <1>2 DEF Deliver
  <2>2. PipeFits(x, w1, qc)
    BY <1>2, ChunkFits DEF Got
  <2> HIDE DEF w1, qc
  <2> QED
    BY <2>1, <2>2, StepFits
<1>3. CASE q.loop = "reading" /\ x.rp[i] \notin {"pending", "chunk"}
  <2>1. Step(x, w, qe)
    BY <1>3 DEF Deliver
  <2>2. PipeFits(x, w, qe)
    BY <1>3, NoChunkFits
  <2> HIDE DEF qe
  <2> QED
    BY <2>1, <2>2, StepFits
<1> QED
  BY <1>1, <1>2, <1>3

------------------------------------------------------------------------------
(* The shutdown.                                                           *)

(* A pipe that shuts down without an error has sent every chunk: the       *)
(* source closed by itself and what it had enqueued was read.              *)
LEMMA AllSent ==
  ASSUME NEW x, NEW y, NEW q, PipeFits(x, y, q), Going(q), q.shutting, ~q.failed
  PROVE  x.st = "closed" /\ Len(q.sent) = x.chunks
<1> DEFINE n == Len(q.sent)
           c == x.chunks
<1>1. /\ RGood(x) /\ Complete(x, {}) /\ Sent(x, q) /\ x.st = "closed" /\ x.cancelP = "none"
      /\ n \in Nat /\ c \in 0..MaxChunks
  BY DEF PipeFits, Streams, Fine, Reasons, PipeTypes, RGood, RBase, RTypes
<1>2. /\ \A i \in ReadIds : Got(x, i) <=> i <= n
      /\ \A i \in ReadIds : Got(x, i) => x.rv[i] = i
  BY <1>1 DEF Sent
<1> HIDE DEF n
<1>3. n <= MaxReads
  <2>1. SUFFICES ASSUME n > MaxReads PROVE FALSE
    BY <1>1, ReadableBounds
  <2>2. MaxReads \in Nat /\ MaxReads \in ReadIds
    BY PipeBounds, ReadableBounds DEF ReadIds
  <2>3. \A i \in ReadIds : i <= MaxReads => Got(x, i) /\ x.rv[i] = i
    BY <1>1, <1>2, <2>1, ReadableBounds DEF ReadIds
  <2>4. MaxReads <= c /\ c \in 0..MaxChunks
    BY <1>1, <2>2, <2>3, SentBound
  <2> QED
    BY <2>2, <2>4, PipeBounds, ReadableBounds
<1>4. n <= c
  <2>1. n \in ReadIds \/ n = 0
    BY <1>1, <1>3, ReadableBounds DEF ReadIds
  <2>2. \A i \in ReadIds : i <= n => Got(x, i) /\ x.rv[i] = i
    BY <1>2
  <2> QED
    BY <1>1, <2>1, <2>2, SentBound
<1>5. c <= n
  <2>1. CASE c = 0
    BY <1>1, <2>1
  <2>2. CASE c # 0
    <3>1. c \in ChunkIds /\ c <= x.chunks
      BY <1>1, <2>2, ReadableBounds DEF ChunkIds
    <3>2. WasRead(x, c)
      BY <1>1, <3>1 DEF Complete
    <3>3. PICK i \in ReadIds : Got(x, i) /\ x.rv[i] = c
      BY <3>2 DEF WasRead
    <3> QED
      BY <1>2, <3>3
  <2> QED
    BY <2>1, <2>2
<1> QED
  BY <1>1, <1>4, <1>5, ReadableBounds DEF n

(* The pipe q in phase ph.                                                 *)
InPhase(q, ph) == [q EXCEPT !.phase = ph]

(* The other fields of a pipe in another phase.                            *)
LEMMA PhaseKeeps ==
  ASSUME NEW q, NEW ph, DOMAIN InPhase(q, ph) = PipeFields
  PROVE  LET q2 == InPhase(q, ph)
         IN  /\ DOMAIN q = PipeFields /\ q2.phase = ph
             /\ q2.loop = q.loop /\ q2.ready = q.ready
             /\ q2.sent = q.sent /\ q2.cur = q.cur /\ q2.shutting = q.shutting
             /\ q2.action = q.action /\ q2.failed = q.failed
             /\ q2.needs = q.needs /\ q2.result = q.result /\ q2.armed = q.armed
             /\ q2.rejected = q.rejected
BY DEF InPhase, PipeFields

(* The pipe waits for its actions, or was left by the error of one.        *)
LEMMA ActingFits ==
  ASSUME NEW x, NEW y, NEW q, PipeFits(x, y, InPhase(q, "waiting")), q.action # "none",
         NEW needs, NEW rejected \in BOOLEAN
  PROVE  PipeFits(x, y, Acting(q, needs, rejected)) /\ PipeFits(x, y, InPhase(q, "threw"))
<1> DEFINE q0 == InPhase(q, "waiting")
           q2 == Acting(q, needs, rejected)
           q3 == InPhase(q, "threw")
<1>1. /\ Streams(x, y) /\ PipeTypes(q0) /\ Locks(x, y, q0) /\ Control(q0) /\ Sent(x, q0)
      /\ Room(y, q0) /\ Written(y, q0) /\ Closing(x, y, q0) /\ Reasons(x, q0)
  BY DEF PipeFits
<1>2. /\ DOMAIN q = PipeFields /\ q0.phase = "waiting"
      /\ q0.loop = q.loop /\ q0.ready = q.ready
      /\ q0.sent = q.sent /\ q0.cur = q.cur /\ q0.shutting = q.shutting
      /\ q0.action = q.action /\ q0.failed = q.failed
      /\ q0.needs = q.needs /\ q0.result = q.result /\ q0.armed = q.armed
      /\ q0.rejected = q.rejected
  BY <1>1, PhaseKeeps DEF PipeTypes
<1>3. /\ DOMAIN q2 = PipeFields /\ q2.loop = q0.loop /\ q2.ready = q0.ready
      /\ q2.sent = q0.sent /\ q2.cur = q0.cur /\ q2.shutting = q0.shutting
      /\ q2.phase = "acting" /\ q2.action = q0.action /\ q2.failed = q0.failed
      /\ q2.needs = needs /\ q2.result = q0.result /\ q2.armed = q0.armed
      /\ q2.rejected = rejected
  BY <1>2 DEF Acting, PipeFields
<1>4. /\ DOMAIN q3 = PipeFields /\ q3.loop = q0.loop /\ q3.ready = q0.ready
      /\ q3.sent = q0.sent /\ q3.cur = q0.cur /\ q3.shutting = q0.shutting
      /\ q3.phase = "threw" /\ q3.action = q0.action /\ q3.failed = q0.failed
      /\ q3.needs = q0.needs /\ q3.result = q0.result /\ q3.armed = q0.armed
      /\ q3.rejected = q0.rejected
  BY <1>2 DEF InPhase, PipeFields
<1> HIDE DEF q0, q2, q3
<1>5. PipeTypes(q2) /\ Control(q2) /\ PipeTypes(q3) /\ Control(q3)
  BY <1>1, <1>2, <1>3, <1>4 DEF PipeTypes, Control, Begun
<1>6. Locks(x, y, q2) /\ Locks(x, y, q3)
  BY <1>1, <1>2, <1>3, <1>4 DEF Locks, Begun, Going
<1>7. Sent(x, q2) /\ Sent(x, q3)
  BY <1>1, <1>2, <1>3, <1>4 DEF Sent, Going
<1>8. Room(y, q2) /\ Room(y, q3) /\ Written(y, q2) /\ Written(y, q3)
  BY <1>1, <1>2, <1>3, <1>4 DEF Room, Written, Going
<1>9. Closing(x, y, q2) /\ Closing(x, y, q3) /\ Reasons(x, q2) /\ Reasons(x, q3)
  BY <1>1, <1>3, <1>4 DEF Closing, Reasons
<1>10. Outcome(x, y, q2) /\ Outcome(x, y, q3)
  BY <1>3, <1>4 DEF Outcome
<1>11. PipeFits(x, y, q2) /\ PipeFits(x, y, q3)
  BY <1>1, <1>5, <1>6, <1>7, <1>8, <1>9, <1>10 DEF PipeFits
<1> QED
  BY <1>11 DEF q2, q3

(* The end: both locks are given back and the promise settles.             *)
LEMMA FinalizeFits ==
  ASSUME NEW x, NEW y, NEW q, NEW ph \in {"waiting", "acting"},
         PipeFits(x, y, InPhase(q, ph)), NEW failed \in BOOLEAN,
         ~failed => ~q.failed /\ ("close" \in q.needs => y.closeP = "ok"),
         q.action = "none" /\ y.st = "writable" => Flushed(y),
         Finalize(x, y, q, failed)
  PROVE  PInv'
<1> DEFINE q0 == InPhase(q, ph)
           x2 == ReleaseReader(x, Reader)
           y2 == ReleaseWriter(y, Writer)
           res == IF failed THEN "err" ELSE "ok"
           q2 == [q EXCEPT !.phase = "done", !.armed = FALSE, !.result = res]
<1>1. /\ Streams(x, y) /\ PipeTypes(q0) /\ Locks(x, y, q0) /\ Control(q0) /\ Sent(x, q0)
      /\ Room(y, q0) /\ Written(y, q0) /\ Closing(x, y, q0) /\ Reasons(x, q0)
      /\ PipeFits(x, y, q0)
  BY DEF PipeFits
<1>2. /\ DOMAIN q = PipeFields /\ q0.phase = ph
      /\ q0.loop = q.loop /\ q0.ready = q.ready
      /\ q0.sent = q.sent /\ q0.cur = q.cur /\ q0.shutting = q.shutting
      /\ q0.action = q.action /\ q0.failed = q.failed
      /\ q0.needs = q.needs /\ q0.result = q.result /\ q0.armed = q.armed
      /\ q0.rejected = q.rejected
  BY <1>1, PhaseKeeps DEF PipeTypes
<1>3. res \in {"ok", "err"} /\ (res = "ok" => ~failed)
  OBVIOUS
<1> HIDE DEF res
<1>4. /\ DOMAIN q2 = PipeFields /\ q2.loop = q0.loop /\ q2.ready = q0.ready
      /\ q2.sent = q0.sent /\ q2.cur = q0.cur /\ q2.shutting = q0.shutting
      /\ q2.phase = "done" /\ q2.action = q0.action /\ q2.failed = q0.failed
      /\ q2.needs = q0.needs /\ q2.result = res /\ q2.armed = FALSE
      /\ q2.rejected = q0.rejected
  BY <1>2 DEF PipeFields
<1>5. Step(x2, y2, q2)
  BY DEF Finalize, res
<1> HIDE DEF q0, q2
<1>6. Begun(q0) /\ Going(q0) /\ q0.shutting /\ x.reader = Reader /\ y.writer = Writer
  <2>1. Begun(q0) /\ Going(q0) /\ q0.shutting
    BY <1>1, <1>2 DEF Begun, Going, Control
  <2> QED
    BY <1>1, <2>1 DEF Locks
<1>7. /\ RGood(x2) /\ Fine(x2) /\ x2.chunks = x.chunks /\ x2.st = x.st /\ x2.cancelP = x.cancelP
  <2>1. Reader \in ReaderIds
    BY PipeBounds, ReadableBounds DEF Reader, ReaderIds
  <2> QED
    BY <1>1, <1>6, <2>1, ReleaseReaderKeeps DEF Streams
<1>8. Good(y2) /\ Busy(y2) /\ Agree(y, y2, {"wr", "writer"})
  BY <1>1, <1>6, ReleaseKeeps DEF Streams, Writer, NoWriter
<1> HIDE DEF x2, y2
<1>9. /\ y2.total = y.total /\ y2.hwm = y.hwm /\ y2.st = y.st /\ y2.wp = y.wp /\ y2.bp = y.bp
      /\ y2.closeReq = y.closeReq /\ y2.inClose = y.inClose /\ y2.writes = y.writes
  BY <1>8 DEF Agree
<1>10. PipeTypes(q2) /\ Control(q2)
  BY <1>1, <1>2, <1>3, <1>4, <1>6 DEF PipeTypes, Control, Begun
<1>11. Locks(x2, y2, q2) /\ Sent(x2, q2)
  BY <1>1, <1>4 DEF Locks, Sent, Begun, Going
<1>12. Room(y2, q2)
  <2>1. Exact(y2)
    BY <1>1, <1>9 DEF Room, Exact, Backpressure, CloseQueuedOrInFlight
  <2> QED
    BY <1>1, <1>4, <1>9, <2>1 DEF Room, Going
<1>13. Written(y2, q2)
  BY <1>1, <1>4, <1>9 DEF Written
<1>14. Closing(x2, y2, q2)
  BY <1>1, <1>4, <1>6, <1>7, <1>9 DEF Closing, Ending, CloseQueuedOrInFlight
<1>15. Reasons(x2, q2)
  BY <1>1, <1>4, <1>7 DEF Reasons
<1>16. Outcome(x2, y2, q2)
  <2>1. q2.action = "none" /\ y2.st = "writable" => Flushed(y2)
    BY <1>2, <1>4, <1>9 DEF Flushed
  <2>2. ASSUME q2.result = "ok"
        PROVE  x.st = "closed" /\ Len(q2.sent) = x.chunks /\ ("close" \in q2.needs => y.closeP = "ok")
    <3>1. ~q0.failed /\ ("close" \in q2.needs => y.closeP = "ok")
      BY <1>2, <1>3, <1>4, <2>2
    <3> QED
      BY <1>1, <1>4, <1>6, <3>1, AllSent
  <2>3. ASSUME q2.result = "ok", "close" \in q2.needs
        PROVE  y.st = "closed" /\ \A i \in 1..x.chunks : y.wp[i] = "ok"
    <3>1. Order(y) /\ y.closeP = "ok" /\ Len(q2.sent) = x.chunks
      BY <1>1, <2>2, <2>3 DEF Streams, Good, Base
    <3>2. y.st = "closed" /\ \A i \in WriteIds : y.wp[i] \in {"none", "ok"}
      BY <3>1 DEF Order
    <3>3. y.writes = x.chunks
      BY <1>1, <1>4, <3>1, <3>2 DEF Written
    <3>4. y.writes \in 0..MaxWrites
      BY <1>1 DEF Streams, Good, Base, Types
    <3>5. ASSUME NEW i \in 1..x.chunks PROVE i \in WriteIds /\ ~(i > y.writes)
      BY <3>3, <3>4, WritableBounds DEF WriteIds
    <3>6. \A i \in 1..x.chunks : y.wp[i] = "ok"
      BY <3>1, <3>2, <3>5 DEF Order
    <3> QED
      BY <3>2, <3>6
  <2> QED
    BY <1>7, <1>9, <2>1, <2>2, <2>3 DEF Outcome
<1>17. PipeFits(x2, y2, q2)
  BY <1>7, <1>8, <1>10, <1>11, <1>12, <1>13, <1>14, <1>15, <1>16 DEF PipeFits, Streams
<1> QED
  BY <1>5, <1>17, StepFits

(* The cancel of the source by a shutdown with an error.                   *)
LEMMA CancelFits ==
  ASSUME NEW x, NEW y, NEW q, PipeFits(x, y, q), Going(q), Begun(q), q.shutting, q.failed
  PROVE  PipeFits(ReadableCancel(x, Reader), y, q)
<1> DEFINE x2 == ReadableCancel(x, Reader)
<1>1. /\ Streams(x, y) /\ PipeTypes(q) /\ Locks(x, y, q) /\ Control(q) /\ Sent(x, q)
      /\ Room(y, q) /\ Written(y, q) /\ Closing(x, y, q) /\ Reasons(x, q) /\ Outcome(x, y, q)
      /\ RGood(x) /\ Fine(x) /\ RTypes(x)
  BY DEF PipeFits, Streams, RGood, RBase
<1>2. x.reader = Reader
  BY <1>1 DEF Locks
<1>3. /\ RGood(x2) /\ Fine(x2) /\ x2.reader = x.reader /\ x2.readers = x.readers
      /\ x2.reads = x.reads /\ (x.st # "readable" => x2.st = x.st) /\ x2.st # "readable"
      /\ \A j \in ReadIds : x.rp[j] # "pending" => x2.rp[j] = x.rp[j] /\ x2.rv[j] = x.rv[j]
      /\ \A j \in ReadIds : Got(x2, j) => Got(x, j)
  <2>1. CASE x.st = "readable"
    <3>1. /\ RGood(x2) /\ Counts(x, x2) /\ (Fine(x) => Fine(x2))
          /\ Onward(x, x2, {}) /\ x2.reads = x.reads /\ x2.st = "closed" /\ x2.cancelP = "pending"
          /\ \A j \in ReadIds : Got(x2, j) => Got(x, j)
      BY <1>1, <1>2, <2>1, CancelKeeps
    <3> QED
      BY <1>1, <2>1, <3>1 DEF Onward
  <2>2. CASE x.st # "readable"
    <3>1. x2 = [x EXCEPT !.disturbed = TRUE]
      BY <1>1, <2>2 DEF ReadableCancel, RTypes, RFields
    <3>2. RAgree(x, x2, {"disturbed"}) /\ RTyped(x2, {"disturbed"})
      BY <1>1, <3>1 DEF RAgree, RTyped, RTypes, RFields
    <3> HIDE DEF x2
    <3>3. RAgree(x, x2, Minor) /\ RTypes(x2)
      BY <1>1, <3>2, RTypesCarry DEF RAgree, Minor
    <3>4. RGood(x2) /\ Fine(x2)
      BY <1>1, <3>3, MinorCarry
    <3> QED
      BY <2>2, <3>2, <3>4 DEF RAgree, Got
  <2> QED
    BY <2>1, <2>2
<1> HIDE DEF x2
<1>4. Locks(x2, y, q)
  BY <1>1, <1>3 DEF Locks
<1>5. Sent(x2, q)
  BY <1>1, <1>3 DEF Sent, Got
<1>6. Closing(x2, y, q) /\ Reasons(x2, q)
  BY <1>1, <1>3 DEF Closing, Reasons
<1>7. Outcome(x2, y, q)
  BY DEF Outcome, Going
<1> QED
  BY <1>1, <1>3, <1>4, <1>5, <1>6, <1>7 DEF PipeFits, Streams, x2

(* do_the_rest, of a pipe whose writes are done with.                      *)
LEMMA DoTheRestFits ==
  ASSUME NEW x, NEW y, NEW q, PipeFits(x, y, InPhase(q, "waiting")),
         q.action = "none" /\ y.st = "writable" => Flushed(y), DoTheRest(x, y, q)
  PROVE  PInv'
<1> DEFINE q0 == InPhase(q, "waiting")
           y2 == AbortDest(y)
           x2 == ReadableCancel(x, Reader)
<1>1. PipeFits(x, y, q0) /\ PipeTypes(q0) /\ Control(q0) /\ Reasons(x, q0) /\ Locks(x, y, q0)
  BY DEF PipeFits
<1>2. /\ DOMAIN q = PipeFields /\ q0.phase = "waiting" /\ q0.shutting = q.shutting
      /\ q0.action = q.action /\ q0.failed = q.failed /\ q0.needs = q.needs
  BY <1>1, PhaseKeeps DEF PipeTypes
<1>3. /\ Begun(q0) /\ Going(q0) /\ q0.shutting /\ q.needs = {} /\ q.failed \in BOOLEAN
      /\ q.action \in {"none", "abort", "cancel", "close", "both"}
  BY <1>1, <1>2 DEF Begun, Going, Control, PipeTypes
<1>4. y.writer = Writer
  BY <1>1, <1>3 DEF Locks
<1>5. PipeFits(x, y2, q0) /\ PipeFits(x, [y EXCEPT !.signalled = TRUE], q0)
  BY <1>1, <1>3, <1>4, AbortFits DEF AbortDest
<1> HIDE DEF q0, x2, y2
<1>6. CASE AbortThrows(y, q)
  <2>1. Step(x, [y EXCEPT !.signalled = TRUE], InPhase(q, "threw")) /\ q.action # "none"
    BY <1>6 DEF DoTheRest, AbortThrows, InPhase
  <2>2. PipeFits(x, [y EXCEPT !.signalled = TRUE], InPhase(q, "threw"))
    BY <1>5, <2>1, ActingFits DEF q0
  <2> QED
    BY <2>1, <2>2, StepFits
<1>7. CASE ~AbortThrows(y, q) /\ q.action = "none"
  <2>1. Finalize(x, y, q, q.failed)
    BY <1>7 DEF DoTheRest
  <2> QED
    BY <1>1, <1>3, <2>1, FinalizeFits DEF q0
<1>8. CASE ~AbortThrows(y, q) /\ q.action = "abort"
  <2> DEFINE n == IF y.st \in {"closed", "errored"} THEN {} ELSE {"abort"}
  <2>1. Step(x, y2, Acting(q, n, FALSE))
    BY <1>8 DEF DoTheRest, y2
  <2> HIDE DEF n
  <2>2. PipeFits(x, y2, Acting(q, n, FALSE))
    BY <1>5, <1>8, ActingFits DEF q0
  <2> QED
    BY <2>1, <2>2, StepFits
<1>9. CASE ~AbortThrows(y, q) /\ q.action = "cancel"
  <2> DEFINE n == IF x.st = "readable" THEN {"cancel"} ELSE {}
             e == x.st = "errored"
  <2>1. Step(x2, y, Acting(q, n, e))
    BY <1>9 DEF DoTheRest, x2
  <2>2. e \in BOOLEAN
    OBVIOUS
  <2> HIDE DEF n, e
  <2>3. q0.failed
    BY <1>1, <1>2, <1>9 DEF Reasons
  <2>4. PipeFits(x2, y, q0)
    BY <1>1, <1>3, <2>3, CancelFits DEF x2
  <2>5. PipeFits(x2, y, Acting(q, n, e))
    BY <1>9, <2>2, <2>4, ActingFits DEF q0
  <2> QED
    BY <2>1, <2>5, StepFits
<1>10. CASE ~AbortThrows(y, q) /\ q.action = "close"
  <2>1. CloseDest(x, y, q)
    BY <1>10 DEF DoTheRest
  <2>2. CASE Ending(y) \/ y.st = "errored"
    <3> DEFINE e == ~Ending(y)
    <3>1. Step(x, y, Acting(q, {}, e)) /\ e \in BOOLEAN
      BY <2>1, <2>2 DEF CloseDest, Ending
    <3> HIDE DEF e
    <3>2. PipeFits(x, y, Acting(q, {}, e))
      BY <1>1, <1>10, <3>1, ActingFits DEF q0
    <3> QED
      BY <3>1, <3>2, StepFits
  <2>3. CASE ~(Ending(y) \/ y.st = "errored")
    <3> DEFINE y3 == WritableClose(y, Writer)
    <3>1. Step(x, y3, Acting(q, {"close"}, FALSE))
      BY <2>1, <2>3 DEF CloseDest, Ending
    <3>2. x.st # "readable" /\ ~CloseQueuedOrInFlight(y)
      BY <1>1, <1>2, <1>10, <2>3 DEF Reasons, Ending
    <3>3. PipeFits(x, y3, q0)
      BY <1>1, <1>3, <1>4, <3>2, CloseFits
    <3> HIDE DEF y3
    <3>4. PipeFits(x, y3, Acting(q, {"close"}, FALSE))
      BY <1>10, <3>3, ActingFits DEF q0
    <3> QED
      BY <3>1, <3>4, StepFits
  <2> QED
    BY <2>2, <2>3
<1>11. CASE ~AbortThrows(y, q) /\ q.action = "both"
  <2> DEFINE abort == ~q.preventAbort /\ y.st = "writable"
             cancel == ~q.preventCancel /\ x.st = "readable"
             n == {m \in {"abort", "cancel"} : IF m = "abort" THEN abort ELSE cancel}
             x3 == IF cancel THEN x2 ELSE x
             y3 == IF abort THEN y2 ELSE y
  <2>1. Step(x3, y3, Acting(q, n, FALSE))
    BY <1>11 DEF DoTheRest, AbortBoth, x2, y2
  <2>2. q0.failed
    BY <1>1, <1>2, <1>11 DEF Reasons
  <2>3. PipeFits(x2, y, q0)
    BY <1>1, <1>3, <2>2, CancelFits DEF x2
  <2>4. PipeFits(x3, y, q0)
    BY <1>1, <2>3
  <2>5. PipeFits(x3, y2, q0)
    BY <1>3, <1>4, <2>4, AbortFits DEF AbortDest, y2
  <2>6. PipeFits(x3, y3, q0)
    BY <2>4, <2>5
  <2> HIDE DEF n, x3, y3
  <2>7. PipeFits(x3, y3, Acting(q, n, FALSE))
    BY <1>11, <2>6, ActingFits DEF q0
  <2> QED
    BY <2>1, <2>7, StepFits
<1> QED
  BY <1>3, <1>6, <1>7, <1>8, <1>9, <1>10, <1>11

(* The pipe q once a shutdown with this action and this error has begun.   *)
Shutting(q, action, failed) ==
  [q EXCEPT !.shutting = TRUE, !.action = action, !.failed = failed]

(* shutdown and shutdown_with_action.                                      *)
LEMMA ShutdownFits ==
  ASSUME NEW x, NEW y, NEW q, NEW action, NEW failed,
         PipeFits(x, y, InPhase(Shutting(q, action, failed), "waiting")),
         Ending(y) => q.sent = <<>>, Shutdown(x, y, q, action, failed)
  PROVE  PInv'
<1> DEFINE q1 == Shutting(q, action, failed)
           q0 == InPhase(q1, "waiting")
           qw == [q1 EXCEPT !.phase = "waiting", !.waitFor = q1.cur]
<1>1. /\ IF Accepts(y) THEN Step(x, y, qw) ELSE DoTheRest(x, y, q1)
  BY DEF Shutdown, Shutting, Accepts
<1>2. PipeFits(x, y, q0) /\ DOMAIN q0 = PipeFields /\ Written(y, q0) /\ Good(y)
      /\ PipeTypes(q0)
  BY DEF PipeFits, PipeTypes, Streams
<1>3. DOMAIN q1 = PipeFields /\ q0.sent = q1.sent /\ q1.sent = q.sent
  <2>1. DOMAIN q1 = PipeFields /\ q0.sent = q1.sent
    <3> HIDE DEF q1
    <3> QED
      BY <1>2, PhaseKeeps
  <2>2. DOMAIN q = PipeFields
    BY <2>1 DEF Shutting
  <2> QED
    BY <2>1, <2>2 DEF Shutting, PipeFields
<1>4. CASE Accepts(y)
  <2>1. Alike(q0, qw)
    BY <1>2, <1>3 DEF InPhase, PipeFields, Alike, PipeTypes
  <2>2. PipeFits(x, y, qw)
    BY <1>2, <2>1, AlikeFits
  <2> QED
    BY <1>1, <1>4, <2>2, StepFits
<1>5. CASE ~Accepts(y)
  <2>1. ASSUME y.st = "writable" PROVE Flushed(y)
    <3>1. Ending(y) /\ y.writes = Len(q.sent) /\ Order(y)
      BY <1>2, <1>3, <1>5, <2>1 DEF Accepts, Ending, Written, Good, Base
    <3>2. y.writes = 0
      BY <3>1
    <3>3. \A i \in WriteIds : y.wp[i] = "none"
      BY <3>1, <3>2 DEF Order, WriteIds
    <3> QED
      BY <3>3 DEF Flushed
  <2> QED
    BY <1>1, <1>2, <1>5, <2>1, DoTheRestFits
<1> QED
  BY <1>4, <1>5

(* The action and the error of a shutdown go with the state of the source. *)
Apt(x, action, failed) ==
  /\ action \in {"none", "abort", "cancel", "close", "both"} /\ failed \in BOOLEAN
  /\ ~failed => x.st = "closed"
  /\ action = "close" => ~failed
  /\ action \in {"cancel", "both"} => failed

(* A shutdown that begins while the pipe goes on.                          *)
LEMMA BeginFits ==
  ASSUME NEW x, NEW y, NEW q, PipeFits(x, y, q), q.phase = "piping",
         NEW action, NEW failed, Apt(x, action, failed),
         Shutdown(x, y, q, action, failed)
  PROVE  PInv'
<1> DEFINE q2 == InPhase(Shutting(q, action, failed), "waiting")
<1>1. /\ Streams(x, y) /\ PipeTypes(q) /\ Locks(x, y, q) /\ Control(q) /\ Sent(x, q)
      /\ Room(y, q) /\ Written(y, q) /\ Closing(x, y, q) /\ Reasons(x, q)
  BY DEF PipeFits
<1>2. /\ DOMAIN q2 = PipeFields /\ q2.loop = q.loop /\ q2.ready = q.ready
      /\ q2.sent = q.sent /\ q2.cur = q.cur /\ q2.shutting = TRUE
      /\ q2.phase = "waiting" /\ q2.action = action /\ q2.failed = failed
      /\ q2.needs = q.needs /\ q2.result = q.result /\ q2.armed = q.armed
      /\ q2.rejected = q.rejected
  BY <1>1 DEF PipeTypes, InPhase, Shutting, PipeFields
<1> HIDE DEF q2
<1>3. ~q.shutting /\ (Ending(y) => q.sent = <<>>)
  BY <1>1 DEF Control, Closing
<1>4. PipeTypes(q2) /\ Control(q2)
  BY <1>1, <1>2 DEF PipeTypes, Control, Begun, Apt
<1>5. Locks(x, y, q2) /\ Sent(x, q2)
  BY <1>1, <1>2, <1>3 DEF Locks, Sent, Begun, Going
<1>6. Room(y, q2) /\ Written(y, q2)
  BY <1>1, <1>2 DEF Room, Written, Going
<1>7. Closing(x, y, q2) /\ Reasons(x, q2) /\ Outcome(x, y, q2)
  BY <1>1, <1>2, <1>3 DEF Closing, Reasons, Outcome, Apt
<1>8. PipeFits(x, y, q2)
  BY <1>1, <1>4, <1>5, <1>6, <1>7 DEF PipeFits
<1> QED
  BY <1>3, <1>8, ShutdownFits DEF q2

------------------------------------------------------------------------------
(* The call.                                                               *)

(* A pipe q that has just been set up: it pipes, if nothing has ended yet, *)
(* or shuts down.                                                          *)
Fresh(x, y, q) ==
  /\ DOMAIN q = PipeFields /\ q.result = "pending" /\ q.sent = <<>> /\ q.cur = NoChunk
  /\ q.needs = {} /\ q.armed \in BOOLEAN /\ q.rejected \in BOOLEAN
  /\ q.loop \in {"next", "ended"}
  /\ \/ q.phase = "piping" /\ ~q.shutting /\ q.action = "none" /\ ~Ending(y)
        /\ q.shutting \in BOOLEAN /\ q.failed \in BOOLEAN
     \/ q.phase = "waiting" /\ q.shutting = TRUE /\ Apt(x, q.action, q.failed)

(* Both locks are taken.                                                   *)
LEMMA AttachFits ==
  ASSUME NEW x, NEW y, NEW q0, NEW q, PipeFits(x, y, q0), ~Begun(q0), Fresh(x, y, q)
  PROVE  /\ PipeFits([AcquireReader(x) EXCEPT !.disturbed = TRUE],
                     AcquireWriter(y, "close" \in y.pend), q)
         /\ Ending(AcquireWriter(y, "close" \in y.pend)) <=> Ending(y)
         /\ AcquireWriter(y, "close" \in y.pend).st = y.st
<1> DEFINE x1 == AcquireReader(x)
           x2 == [x1 EXCEPT !.disturbed = TRUE]
           late == "close" \in y.pend
           y2 == AcquireWriter(y, late)
<1>1. /\ RGood(x) /\ Fine(x) /\ Good(y) /\ Busy(y) /\ PipeTypes(q0) /\ Locks(x, y, q0)
      /\ Control(q0) /\ Sent(x, q0) /\ Room(y, q0) /\ Written(y, q0) /\ Reasons(x, q0)
  BY DEF PipeFits, Streams
<1>2. /\ x.reader = NoReader /\ x.readers = 0 /\ y.writer = NoWriter /\ y.writers = 0
      /\ q0.loop = "off" /\ ~q0.shutting /\ q0.sent = <<>> /\ Going(q0)
  BY <1>1 DEF Locks, Control, Begun, Going
<1>3. /\ RGood(x1) /\ Fine(x1) /\ RAgree(x, x1, {"readers", "reader", "closed"})
      /\ x1.reader = x.readers + 1
  BY <1>1, <1>2, PipeBounds, ReadableBounds, AcquireReaderKeeps
<1> HIDE DEF x1
<1>4. RAgree(x1, x2, {"disturbed"}) /\ RTyped(x2, {"disturbed"}) /\ RTypes(x1)
  BY <1>3 DEF RAgree, RTyped, RFields, RGood, RBase
<1> HIDE DEF x2
<1>5. RGood(x2) /\ Fine(x2)
  <2>1. RAgree(x1, x2, Minor) /\ RTypes(x2)
    BY <1>4, RTypesCarry DEF RAgree, Minor
  <2> QED
    BY <1>3, <2>1, MinorCarry
<1>6. /\ x2.reader = Reader /\ x2.st = x.st /\ x2.cancelP = x.cancelP /\ x2.rp = x.rp
      /\ x2.rv = x.rv /\ x2.reads = x.reads /\ x2.chunks = x.chunks
  BY <1>2, <1>3, <1>4 DEF RAgree, Reader
<1>7. late \in BOOLEAN /\ (y.inClose <=> late)
  BY <1>1 DEF Good, Base, InFlight
<1> HIDE DEF late
<1>8. /\ Good(y2) /\ Busy(y2) /\ Agree(y, y2, {"writers", "writer", "wr"})
      /\ y2.writer = y.writers + 1 /\ y2.wr[y2.writer].late = late
  BY <1>1, <1>2, <1>7, PipeBounds, WritableBounds, AcquireKeeps
<1> HIDE DEF y2
<1>9. /\ y2.writer = Writer /\ y2.wr[Writer].late = late
      /\ y2.total = y.total /\ y2.hwm = y.hwm /\ y2.st = y.st /\ y2.bp = y.bp
      /\ y2.closeReq = y.closeReq /\ y2.inClose = y.inClose /\ y2.writes = y.writes
  BY <1>2, <1>8 DEF Agree, Writer
<1>10. Ending(y2) <=> Ending(y)
  BY <1>9 DEF Ending, CloseQueuedOrInFlight
<1>11. PipeTypes(q) /\ Control(q) /\ Begun(q) /\ Going(q)
  <2>1. q.sent \in Seq(Nat) /\ q.cur \in Nat
    BY DEF Fresh, NoChunk
  <2> QED
    BY <2>1 DEF PipeTypes, Control, Begun, Going, Fresh, Apt
<1>12. Locks(x2, y2, q)
  <2>1. late => Ending(y)
    BY <1>7 DEF Ending, CloseQueuedOrInFlight
  <2>2. late => q.shutting
    BY <2>1 DEF Fresh
  <2> QED
    BY <1>6, <1>9, <1>11, <2>2 DEF Locks, Fresh
<1>13. Sent(x2, q)
  BY <1>1, <1>2, <1>6 DEF Sent, Fresh, Got
<1>14. Room(y2, q)
  <2>1. Exact(y2)
    BY <1>1, <1>9 DEF Room, Exact, Backpressure, CloseQueuedOrInFlight
  <2> QED
    BY <1>1, <1>9, <2>1 DEF Room, Fresh
<1>15. Written(y2, q)
  <2>1. y.writes \in Nat /\ y.writes <= Len(<<>>)
    BY <1>1, <1>2, WritableBounds DEF Written, Good, Base, Types
  <2>2. y.writes = 0 /\ Len(<<>>) = 0
    BY <2>1
  <2> QED
    BY <1>9, <2>2 DEF Written, Fresh, NoChunk
<1>16. Closing(x2, y2, q)
  BY <1>10 DEF Closing, Fresh
<1>17. Reasons(x2, q) /\ Outcome(x2, y2, q)
  BY <1>1, <1>2, <1>6 DEF Reasons, Outcome, Fresh, Apt
<1>18. PipeFits(x2, y2, q)
  BY <1>5, <1>8, <1>11, <1>12, <1>13, <1>14, <1>15, <1>16, <1>17 DEF PipeFits, Streams
<1> QED
  BY <1>9, <1>10, <1>18 DEF x2, x1, y2, late

(* pipeTo() that meets an end: the shutdown begins with the call.          *)
LEMMA AttachShutdown ==
  ASSUME PInv, ~Begun(p), NEW q, NEW action, NEW failed, Apt(r, action, failed),
         DOMAIN q = PipeFields, q.result = "pending", q.sent = <<>>, q.cur = NoChunk,
         q.needs = {}, q.armed \in BOOLEAN, q.rejected \in BOOLEAN, q.loop \in {"next", "ended"},
         Shutdown([AcquireReader(r) EXCEPT !.disturbed = TRUE],
                  AcquireWriter(w, "close" \in w.pend), q, action, failed)
  PROVE  PInv'
<1> DEFINE x == [AcquireReader(r) EXCEPT !.disturbed = TRUE]
           y == AcquireWriter(w, "close" \in w.pend)
           q2 == InPhase(Shutting(q, action, failed), "waiting")
<1>1. /\ DOMAIN q2 = PipeFields /\ q2.loop = q.loop /\ q2.sent = q.sent /\ q2.cur = q.cur
      /\ q2.shutting = TRUE /\ q2.phase = "waiting" /\ q2.action = action
      /\ q2.failed = failed /\ q2.needs = q.needs /\ q2.result = q.result
      /\ q2.armed = q.armed /\ q2.rejected = q.rejected
  BY DEF InPhase, Shutting, PipeFields
<1> HIDE DEF x, y, q2
<1>2. Fresh(r, w, q2)
  BY <1>1 DEF Fresh
<1>3. PipeFits(x, y, q2)
  BY <1>2, AttachFits DEF PInv, x, y
<1> QED
  BY <1>3, ShutdownFits DEF q2, x, y

(* pipeTo().                                                               *)
LEMMA PipeToStep ==
  ASSUME PInv, PipeTo
  PROVE  PInv'
<1> DEFINE x == [AcquireReader(r) EXCEPT !.disturbed = TRUE]
           y == AcquireWriter(w, "close" \in w.pend)
           armed == p.signal = "live"
           q == [p EXCEPT !.phase = "piping", !.result = "pending", !.loop = "next",
                          !.armed = armed]
           qe == [q EXCEPT !.loop = "ended"]
<1>1. /\ ~Begun(p) /\ PipeTypes(p) /\ Control(p) /\ Streams(r, w)
      /\ r.st \in {"readable", "closed", "errored"}
      /\ w.st \in {"writable", "erroring", "errored", "closed"}
  BY DEF PipeTo, Begun, PInv, PipeFits, Streams, RGood, RBase, RTypes, Good, Base, Types
<1>2. /\ IF p.signal = "aborted" THEN Shutdown(x, y, qe, "both", TRUE)
         ELSE IF r.st = "errored" THEN OnSourceError(x, y, q)
         ELSE IF w.st \in {"erroring", "errored"} THEN OnDestError(x, y, q)
         ELSE IF r.st = "closed" THEN OnSourceClose(x, y, q)
         ELSE IF CloseQueuedOrInFlight(w) \/ w.st = "closed" THEN OnDestError(x, y, q)
         ELSE Step(x, y, q)
  BY DEF PipeTo
<1>3. armed \in BOOLEAN
  OBVIOUS
<1> HIDE DEF x, y, armed
<1>4. /\ DOMAIN q = PipeFields /\ q.loop = "next" /\ q.sent = p.sent /\ q.cur = p.cur
      /\ q.shutting = p.shutting /\ q.phase = "piping" /\ q.action = p.action
      /\ q.failed = p.failed /\ q.needs = p.needs /\ q.result = "pending" /\ q.armed = armed
      /\ q.rejected = p.rejected
  BY <1>1 DEF PipeTypes, PipeFields
<1> HIDE DEF q
<1>5. /\ DOMAIN qe = PipeFields /\ qe.loop = "ended" /\ qe.sent = q.sent /\ qe.cur = q.cur
      /\ qe.needs = q.needs /\ qe.result = "pending" /\ qe.armed = armed
      /\ qe.rejected = q.rejected
  BY <1>4 DEF PipeFields
<1> HIDE DEF qe
<1>6. /\ q.sent = <<>> /\ q.cur = NoChunk /\ q.needs = {} /\ q.rejected \in BOOLEAN
      /\ q.shutting = FALSE /\ q.action = "none" /\ q.failed \in BOOLEAN
  BY <1>1, <1>4 DEF Control, Begun, PipeTypes
<1>7. ASSUME NEW action, NEW failed, Apt(r, action, failed), Shutdown(x, y, q, action, failed)
      PROVE  PInv'
  BY <1>1, <1>3, <1>4, <1>6, <1>7, AttachShutdown DEF x, y
<1>8. CASE p.signal = "aborted"
  <2>1. Shutdown(x, y, qe, "both", TRUE) /\ Apt(r, "both", TRUE)
    BY <1>2, <1>8 DEF Apt
  <2> QED
    BY <1>1, <1>3, <1>5, <1>6, <2>1, AttachShutdown DEF x, y
<1>9. CASE OnSourceError(x, y, q)
  <2> DEFINE a == IF q.preventAbort THEN "none" ELSE "abort"
  <2>1. Shutdown(x, y, q, a, TRUE)
    BY <1>9 DEF OnSourceError
  <2>2. Apt(r, a, TRUE)
    BY DEF Apt
  <2> HIDE DEF a
  <2> QED
    BY <1>7, <2>1, <2>2
<1>10. CASE OnDestError(x, y, q)
  <2> DEFINE a == IF q.preventCancel THEN "none" ELSE "cancel"
  <2>1. Shutdown(x, y, q, a, TRUE)
    BY <1>10 DEF OnDestError
  <2>2. Apt(r, a, TRUE)
    BY DEF Apt
  <2> HIDE DEF a
  <2> QED
    BY <1>7, <2>1, <2>2
<1>11. CASE r.st = "closed" /\ OnSourceClose(x, y, q)
  <2> DEFINE a == IF q.preventClose THEN "none" ELSE "close"
  <2>1. Shutdown(x, y, q, a, FALSE)
    BY <1>11 DEF OnSourceClose
  <2>2. Apt(r, a, FALSE)
    BY <1>11 DEF Apt
  <2> HIDE DEF a
  <2> QED
    BY <1>7, <2>1, <2>2
<1>12. CASE ~Ending(w) /\ Step(x, y, q)
  <2>1. Fresh(r, w, q)
    BY <1>3, <1>4, <1>6, <1>12 DEF Fresh
  <2>2. PipeFits(x, y, q)
    BY <1>1, <2>1, AttachFits DEF PInv, x, y
  <2> QED
    BY <1>12, <2>2, StepFits
<1> QED
  BY <1>2, <1>8, <1>9, <1>10, <1>11, <1>12 DEF Ending

(* The shutdown of a pipe that goes on, for the reasons the pipe watches.  *)
LEMMA WatchStep ==
  ASSUME PInv, SignalAborts \/ SourceErrored \/ SourceClosed \/ DestErrored
  PROVE  PInv'
<1>1. /\ PipeFits(r, w, p) /\ PipeTypes(p) /\ Control(p) /\ Locks(r, w, p)
      /\ RGood(r) /\ Fine(r)
  BY DEF PInv, PipeFits, Streams
<1>2. ASSUME Watching PROVE p.phase = "piping"
  BY <1>1, <1>2 DEF Watching, Started, Control, Live, PipeTypes
<1>3. CASE SignalAborts
  <2> DEFINE q == [p EXCEPT !.signal = "aborted", !.armed = FALSE]
  <2>1. Alike(p, q) /\ q.phase = p.phase
    BY <1>1 DEF Alike, PipeTypes, PipeFields, Control, Begun
  <2>2. PipeFits(r, w, q)
    BY <1>1, <2>1, AlikeFits
  <2>3. CASE p.armed /\ ~p.shutting
    <3>1. Shutdown(r, w, q, "both", TRUE)
      BY <1>3, <2>3 DEF SignalAborts
    <3>2. p.phase = "piping"
      BY <1>1, <1>3, <2>3 DEF SignalAborts, Live, Control, PipeTypes, Begun
    <3>3. Apt(r, "both", TRUE)
      BY DEF Apt
    <3> HIDE DEF q
    <3> QED
      BY <2>1, <2>2, <3>1, <3>2, <3>3, BeginFits
  <2>4. CASE ~(p.armed /\ ~p.shutting)
    <3>1. Step(r, w, q)
      BY <1>3, <2>4 DEF SignalAborts
    <3> HIDE DEF q
    <3> QED
      BY <2>2, <3>1, StepFits
  <2> QED
    BY <2>3, <2>4
<1>4. CASE SourceErrored
  <2> DEFINE a == IF p.preventAbort THEN "none" ELSE "abort"
  <2>1. Shutdown(r, w, p, a, TRUE) /\ p.phase = "piping"
    BY <1>2, <1>4 DEF SourceErrored, OnSourceError
  <2>2. Apt(r, a, TRUE)
    BY DEF Apt
  <2> HIDE DEF a
  <2> QED
    BY <1>1, <2>1, <2>2, BeginFits
<1>5. CASE DestErrored
  <2> DEFINE a == IF p.preventCancel THEN "none" ELSE "cancel"
  <2>1. Shutdown(r, w, p, a, TRUE) /\ p.phase = "piping"
    BY <1>2, <1>5 DEF DestErrored, OnDestError
  <2>2. Apt(r, a, TRUE)
    BY DEF Apt
  <2> HIDE DEF a
  <2> QED
    BY <1>1, <2>1, <2>2, BeginFits
<1>6. CASE SourceClosed
  <2> DEFINE a == IF p.preventClose THEN "none" ELSE "close"
  <2>1. Shutdown(r, w, p, a, FALSE) /\ p.phase = "piping" /\ r.closed[Reader] = "ok"
    BY <1>2, <1>6 DEF SourceClosed, OnSourceClose
  <2>2. r.st = "closed"
    <3>1. r.reader = Reader /\ r.st \in {"readable", "closed", "errored"} /\ Shown(r)
      BY <1>1, <2>1 DEF Locks, Begun, Going, RGood, RBase, RTypes, Fine, Ended
    <3> QED
      BY <2>1, <3>1 DEF Shown, Reader, NoReader
  <2>3. Apt(r, a, FALSE)
    BY <2>2 DEF Apt
  <2> HIDE DEF a
  <2> QED
    BY <1>1, <2>1, <2>3, BeginFits
<1> QED
  BY <1>3, <1>4, <1>5, <1>6

(* The loop's own steps, between two answers.                              *)
LEMMA LoopStep ==
  ASSUME PInv, PipeStep \/ ReadyFulfilled \/ ReadyRejected
  PROVE  PInv'
<1>1. /\ Streams(r, w) /\ PipeTypes(p) /\ Locks(r, w, p) /\ Control(p) /\ Sent(r, p)
      /\ Room(w, p) /\ Written(w, p) /\ Closing(r, w, p) /\ Reasons(r, p)
      /\ Going(p) /\ p.loop \in {"next", "ready"} /\ Begun(p)
  BY DEF PInv, PipeFits, PipeStep, ReadyFulfilled, ReadyRejected, ReadyQueued, Live, Going,
         Begun, Control
<1>2. CASE ReadyFulfilled
  <2> DEFINE x == DefaultReaderRead(r, Reader)
             q == [p EXCEPT !.loop = "reading"]
  <2>1. Deliver(x, q) /\ p.loop = "ready" /\ p.ready = "ok"
    BY <1>2 DEF ReadyFulfilled, ReadyQueued
  <2>2. Answered(x, w, q)
    BY <1>1, <2>1, ReadFits DEF PInv
  <2> HIDE DEF x, q
  <2> QED
    BY <2>1, <2>2, DeliverFits
<1>3. CASE Step(r, w, [p EXCEPT !.loop = "ended"])
  <2> DEFINE q == [p EXCEPT !.loop = "ended"]
  <2>1. /\ DOMAIN q = PipeFields /\ q.loop = "ended" /\ q.ready = p.ready
        /\ q.sent = p.sent /\ q.cur = p.cur /\ q.shutting = p.shutting
        /\ q.phase = p.phase /\ q.action = p.action /\ q.failed = p.failed
        /\ q.needs = p.needs /\ q.result = p.result /\ q.armed = p.armed
        /\ q.rejected = p.rejected
    BY <1>1 DEF PipeTypes, PipeFields
  <2> HIDE DEF q
  <2>2. PipeTypes(q) /\ Control(q)
    BY <1>1, <2>1 DEF PipeTypes, Control, Begun
  <2>3. Locks(r, w, q) /\ Sent(r, q)
    BY <1>1, <2>1 DEF Locks, Sent, Begun, Going
  <2>4. Room(w, q) /\ Written(w, q)
    BY <1>1, <2>1 DEF Room, Written, Going
  <2>5. Closing(r, w, q) /\ Reasons(r, q) /\ Outcome(r, w, q)
    BY <1>1, <2>1 DEF Closing, Reasons, Outcome, Going
  <2>6. PipeFits(r, w, q)
    BY <1>1, <2>2, <2>3, <2>4, <2>5 DEF PipeFits
  <2> QED
    BY <1>3, <2>6, StepFits DEF q
<1>4. CASE PipeStep /\ ~p.shutting
  <2> DEFINE v == w.wr[Writer].ready
             q == [p EXCEPT !.loop = "ready", !.ready = v]
  <2>1. Step(r, w, q) /\ p.loop = "next"
    BY <1>4 DEF PipeStep
  <2> HIDE DEF v
  <2>2. /\ DOMAIN q = PipeFields /\ q.loop = "ready" /\ q.ready = v
        /\ q.sent = p.sent /\ q.cur = p.cur /\ q.shutting = p.shutting
        /\ q.phase = p.phase /\ q.action = p.action /\ q.failed = p.failed
        /\ q.needs = p.needs /\ q.result = p.result /\ q.armed = p.armed
        /\ q.rejected = p.rejected
    BY <1>1 DEF PipeTypes, PipeFields
  <2> HIDE DEF q
  <2>3. PipeTypes(q) /\ Control(q)
    BY <1>1, <2>2 DEF PipeTypes, Control, Begun
  <2>4. Locks(r, w, q) /\ Sent(r, q) /\ w.writer = Writer /\ ~w.wr[Writer].late
    BY <1>1, <1>4, <2>1, <2>2 DEF Locks, Sent, Begun, Going
  <2>5. Room(w, q)
    <3>1. v = "ok" /\ Accepts(w) => w.total < w.hwm
      BY <1>1, <2>4, ReadyMeansRoom DEF Streams, Room, v
    <3> QED
      BY <1>1, <2>2, <3>1 DEF Room
  <2>6. Written(w, q) /\ Closing(r, w, q) /\ Reasons(r, q) /\ Outcome(r, w, q)
    BY <1>1, <1>4, <2>1, <2>2 DEF Written, Closing, Reasons, Outcome, Going
  <2>7. PipeFits(r, w, q)
    BY <1>1, <2>3, <2>4, <2>5, <2>6 DEF PipeFits
  <2> QED
    BY <2>1, <2>7, StepFits
<1> QED
  BY <1>2, <1>3, <1>4 DEF PipeStep, ReadyRejected

(* The writes are done with, and the actions.                              *)
LEMMA ShutdownStep ==
  ASSUME PInv, WritesFinished \/ ActionSettled
  PROVE  PInv'
<1>1. PipeFits(r, w, p) /\ PipeTypes(p) /\ Control(p) /\ Written(w, p) /\ Good(w)
  BY DEF PInv, PipeFits, Streams
<1>2. ASSUME NEW ph, p.phase = ph PROVE PipeFits(r, w, InPhase(p, ph))
  <2>1. Alike(p, InPhase(p, ph))
    BY <1>1, <1>2 DEF Alike, InPhase, PipeTypes, PipeFields
  <2> QED
    BY <1>1, <2>1, AlikeFits
<1>3. CASE WritesFinished /\ p.waitFor # p.cur
  <2> DEFINE q == [p EXCEPT !.waitFor = p.cur]
  <2>1. Alike(p, q) /\ Step(r, w, q)
    BY <1>1, <1>3 DEF WritesFinished, Alike, PipeTypes, PipeFields
  <2> HIDE DEF q
  <2> QED
    BY <1>1, <2>1, AlikeFits, StepFits
<1>4. CASE WritesFinished /\ p.waitFor = p.cur
  <2>1. p.phase = "waiting" /\ WriteDone(p.cur) /\ DoTheRest(r, w, p)
    BY <1>4 DEF WritesFinished
  <2>2. ASSUME w.st = "writable" PROVE Flushed(w)
    <3> DEFINE m == w.writes
    <3>1. /\ m \in 0..MaxWrites /\ w.wp \in [WriteIds -> Promise] /\ Order(w) /\ Open(w)
          /\ p.cur = m
      BY <1>1, <2>2 DEF Good, Base, Types, Written
    <3>2. ASSUME NEW i \in WriteIds, w.wp[i] = "pending" PROVE FALSE
      <4>1. i <= m /\ m \in WriteIds
        <5>1. ~(i > m)
          BY <3>1, <3>2 DEF Order
        <5> QED
          BY <3>1, <5>1, WritableBounds DEF WriteIds
      <4>2. w.wp[m] # "none" /\ w.wp[m] # "err" /\ w.wp[m] # "pending"
        <5>1. ~(m > m)
          BY <3>1
        <5> QED
          BY <2>1, <2>2, <3>1, <4>1, <5>1 DEF Order, Open, WriteDone
      <4>3. w.wp[m] = "ok"
        BY <3>1, <4>1, <4>2 DEF Promise
      <4>4. i = m \/ i < m
        BY <3>1, <4>1 DEF WriteIds
      <4> QED
        BY <3>1, <3>2, <4>1, <4>3, <4>4 DEF Order
    <3> QED
      BY <3>2 DEF Flushed
  <2>3. PipeFits(r, w, InPhase(p, "waiting"))
    BY <1>1, <1>2, <2>1
  <2> QED
    BY <2>1, <2>2, <2>3, DoTheRestFits
<1>5. CASE ActionSettled
  <2> DEFINE f == ActionFails \/ p.failed
  <2>1. p.phase = "acting" /\ Finalize(r, w, p, f) /\ (ActionFails \/ ActionSucceeds)
    BY <1>5 DEF ActionSettled
  <2>2. f \in BOOLEAN
    BY DEF ActionFails
  <2>3. ~f => ~p.failed /\ ("close" \in p.needs => w.closeP = "ok")
    BY <2>1 DEF ActionSucceeds, Needed
  <2> HIDE DEF f
  <2>4. p.action # "none"
    BY <1>1, <2>1 DEF Control
  <2>5. PipeFits(r, w, InPhase(p, "acting"))
    BY <1>1, <1>2, <2>1
  <2> QED
    BY <2>1, <2>2, <2>3, <2>4, <2>5, FinalizeFits
<1> QED
  BY <1>3, <1>4, <1>5 DEF WritesFinished

(* The source enqueues, ends, and has its promises settle.                 *)
LEMMA SourceStep ==
  ASSUME PInv, Enqueue \/ SourceCloses \/ SourceErrs \/ SourceStarted \/ SourcePulled
  PROVE  PInv'
<1>1. /\ RGood(r) /\ Fine(r) /\ PipeFits(r, w, p) /\ Locks(r, w, p) /\ Going(p)
      /\ r.reader \in MaybeReader
  BY DEF PInv, PipeFits, Streams, RGood, RBase, RTypes, Live, Going,
         Enqueue, SourceCloses, SourceErrs, SourceStarted, SourcePulled
<1>2. ASSUME NEW x, RGood(x), Fine(x), Moves(r, x), Deliver(x, p) PROVE PInv'
  <2>1. Answered(x, w, p)
    BY <1>1, <1>2, SourceFits
  <2> QED
    BY <1>2, <2>1, DeliverFits
<1>3. CASE Enqueue
  <2>1. r.st = "readable" /\ r.chunks < MaxChunks
    BY <1>3 DEF Enqueue, CanCloseOrEnqueue
  <2>2. r.reader = NoReader \/ r.reader = Reader
    BY <1>1 DEF Locks, Going
  <2>3. CASE r.reader # NoReader /\ r.reqs[Reader] # <<>>
    <3> DEFINE x == EnqueueToReader(r, r.reader)
    <3>1. Deliver(x, p) /\ r.reader \in ReaderIds
      BY <1>3, <2>2, <2>3, PipeBounds, ReadableBounds DEF Enqueue, ReaderIds, Reader
    <3>2. RGood(x) /\ Fine(x) /\ Moves(r, x)
      BY <1>1, <2>1, <2>2, <2>3, <3>1, EnqueueToReaderKeeps
    <3> HIDE DEF x
    <3> QED
      BY <1>2, <3>1, <3>2
  <2>4. CASE ~(r.reader # NoReader /\ r.reqs[Reader] # <<>>)
    <3> DEFINE x == EnqueueAfterSize(r, r.reader, 1)
    <3>1. Deliver(x, p)
      BY <1>3, <2>4 DEF Enqueue
    <3>2. NoRequests(r)
      <4>1. \A d \in ReaderIds : d # r.reader => r.reqs[d] = <<>>
        BY <1>1 DEF RGood, RBase, Requests
      <4>2. \A d \in ReaderIds : d # NoReader
        BY DEF ReaderIds, NoReader
      <4> QED
        BY <2>2, <2>4, <4>1, <4>2 DEF NoRequests
    <3>3. /\ RGood(x)
          /\ Fine(r) /\ NoRequests(r) /\ r.st # "closed" /\ r.reader = r.reader
               => Fine(x) /\ NoRequests(x) /\ x.st # "closed"
          /\ r.reader = r.reader => Moves(r, x)
      BY <1>1, <2>1, EnqueueAfterSizeKeeps
    <3> HIDE DEF x
    <3> QED
      BY <1>1, <1>2, <2>1, <3>1, <3>2, <3>3
  <2> QED
    BY <2>3, <2>4
<1>4. CASE SourceCloses
  <2> DEFINE x == RControllerClose(r, r.reader)
  <2>1. RGood(x) /\ Fine(x) /\ Moves(r, x)
    BY <1>1, ControllerCloseKeeps
  <2> QED
    BY <1>2, <1>4, <2>1 DEF SourceCloses
<1>5. CASE SourceErrs
  <2> DEFINE x == RControllerError(r, r.reader)
  <2>1. RGood(x) /\ Fine(x) /\ Moves(r, x)
    BY <1>1, RControllerErrorKeeps
  <2> QED
    BY <1>2, <1>5, <2>1 DEF SourceErrs
<1>6. CASE SourceStarted
  <2>1. PICK ok \in BOOLEAN : Deliver(RStartSettled(r, ok), p)
    BY <1>6 DEF SourceStarted
  <2>2. RGood(RStartSettled(r, ok)) /\ Fine(RStartSettled(r, ok)) /\ Moves(r, RStartSettled(r, ok))
    BY <1>1, RStartSettledKeeps
  <2> QED
    BY <1>2, <2>1, <2>2
<1>7. CASE SourcePulled
  <2>1. PICK ok \in BOOLEAN : Deliver(PullSettled(r, ok), p)
    BY <1>7 DEF SourcePulled
  <2>2. RGood(PullSettled(r, ok)) /\ Fine(PullSettled(r, ok)) /\ Moves(r, PullSettled(r, ok))
    BY <1>1, PullSettledKeeps
  <2> QED
    BY <1>2, <2>1, <2>2
<1> QED
  BY <1>3, <1>4, <1>5, <1>6, <1>7

(* The cancel of the source settles.                                       *)
LEMMA CancelledStep ==
  ASSUME PInv, SourceCancelled
  PROVE  PInv'
<1>1. PICK ok \in BOOLEAN : Step(CancelSettled(r, ok), w, p)
  BY DEF SourceCancelled
<1> DEFINE x == CancelSettled(r, ok)
<1>2. /\ Streams(r, w) /\ PipeTypes(p) /\ Locks(r, w, p) /\ Control(p) /\ Sent(r, p)
      /\ Room(w, p) /\ Written(w, p) /\ Closing(r, w, p) /\ Reasons(r, p) /\ Going(p)
  BY DEF PInv, PipeFits, SourceCancelled, Live, Going
<1>3. /\ RGood(x) /\ Fine(x) /\ RAgree(r, x, {"pend", "cancelP"})
      /\ x.cancelP = "none" <=> r.cancelP = "none"
  BY <1>2, CancelSettledKeeps DEF Streams
<1> HIDE DEF x
<1>4. /\ x.st = r.st /\ x.reader = r.reader /\ x.readers = r.readers /\ x.reads = r.reads
      /\ x.rp = r.rp /\ x.rv = r.rv /\ x.chunks = r.chunks
  BY <1>3 DEF RAgree
<1>5. Locks(x, w, p) /\ Sent(x, p)
  BY <1>2, <1>4 DEF Locks, Sent, Got
<1>6. Closing(x, w, p) /\ Reasons(x, p) /\ Outcome(x, w, p)
  BY <1>2, <1>3, <1>4 DEF Closing, Reasons, Outcome, Going
<1>7. PipeFits(x, w, p)
  BY <1>2, <1>3, <1>5, <1>6 DEF PipeFits, Streams
<1> QED
  BY <1>1, <1>7, StepFits DEF x

(* The sink's promises settle, it fails, and others close or abort the     *)
(* destination before the pipe.                                            *)
LEMMA SinkStep ==
  ASSUME PInv, SinkErrs \/ SinkReacts \/ CloseEarly \/ AbortEarly
  PROVE  PInv'
<1>1. /\ Good(w) /\ Busy(w) /\ PipeFits(r, w, p) /\ Going(p) /\ Locks(r, w, p)
  BY DEF PInv, PipeFits, Streams, Live, Going, SinkErrs, SinkReacts, SinkStarted,
         SinkWrote, SinkClosed, SinkAborted, CloseEarly, AbortEarly
<1>2. ASSUME NEW y, Good(y), Busy(y), Kept(w, y), Tame(w, y), Exact(w) => Exact(y), Step(r, y, p)
      PROVE  PInv'
  <2>1. PipeFits(r, y, p)
    BY <1>1, <1>2, SinkFits
  <2> QED
    BY <1>2, <2>1, StepFits
<1>3. CASE SinkErrs
  <2> DEFINE y == ControllerErrorIfNeeded(w, w.writer)
  <2>1. /\ Step(r, y, p) /\ w.st = "writable" /\ Told(w, w.writer)
        /\ Base(w) /\ Follows(w) /\ Open(w)
    BY <1>1, <1>3 DEF SinkErrs, Told, Good, Base, Types
  <2>2. w.abortReq = "none"
    BY <2>1 DEF Open
  <2>3. Base(y) /\ Busy(y) /\ Follows(y) /\ Kept(w, y) /\ y.st # "writable"
    BY <1>1, <2>1, <2>2, ControllerErrorKeeps
  <2>4. Tame(w, y) /\ Exact(y)
    BY <2>1, <2>2, ControllerErrorTame
  <2> HIDE DEF y
  <2>5. Good(y)
    BY <2>3 DEF Good, Open
  <2> QED
    BY <1>2, <2>1, <2>3, <2>4, <2>5
<1>4. CASE SinkStarted
  <2>1. PICK ok \in BOOLEAN : Step(r, StartSettled(w, ok), p)
    BY <1>4 DEF SinkStarted
  <2> DEFINE y == StartSettled(w, ok)
  <2>2. Good(y) /\ Busy(y) /\ Kept(w, y) /\ Tame(w, y) /\ (Exact(w) => Exact(y))
    BY <1>1, <1>4, StartSettledKeeps DEF SinkStarted
  <2> QED
    BY <1>2, <2>1, <2>2
<1>5. CASE SinkWrote
  <2>1. PICK ok \in BOOLEAN : Step(r, WriteSettled(w, ok), p)
    BY <1>5 DEF SinkWrote
  <2> DEFINE y == WriteSettled(w, ok)
  <2>2. Good(y) /\ Busy(y) /\ Kept(w, y) /\ Tame(w, y) /\ Exact(y)
    BY <1>1, <1>5, WriteSettledKeeps DEF SinkWrote
  <2> QED
    BY <1>2, <2>1, <2>2
<1>6. CASE SinkClosed
  <2>1. PICK ok \in BOOLEAN : Step(r, CloseSettled(w, ok), p)
    BY <1>6 DEF SinkClosed
  <2> DEFINE y == CloseSettled(w, ok)
  <2>2. Good(y) /\ Busy(y) /\ Kept(w, y) /\ Tame(w, y) /\ Exact(y)
    <3>1. CASE ok
      BY <1>1, <1>6, <3>1, CloseOkKeeps DEF SinkClosed, CloseSettled
    <3>2. CASE ~ok
      BY <1>1, <1>6, <3>2, CloseFailedKeeps DEF SinkClosed, CloseSettled
    <3> QED
      BY <3>1, <3>2
  <2> QED
    BY <1>2, <2>1, <2>2
<1>7. CASE SinkAborted
  <2>1. PICK ok \in BOOLEAN : Step(r, AbortSettled(w, ok), p)
    BY <1>7 DEF SinkAborted
  <2> DEFINE y == AbortSettled(w, ok)
  <2>2. Good(y) /\ Busy(y) /\ Kept(w, y) /\ Tame(w, y) /\ Exact(y)
    BY <1>1, <1>7, AbortSettledKeeps DEF SinkAborted
  <2> QED
    BY <1>2, <2>1, <2>2
<1>8. CASE CloseEarly
  <2>1. ~Begun(p) /\ ~CloseQueuedOrInFlight(w) /\ Step(r, WritableClose(w, NoWriter), p)
    BY <1>8 DEF CloseEarly, Started, Begun
  <2>2. w.writer = NoWriter
    BY <1>1, <2>1 DEF Locks
  <2>3. PipeFits(r, WritableClose(w, NoWriter), p)
    BY <1>1, <2>1, <2>2, CloseFits
  <2> QED
    BY <2>1, <2>3, StepFits
<1>9. CASE AbortEarly
  <2> DEFINE y == AbortAfterSignal([w EXCEPT !.signalled = TRUE], NoWriter)
  <2>1. ~Begun(p) /\ Step(r, y, p)
    BY <1>9 DEF AbortEarly, Started, Begun
  <2>2. w.writer = NoWriter
    BY <1>1, <2>1 DEF Locks
  <2>3. PipeFits(r, y, p)
    BY <1>1, <2>2, AbortFits
  <2> HIDE DEF y
  <2> QED
    BY <2>1, <2>3, StepFits
<1> QED
  BY <1>3, <1>4, <1>5, <1>6, <1>7, <1>8, <1>9 DEF SinkReacts

------------------------------------------------------------------------------
(* The theorems.                                                           *)

(* The invariant holds at first, and every step of Pipe keeps it.          *)
LEMMA PipeInit ==
  ASSUME Init
  PROVE  PInv
<1>1. /\ r = NewReadable(SourceHwm) /\ w = NewWritable(DestHwm)
      /\ SourceHwm \in Nat /\ DestHwm \in Nat
  BY PipeAssumption DEF Init
<1>2. /\ DOMAIN p = PipeFields /\ p.loop = "off" /\ p.ready = "none" /\ p.sent = <<>>
      /\ p.cur = NoChunk /\ p.shutting = FALSE /\ p.phase = "off" /\ p.action = "none"
      /\ p.failed = FALSE /\ p.needs = {} /\ p.result = "none" /\ p.armed = FALSE
      /\ p.rejected = FALSE
  BY DEF Init, PipeFields
<1>3. /\ RGood(r) /\ Fine(r) /\ r.reads = 0 /\ r.reader = NoReader /\ r.readers = 0
      /\ r.st = "readable" /\ r.cancelP = "none" /\ \A i \in ReadIds : r.rp[i] = "none"
  BY <1>1, NewReadableGood
<1>4. /\ Good(w) /\ Busy(w) /\ w.writer = NoWriter /\ w.writes = 0 /\ w.writers = 0
      /\ Exact(w) /\ w.total = 0 /\ w.hwm = DestHwm
      /\ w.st = "writable" /\ ~CloseQueuedOrInFlight(w)
  BY <1>1, NewWritableGood
<1>5. PipeTypes(p) /\ Control(p) /\ Locks(r, w, p)
  <2>1. <<>> \in Seq(Nat) /\ NoChunk \in Nat
    BY DEF NoChunk
  <2> QED
    BY <1>2, <1>3, <1>4, <2>1 DEF PipeTypes, Control, Locks, Begun
<1>6. Sent(r, p)
  <2>1. \A i \in ReadIds : ~(i <= Len(<<>>))
    BY DEF ReadIds
  <2> QED
    BY <1>2, <1>3, <2>1 DEF Sent, Got
<1>7. Room(w, p) /\ Written(w, p)
  BY <1>1, <1>2, <1>4 DEF Room, Written, NoChunk
<1>8. Closing(r, w, p) /\ Reasons(r, p) /\ Outcome(r, w, p)
  BY <1>2, <1>3 DEF Closing, Reasons, Outcome
<1> QED
  BY <1>3, <1>4, <1>5, <1>6, <1>7, <1>8 DEF PInv, PipeFits, Streams

(* Every step keeps the invariant.                                         *)
LEMMA PipeNext ==
  ASSUME PInv, [Next]_vars
  PROVE  PInv'
<1>1. CASE Next
  BY <1>1, PipeToStep, WatchStep, LoopStep, ShutdownStep, SourceStep, CancelledStep, SinkStep
     DEF Next, PipeReacts
<1>2. CASE UNCHANGED vars
  BY <1>2 DEF vars, PInv
<1> QED
  BY <1>1, <1>2

(* The streams and the pipe fit together in every state of pipeTo(),       *)
(* whatever the tables' bounds, the high water marks and the options.      *)
THEOREM PInvHolds == Spec => []PInv
<1>1. Init => PInv
  BY PipeInit
<1>2. PInv /\ [Next]_vars => PInv'
  BY PipeNext
<1> QED
  BY <1>1, <1>2, PTL DEF Spec

(* What the loop writes is what the source enqueued, in order, once, and   *)
(* within the destination's high water mark; no expect() is reached.       *)
THEOREM PipesInOrderHolds == Spec => []PipesInOrder
<1>1. PInv => PipesInOrder
  BY DEF PInv, PipeFits, Streams, RGood, RBase, Good, Base, InFlight, Sent, Room, PipesInOrder
<1> QED
  BY <1>1, PInvHolds, PTL

(* A chunk that was read is written while the destination is open, and a   *)
(* shutdown that only waits for the writes ends after the last of them.    *)
THEOREM ReadChunksWrittenHolds == Spec => []ReadChunksWritten
<1>1. ASSUME PInv PROVE ReadChunksWritten
  <2>1. /\ Written(w, p) /\ Control(p) /\ Outcome(r, w, p) /\ PipeTypes(p)
        /\ DOMAIN w.wp = WriteIds
    BY <1>1 DEF PInv, PipeFits, Streams, Good, Base, Types
  <2>2. w.st = "writable" => w.writes = Len(p.sent)
    BY <2>1 DEF Written
  <2>3. ASSUME p.result # "pending", p.action = "none", w.st = "writable"
        PROVE  \A i \in DOMAIN w.wp : w.wp[i] # "pending"
    <3>1. CASE p.phase = "off"
      <4>1. p.sent = <<>> /\ w.writes = 0 /\ Order(w)
        BY <1>1, <2>1, <2>2, <2>3, <3>1
           DEF Control, Begun, PInv, PipeFits, Streams, Good, Base
      <4> QED
        BY <2>1, <4>1 DEF Order, WriteIds
    <3>2. CASE p.phase = "done"
      BY <2>1, <2>3, <3>2 DEF Outcome, Flushed
    <3> QED
      BY <2>1, <2>3, <3>1, <3>2 DEF Control, Begun
  <2> QED
    BY <2>2, <2>3 DEF ReadChunksWritten
<1> QED
  BY <1>1, PInvHolds, PTL

(* pipeTo() that succeeds has moved everything, and closed a destination   *)
(* it was to close with every chunk written.                               *)
THEOREM SuccessMeansPipedHolds == Spec => []SuccessMeansPiped
<1>1. ASSUME PInv PROVE SuccessMeansPiped
  <2>1. Control(p) /\ Outcome(r, w, p)
    BY <1>1 DEF PInv, PipeFits
  <2>2. p.result = "ok" => p.phase = "done"
    BY <2>1 DEF Control, Begun
  <2> QED
    BY <2>1, <2>2 DEF Outcome, SuccessMeansPiped
<1> QED
  BY <1>1, PInvHolds, PTL

=============================================================================
