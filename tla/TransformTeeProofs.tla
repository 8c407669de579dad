-------------------------- MODULE TransformTeeProofs --------------------------
(***************************************************************************)
(* Proofs about Transform and Tee, the two systems made of whole streams   *)
(* that share a state of their own.                                        *)
(*                                                                         *)
(* Transform, for every pair of high water marks and any number of writes, *)
(* chunks and reads: the sink works on exactly the chunk that the writable *)
(* side has in flight.                                                     *)
(*                                                                         *)
(* Tee, for every high water mark of the source and any number of chunks   *)
(* and reads: both branches get every chunk once and in order, no demand   *)
(* of a branch is lost, and the cancel of both branches reaches the        *)
(* source.  The source and the branches are streams locked by their first  *)
(* reader.  Sound is what all three keep, by one lemma for each operator;  *)
(* Whole is what holds of the three and the TeeState together, Attended    *)
(* that somebody attends to what the branches ask for.                     *)
(***************************************************************************)
EXTENDS Transform, Tee, StreamLemmas

------------------------------------------------------------------------------
(* Transform.                                                              *)

TransformFields == {"bp", "promise", "algs", "sink", "wait", "pull", "panic"}

(* The transformer q is at work exactly when the writable side x has a     *)
(* chunk in flight.                                                        *)
InStep(x, q) == q.panic \/ (q.sink # "idle" <=> x.inWrite # NoChunk)

(* The inductive invariant.                                                *)
TInv ==
  /\ Good(w) /\ Busy(w) /\ Idle(w) /\ w.writer = Writer
  /\ RGood(r) /\ r.reader = Reader
  /\ DOMAIN t = TransformFields /\ t.panic \in BOOLEAN /\ InStep(w, t)

------------------------------------------------------------------------------
(* The transformer's state.                                                *)

(* q2 leaves the sink as it is in q.                                       *)
SameSink(q, q2) ==
  DOMAIN q2 = TransformFields /\ q2.sink = q.sink /\ q2.panic = q.panic

(* The flag and the promise do not touch the sink.                         *)
LEMMA FlagKeepsSink ==
  ASSUME NEW q, DOMAIN q = TransformFields, NEW v
  PROVE  /\ SameSink(q, ResolveChange(q)) /\ SameSink(q, SetBackpressure(q, v))
         /\ SameSink(q, SourcePull(q)) /\ SameSink(q, UnblockWrite(q))
BY DEF SameSink, ResolveChange, SetBackpressure, SourcePull, UnblockWrite, TransformFields

(* Nor does a pull of the readable side.                                   *)
LEMMA PullKeepsSink ==
  ASSUME NEW q, DOMAIN q = TransformFields, NEW r1, NEW r0
  PROVE  SameSink(q, AfterReadable(r1, r0, q))
BY FlagKeepsSink DEF AfterReadable, SameSink

(* A chunk for the sink is one it works on.                                *)
LEMMA SinkWriteWorks ==
  ASSUME NEW q, DOMAIN q = TransformFields, q.panic \in BOOLEAN
  PROVE  LET q2 == SinkWrite(q)
         IN  /\ DOMAIN q2 = TransformFields /\ q2.panic \in BOOLEAN
             /\ q2.panic \/ q2.sink # "idle"
BY DEF SinkWrite, PerformTransform, TransformFields

(* A step of the writable side that keeps or begins its chunk, and one     *)
(* that begins another when the last is done with.                         *)
LEMMA AfterWritableFits ==
  ASSUME NEW w1, NEW w0, NEW q, DOMAIN q = TransformFields, q.panic \in BOOLEAN,
         \/ InStep(w0, q) /\ (w0.inWrite # NoChunk => w1.inWrite = w0.inWrite)
         \/ q.sink = "idle" /\ (w1.inWrite # NoChunk => w1.inWrite # w0.inWrite)
  PROVE  LET q2 == AfterWritable(w1, w0, q)
         IN  DOMAIN q2 = TransformFields /\ q2.panic \in BOOLEAN /\ InStep(w1, q2)
<1> DEFINE q2 == AfterWritable(w1, w0, q)
<1>1. CASE w1.inWrite \notin {NoChunk, w0.inWrite}
  <2>1. q2 = SinkWrite(q)
    BY <1>1 DEF AfterWritable
  <2> QED
    BY <1>1, <2>1, SinkWriteWorks DEF InStep
<1>2. CASE w1.inWrite \in {NoChunk, w0.inWrite}
  <2>1. q2 = q
    BY <1>2 DEF AfterWritable
  <2> QED
    BY <1>2, <2>1 DEF InStep
<1> QED
  BY <1>1, <1>2

------------------------------------------------------------------------------
(* The invariant.                                                          *)

(* A step of the writable side alone.                                      *)
LEMMA WritableOnly ==
  ASSUME TInv, UNCHANGED r, Good(w'), Busy(w'), Idle(w'), w'.writer = w.writer,
         w'.inWrite = w.inWrite, SameSink(t, t')
  PROVE  TInv'
BY DEF TInv, SameSink, InStep

(* A step of the readable side alone.                                      *)
LEMMA ReadableOnly ==
  ASSUME TInv, UNCHANGED w, RGood(r'), r'.reader = r.reader, SameSink(t, t')
  PROVE  TInv'
BY DEF TInv, SameSink, InStep

(* Every step keeps the invariant.                                         *)
LEMMA TransformNext ==
  ASSUME TInv, [Next]_vars
  PROVE  TInv'
<1>1. /\ Good(w) /\ Busy(w) /\ Idle(w) /\ w.writer = Writer /\ Told(w, Writer)
      /\ RGood(r) /\ r.reader = Reader /\ Reader \in ReaderIds /\ Reader \in MaybeReader
      /\ DOMAIN t = TransformFields /\ t.panic \in BOOLEAN /\ InStep(w, t)
      /\ Types(w) /\ InFlight(w)
  BY TransformAssumption, ReadableBounds
     DEF TInv, Told, Good, Base, Types, Reader, ReaderIds, MaybeReader
<1>2. SameSink(t, t)
  BY <1>1 DEF SameSink
<1>3. CASE Write
  <2> DEFINE w1 == WriteAfterSize(w, Writer, 1)
  <2>1. /\ w' = w1 /\ t' = AfterWritable(w1, w, t) /\ r' = r /\ w.writes < MaxWrites
    BY <1>3 DEF Write
  <2>2. Good(w1) /\ Busy(w1) /\ KeptWriter(w, w1)
    BY <1>1, <2>1, WriteAfterSizeKeeps
  <2>3. /\ w.writer # Writer \/ w.st # "writable" \/ CloseQueuedOrInFlight(w) => w1 = w
        /\ w.writer = Writer /\ w.st = "writable" /\ ~CloseQueuedOrInFlight(w) =>
             /\ w1.writes = w.writes + 1 /\ w1.hwm = w.hwm
             /\ w1.total \in Nat /\ w1.total <= w.total + 1
             /\ Exact(w1) /\ Idle(w1) /\ ~CloseQueuedOrInFlight(w1) /\ w1.st # "closed"
             /\ w.inWrite # NoChunk => w1.inWrite = w.inWrite
    BY <1>1, <2>1, WriteAccepted
  <2> HIDE DEF w1
  <2>4. Idle(w1) /\ (w.inWrite # NoChunk => w1.inWrite = w.inWrite)
    BY <1>1, <2>3
  <2>5. DOMAIN t' = TransformFields /\ t'.panic \in BOOLEAN /\ InStep(w1, t')
    BY <1>1, <2>1, <2>4, AfterWritableFits
  <2> QED
    BY <1>1, <2>1, <2>2, <2>4, <2>5 DEF TInv, KeptWriter
<1>4. CASE Close
  <2>1. w' = WritableClose(w, w.writer) /\ r' = r /\ t' = t /\ ~CloseQueuedOrInFlight(w)
    BY <1>1, <1>4 DEF Close
  <2>2. Good(w') /\ Busy(w') /\ Kept(w, w') /\ (Idle(w) => Idle(w') /\ w'.inWrite = w.inWrite)
    BY <1>1, <2>1, WritableCloseKeeps
  <2> QED
    BY <1>1, <1>2, <2>1, <2>2, WritableOnly DEF Kept
<1>5. CASE Abort
  <2> DEFINE s == [w EXCEPT !.signalled = TRUE]
  <2>1. w' = AbortAfterSignal(s, Writer) /\ r' = r /\ t' = t
    BY <1>5 DEF Abort
  <2>2. Good(s) /\ Busy(s) /\ Kept(w, s) /\ Agree(w, s, {"signalled"}) /\ Steady(w, s)
    BY <1>1, SignalKeeps
  <2> HIDE DEF s
  <2>3. Told(s, Writer) /\ s.inWrite = w.inWrite
    BY <1>1, <2>2 DEF Told, Kept, Agree
  <2>4. Good(w') /\ Busy(w') /\ Kept(s, w') /\ Steady(s, w') /\ w'.inWrite = s.inWrite
    BY <2>1, <2>2, <2>3, AbortAfterSignalKeeps
  <2> QED
    BY <1>1, <1>2, <2>1, <2>2, <2>3, <2>4, WritableOnly DEF Kept, Steady
<1>6. CASE WritableStarted
  <2>1. PICK ok \in BOOLEAN : /\ w' = StartSettled(w, ok)
                              /\ t' = AfterWritable(StartSettled(w, ok), w, t)
    BY <1>6 DEF WritableStarted
  <2>2. "start" \in w.pend /\ r' = r
    BY <1>6 DEF WritableStarted
  <2>3. Good(w') /\ Busy(w') /\ Kept(w, w') /\ Idle(w')
    BY <1>1, <2>1, <2>2, StartSettledKeeps
  <2>4. w.inWrite = NoChunk
    BY <1>1, <2>2 DEF InFlight
  <2>5. DOMAIN t' = TransformFields /\ t'.panic \in BOOLEAN /\ InStep(w', t')
    BY <1>1, <2>1, <2>4, AfterWritableFits
  <2> QED
    BY <1>1, <2>2, <2>3, <2>5 DEF TInv, Kept
<1>7. CASE Transformed
  <2> DEFINE q == [t EXCEPT !.sink = "idle"]
  <2>1. PICK ok \in BOOLEAN : /\ w' = WriteSettled(w, ok)
                              /\ t' = AfterWritable(WriteSettled(w, ok), w, q)
    BY <1>7 DEF Transformed
  <2>2. "write" \in w.pend /\ r' = r
    BY <1>1, <1>7 DEF Transformed, Alive, InStep, InFlight
  <2>3. /\ Good(w') /\ Busy(w') /\ Kept(w, w') /\ Idle(w')
        /\ w'.inWrite # NoChunk => w'.inWrite # w.inWrite
    BY <1>1, <2>1, <2>2, WriteSettledKeeps
  <2>4. DOMAIN q = TransformFields /\ q.panic \in BOOLEAN /\ q.sink = "idle"
    BY <1>1 DEF TransformFields
  <2> HIDE DEF q
  <2>5. DOMAIN t' = TransformFields /\ t'.panic \in BOOLEAN /\ InStep(w', t')
    BY <2>1, <2>3, <2>4, AfterWritableFits
  <2> QED
    BY <1>1, <2>2, <2>3, <2>5 DEF TInv, Kept
<1>8. CASE BackpressureChanged
  <2>1. t' = PerformTransform(t) /\ w' = w /\ r' = r /\ t.sink = "waiting" /\ ~t.panic
    BY <1>8 DEF BackpressureChanged, Alive
  <2>2. DOMAIN t' = TransformFields /\ t'.panic \in BOOLEAN /\ InStep(w, t')
    BY <1>1, <2>1 DEF PerformTransform, TransformFields, InStep
  <2> QED
    BY <1>1, <2>1, <2>2 DEF TInv
<1>9. CASE Flushed
  <2>1. PICK ok \in BOOLEAN :
          /\ w' = CloseSettled(w, ok)
          /\ r' = IF ok THEN RControllerClose(r, Reader) ELSE RControllerError(r, Reader)
          /\ t' = IF ok THEN [ResolveChange(t) EXCEPT !.promise = "none", !.algs = FALSE]
                        ELSE UnblockWrite(t)
    BY <1>9 DEF Flushed
  <2>2. "close" \in w.pend
    BY <1>9 DEF Flushed
  <2>3. Good(w') /\ Busy(w') /\ Kept(w, w') /\ Idle(w') /\ w'.inWrite = w.inWrite
    <3>1. CASE ok
      BY <1>1, <2>1, <2>2, <3>1, CloseOkKeeps DEF CloseSettled
    <3>2. CASE ~ok
      BY <1>1, <2>1, <2>2, <3>2, CloseFailedKeeps DEF CloseSettled
    <3> QED
      BY <3>1, <3>2
  <2>4. RGood(r') /\ r'.reader = r.reader
    <3>1. CASE ok
      <4>1. r' = RControllerClose(r, r.reader)
        BY <1>1, <2>1, <3>1
      <4> QED
        BY <1>1, <4>1, ControllerCloseKeeps DEF Counts
    <3>2. CASE ~ok
      <4>1. r' = RControllerError(r, Reader)
        BY <2>1, <3>2
      <4> QED
        BY <1>1, <4>1, RControllerErrorKeeps DEF Counts
    <3> QED
      BY <3>1, <3>2
  <2>5. SameSink(t, t')
    <3>1. SameSink(t, ResolveChange(t)) /\ SameSink(t, UnblockWrite(t))
      BY <1>1, FlagKeepsSink
    <3> QED
      BY <2>1, <3>1 DEF SameSink, TransformFields
  <2> QED
    BY <1>1, <2>3, <2>4, <2>5 DEF TInv, Kept, SameSink, InStep
<1>10. CASE SinkAborted
  <2>1. PICK ok \in BOOLEAN : w' = AbortSettled(w, ok)
    BY <1>10 DEF SinkAborted
  <2>2. "abort" \in w.pend /\ r' = r /\ SameSink(t, t')
    BY <1>1, <1>10 DEF SinkAborted, SameSink, TransformFields
  <2>3. Good(w') /\ Busy(w') /\ Kept(w, w') /\ Idle(w') /\ w'.inWrite = w.inWrite
    BY <1>1, <2>1, <2>2, AbortSettledKeeps
  <2> QED
    BY <2>2, <2>3, WritableOnly DEF Kept
<1>11. CASE Read
  <2>1. /\ r' = DefaultReaderRead(r, r.reader) /\ w' = w /\ r.reads < MaxReads
        /\ t' = AfterReadable(DefaultReaderRead(r, Reader), r, t)
    BY <1>1, <1>11 DEF Read
  <2>2. RGood(r') /\ Counts(r, r')
    BY <1>1, <2>1, ReadKeeps
  <2>3. SameSink(t, t')
    BY <1>1, <2>1, PullKeepsSink
  <2> QED
    BY <2>1, <2>2, <2>3, ReadableOnly DEF Counts
<1>12. CASE Cancel
  <2>1. r' = ReadableCancel(r, r.reader) /\ w' = w /\ t' = t /\ r.st = "readable"
    BY <1>1, <1>12 DEF Cancel
  <2>2. RGood(r') /\ Counts(r, r')
    BY <1>1, <2>1, CancelKeeps
  <2> QED
    BY <1>2, <2>1, <2>2, ReadableOnly DEF Counts
<1>13. CASE Enqueue
  <2> DEFINE r1 == IF ~CanCloseOrEnqueue(r) THEN r
                   ELSE IF r.reqs[Reader] # <<>> THEN EnqueueToReader(r, Reader)
                   ELSE EnqueueAfterSize(r, Reader, 1)
             t1 == AfterReadable(r1, r, t)
             full == r1.st # "readable" \/ r1.hwm - r1.total <= 0
  <2>1. /\ r' = r1 /\ w' = w /\ r.chunks < MaxChunks
        /\ t' = IF full # t1.bp THEN SetBackpressure(t1, TRUE) ELSE t1
    BY <1>13 DEF Enqueue
  <2>2. RGood(r1) /\ r1.reader = r.reader
    <3>1. CASE ~CanCloseOrEnqueue(r)
      BY <1>1, <3>1
    <3>2. CASE CanCloseOrEnqueue(r) /\ r.reqs[Reader] # <<>>
      <4>1. r1 = EnqueueToReader(r, r.reader)
        BY <1>1, <3>2
      <4> QED
        BY <1>1, <2>1, <3>2, <4>1, EnqueueToReaderKeeps
    <3>3. CASE CanCloseOrEnqueue(r) /\ ~(r.reqs[Reader] # <<>>)
      <4>1. r1 = EnqueueAfterSize(r, Reader, 1)
        BY <3>3
      <4> QED
        BY <1>1, <2>1, <4>1, EnqueueAfterSizeKeeps
    <3> QED
      BY <3>1, <3>2, <3>3
  <2> HIDE DEF r1, full
  <2>3. SameSink(t, t1)
    BY <1>1, PullKeepsSink
  <2> HIDE DEF t1
  <2>4. SameSink(t1, SetBackpressure(t1, TRUE))
    BY <2>3, FlagKeepsSink DEF SameSink
  <2>5. SameSink(t, t')
    BY <2>1, <2>3, <2>4 DEF SameSink
  <2> QED
    BY <2>1, <2>2, <2>5, ReadableOnly
<1>14. CASE ControllerError
  <2>1. r' = RControllerError(r, Reader) /\ w' = w /\ t' = UnblockWrite(t)
    BY <1>14 DEF ControllerError
  <2>2. RGood(r') /\ Counts(r, r')
    BY <1>1, <2>1, RControllerErrorKeeps
  <2>3. SameSink(t, t')
    BY <1>1, <2>1, FlagKeepsSink
  <2> QED
    BY <2>1, <2>2, <2>3, ReadableOnly DEF Counts
<1>15. CASE Terminate
  <2>1. r' = RControllerClose(r, r.reader) /\ w' = w /\ t' = UnblockWrite(t)
    BY <1>1, <1>15 DEF Terminate
  <2>2. RGood(r') /\ Counts(r, r')
    BY <1>1, <2>1, ControllerCloseKeeps
  <2>3. SameSink(t, t')
    BY <1>1, <2>1, FlagKeepsSink
  <2> QED
    BY <2>1, <2>2, <2>3, ReadableOnly DEF Counts
<1>16. CASE ReadableStarted
  <2>1. /\ r' = RStartSettled(r, TRUE) /\ w' = w
        /\ t' = AfterReadable(RStartSettled(r, TRUE), r, t)
    BY <1>16 DEF ReadableStarted
  <2>2. RGood(r') /\ Counts(r, r')
    BY <1>1, <2>1, RStartSettledKeeps
  <2>3. SameSink(t, t')
    BY <1>1, <2>1, PullKeepsSink
  <2> QED
    BY <2>1, <2>2, <2>3, ReadableOnly DEF Counts
<1>17. CASE Pulled
  <2> DEFINE r0 == [r EXCEPT !.pend = @ \ {"pull"}]
             q == [t EXCEPT !.pull = "none"]
  <2>1. r' = PullSettled(r, TRUE) /\ w' = w /\ t' = AfterReadable(PullSettled(r, TRUE), r0, q)
    BY <1>17 DEF Pulled
  <2>2. RGood(r') /\ Counts(r, r')
    BY <1>1, <2>1, PullSettledKeeps
  <2>3. SameSink(t, q)
    BY <1>1 DEF SameSink, TransformFields
  <2> HIDE DEF r0, q
  <2>4. SameSink(q, t')
    BY <2>1, <2>3, PullKeepsSink DEF SameSink
  <2> QED
    BY <2>1, <2>2, <2>3, <2>4, ReadableOnly DEF Counts, SameSink
<1>18. CASE SourceCancelled
  <2>1. PICK ok \in BOOLEAN : r' = CancelSettled(r, ok)
    BY <1>18 DEF SourceCancelled
  <2>2. w' = w /\ t' = UnblockWrite(t)
    BY <1>18 DEF SourceCancelled
  <2>3. RGood(r') /\ Counts(r, r')
    BY <1>1, <2>1, CancelSettledKeeps
  <2>4. SameSink(t, t')
    BY <1>1, <2>2, FlagKeepsSink
  <2> QED
    BY <2>2, <2>3, <2>4, ReadableOnly DEF Counts
<1>19. CASE UNCHANGED vars
  BY <1>19 DEF vars, TInv
<1> QED
  BY <1>3, <1>4, <1>5, <1>6, <1>7, <1>8, <1>9, <1>10, <1>11, <1>12, <1>13, <1>14, <1>15,
     <1>16, <1>17, <1>18, <1>19 DEF Next

(* The invariant holds at first.                                           *)
LEMMA TransformInit ==
  ASSUME Init
  PROVE  TInv
<1> DEFINE w0 == NewWritable(WritableHwm)
           r0 == NewReadable(ReadableHwm)
<1>1. /\ w = AcquireWriter(w0, FALSE) /\ r = AcquireReader(r0)
      /\ DOMAIN t = TransformFields /\ t.sink = "idle" /\ t.panic = FALSE
  BY DEF Init, TransformFields
<1>2. /\ Good(w0) /\ Busy(w0) /\ Idle(w0) /\ w0.writers = 0 /\ w0.inWrite = NoChunk
      /\ ~CloseQueuedOrInFlight(w0)
  BY TransformAssumption, NewWritableGood
<1>3. RGood(r0) /\ r0.reader = NoReader /\ r0.readers = 0
  BY TransformAssumption, NewReadableGood
<1> HIDE DEF w0, r0
<1>4. /\ Good(w) /\ Busy(w) /\ Agree(w0, w, {"writers", "writer", "wr"}) /\ w.writer = w0.writers + 1
  <2>1. w0.writers < MaxWriters /\ ~w0.inClose
    BY <1>2, TransformAssumption, WritableBounds DEF CloseQueuedOrInFlight
  <2> QED
    BY <1>1, <1>2, <2>1, AcquireKeeps
<1>5. Idle(w) /\ w.inWrite = NoChunk /\ w.writer = Writer
  BY <1>2, <1>4 DEF Agree, Idle, Writer
<1>6. RGood(r) /\ r.reader = Reader
  <2>1. RGood(r) /\ r.reader = r0.readers + 1
    BY <1>1, <1>3, TransformAssumption, ReadableBounds, AcquireReaderKeeps
  <2> QED
    BY <1>3, <2>1 DEF Reader
<1> QED
  BY <1>1, <1>4, <1>5, <1>6 DEF TInv, InStep

(* The sink works on the chunk the writable side has in flight and on no   *)
(* other, and neither side reaches an expect() of its own, whatever the    *)
(* transformer, the writer and the reader do.                              *)
THEOREM SinkFollowsStreamHolds == Spec => []SinkFollowsStream
<1>1. Init => TInv
  BY TransformInit
<1>2. TInv /\ [Next]_vars => TInv'
  BY TransformNext
<1>3. TInv => SinkFollowsStream
  BY DEF TInv, InStep, SinkFollowsStream, Good, Base, InFlight, RGood, RBase
<1> QED
  BY <1>1, <1>2, <1>3, PTL DEF Spec

------------------------------------------------------------------------------
(* Tee.                                                                    *)

(* A stream locked by its first reader, whose pull promise is awaited      *)
(* exactly while it pulls; a read waits only for an empty queue.           *)
Sound(x) ==
  /\ RTypes(x) /\ ~x.panic /\ x.reader = TeeReader /\ (x.st = "readable" => x.algs)
  /\ x.pulling <=> "pull" \in x.pend
  /\ x.reqs[TeeReader] # <<>> => x.st = "readable" /\ x.queue = <<>>

(* How many chunks have left the queue of x.                               *)
Taken(x) == x.chunks - Len(x.queue)

(* The source: its queue holds the latest chunks, and at most one read     *)
(* waits.                                                                  *)
Src(x) ==
  /\ Sound(x) /\ x.reqs[TeeReader] \in {<<>>, <<1>>}
  /\ x.reqs[TeeReader] # <<>> => x.rp[1] = "pending"
  /\ \A k \in DOMAIN x.queue : x.queue[k] = Taken(x) + k

(* A reader waits at the branch c; the branch will pull once more; the     *)
(* step from c0 to c1 pulls.                                               *)
Demand(c) == CanCloseOrEnqueue(c) /\ c.started /\ c.reqs[TeeReader] # <<>>
Met(c) == c.pulling /\ c.pullAgain
Asks(c0, c1) == "pull" \in c1.pend \ c0.pend

(* The step from c0 to c1 looks whether it should pull: whoever waits at   *)
(* c1 is attended to, and only an open stream is asked.                    *)
Pulls(c0, c1) ==
  /\ Demand(c1) => Asks(c0, c1) \/ Met(c1)
  /\ Asks(c0, c1) => CanCloseOrEnqueue(c1)

TeeFields ==
  {"reading", "readAgain", "job", "cancelled", "cancelP", "told", "log", "panic"}

TeeTypes(x) ==
  /\ DOMAIN x = {"r", "b", "t"} /\ DOMAIN x.b = Branches /\ DOMAIN x.t = TeeFields
  /\ x.t.reading \in BOOLEAN /\ x.t.readAgain \in BOOLEAN /\ x.t.told \in BOOLEAN
  /\ x.t.cancelled \in SUBSET Branches /\ x.t.job \in Nat
  /\ x.t.log \in [Branches -> Seq(Nat)] /\ x.t.panic = FALSE

Streams(x) == Src(x.r) /\ \A i \in Branches : Sound(x.b[i])

(* The source is read exactly while the tee reads and has no job, and a    *)
(* job is part of reading.                                                 *)
Reading(x) ==
  /\ x.r.reqs[TeeReader] # <<>> <=> x.t.reading /\ x.t.job = NoJob
  /\ x.t.job # NoJob => x.t.reading
  /\ x.t.reading => x.r.reads # 0
  /\ x.t.job <= x.r.chunks

Busy1(q) == IF q.job = NoJob THEN 0 ELSE 1

(* An open branch was given all that was taken from the source, but the    *)
(* chunk of the job.                                                       *)
Logs(x) ==
  /\ \A i \in Branches : /\ \A k \in DOMAIN x.t.log[i] : x.t.log[i][k] = k
                         /\ x.b[i].chunks = Len(x.t.log[i])
  /\ \A i \in Branches : x.b[i].st = "readable" =>
       /\ x.t.job # NoJob => x.t.job = Len(x.t.log[i]) + 1
       /\ x.r.st # "errored" => Len(x.t.log[i]) + Busy1(x.t) = Taken(x.r)
  /\ (\A i \in Branches : x.b[i].st = "readable") => Len(x.t.log[1]) = Len(x.t.log[2])

(* A branch waits to close only when the source has ended, as does then    *)
(* the other; a cancelled branch is not open, nor is one that was told of  *)
(* the source's error.                                                     *)
Finishing(x) ==
  /\ \A i \in Branches : x.b[i].st = "readable" /\ x.b[i].closeRequested =>
       x.r.st = "closed" /\ ~x.t.reading
  /\ \A i, j \in Branches : x.b[i].st = "readable" /\ x.b[j].st = "readable" =>
       x.b[i].closeRequested = x.b[j].closeRequested
  /\ x.t.told => \A i \in Branches : x.b[i].st # "readable"
  /\ \A i \in x.t.cancelled : x.b[i].st # "readable"

(* The second cancel went to the source.                                   *)
Cancels(x) ==
  /\ x.t.cancelled = Branches => x.r.st # "readable" /\ x.t.cancelP # "pending"
  /\ x.r.cancelP # "none" => x.t.cancelled = Branches

Fits(x) == TeeTypes(x) /\ Streams(x) /\ Reading(x) /\ Logs(x) /\ Finishing(x)
Whole(x) == Fits(x) /\ Cancels(x)

Attended(x) ==
  \A i \in Branches : Demand(x.b[i]) =>
    x.t.reading \/ Met(x.b[i]) \/ (x.r.st = "errored" /\ ~x.t.told)

(* The inductive invariant.                                                *)
TeeInv == Whole(Now) /\ Attended(Now)
------------------------------------------------------------------------------
(* Streams locked by their first reader.                                   *)

(* The first reader is one the table has room for.                         *)
LEMMA FirstReader ==
  /\ TeeReader \in ReaderIds /\ TeeReader \in MaybeReader /\ TeeReader # NoReader
  /\ 1 \in ReadIds /\ 1 \in 0..MaxReads
BY TeeAssumption, ReadableBounds DEF TeeReader, ReaderIds, MaybeReader, NoReader, ReadIds

(* A pull is made for whoever waits.                                       *)
LEMMA PullSound ==
  ASSUME NEW x, Sound(x)
  PROVE  LET y == CallPullIfNeeded(x, TeeReader)
         IN  Sound(y) /\ RAgree(x, y, PullParts) /\ Pulls(x, y)
<1> DEFINE y == CallPullIfNeeded(x, TeeReader)
           e == [x EXCEPT !.pullAgain = TRUE]
           f == [x EXCEPT !.pulling = TRUE, !.pend = @ \cup {"pull"}]
           should == ShouldCallPull(x, TeeReader)
<1>1. RTypes(x) /\ (x.st = "readable" => x.algs) /\ x.pulling \in BOOLEAN /\ DOMAIN x = RFields
  BY DEF Sound, RTypes
<1>2. RAgree(x, y, PullParts) /\ RTypes(y)
  BY <1>1, FirstReader, CallPullEffect
<1>3. should \in BOOLEAN /\ (should => CanCloseOrEnqueue(x) /\ x.algs) /\ (Demand(x) => should)
  BY <1>1, FirstReader DEF ShouldCallPull, CanCloseOrEnqueue, Demand
<1>4. /\ ~should => y = x
      /\ should /\ x.pulling => y = e
      /\ should /\ ~x.pulling => y = IF x.algs THEN f ELSE Panicked(x)
  BY <1>1, <1>3, Zenon DEF CallPullIfNeeded
<1>5. /\ e.pullAgain = TRUE /\ e.pulling = x.pulling /\ e.pend = x.pend
      /\ f.pulling = TRUE /\ f.pend = x.pend \cup {"pull"}
  BY <1>1 DEF RFields
<1>6. /\ ~should => y.pulling = x.pulling /\ y.pend = x.pend
      /\ should /\ x.pulling => y.pulling /\ y.pullAgain /\ y.pend = x.pend
      /\ should /\ ~x.pulling => y.pulling /\ y.pend = x.pend \cup {"pull"}
  BY <1>3, <1>4, <1>5
<1> HIDE DEF y, e, f, should
<1>7. /\ y.st = x.st /\ y.closeRequested = x.closeRequested /\ y.started = x.started
      /\ y.reqs = x.reqs /\ y.queue = x.queue /\ y.panic = x.panic /\ y.reader = x.reader
      /\ y.algs = x.algs
  BY <1>2 DEF RAgree, PullParts
<1>8. x.pulling <=> "pull" \in x.pend
  BY DEF Sound
<1>9. y.pulling <=> "pull" \in y.pend
  BY <1>1, <1>3, <1>6, <1>8
<1>10. Sound(y)
  BY <1>2, <1>7, <1>9 DEF Sound
<1>11. Demand(y) => should
  BY <1>3, <1>7 DEF Demand, CanCloseOrEnqueue
<1>12. Pulls(x, y)
  BY <1>3, <1>6, <1>7, <1>8, <1>11 DEF Pulls, Asks, Met, CanCloseOrEnqueue
<1> QED
  BY <1>2, <1>10, <1>12 DEF y

(* The reads that waited at x have their answer o at y.                    *)
Replied(x, y, o) ==
  /\ y.reqs[TeeReader] = <<>>
  /\ \A i \in ReadIds : y.rp[i] = IF i \in Elements(x.reqs[TeeReader]) THEN o ELSE x.rp[i]

(* A step that takes or brings no chunk.                                   *)
SameData(x, y) ==
  y.chunks = x.chunks /\ y.reads = x.reads /\ y.rv = x.rv

(* The end of a stream answers its reads.                                  *)
LEMMA EndSound ==
  ASSUME NEW x, NEW y, RTypes(x), ~x.panic, x.reader = TeeReader,
         x.pulling <=> "pull" \in x.pend,
         NEW s \in {"closed", "errored"}, NEW c, NEW o, Ends(x, y, TeeReader, s, c, o)
  PROVE  /\ Sound(y) /\ y.st = s /\ Replied(x, y, o) /\ SameData(x, y) /\ y.queue = x.queue
         /\ y.cancelP = x.cancelP /\ y.closeRequested = x.closeRequested /\ y.algs = x.algs
         /\ y.pend = x.pend
<1>1. /\ RTypes(y) /\ y.st = s /\ y.reqs[TeeReader] = <<>>
      /\ \A i \in ReadIds : y.rp[i] = IF i \in Elements(x.reqs[TeeReader]) THEN o ELSE x.rp[i]
  BY FirstReader DEF Ends
<1>2. /\ y.reader = x.reader /\ y.panic = x.panic /\ y.pulling = x.pulling /\ y.pend = x.pend
      /\ y.chunks = x.chunks /\ y.reads = x.reads /\ y.rv = x.rv /\ y.queue = x.queue
      /\ y.cancelP = x.cancelP /\ y.closeRequested = x.closeRequested /\ y.algs = x.algs
  BY DEF Ends, RAgree, EndParts
<1> QED
  BY <1>1, <1>2 DEF Sound, Replied, SameData

(* The controller's error.                                                 *)
LEMMA ErrorSound ==
  ASSUME NEW x, Sound(x)
  PROVE  LET y == RControllerError(x, TeeReader)
         IN  /\ Sound(y) /\ y.st # "readable" /\ SameData(x, y) /\ y.cancelP = x.cancelP
             /\ y.reqs[TeeReader] = <<>>
             /\ x.st = "readable" => y.st = "errored" /\ y.queue = <<>> /\ Replied(x, y, "err")
             /\ x.st # "readable" => y = x
<1> DEFINE y == RControllerError(x, TeeReader)
           u == RClearAlgorithms(ResetQueue(x))
           Parts == {"queue", "total", "algs"}
<1>1. RTypes(x) /\ ~x.panic /\ x.reader = TeeReader /\ (x.pulling <=> "pull" \in x.pend)
  BY DEF Sound
<1>2. CASE x.st # "readable"
  <2>1. y = x
    BY <1>2 DEF RControllerError
  <2> QED
    BY <1>2, <2>1 DEF Sound, SameData
<1>3. CASE x.st = "readable"
  <2>2. RAgree(x, u, Parts) /\ u.queue = <<>> /\ u.total = 0 /\ u.algs = FALSE
    BY <1>1 DEF RClearAlgorithms, ResetQueue, RAgree, RTypes, RFields
  <2>3. y = ReadableError(u, TeeReader)
    BY <1>3 DEF RControllerError
  <2> HIDE DEF u
  <2>4. RTyped(u, Parts)
    <3>1. u.queue \in Seq(ChunkIds)
      BY <2>2, EmptySeq
    <3>2. u.total \in Nat
      BY <2>2
    <3>3. u.algs \in BOOLEAN
      BY <2>2
    <3> QED
      BY <3>1, <3>2, <3>3 DEF RTyped
  <2>5. RTypes(u)
    BY <1>1, <2>2, <2>4, RTypesCarry
  <2>6. /\ u.reader = x.reader /\ u.panic = x.panic /\ u.chunks = x.chunks
        /\ u.reads = x.reads /\ u.reqs = x.reqs /\ u.rp = x.rp /\ u.rv = x.rv
        /\ u.cancelP = x.cancelP /\ u.pulling = x.pulling /\ u.pend = x.pend
    BY <2>2 DEF RAgree
  <2>7. Ends(u, y, TeeReader, "errored", "err", "err")
    BY <2>3, <2>5, FirstReader, EndEffect
  <2> HIDE DEF y
  <2>8. /\ Sound(y) /\ y.st = "errored" /\ Replied(u, y, "err") /\ SameData(u, y) /\ y.queue = u.queue
        /\ y.cancelP = u.cancelP
    BY <1>1, <2>5, <2>6, <2>7, EndSound
  <2> QED
    BY <1>3, <2>2, <2>6, <2>8 DEF Replied, SameData, y
<1> QED
  BY <1>2, <1>3

(* The controller's close.                                                 *)
LEMMA CloseSound ==
  ASSUME NEW x, Sound(x)
  PROVE  LET y == RControllerClose(x, TeeReader)
         IN  /\ Sound(y) /\ SameData(x, y) /\ y.cancelP = x.cancelP /\ y.queue = x.queue
             /\ CanCloseOrEnqueue(x) => y.closeRequested
             /\ CanCloseOrEnqueue(x) /\ x.queue = <<>> => y.st = "closed" /\ Replied(x, y, "done")
             /\ CanCloseOrEnqueue(x) /\ x.queue # <<>> =>
                  y.st = "readable" /\ y.reqs = x.reqs /\ y.rp = x.rp
             /\ ~CanCloseOrEnqueue(x) => y = x
<1> DEFINE y == RControllerClose(x, TeeReader)
           c == [x EXCEPT !.closeRequested = TRUE]
           u == RClearAlgorithms(c)
<1>1. /\ RTypes(x) /\ ~x.panic /\ x.reader = TeeReader /\ (x.pulling <=> "pull" \in x.pend)
      /\ DOMAIN x = RFields /\ (x.st = "readable" => x.algs)
      /\ (x.reqs[TeeReader] # <<>> => x.st = "readable" /\ x.queue = <<>>)
  BY DEF Sound, RTypes
<1>2. CASE ~CanCloseOrEnqueue(x)
  <2>1. y = x
    BY <1>2 DEF RControllerClose
  <2> QED
    BY <1>2, <2>1 DEF SameData
<1>3. CASE CanCloseOrEnqueue(x)
  <2>1. /\ RAgree(x, c, {"closeRequested"}) /\ c.closeRequested = TRUE
        /\ RAgree(x, u, {"closeRequested", "algs"}) /\ u.closeRequested = TRUE /\ u.algs = FALSE
        /\ c.queue = x.queue
    BY <1>1 DEF RClearAlgorithms, RAgree, RFields
  <2>2. y = IF c.queue = <<>> THEN ReadableClose(u, TeeReader) ELSE c
    BY <1>3 DEF RControllerClose
  <2> HIDE DEF u, c
  <2>3. RTyped(c, {"closeRequested"}) /\ RTyped(u, {"closeRequested", "algs"})
    BY <2>1 DEF RTyped
  <2>4. RTypes(c) /\ RTypes(u)
    BY <1>1, <2>1, <2>3, RTypesCarry
  <2>5. /\ c.st = x.st /\ c.reader = x.reader /\ c.panic = x.panic /\ c.chunks = x.chunks
        /\ c.reads = x.reads /\ c.reqs = x.reqs /\ c.rp = x.rp /\ c.rv = x.rv
        /\ c.cancelP = x.cancelP /\ c.pulling = x.pulling /\ c.pend = x.pend /\ c.algs = x.algs
        /\ u.reader = x.reader /\ u.panic = x.panic /\ u.chunks = x.chunks
        /\ u.reads = x.reads /\ u.reqs = x.reqs /\ u.rp = x.rp /\ u.rv = x.rv
        /\ u.cancelP = x.cancelP /\ u.pulling = x.pulling /\ u.pend = x.pend /\ u.queue = x.queue
    BY <2>1 DEF RAgree
  <2>6. CASE x.queue = <<>>
    <3>1. Ends(u, y, TeeReader, "closed", "ok", "done")
      BY <2>1, <2>2, <2>4, <2>6, FirstReader, EndEffect
    <3> HIDE DEF y
    <3>2. /\ Sound(y) /\ y.st = "closed" /\ Replied(u, y, "done") /\ SameData(u, y)
          /\ y.queue = u.queue /\ y.cancelP = u.cancelP /\ y.closeRequested = u.closeRequested
      BY <1>1, <2>4, <2>5, <3>1, EndSound
    <3> QED
      BY <1>3, <2>1, <2>5, <2>6, <3>2 DEF Replied, SameData, y
  <2>7. CASE x.queue # <<>>
    <3>1. y = c
      BY <2>1, <2>2, <2>7
    <3> HIDE DEF y
    <3>2. Sound(y)
      BY <1>1, <2>1, <2>4, <2>5, <3>1 DEF Sound
    <3> QED
      BY <1>3, <2>1, <2>5, <2>7, <3>1, <3>2 DEF SameData, CanCloseOrEnqueue, y
  <2> QED
    BY <2>6, <2>7
<1> QED
  BY <1>2, <1>3

(* A chunk for a reader that waits.                                        *)
LEMMA HandOver ==
  ASSUME NEW x, Sound(x), CanCloseOrEnqueue(x), x.reqs[TeeReader] # <<>>, x.chunks < MaxChunks
  PROVE  LET y == EnqueueToReader(x, TeeReader)
         IN  /\ Sound(y) /\ Pulls(x, y) /\ y.st = "readable" /\ ~y.closeRequested
             /\ y.chunks = x.chunks + 1 /\ y.queue = <<>> /\ x.queue = <<>>
             /\ y.reads = x.reads /\ y.cancelP = x.cancelP
             /\ y.reqs[TeeReader] = Tail(x.reqs[TeeReader])
             /\ y.rp[Head(x.reqs[TeeReader])] = "chunk"
             /\ y.rv[Head(x.reqs[TeeReader])] = x.chunks + 1
<1> DEFINE d == TeeReader
           v == x.chunks + 1
           q == x.reqs[d]
           i == Head(q)
           c == [x EXCEPT !.chunks = v]
           fq == [x.reqs EXCEPT ![d] = Tail(q)]
           fp == [x.rp EXCEPT ![i] = "chunk"]
           fv == [x.rv EXCEPT ![i] = v]
           u == [x EXCEPT !.chunks = v, !.reqs = fq, !.rp = fp, !.rv = fv]
           y == EnqueueToReader(x, d)
           Parts == {"chunks", "reqs", "rp", "rv"}
<1>1. /\ RTypes(x) /\ ~x.panic /\ x.reader = TeeReader /\ (x.st = "readable" => x.algs)
      /\ (x.pulling <=> "pull" \in x.pend) /\ x.queue = <<>> /\ x.st = "readable"
  BY DEF Sound
<1>2. /\ DOMAIN x = RFields /\ x.chunks \in 0..MaxChunks /\ x.reqs \in [ReaderIds -> Seq(ReadIds)]
      /\ x.rp \in [ReadIds -> ReadAnswer] /\ x.rv \in [ReadIds -> 0..MaxChunks]
      /\ q \in Seq(ReadIds) /\ d \in ReaderIds
  BY <1>1, FirstReader DEF RTypes
<1>3. v \in 0..MaxChunks
  BY <1>2, ReadableBounds
<1>4. i \in ReadIds /\ Tail(q) \in Seq(ReadIds)
  BY <1>2, HeadTailProperties
<1>5. y = CallPullIfNeeded(u, d)
  <2>1. c.reqs = x.reqs /\ c.rp = x.rp /\ c.rv = x.rv /\ DOMAIN c = RFields
    BY <1>2 DEF RFields
  <2>2. FulfillReadRequest(c, d, v) = [c EXCEPT !.reqs = fq, !.rp = fp, !.rv = fv]
    BY <2>1 DEF FulfillReadRequest
  <2>3. [c EXCEPT !.reqs = fq, !.rp = fp, !.rv = fv] = u
    BY <1>2 DEF RFields
  <2> QED
    BY <2>2, <2>3 DEF EnqueueToReader
<1>6. /\ fq \in [ReaderIds -> Seq(ReadIds)] /\ fp \in [ReadIds -> ReadAnswer]
      /\ fv \in [ReadIds -> 0..MaxChunks]
  BY <1>2, <1>3, <1>4 DEF ReadAnswer
<1>7. fq[d] = Tail(q) /\ fp[i] = "chunk" /\ fv[i] = v
  BY <1>2, <1>4
<1> HIDE DEF fq, fp, fv, y
<1>8. RAgree(x, u, Parts) /\ u.chunks = v /\ u.reqs = fq /\ u.rp = fp /\ u.rv = fv
  BY <1>2 DEF RAgree, RFields
<1> HIDE DEF u
<1>9. RTypes(u)
  <2>1. RTyped(u, Parts)
    BY <1>3, <1>6, <1>8 DEF RTyped
  <2> QED
    BY <1>1, <1>8, <2>1, RTypesCarry
<1>10. /\ u.reader = x.reader /\ u.queue = x.queue /\ u.panic = x.panic /\ u.st = x.st
       /\ u.algs = x.algs /\ u.reads = x.reads /\ u.cancelP = x.cancelP
       /\ u.closeRequested = x.closeRequested /\ u.pulling = x.pulling /\ u.pend = x.pend
  BY <1>8 DEF RAgree
<1>11. Sound(u)
  BY <1>1, <1>9, <1>10 DEF Sound
<1>12. Sound(y) /\ RAgree(u, y, PullParts) /\ Pulls(u, y)
  BY <1>5, <1>11, PullSound
<1>13. /\ y.st = u.st /\ y.closeRequested = u.closeRequested /\ y.chunks = u.chunks
       /\ y.queue = u.queue /\ y.reads = u.reads /\ y.cancelP = u.cancelP
       /\ y.reqs = u.reqs /\ y.rp = u.rp /\ y.rv = u.rv
  BY <1>12 DEF RAgree, PullParts
<1>14. Pulls(x, y)
  BY <1>10, <1>12 DEF Pulls, Asks
<1>15. ~x.closeRequested
  BY DEF CanCloseOrEnqueue
<1> QED
  BY <1>1, <1>7, <1>8, <1>10, <1>12, <1>13, <1>14, <1>15 DEF y

(* A chunk for the queue.                                                  *)
LEMMA PutInQueue ==
  ASSUME NEW x, Sound(x), CanCloseOrEnqueue(x), x.reqs[TeeReader] = <<>>, x.chunks < MaxChunks
  PROVE  LET y == EnqueueAfterSize(x, TeeReader, 1)
         IN  /\ Sound(y) /\ Pulls(x, y) /\ y.st = "readable" /\ ~y.closeRequested
             /\ y.chunks = x.chunks + 1 /\ y.queue = Append(x.queue, x.chunks + 1)
             /\ y.reads = x.reads /\ y.cancelP = x.cancelP
             /\ y.reqs = x.reqs /\ y.rp = x.rp /\ y.rv = x.rv
<1> DEFINE v == x.chunks + 1
           fs == [x.size EXCEPT ![v] = 1]
           u == [x EXCEPT !.chunks = v, !.queue = Append(@, v), !.size = fs, !.total = @ + 1]
           y == EnqueueAfterSize(x, TeeReader, 1)
           Parts == {"chunks", "queue", "size", "total"}
<1>1. /\ RTypes(x) /\ ~x.panic /\ x.reader = TeeReader /\ (x.st = "readable" => x.algs)
      /\ (x.pulling <=> "pull" \in x.pend)
  BY DEF Sound
<1>2. /\ DOMAIN x = RFields /\ x.chunks \in 0..MaxChunks /\ x.size \in [ChunkIds -> Nat]
      /\ x.total \in Nat /\ x.queue \in Seq(ChunkIds)
  BY <1>1 DEF RTypes
<1>3. v \in 0..MaxChunks /\ v \in ChunkIds
  BY <1>2, ReadableBounds DEF ChunkIds
<1>4. y = CallPullIfNeeded(u, TeeReader)
  BY DEF EnqueueAfterSize, BadSize, SizeThrows
<1>5. fs \in [ChunkIds -> Nat] /\ Append(x.queue, v) \in Seq(ChunkIds) /\ x.total + 1 \in Nat
  BY <1>2, <1>3
<1> HIDE DEF fs, y
<1>6. /\ RAgree(x, u, Parts) /\ u.chunks = v /\ u.queue = Append(x.queue, v) /\ u.size = fs
      /\ u.total = x.total + 1
  BY <1>2 DEF RAgree, RFields
<1> HIDE DEF u
<1>7. RTypes(u)
  <2>1. RTyped(u, Parts)
    BY <1>3, <1>5, <1>6 DEF RTyped
  <2> QED
    BY <1>1, <1>6, <2>1, RTypesCarry
<1>8. /\ u.reader = x.reader /\ u.panic = x.panic /\ u.st = x.st
      /\ u.algs = x.algs /\ u.reads = x.reads /\ u.cancelP = x.cancelP
      /\ u.reqs = x.reqs /\ u.rp = x.rp /\ u.rv = x.rv
      /\ u.closeRequested = x.closeRequested /\ u.pulling = x.pulling /\ u.pend = x.pend
  BY <1>6 DEF RAgree
<1>9. Sound(u)
  BY <1>1, <1>7, <1>8 DEF Sound
<1>10. Sound(y) /\ RAgree(u, y, PullParts) /\ Pulls(u, y)
  BY <1>4, <1>9, PullSound
<1>11. /\ y.st = u.st /\ y.closeRequested = u.closeRequested /\ y.chunks = u.chunks
       /\ y.queue = u.queue /\ y.reads = u.reads /\ y.cancelP = u.cancelP
       /\ y.reqs = u.reqs /\ y.rp = u.rp /\ y.rv = u.rv
  BY <1>10 DEF RAgree, PullParts
<1>12. Pulls(x, y)
  BY <1>8, <1>10 DEF Pulls, Asks
<1>13. ~x.closeRequested /\ x.st = "readable"
  BY DEF CanCloseOrEnqueue
<1> QED
  BY <1>6, <1>8, <1>10, <1>11, <1>12, <1>13 DEF y

(* A read that finds a chunk.                                              *)
LEMMA TakeSound ==
  ASSUME NEW x, Sound(x), x.st = "readable", x.queue # <<>>, NEW i \in ReadIds
  PROVE  LET y == PullSteps(x, TeeReader, i)
         IN  /\ Sound(y) /\ Pulls(x, y) /\ y.st \in {"readable", "closed"}
             /\ y.queue = Tail(x.queue) /\ y.reqs[TeeReader] = <<>>
             /\ y.rp[i] = "chunk" /\ y.rv[i] = Head(x.queue)
             /\ y.reads = x.reads /\ y.chunks = x.chunks /\ y.cancelP = x.cancelP
             /\ y.closeRequested = x.closeRequested
<1> DEFINE y == PullSteps(x, TeeReader, i)
           q == x.queue
           h == Head(q)
           rest == x.total - x.size[h]
           n == IF rest < 0 THEN 0 ELSE rest
           m == RDequeueValue(x)
           c == RClearAlgorithms(m)
           u == IF m.closeRequested /\ m.queue = <<>>
                THEN ReadableClose(c, TeeReader) ELSE CallPullIfNeeded(m, TeeReader)
           fp == [u.rp EXCEPT ![i] = "chunk"]
           fv == [u.rv EXCEPT ![i] = h]
<1>1. /\ RTypes(x) /\ ~x.panic /\ x.reader = TeeReader /\ x.algs
      /\ (x.pulling <=> "pull" \in x.pend) /\ x.reqs[TeeReader] = <<>>
  BY DEF Sound
<1>2. /\ DOMAIN x = RFields /\ q \in Seq(ChunkIds) /\ x.total \in Nat
      /\ x.size \in [ChunkIds -> Nat]
  BY <1>1 DEF RTypes
<1>3. h \in ChunkIds /\ Tail(q) \in Seq(ChunkIds)
  BY <1>2, HeadTailProperties
<1>4. n \in Nat
  <2>1. x.size[h] \in Nat
    BY <1>2, <1>3
  <2> HIDE DEF h
  <2> QED
    BY <1>2, <2>1
<1>5. m = [x EXCEPT !.queue = Tail(q), !.total = n]
  BY DEF RDequeueValue
<1>6. y = [u EXCEPT !.rp[i] = "chunk", !.rv[i] = h]
  BY DEF PullSteps
<1> HIDE DEF n, m, y, h
<1>7. RAgree(x, m, {"queue", "total"}) /\ m.queue = Tail(q) /\ m.total = n
  BY <1>2, <1>5 DEF RAgree, RFields
<1>8. RTypes(m) /\ DOMAIN m = RFields
  <2>1. RTyped(m, {"queue", "total"})
    BY <1>3, <1>4, <1>7 DEF RTyped
  <2>2. RTypes(m)
    BY <1>1, <1>7, <2>1, RTypesCarry
  <2> QED
    BY <2>2 DEF RTypes
<1>9. /\ m.reader = x.reader /\ m.panic = x.panic /\ m.st = x.st /\ m.algs = x.algs
      /\ m.reqs = x.reqs /\ m.reads = x.reads /\ m.chunks = x.chunks /\ m.cancelP = x.cancelP
      /\ m.closeRequested = x.closeRequested /\ m.pulling = x.pulling /\ m.pend = x.pend
  BY <1>7 DEF RAgree
<1>10. /\ Sound(u) /\ Pulls(x, u) /\ u.st \in {"readable", "closed"} /\ u.queue = m.queue
       /\ u.reqs[TeeReader] = <<>> /\ u.reads = x.reads /\ u.chunks = x.chunks
       /\ u.cancelP = x.cancelP /\ u.closeRequested = x.closeRequested
  <2>1. CASE m.closeRequested /\ m.queue = <<>>
    <3>1. u = ReadableClose(c, TeeReader)
      BY <2>1
    <3>2. RAgree(m, c, {"algs"}) /\ c.algs = FALSE
      BY <1>8 DEF RAgree, RFields, RClearAlgorithms
    <3> HIDE DEF c, u
    <3>3. RTypes(c)
      <4>1. RTyped(c, {"algs"})
        BY <3>2 DEF RTyped
      <4> QED
        BY <1>8, <3>2, <4>1, RTypesCarry
    <3>4. /\ c.reader = m.reader /\ c.panic = m.panic /\ c.chunks = m.chunks
          /\ c.reads = m.reads /\ c.reqs = m.reqs /\ c.queue = m.queue /\ c.cancelP = m.cancelP
          /\ c.closeRequested = m.closeRequested /\ c.pulling = m.pulling /\ c.pend = m.pend
      BY <3>2 DEF RAgree
    <3>5. Ends(c, u, TeeReader, "closed", "ok", "done")
      BY <3>1, <3>3, FirstReader, EndEffect
    <3>6. /\ Sound(u) /\ u.st = "closed" /\ Replied(c, u, "done") /\ SameData(c, u)
          /\ u.queue = c.queue /\ u.cancelP = c.cancelP /\ u.closeRequested = c.closeRequested
          /\ u.pend = c.pend
      BY <1>1, <1>9, <3>3, <3>4, <3>5, EndSound
    <3> QED
      BY <1>9, <3>4, <3>6 DEF Replied, SameData, Pulls, Demand, Asks, CanCloseOrEnqueue
  <2>2. CASE ~(m.closeRequested /\ m.queue = <<>>)
    <3>1. u = CallPullIfNeeded(m, TeeReader)
      BY <2>2
    <3> HIDE DEF u
    <3>2. Sound(m)
      BY <1>1, <1>8, <1>9 DEF Sound
    <3>3. Sound(u) /\ RAgree(m, u, PullParts) /\ Pulls(m, u)
      BY <3>1, <3>2, PullSound
    <3>4. /\ u.st = m.st /\ u.closeRequested = m.closeRequested /\ u.chunks = m.chunks
          /\ u.queue = m.queue /\ u.reads = m.reads /\ u.cancelP = m.cancelP /\ u.reqs = m.reqs
      BY <3>3 DEF RAgree, PullParts
    <3> QED
      BY <1>1, <1>9, <3>3, <3>4 DEF Pulls, Asks
  <2> QED
    BY <2>1, <2>2
<1> HIDE DEF u
<1>11. /\ DOMAIN u = RFields /\ u.rp \in [ReadIds -> ReadAnswer] /\ u.rv \in [ReadIds -> 0..MaxChunks]
       /\ RTypes(u)
  BY <1>10 DEF Sound, RTypes
<1>12. /\ fp \in [ReadIds -> ReadAnswer] /\ fv \in [ReadIds -> 0..MaxChunks]
       /\ fp[i] = "chunk" /\ fv[i] = h
  BY <1>3, <1>11 DEF ReadAnswer, ChunkIds
<1>13. y = [u EXCEPT !.rp = fp, !.rv = fv]
  BY <1>6
<1> HIDE DEF fp, fv
<1>14. RAgree(u, y, {"rp", "rv"}) /\ y.rp = fp /\ y.rv = fv
  BY <1>11, <1>13 DEF RAgree, RFields
<1>15. RTypes(y)
  <2>1. RTyped(y, {"rp", "rv"})
    BY <1>12, <1>14 DEF RTyped
  <2> QED
    BY <1>11, <1>14, <2>1, RTypesCarry
<1>16. /\ y.st = u.st /\ y.closeRequested = u.closeRequested /\ y.chunks = u.chunks
       /\ y.queue = u.queue /\ y.reads = u.reads /\ y.cancelP = u.cancelP /\ y.reqs = u.reqs
       /\ y.panic = u.panic /\ y.reader = u.reader /\ y.algs = u.algs /\ y.pulling = u.pulling
       /\ y.pend = u.pend /\ y.started = u.started /\ y.pullAgain = u.pullAgain
  BY <1>14 DEF RAgree
<1>17. Sound(y)
  BY <1>10, <1>15, <1>16 DEF Sound
<1>18. Pulls(x, y)
  BY <1>10, <1>16 DEF Pulls, Demand, Asks, Met, CanCloseOrEnqueue
<1> QED
  BY <1>7, <1>10, <1>12, <1>14, <1>16, <1>17, <1>18 DEF h, y

(* A read that has to wait.                                                *)
LEMMA WaitSound ==
  ASSUME NEW x, Sound(x), x.st = "readable", x.queue = <<>>, NEW i \in ReadIds
  PROVE  LET y == PullSteps(x, TeeReader, i)
         IN  /\ Sound(y) /\ Pulls(x, y) /\ y.st = "readable" /\ y.queue = <<>>
             /\ y.reqs[TeeReader] = Append(x.reqs[TeeReader], i) /\ y.rp[i] = "pending"
             /\ y.reads = x.reads /\ y.chunks = x.chunks /\ y.cancelP = x.cancelP
             /\ y.closeRequested = x.closeRequested
<1> DEFINE y == PullSteps(x, TeeReader, i)
           fp == [x.rp EXCEPT ![i] = "pending"]
           fq == [x.reqs EXCEPT ![TeeReader] = Append(@, i)]
           u == [x EXCEPT !.rp = fp, !.reqs = fq]
<1>1. /\ RTypes(x) /\ ~x.panic /\ x.reader = TeeReader /\ x.algs
      /\ (x.pulling <=> "pull" \in x.pend)
  BY DEF Sound
<1>2. /\ DOMAIN x = RFields /\ x.rp \in [ReadIds -> ReadAnswer]
      /\ x.reqs \in [ReaderIds -> Seq(ReadIds)] /\ x.reqs[TeeReader] \in Seq(ReadIds)
  BY <1>1, FirstReader DEF RTypes
<1>3. y = CallPullIfNeeded(u, TeeReader)
  BY DEF PullSteps
<1>4. /\ fp \in [ReadIds -> ReadAnswer] /\ fq \in [ReaderIds -> Seq(ReadIds)]
      /\ fp[i] = "pending" /\ fq[TeeReader] = Append(x.reqs[TeeReader], i)
  BY <1>2, FirstReader DEF ReadAnswer
<1> HIDE DEF fp, fq, y
<1>5. RAgree(x, u, {"rp", "reqs"}) /\ u.rp = fp /\ u.reqs = fq
  BY <1>2 DEF RAgree, RFields
<1> HIDE DEF u
<1>6. RTypes(u)
  <2>1. RTyped(u, {"rp", "reqs"})
    BY <1>4, <1>5 DEF RTyped
  <2> QED
    BY <1>1, <1>5, <2>1, RTypesCarry
<1>7. /\ u.reader = x.reader /\ u.panic = x.panic /\ u.st = x.st /\ u.queue = x.queue
      /\ u.algs = x.algs /\ u.reads = x.reads /\ u.cancelP = x.cancelP /\ u.chunks = x.chunks
      /\ u.closeRequested = x.closeRequested /\ u.pulling = x.pulling /\ u.pend = x.pend
  BY <1>5 DEF RAgree
<1>8. Sound(u)
  BY <1>1, <1>6, <1>7 DEF Sound
<1>9. Sound(y) /\ RAgree(u, y, PullParts) /\ Pulls(u, y)
  BY <1>3, <1>8, PullSound
<1>10. /\ y.st = u.st /\ y.closeRequested = u.closeRequested /\ y.chunks = u.chunks
       /\ y.queue = u.queue /\ y.reads = u.reads /\ y.cancelP = u.cancelP
       /\ y.reqs = u.reqs /\ y.rp = u.rp
  BY <1>9 DEF RAgree, PullParts
<1>11. Pulls(x, y)
  BY <1>7, <1>9 DEF Pulls, Asks
<1> QED
  BY <1>4, <1>5, <1>7, <1>9, <1>10, <1>11 DEF y

(* A read.                                                                 *)
LEMMA ReadSound ==
  ASSUME NEW x, Sound(x), x.reads < MaxReads
  PROVE  LET y == DefaultReaderRead(x, TeeReader)
             i == x.reads + 1
         IN  /\ Sound(y) /\ Pulls(x, y) /\ y.reads = i /\ y.chunks = x.chunks
             /\ y.cancelP = x.cancelP /\ y.closeRequested = x.closeRequested
             /\ y.st = "readable" => x.st = "readable"
             /\ x.st # "readable" =>
                  /\ y.st = x.st /\ y.queue = x.queue /\ y.reqs = x.reqs
                  /\ y.rp[i] = IF x.st = "closed" THEN "done" ELSE "err"
             /\ x.st = "readable" /\ x.queue # <<>> =>
                  /\ y.st \in {"readable", "closed"} /\ y.queue = Tail(x.queue)
                  /\ y.reqs[TeeReader] = <<>> /\ y.rp[i] = "chunk" /\ y.rv[i] = Head(x.queue)
             /\ x.st = "readable" /\ x.queue = <<>> =>
                  /\ y.st = "readable" /\ y.queue = <<>>
                  /\ y.reqs[TeeReader] = Append(x.reqs[TeeReader], i) /\ y.rp[i] = "pending"
<1> DEFINE i == x.reads + 1
           u == [x EXCEPT !.reads = i, !.disturbed = TRUE]
           y == DefaultReaderRead(x, TeeReader)
           Parts == {"reads", "disturbed"}
<1>1. RTypes(x)
  BY DEF Sound
<1>2. DOMAIN x = RFields /\ x.reads \in 0..MaxReads /\ x.st \in {"readable", "closed", "errored"}
  BY <1>1 DEF RTypes
<1>3. i \in ReadIds /\ i \in 0..MaxReads
  BY <1>2, ReadableBounds DEF ReadIds
<1>4. RAgree(x, u, Parts) /\ u.reads = i /\ u.disturbed = TRUE
  BY <1>2 DEF RAgree, RFields
<1>5. /\ u.st = "closed" => y = [u EXCEPT !.rp[i] = "done"]
      /\ u.st = "errored" => y = [u EXCEPT !.rp[i] = "err"]
      /\ u.st = "readable" => y = PullSteps(u, TeeReader, i)
  BY Zenon DEF DefaultReaderRead
<1> HIDE DEF u, y, i
<1>6. RTypes(u)
  <2>1. RTyped(u, Parts)
    BY <1>3, <1>4 DEF RTyped
  <2> QED
    BY <1>1, <1>4, <2>1, RTypesCarry
<1>7. /\ u.reader = x.reader /\ u.queue = x.queue /\ u.panic = x.panic /\ u.st = x.st
      /\ u.algs = x.algs /\ u.chunks = x.chunks /\ u.reqs = x.reqs /\ u.closeRequested = x.closeRequested
      /\ u.pulling = x.pulling /\ u.pend = x.pend /\ u.rp = x.rp /\ u.rv = x.rv /\ u.cancelP = x.cancelP
  BY <1>4 DEF RAgree
<1>8. Sound(u)
  BY <1>6, <1>7 DEF Sound
<1>9. CASE x.st = "readable" /\ x.queue # <<>>
  <2>1. y = PullSteps(u, TeeReader, i)
    BY <1>5, <1>7, <1>9
  <2>2. /\ Sound(y) /\ Pulls(u, y) /\ y.st \in {"readable", "closed"}
        /\ y.queue = Tail(u.queue) /\ y.reqs[TeeReader] = <<>>
        /\ y.rp[i] = "chunk" /\ y.rv[i] = Head(u.queue)
        /\ y.reads = u.reads /\ y.chunks = u.chunks /\ y.cancelP = u.cancelP
        /\ y.closeRequested = u.closeRequested
    BY <1>3, <1>7, <1>8, <1>9, <2>1, TakeSound
  <2> QED
    BY <1>4, <1>7, <1>9, <2>2 DEF Pulls, Asks, y, i
<1>10. CASE x.st = "readable" /\ x.queue = <<>>
  <2>1. y = PullSteps(u, TeeReader, i)
    BY <1>5, <1>7, <1>10
  <2>2. /\ Sound(y) /\ Pulls(u, y) /\ y.st = "readable" /\ y.queue = <<>>
        /\ y.reqs[TeeReader] = Append(u.reqs[TeeReader], i) /\ y.rp[i] = "pending"
        /\ y.reads = u.reads /\ y.chunks = u.chunks /\ y.cancelP = u.cancelP
        /\ y.closeRequested = u.closeRequested
    <3>1. u.st = "readable" /\ u.queue = <<>>
      BY <1>7, <1>10
    <3> QED
      BY <1>3, <1>8, <2>1, <3>1, WaitSound
  <2> QED
    BY <1>4, <1>7, <1>10, <2>2 DEF Pulls, Asks, y, i
<1>11. CASE x.st # "readable"
  <2> DEFINE o == IF x.st = "closed" THEN "done" ELSE "err"
             f == [u.rp EXCEPT ![i] = o]
  <2>1. y = [u EXCEPT !.rp[i] = o] /\ o \in ReadAnswer
    BY <1>2, <1>5, <1>7, <1>11 DEF ReadAnswer
  <2> HIDE DEF o
  <2>2. DOMAIN u = RFields /\ u.rp \in [ReadIds -> ReadAnswer]
    BY <1>6 DEF RTypes
  <2>3. f \in [ReadIds -> ReadAnswer] /\ f[i] = o
    BY <1>3, <2>1, <2>2
  <2>4. RAgree(u, y, {"rp"}) /\ y.rp = f
    BY <2>1, <2>2 DEF RAgree, RFields
  <2> HIDE DEF f
  <2>5. RTypes(y)
    <3>1. RTyped(y, {"rp"})
      BY <2>3, <2>4 DEF RTyped
    <3> QED
      BY <1>6, <2>4, <3>1, RTypesCarry
  <2>6. /\ y.reader = x.reader /\ y.queue = x.queue /\ y.panic = x.panic /\ y.st = x.st
        /\ y.algs = x.algs /\ y.chunks = x.chunks /\ y.reqs = x.reqs /\ y.closeRequested = x.closeRequested
        /\ y.pulling = x.pulling /\ y.pend = x.pend /\ y.cancelP = x.cancelP /\ y.reads = u.reads
    BY <1>7, <2>4 DEF RAgree
  <2>7. Sound(y)
    BY <2>5, <2>6 DEF Sound
  <2>8. Pulls(x, y)
    BY <1>11, <2>6 DEF Pulls, Demand, Asks, CanCloseOrEnqueue
  <2> QED
    BY <1>4, <1>11, <2>3, <2>4, <2>6, <2>7, <2>8 DEF y, i, o
<1> QED
  BY <1>9, <1>10, <1>11

(* cancel() of an open stream.                                             *)
LEMMA CancelSound ==
  ASSUME NEW x, Sound(x), x.st = "readable"
  PROVE  LET y == ReadableCancel(x, TeeReader)
         IN  /\ Sound(y) /\ y.st = "closed" /\ Replied(x, y, "done") /\ SameData(x, y)
             /\ y.queue = <<>> /\ y.cancelP = "pending"
<1> DEFINE m == [x EXCEPT !.disturbed = TRUE, !.cancelP = "pending"]
           u == ReadableClose(m, TeeReader)
           y == ReadableCancel(x, TeeReader)
           p == u.pend \cup {"cancel"}
           Parts == {"disturbed", "cancelP"}
           Rest == {"queue", "total", "algs", "pend"}
<1>1. RTypes(x) /\ ~x.panic /\ x.reader = TeeReader /\ x.algs /\ (x.pulling <=> "pull" \in x.pend)
  BY DEF Sound
<1>2. DOMAIN x = RFields
  BY <1>1 DEF RTypes
<1>3. y = CancelSteps(u)
  <2>1. [x EXCEPT !.disturbed = TRUE].st = "readable"
    BY <1>2 DEF RFields
  <2>2. y = CancelSteps(ReadableClose([[x EXCEPT !.disturbed = TRUE] EXCEPT !.cancelP = "pending"], TeeReader))
    BY <2>1, Zenon DEF ReadableCancel
  <2> QED
    BY <2>2
<1>4. RAgree(x, m, Parts) /\ m.disturbed = TRUE /\ m.cancelP = "pending"
  BY <1>2 DEF RAgree, RFields
<1> HIDE DEF m
<1>5. RTypes(m)
  <2>1. RTyped(m, Parts)
    BY <1>4 DEF RTyped, Promise
  <2> QED
    BY <1>1, <1>4, <2>1, RTypesCarry
<1>6. /\ m.reader = x.reader /\ m.panic = x.panic /\ m.algs = x.algs
      /\ m.chunks = x.chunks /\ m.reqs = x.reqs /\ m.reads = x.reads
      /\ m.rp = x.rp /\ m.rv = x.rv /\ m.pulling = x.pulling /\ m.pend = x.pend
  BY <1>4 DEF RAgree
<1>7. Ends(m, u, TeeReader, "closed", "ok", "done")
  BY <1>5, FirstReader, EndEffect
<1> HIDE DEF u
<1>8. /\ Sound(u) /\ u.st = "closed" /\ Replied(m, u, "done") /\ SameData(m, u)
      /\ u.cancelP = m.cancelP /\ u.algs = m.algs /\ u.pend = m.pend
  BY <1>1, <1>5, <1>6, <1>7, EndSound
<1>9. RTypes(u) /\ DOMAIN u = RFields /\ u.pend \in SUBSET {"start", "pull", "cancel"}
  BY <1>8 DEF Sound, RTypes
<1>10. y = [RClearAlgorithms(ResetQueue(u)) EXCEPT !.pend = @ \cup {"cancel"}]
  BY <1>1, <1>3, <1>6, <1>8 DEF CancelSteps
<1> HIDE DEF y
<1>11. RAgree(u, y, Rest) /\ y.queue = <<>> /\ y.total = 0 /\ y.algs = FALSE /\ y.pend = p
  BY <1>9, <1>10 DEF RAgree, RFields, RClearAlgorithms, ResetQueue
<1>12. RTyped(y, Rest)
  <2>1. y.queue \in Seq(ChunkIds)
    BY <1>11, EmptySeq
  <2>2. y.total \in Nat
    BY <1>11
  <2>3. y.algs \in BOOLEAN
    BY <1>11
  <2>4. y.pend \in SUBSET {"start", "pull", "cancel"}
    BY <1>9, <1>11
  <2> QED
    BY <2>1, <2>2, <2>3, <2>4 DEF RTyped
<1>13. RTypes(y)
  BY <1>9, <1>11, <1>12, RTypesCarry
<1>14. /\ y.reader = u.reader /\ y.panic = u.panic /\ y.st = u.st /\ y.cancelP = u.cancelP
       /\ y.chunks = u.chunks /\ y.reqs = u.reqs /\ y.reads = u.reads
       /\ y.rp = u.rp /\ y.rv = u.rv /\ y.pulling = u.pulling
  BY <1>11 DEF RAgree
<1>15. y.pulling <=> "pull" \in y.pend
  BY <1>8, <1>11, <1>14 DEF Sound
<1>16. Sound(y)
  BY <1>8, <1>11, <1>13, <1>14, <1>15 DEF Sound, Replied
<1> QED
  BY <1>4, <1>6, <1>8, <1>11, <1>14, <1>16 DEF Replied, SameData, y

(* What a reaction to start(), pull() or cancel() leaves alone.            *)
Unread(x, y) ==
  /\ SameData(x, y) /\ y.st = x.st /\ y.closeRequested = x.closeRequested
  /\ y.queue = x.queue /\ y.reqs = x.reqs /\ y.rp = x.rp

(* start() has answered.                                                   *)
LEMMA StartSound ==
  ASSUME NEW x, Sound(x)
  PROVE  LET y == RStartSettled(x, TRUE)
         IN  Sound(y) /\ Pulls(x, y) /\ Unread(x, y) /\ y.cancelP = x.cancelP
<1> DEFINE p == x.pend \ {"start"}
           m == [x EXCEPT !.pend = p]
           u == [m EXCEPT !.started = TRUE]
           y == RStartSettled(x, TRUE)
           Parts == {"pend", "started"}
<1>1. RTypes(x) /\ x.reader = TeeReader /\ (x.pulling <=> "pull" \in x.pend)
  BY DEF Sound
<1>2. DOMAIN x = RFields /\ x.pend \in SUBSET {"start", "pull", "cancel"}
  BY <1>1 DEF RTypes
<1>3. m.reader = TeeReader
  BY <1>1, <1>2 DEF RFields
<1>4. y = CallPullIfNeeded(u, TeeReader)
  BY <1>3 DEF RStartSettled
<1>5. RAgree(x, u, Parts) /\ u.pend = p /\ u.started = TRUE
  BY <1>2 DEF RAgree, RFields
<1> HIDE DEF u, y
<1>6. RTypes(u)
  <2>1. RTyped(u, Parts)
    BY <1>2, <1>5 DEF RTyped
  <2> QED
    BY <1>1, <1>5, <2>1, RTypesCarry
<1>7. /\ u.reader = x.reader /\ u.panic = x.panic /\ u.st = x.st /\ u.queue = x.queue
      /\ u.algs = x.algs /\ u.reads = x.reads /\ u.cancelP = x.cancelP /\ u.chunks = x.chunks
      /\ u.closeRequested = x.closeRequested /\ u.pulling = x.pulling
      /\ u.reqs = x.reqs /\ u.rp = x.rp /\ u.rv = x.rv
  BY <1>5 DEF RAgree
<1>8. "pull" \in u.pend <=> "pull" \in x.pend
  BY <1>5
<1>9. Sound(u)
  BY <1>6, <1>7, <1>8 DEF Sound
<1>10. Sound(y) /\ RAgree(u, y, PullParts) /\ Pulls(u, y)
  BY <1>4, <1>9, PullSound
<1>11. Pulls(x, y)
  BY <1>8, <1>10 DEF Pulls, Asks
<1>12. Unread(u, y) /\ y.cancelP = u.cancelP
  BY <1>10 DEF RAgree, PullParts, Unread, SameData
<1> QED
  BY <1>7, <1>10, <1>11, <1>12 DEF Unread, SameData, y

(* pull() has answered: whoever waits was attended to before, or is now.   *)
LEMMA PulledSound ==
  ASSUME NEW x, Sound(x)
  PROVE  LET y == PullSettled(x, TRUE)
             c == [x EXCEPT !.pend = @ \ {"pull"}]
         IN  /\ Sound(y) /\ Unread(x, y) /\ y.cancelP = x.cancelP
             /\ Demand(y) => Asks(c, y) \/ Met(y) \/ (Demand(x) /\ ~Met(x))
             /\ Asks(c, y) => CanCloseOrEnqueue(y)
<1> DEFINE p == x.pend \ {"pull"}
           c == [x EXCEPT !.pend = @ \ {"pull"}]
           u == [c EXCEPT !.pulling = FALSE]
           v == [c EXCEPT !.pulling = FALSE, !.pullAgain = FALSE]
           y == PullSettled(x, TRUE)
<1>1. /\ RTypes(x) /\ x.reader = TeeReader /\ ~x.panic /\ (x.st = "readable" => x.algs)
      /\ (x.reqs[TeeReader] # <<>> => x.st = "readable" /\ x.queue = <<>>)
  BY DEF Sound
<1>2. /\ DOMAIN x = RFields /\ x.pend \in SUBSET {"start", "pull", "cancel"}
      /\ x.pullAgain \in BOOLEAN
  BY <1>1 DEF RTypes
<1>3. c.reader = TeeReader /\ c.pullAgain = x.pullAgain /\ c.pend = p
  BY <1>1, <1>2 DEF RFields
<1>4. y = IF x.pullAgain THEN CallPullIfNeeded(v, TeeReader) ELSE u
  BY <1>3 DEF PullSettled
<1>5. /\ RAgree(x, u, PullParts) /\ u.pend = p /\ u.pulling = FALSE /\ u.pullAgain = x.pullAgain
      /\ RAgree(x, v, PullParts) /\ v.pend = p /\ v.pulling = FALSE /\ v.pullAgain = FALSE
  BY <1>2 DEF RAgree, RFields, PullParts
<1> HIDE DEF u, v, y, c
<1>6. RTypes(u) /\ RTypes(v)
  <2>1. RTyped(u, PullParts) /\ RTyped(v, PullParts)
    BY <1>2, <1>5 DEF RTyped, PullParts
  <2> QED
    BY <1>1, <1>5, <2>1, RTypesCarry
<1>7. /\ u.reader = x.reader /\ u.panic = x.panic /\ u.algs = x.algs /\ u.cancelP = x.cancelP
      /\ Unread(x, u) /\ u.started = x.started
      /\ v.reader = x.reader /\ v.panic = x.panic /\ v.algs = x.algs /\ v.cancelP = x.cancelP
      /\ Unread(x, v) /\ v.started = x.started
  BY <1>5 DEF RAgree, PullParts, Unread, SameData
<1>8. "pull" \notin u.pend /\ "pull" \notin v.pend
  BY <1>5
<1>9. Sound(u) /\ Sound(v)
  BY <1>1, <1>5, <1>6, <1>7, <1>8 DEF Sound, Unread
<1>10. CASE x.pullAgain
  <2>1. y = CallPullIfNeeded(v, TeeReader)
    BY <1>4, <1>10
  <2>2. Sound(y) /\ RAgree(v, y, PullParts) /\ Pulls(v, y)
    BY <1>9, <2>1, PullSound
  <2>3. Unread(v, y) /\ y.cancelP = v.cancelP
    BY <2>2 DEF RAgree, PullParts, Unread, SameData
  <2>4. Asks(c, y) <=> Asks(v, y)
    BY <1>3, <1>5 DEF Asks
  <2> QED
    BY <1>7, <2>2, <2>3, <2>4 DEF Unread, SameData, Pulls, y, c
<1>11. CASE ~x.pullAgain
  <2>1. y = u
    BY <1>4, <1>11
  <2>2. ~Asks(c, y)
    BY <1>8, <2>1 DEF Asks
  <2>3. Demand(y) => Demand(x)
    BY <1>7, <2>1 DEF Demand, Unread, CanCloseOrEnqueue
  <2> QED
    BY <1>7, <1>9, <1>11, <2>1, <2>2, <2>3 DEF Met, y, c
<1> QED
  BY <1>2, <1>10, <1>11

(* cancel() has answered.                                                  *)
LEMMA CancelledSound ==
  ASSUME NEW x, Sound(x), NEW ok \in BOOLEAN
  PROVE  LET y == CancelSettled(x, ok)
         IN  /\ Sound(y) /\ Unread(x, y) /\ (y.cancelP = "none" <=> x.cancelP = "none")
             /\ (Demand(y) => Demand(x)) /\ (Met(y) <=> Met(x))
<1> DEFINE o == IF ok THEN "ok" ELSE "err"
           y == CancelSettled(x, ok)
           Parts == {"pend", "cancelP"}
<1>1. RTypes(x)
  BY DEF Sound
<1>2. /\ DOMAIN x = RFields /\ x.pend \in SUBSET {"start", "pull", "cancel"}
      /\ x.cancelP \in Promise
  BY <1>1 DEF RTypes
<1>3. y = [x EXCEPT !.pend = @ \ {"cancel"}, !.cancelP = Settle(@, o)]
  BY DEF CancelSettled
<1>4. Settle(x.cancelP, o) \in Promise /\ (Settle(x.cancelP, o) = "none" <=> x.cancelP = "none")
  BY <1>2, RSettleType
<1> HIDE DEF y, o
<1>5. RAgree(x, y, Parts) /\ y.pend = x.pend \ {"cancel"} /\ y.cancelP = Settle(x.cancelP, o)
  BY <1>2, <1>3 DEF RAgree, RFields
<1>6. RTypes(y)
  <2>1. y.pend \in SUBSET {"start", "pull", "cancel"}
    BY <1>2, <1>5
  <2>2. RTyped(y, Parts)
    BY <1>4, <1>5, <2>1 DEF RTyped
  <2> QED
    BY <1>1, <1>5, <2>2, RTypesCarry
<1>7. /\ y.reader = x.reader /\ y.panic = x.panic /\ y.algs = x.algs /\ Unread(x, y)
      /\ y.started = x.started /\ y.pulling = x.pulling /\ y.pullAgain = x.pullAgain
  BY <1>5 DEF RAgree, Unread, SameData
<1>8. "pull" \in y.pend <=> "pull" \in x.pend
  BY <1>5
<1>9. Sound(y)
  BY <1>6, <1>7, <1>8 DEF Sound, Unread
<1>10. (Demand(y) => Demand(x)) /\ (Met(y) <=> Met(x))
  BY <1>7 DEF Demand, Met, Unread, CanCloseOrEnqueue
<1> QED
  BY <1>4, <1>5, <1>7, <1>9, <1>10 DEF y

(* A stream just made and locked.                                          *)
LEMMA NewSound ==
  ASSUME NEW hwm \in Nat
  PROVE  LET y == AcquireReader(NewReadable(hwm))
         IN  /\ Sound(y) /\ y.st = "readable" /\ ~y.closeRequested /\ y.queue = <<>>
             /\ y.chunks = 0 /\ y.reqs[TeeReader] = <<>> /\ y.cancelP = "none"
<1> DEFINE x == NewReadable(hwm)
           y == AcquireReader(x)
<1>1. /\ RGood(x) /\ x.chunks = 0 /\ x.reader = NoReader /\ x.readers = 0 /\ x.st = "readable"
      /\ x.cancelP = "none"
  BY NewReadableGood
<1>2. /\ x.queue = <<>> /\ x.closeRequested = FALSE /\ x.pulling = FALSE /\ x.pend = {"start"}
      /\ x.reqs = [rd \in ReaderIds |-> <<>>]
  BY DEF NewReadable, ReaderIds
<1> HIDE DEF x
<1>3. x.readers < MaxReaders
  BY <1>1, TeeAssumption, ReadableBounds
<1>4. RGood(y) /\ RAgree(x, y, {"readers", "reader", "closed"}) /\ y.reader = x.readers + 1
  BY <1>1, <1>3, AcquireReaderKeeps
<1> HIDE DEF y
<1>5. /\ y.st = x.st /\ y.queue = x.queue /\ y.closeRequested = x.closeRequested
      /\ y.pulling = x.pulling /\ y.pend = x.pend /\ y.reqs = x.reqs /\ y.chunks = x.chunks
      /\ y.cancelP = x.cancelP
  BY <1>4 DEF RAgree
<1>6. RTypes(y) /\ ~y.panic /\ (y.st = "readable" => y.algs)
  BY <1>4 DEF RGood, RBase
<1>7. y.reader = TeeReader /\ y.reqs[TeeReader] = <<>>
  BY <1>1, <1>2, <1>4, <1>5, FirstReader DEF TeeReader
<1>8. Sound(y)
  BY <1>2, <1>5, <1>6, <1>7 DEF Sound
<1> QED
  BY <1>1, <1>2, <1>5, <1>7, <1>8 DEF x, y

------------------------------------------------------------------------------
(* The answer of the source.                                               *)

(* What the answer of the outstanding read says of the source.             *)
Answered(x) ==
  /\ x.rp[1] \in {"pending", "chunk", "done", "err"}
  /\ x.rp[1] = "pending" <=> x.reqs[TeeReader] # <<>>
  /\ x.rp[1] = "chunk" => x.rv[1] = Taken(x) /\ x.st # "errored" /\ x.rv[1] \in 1..x.chunks
  /\ x.rp[1] = "done" => x.st = "closed"
  /\ x.rp[1] = "err" => x.st = "errored"

Awaits(q) == q.reading /\ q.job = NoJob
Out(x) == IF x.t.job # NoJob \/ (Awaits(x.t) /\ x.r.rp[1] = "chunk") THEN 1 ELSE 0

(* The source took a step; the tee has not looked at the answer yet.       *)
Answering(x) ==
  /\ TeeTypes(x) /\ Streams(x) /\ Finishing(x)
  /\ (x.t.job # NoJob => x.t.reading) /\ (x.t.reading => x.r.reads # 0) /\ x.t.job <= x.r.chunks
  /\ IF Awaits(x.t) THEN Answered(x.r) ELSE x.r.reqs[TeeReader] = <<>>
  /\ \A i \in Branches : /\ \A k \in DOMAIN x.t.log[i] : x.t.log[i][k] = k
                         /\ x.b[i].chunks = Len(x.t.log[i])
  /\ \A i \in Branches : x.b[i].st = "readable" =>
       /\ x.t.job # NoJob => x.t.job = Len(x.t.log[i]) + 1
       /\ x.r.st # "errored" => Len(x.t.log[i]) + Out(x) = Taken(x.r)
  /\ (\A i \in Branches : x.b[i].st = "readable") => Len(x.t.log[1]) = Len(x.t.log[2])

(* The end of the source closes the branches that were not cancelled.      *)
LEMMA CloseStepsFits ==
  ASSUME NEW x, Answering(x), Awaits(x.t), x.r.rp[1] = "done"
  PROVE  LET y == CloseSteps(x)
         IN  /\ Fits(y) /\ Attended(y) /\ y.r = x.r /\ y.t.cancelled = x.t.cancelled
             /\ x.t.cancelP # "pending" => y.t.cancelP = x.t.cancelP
<1> DEFINE y == CloseSteps(x)
           t1 == [x.t EXCEPT !.reading = FALSE]
<1>1. /\ TeeTypes(x) /\ Streams(x) /\ Finishing(x) /\ Answered(x.r)
  BY DEF Answering
<1>2. /\ y.r = x.r /\ y.t = ResolveCancel(t1) /\ DOMAIN y = {"r", "b", "t"}
      /\ y.b = [i \in Branches |-> IF i \in x.t.cancelled THEN x.b[i]
                                   ELSE RControllerClose(x.b[i], x.b[i].reader)]
  BY DEF CloseSteps, State
<1>3. DOMAIN x.t = TeeFields
  BY <1>1 DEF TeeTypes
<1>4. /\ DOMAIN t1 = TeeFields /\ t1.reading = FALSE /\ t1.readAgain = x.t.readAgain
      /\ t1.job = x.t.job /\ t1.cancelled = x.t.cancelled /\ t1.cancelP = x.t.cancelP
      /\ t1.told = x.t.told /\ t1.log = x.t.log /\ t1.panic = x.t.panic
  BY <1>3 DEF TeeFields
<1> HIDE DEF t1, y
<1>5. /\ DOMAIN y.t = TeeFields /\ y.t.reading = FALSE /\ y.t.readAgain = x.t.readAgain
      /\ y.t.job = x.t.job /\ y.t.cancelled = x.t.cancelled
      /\ (x.t.cancelP # "pending" => y.t.cancelP = x.t.cancelP)
      /\ y.t.told = x.t.told /\ y.t.log = x.t.log /\ y.t.panic = x.t.panic
  BY <1>2, <1>4 DEF ResolveCancel, TeeFields
<1>6. TeeTypes(y)
  BY <1>1, <1>2, <1>5 DEF TeeTypes
<1>7. ASSUME NEW i \in Branches
      PROVE  /\ Sound(y.b[i]) /\ y.b[i].chunks = x.b[i].chunks
             /\ y.b[i].st = "readable" => x.b[i].st = "readable" /\ y.b[i].closeRequested
  <2>1. Sound(x.b[i]) /\ x.b[i].reader = TeeReader
    BY <1>1 DEF Streams, Sound
  <2>2. CASE i \in x.t.cancelled
    BY <1>1, <1>2, <2>1, <2>2 DEF Finishing
  <2>3. CASE i \notin x.t.cancelled
    <3>1. y.b[i] = RControllerClose(x.b[i], TeeReader)
      BY <1>2, <2>1, <2>3
    <3>2. /\ Sound(y.b[i]) /\ SameData(x.b[i], y.b[i])
          /\ CanCloseOrEnqueue(x.b[i]) => y.b[i].closeRequested
          /\ ~CanCloseOrEnqueue(x.b[i]) => y.b[i] = x.b[i]
      BY <2>1, <3>1, CloseSound
    <3>3. x.b[i].closeRequested \in BOOLEAN
      BY <2>1 DEF Sound, RTypes
    <3> QED
      BY <3>2, <3>3 DEF SameData, CanCloseOrEnqueue
  <2> QED
    BY <2>2, <2>3
<1>8. x.r.st = "closed" /\ x.r.reqs[TeeReader] = <<>>
  BY <1>1 DEF Answered
<1>9. Streams(y)
  BY <1>1, <1>2, <1>7 DEF Streams
<1>10. Reading(y)
  BY <1>2, <1>5, <1>8 DEF Reading, Answering, Awaits
<1>11. Logs(y)
  <2>1. Out(x) = 0 /\ Busy1(y.t) = 0
    BY <1>5 DEF Out, Awaits, Busy1
  <2> QED
    BY <1>2, <1>5, <1>7, <2>1 DEF Answering, Logs, Awaits
<1>12. Finishing(y)
  <2>1. \A i \in Branches : y.b[i].st = "readable" => y.b[i].closeRequested = TRUE
    <3>1. \A i \in Branches : y.b[i].closeRequested \in BOOLEAN
      BY <1>7 DEF Sound, RTypes
    <3> QED
      BY <1>7, <3>1
  <2>2. x.t.cancelled \subseteq Branches
    BY <1>1 DEF TeeTypes
  <2>3. \A i \in Branches : y.b[i].st = "readable" => x.b[i].st = "readable"
    BY <1>7
  <2>4. /\ x.t.told => \A i \in Branches : y.b[i].st # "readable"
        /\ \A i \in x.t.cancelled : y.b[i].st # "readable"
    BY <1>1, <2>2, <2>3 DEF Finishing
  <2> QED
    BY <1>2, <1>5, <1>8, <2>1, <2>4 DEF Finishing
<1>13. Attended(y)
  BY <1>7 DEF Attended, Demand, CanCloseOrEnqueue
<1> QED
  BY <1>2, <1>5, <1>6, <1>9, <1>10, <1>11, <1>12, <1>13 DEF Fits, y

(* Whatever the source answers, the tee makes of it what it should.        *)
LEMMA AnswerFits ==
  ASSUME NEW x, Answering(x), Attended(x)
  PROVE  LET y == Answer(x)
         IN  /\ Fits(y) /\ Attended(y) /\ y.r = x.r /\ y.t.cancelled = x.t.cancelled
             /\ x.t.cancelP # "pending" => y.t.cancelP = x.t.cancelP
<1> DEFINE y == Answer(x)
<1>1. /\ TeeTypes(x) /\ Streams(x) /\ Finishing(x) /\ (x.t.reading => x.r.reads # 0)
  BY DEF Answering
<1>2. /\ x.t.reading \in BOOLEAN /\ DOMAIN x = {"r", "b", "t"} /\ DOMAIN x.t = TeeFields
  BY <1>1 DEF TeeTypes
<1>3. ASSUME y = x, ~Awaits(x.t) \/ x.r.rp[1] = "pending"
      PROVE  Fits(x)
  <2>1. Out(x) = Busy1(x.t)
    BY <1>3 DEF Out, Busy1
  <2>2. Reading(x)
    BY <1>2, <1>3 DEF Answering, Reading, Answered, Awaits
  <2>3. Logs(x)
    BY <2>1 DEF Answering, Logs
  <2> QED
    BY <1>1, <2>2, <2>3 DEF Fits
<1>4. CASE ~Awaits(x.t)
  <2>1. y = x
    BY <1>4 DEF Answer, Awaits
  <2> QED
    BY <1>3, <1>4, <2>1
<1>5. CASE Awaits(x.t)
  <2>1. Answered(x.r) /\ x.r.reads # 0 /\ x.t.reading /\ x.t.job = NoJob
    BY <1>1, <1>5 DEF Answering, Awaits
  <2>2. y = CASE x.r.rp[1] = "chunk" -> [x EXCEPT !.t.job = x.r.rv[1]]
              [] x.r.rp[1] = "done"  -> CloseSteps(x)
              [] x.r.rp[1] = "err"   -> [x EXCEPT !.t.reading = FALSE]
              [] OTHER               -> x
    BY <2>1, Zenon DEF Answer
  <2>3. CASE x.r.rp[1] = "pending"
    <3>1. y = x
      BY <2>2, <2>3
    <3> QED
      BY <1>3, <2>3, <3>1
  <2>4. CASE x.r.rp[1] = "done"
    <3>1. y = CloseSteps(x)
      BY <2>2, <2>4
    <3> QED
      BY <1>5, <2>4, <3>1, CloseStepsFits
  <2>5. CASE x.r.rp[1] = "chunk"
    <3> DEFINE v == x.r.rv[1]
    <3>1. y = [x EXCEPT !.t.job = v]
      BY <2>2, <2>5
    <3>2. /\ v = Taken(x.r) /\ x.r.st # "errored" /\ v \in 1..x.r.chunks /\ x.r.reqs[TeeReader] = <<>>
      BY <2>1, <2>5 DEF Answered
    <3>3. x.r.chunks \in Nat
      BY <1>1 DEF Streams, Src, Sound, RTypes
    <3>4. v \in Nat /\ v # NoJob /\ v <= x.r.chunks
      BY <3>2, <3>3 DEF NoJob
    <3> HIDE DEF v
    <3>5. /\ DOMAIN y = {"r", "b", "t"} /\ y.r = x.r /\ y.b = x.b /\ DOMAIN y.t = TeeFields
          /\ y.t.job = v /\ y.t.reading = x.t.reading /\ y.t.readAgain = x.t.readAgain
          /\ y.t.cancelled = x.t.cancelled /\ y.t.cancelP = x.t.cancelP
          /\ y.t.told = x.t.told /\ y.t.log = x.t.log /\ y.t.panic = x.t.panic
      BY <1>2, <3>1 DEF TeeFields
    <3> HIDE DEF y
    <3>6. TeeTypes(y)
      BY <1>1, <3>4, <3>5 DEF TeeTypes
    <3>7. Reading(y)
      BY <2>1, <3>2, <3>4, <3>5 DEF Reading
    <3>8. Out(x) = 1 /\ Busy1(y.t) = 1
      BY <1>5, <2>5, <3>4, <3>5 DEF Out, Busy1
    <3>9. Logs(y)
      BY <3>2, <3>5, <3>8 DEF Logs, Answering
    <3>10. Finishing(y)
      BY <1>1, <3>5 DEF Finishing
    <3>11. Streams(y) /\ Attended(y)
      BY <1>1, <2>1, <3>5 DEF Streams, Attended
    <3> QED
      BY <3>5, <3>6, <3>7, <3>9, <3>10, <3>11 DEF Fits, y
  <2>6. CASE x.r.rp[1] = "err"
    <3>1. y = [x EXCEPT !.t.reading = FALSE]
      BY <2>2, <2>6
    <3>2. x.r.st = "errored" /\ x.r.reqs[TeeReader] = <<>>
      BY <2>1, <2>6 DEF Answered
    <3>3. /\ DOMAIN y = {"r", "b", "t"} /\ y.r = x.r /\ y.b = x.b /\ DOMAIN y.t = TeeFields
          /\ y.t.job = x.t.job /\ y.t.reading = FALSE /\ y.t.readAgain = x.t.readAgain
          /\ y.t.cancelled = x.t.cancelled /\ y.t.cancelP = x.t.cancelP
          /\ y.t.told = x.t.told /\ y.t.log = x.t.log /\ y.t.panic = x.t.panic
      BY <1>2, <3>1 DEF TeeFields
    <3> HIDE DEF y
    <3>4. TeeTypes(y)
      BY <1>1, <3>3 DEF TeeTypes
    <3>5. Reading(y)
      BY <2>1, <3>2, <3>3 DEF Reading, Answering
    <3>6. Logs(y)
      BY <3>2, <3>3 DEF Logs, Answering
    <3>7. Finishing(y)
      BY <1>1, <3>3 DEF Finishing
    <3>8. Streams(y)
      BY <1>1, <3>3 DEF Streams
    <3>9. Attended(y)
      BY <1>1, <3>2, <3>3 DEF Attended, Demand, CanCloseOrEnqueue, Finishing
    <3> QED
      BY <3>3, <3>4, <3>5, <3>6, <3>7, <3>8, <3>9 DEF Fits, y
  <2> QED
    BY <2>1, <2>3, <2>4, <2>5, <2>6 DEF Answered
<1> QED
  BY <1>4, <1>5

(* A step of the source from s to s2 that makes no read.                   *)
SourceStep(s, s2) ==
  /\ Src(s2) /\ s2.reads = s.reads /\ s.chunks <= s2.chunks
  /\ s.st # "readable" => s2.st = s.st
  /\ s.reqs[TeeReader] = <<>> => s2.reqs[TeeReader] = <<>>
  /\ s.reqs[TeeReader] # <<>> => Answered(s2)

(* It takes chunks from the queue only to answer the read that waits.      *)
TakenFor(s, s2) ==
  s2.st # "errored" =>
    Taken(s2) = Taken(s) + IF s.reqs[TeeReader] # <<>> /\ s2.rp[1] = "chunk" THEN 1 ELSE 0

(* Such a step brings an answer the tee can take.                          *)
LEMMA SourceAnswering ==
  ASSUME NEW x, Fits(x), Attended(x), NEW s2, SourceStep(x.r, s2),
         (\E i \in Branches : x.b[i].st = "readable") => TakenFor(x.r, s2)
  PROVE  LET z == [x EXCEPT !.r = s2]
         IN  Answering(z) /\ Attended(z) /\ z.r = s2 /\ z.b = x.b /\ z.t = x.t
<1> DEFINE z == [x EXCEPT !.r = s2]
<1>1. TeeTypes(x) /\ Streams(x) /\ Reading(x) /\ Logs(x) /\ Finishing(x)
  BY DEF Fits
<1>2. DOMAIN z = {"r", "b", "t"} /\ z.r = s2 /\ z.b = x.b /\ z.t = x.t
  BY <1>1 DEF TeeTypes
<1> HIDE DEF z
<1>3. TeeTypes(z)
  BY <1>1, <1>2 DEF TeeTypes
<1>4. Streams(z)
  BY <1>1, <1>2 DEF Streams, SourceStep
<1>5. Finishing(z)
  BY <1>1, <1>2 DEF Finishing, SourceStep
<1>6. x.r.chunks \in Nat /\ s2.chunks \in Nat /\ x.t.job \in Nat /\ x.t.reading \in BOOLEAN
  <2>1. x.r.chunks \in 0..MaxChunks /\ s2.chunks \in 0..MaxChunks
    BY <1>1 DEF Streams, SourceStep, Src, Sound, RTypes
  <2> QED
    BY <1>1, <2>1 DEF TeeTypes
<1>7. /\ (z.t.job # NoJob => z.t.reading) /\ (z.t.reading => z.r.reads # 0)
      /\ z.t.job <= z.r.chunks
  BY <1>1, <1>2, <1>6 DEF Reading, SourceStep
<1>8. x.r.reqs[TeeReader] # <<>> <=> Awaits(x.t)
  BY <1>1 DEF Reading, Awaits
<1>9. IF Awaits(z.t) THEN Answered(z.r) ELSE z.r.reqs[TeeReader] = <<>>
  BY <1>2, <1>8 DEF SourceStep
<1>10. ASSUME NEW i \in Branches, x.b[i].st = "readable", s2.st # "errored"
       PROVE  Len(x.t.log[i]) + Out(z) = Taken(s2)
  <2>1. TakenFor(x.r, s2)
    BY <1>10
  <2>2. x.r.st # "errored"
    BY <1>10 DEF SourceStep
  <2>3. Len(x.t.log[i]) + Busy1(x.t) = Taken(x.r)
    BY <1>1, <1>10, <2>2 DEF Logs
  <2>4. Len(x.t.log[i]) \in Nat
    BY <1>1, LenProperties DEF TeeTypes
  <2>5. CASE Awaits(x.t)
    <3>1. Busy1(x.t) = 0 /\ Out(z) = IF s2.rp[1] = "chunk" THEN 1 ELSE 0
      BY <1>2, <2>5 DEF Busy1, Out, Awaits
    <3>2. Taken(s2) = Taken(x.r) + Out(z)
      BY <1>8, <1>10, <2>1, <2>5, <3>1 DEF TakenFor
    <3>3. Taken(x.r) = Len(x.t.log[i])
      BY <2>3, <2>4, <3>1
    <3> QED
      BY <3>2, <3>3
  <2>6. CASE ~Awaits(x.t)
    <3>1. Busy1(x.t) = Out(z) /\ Out(z) \in Nat
      BY <1>2, <2>6 DEF Busy1, Out
    <3>2. Taken(s2) = Taken(x.r) + 0
      BY <1>8, <1>10, <2>1, <2>6 DEF TakenFor
    <3> QED
      BY <2>3, <2>4, <3>1, <3>2
  <2> QED
    BY <2>5, <2>6
<1>11. Answering(z)
  BY <1>1, <1>2, <1>3, <1>4, <1>5, <1>7, <1>9, <1>10 DEF Answering, Logs
<1>12. Attended(z)
  BY <1>2 DEF Attended, SourceStep
<1> QED
  BY <1>2, <1>11, <1>12 DEF z

(* The list of the read that waits, and of none.                           *)
LEMMA OneRequest ==
  /\ Head(<<1>>) = 1 /\ Tail(<<1>>) = <<>> /\ Elements(<<1>>) = {1} /\ <<1>> # <<>>
  /\ Elements(<<>>) = {} /\ Append(<<>>, 1) = <<1>>
BY DEF Elements

(* The source has a chunk.                                                 *)
LEMMA EnqueueStep ==
  ASSUME NEW s, Src(s), CanCloseOrEnqueue(s), s.chunks < MaxChunks, NEW s2,
         s2 = IF s.reqs[TeeReader] # <<>> THEN EnqueueToReader(s, TeeReader)
              ELSE EnqueueAfterSize(s, TeeReader, 1)
  PROVE  SourceStep(s, s2) /\ TakenFor(s, s2) /\ s2.cancelP = s.cancelP
<1>1. /\ Sound(s) /\ s.reqs[TeeReader] \in {<<>>, <<1>>} /\ s.st = "readable"
      /\ \A k \in DOMAIN s.queue : s.queue[k] = Taken(s) + k
  BY DEF Src, CanCloseOrEnqueue
<1>2. s.chunks \in 0..MaxChunks /\ s.queue \in Seq(ChunkIds)
  BY <1>1 DEF Sound, RTypes
<1>3. s.chunks \in Nat /\ Len(s.queue) \in Nat
  BY <1>2, LenProperties
<1>4. CASE s.reqs[TeeReader] # <<>>
  <2>1. s.reqs[TeeReader] = <<1>>
    BY <1>1, <1>4
  <2>2. /\ Sound(s2) /\ s2.st = "readable" /\ s2.chunks = s.chunks + 1 /\ s2.queue = <<>>
        /\ s.queue = <<>> /\ s2.reads = s.reads /\ s2.cancelP = s.cancelP
        /\ s2.reqs[TeeReader] = Tail(s.reqs[TeeReader])
        /\ s2.rp[Head(s.reqs[TeeReader])] = "chunk"
        /\ s2.rv[Head(s.reqs[TeeReader])] = s.chunks + 1
    BY <1>1, <1>4, HandOver
  <2>3. s2.reqs[TeeReader] = <<>> /\ s2.rp[1] = "chunk" /\ s2.rv[1] = s.chunks + 1
    BY <2>1, <2>2, OneRequest
  <2>4. Taken(s2) = s.chunks + 1 /\ Taken(s) = s.chunks
    BY <1>3, <2>2, EmptySeq DEF Taken
  <2>5. Answered(s2) /\ s.chunks <= s2.chunks
    BY <1>3, <2>2, <2>3, <2>4 DEF Answered
  <2>6. Src(s2)
    BY <2>2, <2>3, EmptySeq DEF Src
  <2> QED
    BY <1>1, <1>3, <1>4, <2>2, <2>3, <2>4, <2>5, <2>6 DEF SourceStep, TakenFor
<1>5. CASE s.reqs[TeeReader] = <<>>
  <2> DEFINE v == s.chunks + 1
  <2>1. /\ Sound(s2) /\ s2.st = "readable" /\ s2.chunks = v /\ s2.queue = Append(s.queue, v)
        /\ s2.reads = s.reads /\ s2.cancelP = s.cancelP /\ s2.reqs = s.reqs
    BY <1>1, <1>5, PutInQueue
  <2>2. v \in ChunkIds
    BY <1>2, ReadableBounds DEF ChunkIds
  <2>3. /\ Len(Append(s.queue, v)) = Len(s.queue) + 1
        /\ \A k \in DOMAIN Append(s.queue, v) :
             \/ k \in DOMAIN s.queue /\ Append(s.queue, v)[k] = s.queue[k]
             \/ k = Len(s.queue) + 1 /\ Append(s.queue, v)[k] = v
    <3> HIDE DEF v
    <3> QED
      BY SMTT(30), <1>2, <2>2, AppendProperties, LenProperties
  <2>4. Taken(s2) = Taken(s)
    BY <1>3, <2>1, <2>3 DEF Taken
  <2>5. \A k \in DOMAIN s2.queue : s2.queue[k] = Taken(s2) + k
    <3>1. v = Taken(s) + (Len(s.queue) + 1)
      BY <1>3 DEF Taken
    <3> HIDE DEF v
    <3> QED
      BY <1>1, <2>1, <2>3, <2>4, <3>1
  <2>6. Src(s2)
    BY <1>5, <2>1, <2>5 DEF Src
  <2>7. Taken(s) \in Int
    BY <1>3 DEF Taken
  <2> QED
    BY <1>1, <1>3, <1>5, <2>1, <2>4, <2>6, <2>7 DEF SourceStep, TakenFor
<1> QED
  BY <1>4, <1>5

(* The source closes.                                                      *)
LEMMA CloseStep ==
  ASSUME NEW s, Src(s), CanCloseOrEnqueue(s), NEW s2, s2 = RControllerClose(s, TeeReader)
  PROVE  SourceStep(s, s2) /\ TakenFor(s, s2) /\ s2.cancelP = s.cancelP
<1>1. /\ Sound(s) /\ s.reqs[TeeReader] \in {<<>>, <<1>>} /\ s.st = "readable"
      /\ \A k \in DOMAIN s.queue : s.queue[k] = Taken(s) + k
      /\ s.reqs[TeeReader] # <<>> => s.queue = <<>> /\ s.rp[1] = "pending"
  BY DEF Src, CanCloseOrEnqueue, Sound
<1>2. /\ Sound(s2) /\ SameData(s, s2) /\ s2.cancelP = s.cancelP /\ s2.queue = s.queue
      /\ s.queue = <<>> => s2.st = "closed" /\ Replied(s, s2, "done")
      /\ s.queue # <<>> => s2.st = "readable" /\ s2.reqs = s.reqs /\ s2.rp = s.rp
  BY <1>1, CloseSound
<1>3. s.chunks \in 0..MaxChunks /\ s.queue \in Seq(ChunkIds)
  BY <1>1 DEF Sound, RTypes
<1>4. s.chunks \in Nat /\ Len(s.queue) \in Nat
  BY <1>3, LenProperties
<1>5. Taken(s2) = Taken(s) /\ Taken(s) \in Int
  BY <1>2, <1>4 DEF Taken, SameData
<1>6. s2.reqs[TeeReader] = <<>>
  BY <1>1, <1>2 DEF Replied
<1>7. Src(s2)
  BY <1>1, <1>2, <1>5, <1>6 DEF Src
<1>8. ASSUME s.reqs[TeeReader] # <<>> PROVE s2.rp[1] = "done" /\ Answered(s2)
  <2>1. s.reqs[TeeReader] = <<1>> /\ s.queue = <<>>
    BY <1>1, <1>8
  <2>2. s2.rp[1] = "done" /\ s2.st = "closed"
    BY <1>2, <2>1, OneRequest, FirstReader DEF Replied
  <2> QED
    BY <1>6, <2>2 DEF Answered
<1> QED
  BY <1>1, <1>2, <1>4, <1>5, <1>6, <1>7, <1>8 DEF SourceStep, TakenFor, SameData

(* The source errs.                                                        *)
LEMMA ErrorStep ==
  ASSUME NEW s, Src(s), s.st = "readable", NEW s2, s2 = RControllerError(s, TeeReader)
  PROVE  SourceStep(s, s2) /\ TakenFor(s, s2) /\ s2.cancelP = s.cancelP
<1>1. Sound(s) /\ s.reqs[TeeReader] \in {<<>>, <<1>>}
  BY DEF Src
<1>2. /\ Sound(s2) /\ SameData(s, s2) /\ s2.cancelP = s.cancelP /\ s2.reqs[TeeReader] = <<>>
      /\ s2.st = "errored" /\ s2.queue = <<>> /\ Replied(s, s2, "err")
  BY <1>1, ErrorSound
<1>3. Src(s2)
  BY <1>2, EmptySeq DEF Src
<1>4. ASSUME s.reqs[TeeReader] # <<>> PROVE Answered(s2)
  <2>1. s.reqs[TeeReader] = <<1>>
    BY <1>1, <1>4
  <2>2. s2.rp[1] = "err"
    BY <1>2, <2>1, OneRequest, FirstReader DEF Replied
  <2> QED
    BY <1>2, <2>2 DEF Answered
<1>5. s.chunks \in 0..MaxChunks
  BY <1>1 DEF Sound, RTypes
<1> QED
  BY <1>2, <1>3, <1>4, <1>5 DEF SourceStep, TakenFor, SameData

(* The source is cancelled.                                                *)
LEMMA CancelStep ==
  ASSUME NEW s, Src(s), s.st = "readable", NEW s2, s2 = ReadableCancel(s, TeeReader)
  PROVE  SourceStep(s, s2) /\ s2.st = "closed"
<1>1. Sound(s) /\ s.reqs[TeeReader] \in {<<>>, <<1>>}
  BY DEF Src
<1>2. /\ Sound(s2) /\ s2.st = "closed" /\ Replied(s, s2, "done") /\ SameData(s, s2)
      /\ s2.queue = <<>> /\ s2.cancelP = "pending"
  BY <1>1, CancelSound
<1>3. Src(s2) /\ s2.reqs[TeeReader] = <<>>
  BY <1>2, EmptySeq DEF Src, Replied
<1>4. ASSUME s.reqs[TeeReader] # <<>> PROVE Answered(s2)
  <2>1. s.reqs[TeeReader] = <<1>>
    BY <1>1, <1>4
  <2>2. s2.rp[1] = "done"
    BY <1>2, <2>1, OneRequest, FirstReader DEF Replied
  <2> QED
    BY <1>2, <1>3, <2>2 DEF Answered
<1>5. s.chunks \in 0..MaxChunks
  BY <1>1 DEF Sound, RTypes
<1> QED
  BY <1>2, <1>3, <1>4, <1>5 DEF SourceStep, SameData

(* The tee's own read of a source at which nothing waits.                  *)
LEMMA SourceRead ==
  ASSUME NEW s, Src(s), s.reqs[TeeReader] = <<>>, NEW s2,
         s2 = DefaultReaderRead([s EXCEPT !.reads = 0], TeeReader)
  PROVE  /\ Src(s2) /\ Answered(s2) /\ s2.reads # 0 /\ s2.chunks = s.chunks
         /\ s2.cancelP = s.cancelP /\ (s2.st = "readable" => s.st = "readable")
         /\ s2.st # "errored" =>
              /\ s.st # "errored"
              /\ Taken(s2) = Taken(s) + IF s2.rp[1] = "chunk" THEN 1 ELSE 0
<1> DEFINE u == [s EXCEPT !.reads = 0]
<1>1. Sound(s) /\ RTypes(s) /\ DOMAIN s = RFields
  BY DEF Src, Sound, RTypes
<1>2. RAgree(s, u, {"reads"}) /\ u.reads = 0
  BY <1>1 DEF RAgree, RFields
<1> HIDE DEF u
<1>3. RTypes(u)
  <2>1. RTyped(u, {"reads"})
    BY <1>2, ReadableBounds DEF RTyped
  <2> QED
    BY <1>1, <1>2, <2>1, RTypesCarry
<1>4. /\ u.st = s.st /\ u.reader = s.reader /\ u.panic = s.panic /\ u.algs = s.algs
      /\ u.pulling = s.pulling /\ u.pend = s.pend /\ u.reqs = s.reqs /\ u.queue = s.queue
      /\ u.chunks = s.chunks /\ u.cancelP = s.cancelP
  BY <1>2 DEF RAgree
<1>5. Sound(u)
  BY <1>1, <1>3, <1>4 DEF Sound
<1>6. u.reads < MaxReads /\ u.reads + 1 = 1
  BY <1>2, TeeAssumption, ReadableBounds
<1> DEFINE y == DefaultReaderRead(u, TeeReader)
<1>8. /\ Sound(y) /\ Pulls(u, y) /\ y.reads = u.reads + 1 /\ y.chunks = u.chunks
      /\ y.cancelP = u.cancelP /\ y.closeRequested = u.closeRequested
      /\ (y.st = "readable" => u.st = "readable")
      /\ u.st # "readable" =>
           /\ y.st = u.st /\ y.queue = u.queue /\ y.reqs = u.reqs
           /\ y.rp[u.reads + 1] = IF u.st = "closed" THEN "done" ELSE "err"
      /\ u.st = "readable" /\ u.queue # <<>> =>
           /\ y.st \in {"readable", "closed"} /\ y.queue = Tail(u.queue)
           /\ y.reqs[TeeReader] = <<>> /\ y.rp[u.reads + 1] = "chunk"
           /\ y.rv[u.reads + 1] = Head(u.queue)
      /\ u.st = "readable" /\ u.queue = <<>> =>
           /\ y.st = "readable" /\ y.queue = <<>>
           /\ y.reqs[TeeReader] = Append(u.reqs[TeeReader], u.reads + 1)
           /\ y.rp[u.reads + 1] = "pending"
  BY <1>5, <1>6, ReadSound
<1> HIDE DEF y
<1>9. /\ Sound(s2) /\ s2.reads = 1 /\ s2.chunks = s.chunks
      /\ s2.cancelP = s.cancelP /\ (s2.st = "readable" => s.st = "readable")
      /\ s.st # "readable" =>
           /\ s2.st = s.st /\ s2.queue = s.queue /\ s2.reqs[TeeReader] = <<>>
           /\ s2.rp[1] = IF s.st = "closed" THEN "done" ELSE "err"
      /\ s.st = "readable" /\ s.queue # <<>> =>
           /\ s2.st \in {"readable", "closed"} /\ s2.queue = Tail(s.queue)
           /\ s2.reqs[TeeReader] = <<>> /\ s2.rp[1] = "chunk" /\ s2.rv[1] = Head(s.queue)
      /\ s.st = "readable" /\ s.queue = <<>> =>
           /\ s2.st = "readable" /\ s2.queue = <<>> /\ s2.reqs[TeeReader] = <<1>>
           /\ s2.rp[1] = "pending"
  <2>1. s2 = y
    BY DEF u, y
  <2> QED
    BY <1>4, <1>6, <1>8, <2>1, OneRequest
<1>10. /\ s.chunks \in Nat /\ s.queue \in Seq(ChunkIds) /\ Len(s.queue) \in Nat
       /\ s.st \in {"readable", "closed", "errored"} /\ Taken(s) \in Int
       /\ \A k \in DOMAIN s.queue : s.queue[k] = Taken(s) + k
  <2>1. /\ s.chunks \in 0..MaxChunks /\ s.queue \in Seq(ChunkIds)
        /\ s.st \in {"readable", "closed", "errored"}
    BY <1>1 DEF RTypes
  <2>2. s.chunks \in Nat /\ Len(s.queue) \in Nat
    BY <2>1, LenProperties
  <2> QED
    BY <2>1, <2>2 DEF Src, Taken
<1>11. CASE s.st # "readable"
  <2>1. Taken(s2) = Taken(s)
    BY <1>9, <1>11 DEF Taken
  <2>2. Src(s2)
    BY <1>9, <1>10, <1>11, <2>1 DEF Src
  <2>3. Answered(s2)
    BY <1>9, <1>10, <1>11 DEF Answered
  <2> QED
    BY <1>9, <1>10, <1>11, <2>1, <2>2, <2>3
<1>12. CASE s.st = "readable" /\ s.queue = <<>>
  <2>1. Taken(s2) = Taken(s)
    BY <1>9, <1>12 DEF Taken
  <2>2. Src(s2)
    <3>1. \A k \in DOMAIN s2.queue : s2.queue[k] = Taken(s2) + k
      BY <1>9, <1>12, EmptySeq
    <3> QED
      BY <1>9, <1>12, <3>1, Zenon DEF Src
  <2>3. Answered(s2)
    BY <1>9, <1>12, OneRequest DEF Answered
  <2> QED
    BY <1>9, <1>10, <1>12, <2>1, <2>2, <2>3
<1>13. CASE s.st = "readable" /\ s.queue # <<>>
  <2>1. /\ Tail(s.queue) \in Seq(ChunkIds) /\ Len(s.queue) >= 1 /\ Head(s.queue) = s.queue[1]
        /\ 1 \in DOMAIN s.queue /\ Len(Tail(s.queue)) = Len(s.queue) - 1
        /\ \A k \in DOMAIN Tail(s.queue) :
             k \in Nat /\ k + 1 \in DOMAIN s.queue /\ Tail(s.queue)[k] = s.queue[k + 1]
    BY SMTT(30), <1>10, <1>13, HeadTailProperties, LenProperties, EmptySeq
  <2>2. Taken(s2) = Taken(s) + 1
    <3>1. Len(s2.queue) = Len(s.queue) - 1 /\ s2.chunks = s.chunks
      BY <1>9, <1>13, <2>1
    <3> QED
      BY <1>10, <3>1 DEF Taken
  <2>3. s2.rv[1] = Taken(s) + 1
    BY <1>9, <1>10, <1>13, <2>1
  <2>4. Head(s.queue) \in 1..MaxChunks
    BY <1>10, <1>13, HeadTailProperties DEF ChunkIds
  <2>5. s2.rv[1] \in 1..s2.chunks
    <3>1. s2.rv[1] = s.chunks - Len(s.queue) + 1
      BY <1>10, <2>3 DEF Taken
    <3>2. s2.rv[1] \in 1..MaxChunks
      BY <1>9, <1>13, <2>4
    <3> QED
      BY <1>9, <1>10, <2>1, <3>1, <3>2, ReadableBounds
  <2>6. \A k \in DOMAIN s2.queue : s2.queue[k] = Taken(s2) + k
    <3>1. ASSUME NEW k \in DOMAIN Tail(s.queue)
          PROVE  Tail(s.queue)[k] = Taken(s) + 1 + k
      <4>1. k \in Nat /\ Tail(s.queue)[k] = Taken(s) + (k + 1)
        BY <1>10, <2>1
      <4> QED
        BY <1>10, <4>1
    <3> QED
      BY <1>9, <1>13, <2>2, <3>1
  <2>7. Src(s2)
    BY <1>9, <1>13, <2>6 DEF Src
  <2>8. Answered(s2)
    BY <1>9, <1>13, <2>2, <2>3, <2>5 DEF Answered
  <2> QED
    BY <1>9, <1>13, <2>2, <2>7, <2>8
<1> QED
  BY <1>11, <1>12, <1>13

(* What `Fits' and `Attended' look at.                                     *)
LEMMA SameParts ==
  ASSUME NEW x, NEW y, Fits(x), Attended(x), DOMAIN y = {"r", "b", "t"}, y.r = x.r,
         y.b = x.b, DOMAIN y.t = TeeFields, y.t.reading = x.t.reading, y.t.job = x.t.job,
         y.t.told = x.t.told, y.t.cancelled = x.t.cancelled, y.t.log = x.t.log,
         y.t.panic = x.t.panic, y.t.readAgain \in BOOLEAN
  PROVE  Fits(y) /\ Attended(y)
<1>1. TeeTypes(x) /\ Streams(x) /\ Reading(x) /\ Logs(x) /\ Finishing(x)
  BY DEF Fits
<1>2. TeeTypes(y)
  BY <1>1 DEF TeeTypes
<1>3. Reading(y)
  BY <1>1 DEF Reading
<1>4. Logs(y)
  <2>1. Busy1(y.t) = Busy1(x.t)
    BY DEF Busy1
  <2> QED
    BY <1>1, <2>1 DEF Logs
<1>5. Finishing(y)
  BY <1>1 DEF Finishing
<1>6. Streams(y) /\ Attended(y)
  BY <1>1 DEF Streams, Attended
<1> QED
  BY <1>2, <1>3, <1>4, <1>5, <1>6 DEF Fits

(* A pull while the source is being read is only noted.                    *)
LEMMA PullNoted ==
  ASSUME NEW x, Whole(x), x.t.reading
  PROVE  Whole(TeePull(x)) /\ Attended(TeePull(x))
<1> DEFINE y == TeePull(x)
<1>1. /\ Fits(x) /\ Cancels(x) /\ Attended(x)
      /\ DOMAIN x = {"r", "b", "t"} /\ DOMAIN x.t = TeeFields
  BY DEF Whole, Fits, TeeTypes, Attended
<1>2. y = [x EXCEPT !.t.readAgain = TRUE]
  BY DEF TeePull
<1>3. /\ DOMAIN y = {"r", "b", "t"} /\ y.r = x.r /\ y.b = x.b /\ DOMAIN y.t = TeeFields
      /\ y.t.job = x.t.job /\ y.t.reading = x.t.reading /\ y.t.readAgain = TRUE
      /\ y.t.cancelled = x.t.cancelled /\ y.t.cancelP = x.t.cancelP
      /\ y.t.told = x.t.told /\ y.t.log = x.t.log /\ y.t.panic = x.t.panic
  BY <1>1, <1>2 DEF TeeFields
<1> HIDE DEF y
<1>4. Fits(y) /\ Attended(y)
  BY <1>1, <1>3, SameParts
<1>5. Cancels(y)
  BY <1>1, <1>3 DEF Cancels
<1> QED
  BY <1>4, <1>5 DEF Whole, y

(* A pull that reads the source; it is not made once the branches are      *)
(* closing.                                                                *)
LEMMA PullReads ==
  ASSUME NEW x, Whole(x), ~x.t.reading,
         \A i \in Branches : x.b[i].st = "readable" => ~x.b[i].closeRequested
  PROVE  Whole(TeePull(x)) /\ Attended(TeePull(x))
<1> DEFINE s2 == DefaultReaderRead([x.r EXCEPT !.reads = 0], TeeReader)
           t2 == [x.t EXCEPT !.reading = TRUE]
           z == State(s2, x.b, t2)
           y == TeePull(x)
<1>1. /\ TeeTypes(x) /\ Streams(x) /\ Reading(x) /\ Logs(x) /\ Finishing(x) /\ Cancels(x)
      /\ DOMAIN x.t = TeeFields
  BY DEF Whole, Fits, TeeTypes
<1>2. x.r.reqs[TeeReader] = <<>> /\ x.t.job = NoJob /\ Src(x.r)
  BY <1>1 DEF Reading, Streams
<1>3. /\ Src(s2) /\ Answered(s2) /\ s2.reads # 0 /\ s2.chunks = x.r.chunks
      /\ s2.cancelP = x.r.cancelP /\ (s2.st = "readable" => x.r.st = "readable")
      /\ s2.st # "errored" =>
           /\ x.r.st # "errored"
           /\ Taken(s2) = Taken(x.r) + IF s2.rp[1] = "chunk" THEN 1 ELSE 0
  BY <1>2, SourceRead
<1>4. /\ DOMAIN t2 = TeeFields /\ t2.reading = TRUE /\ t2.readAgain = x.t.readAgain
      /\ t2.job = x.t.job /\ t2.cancelled = x.t.cancelled /\ t2.cancelP = x.t.cancelP
      /\ t2.told = x.t.told /\ t2.log = x.t.log /\ t2.panic = x.t.panic
  BY <1>1 DEF TeeFields
<1>5. y = Answer(z)
  BY DEF TeePull
<1> HIDE DEF s2, t2
<1>6. DOMAIN z = {"r", "b", "t"} /\ z.r = s2 /\ z.b = x.b /\ z.t = t2
  BY DEF State
<1> HIDE DEF z, y
<1>7. TeeTypes(z)
  BY <1>1, <1>4, <1>6 DEF TeeTypes
<1>8. Streams(z)
  BY <1>1, <1>3, <1>6 DEF Streams
<1>9. Finishing(z)
  BY <1>1, <1>4, <1>6 DEF Finishing
<1>10. Awaits(z.t) /\ z.t.reading /\ z.t.job = NoJob
  BY <1>2, <1>4, <1>6 DEF Awaits
<1>11. ASSUME NEW i \in Branches, x.b[i].st = "readable", s2.st # "errored"
       PROVE  Len(x.t.log[i]) + Out(z) = Taken(s2)
  <2>1. Len(x.t.log[i]) + 0 = Taken(x.r) /\ Len(x.t.log[i]) \in Nat
    <3>1. Busy1(x.t) = 0
      BY <1>2 DEF Busy1
    <3> QED
      BY <1>1, <1>3, <1>11, <3>1, LenProperties DEF Logs, TeeTypes
  <2>2. Out(z) = IF s2.rp[1] = "chunk" THEN 1 ELSE 0
    BY <1>6, <1>10 DEF Out
  <2>3. Taken(s2) = Taken(x.r) + Out(z)
    BY <1>3, <1>11, <2>2
  <2> QED
    BY <2>1, <2>3
<1>12. z.t.job <= z.r.chunks
  BY <1>1, <1>2, <1>3, <1>4, <1>6 DEF Reading
<1>13. Answering(z)
  BY <1>1, <1>3, <1>4, <1>6, <1>7, <1>8, <1>9, <1>10, <1>11, <1>12 DEF Answering, Logs
<1>14. Attended(z)
  BY <1>10 DEF Attended
<1>15. /\ Fits(y) /\ Attended(y) /\ y.r = z.r /\ y.t.cancelled = z.t.cancelled
       /\ z.t.cancelP # "pending" => y.t.cancelP = z.t.cancelP
  BY <1>5, <1>13, <1>14, AnswerFits
<1>16. Cancels(y)
  BY <1>1, <1>3, <1>4, <1>6, <1>15 DEF Cancels
<1> QED
  BY <1>15, <1>16 DEF Whole, y

(* A branch that was c0 and is c now, by a step that brings it no chunk.   *)
MovesOn(c0, c) ==
  /\ Sound(c) /\ c.chunks = c0.chunks
  /\ c.st = "readable" => c0.st = "readable" /\ c.closeRequested = c0.closeRequested

(* Such a step of a branch keeps what holds of the whole.                  *)
LEMMA BranchMoves ==
  ASSUME NEW x, Whole(x), NEW i \in Branches, NEW c, MovesOn(x.b[i], c)
  PROVE  LET y == [x EXCEPT !.b[i] = c]
         IN  /\ Whole(y) /\ y.r = x.r /\ y.t = x.t /\ y.b[i] = c
             /\ \A j \in Branches : j # i => y.b[j] = x.b[j]
<1> DEFINE y == [x EXCEPT !.b[i] = c]
<1>1. /\ TeeTypes(x) /\ Streams(x) /\ Reading(x) /\ Logs(x) /\ Finishing(x) /\ Cancels(x)
      /\ DOMAIN x = {"r", "b", "t"} /\ DOMAIN x.b = Branches
  BY DEF Whole, Fits, TeeTypes
<1>2. /\ DOMAIN y = {"r", "b", "t"} /\ y.r = x.r /\ y.t = x.t /\ DOMAIN y.b = Branches
      /\ y.b[i] = c /\ \A j \in Branches : j # i => y.b[j] = x.b[j]
  BY <1>1
<1> HIDE DEF y
<1>3. \A j \in Branches : Sound(y.b[j])
  BY <1>1, <1>2 DEF Streams, MovesOn
<1>4. \A j \in Branches :
        /\ y.b[j].chunks = x.b[j].chunks
        /\ y.b[j].st = "readable" =>
             x.b[j].st = "readable" /\ y.b[j].closeRequested = x.b[j].closeRequested
  BY <1>2 DEF MovesOn
<1>5. TeeTypes(y)
  BY <1>1, <1>2 DEF TeeTypes
<1>6. Streams(y)
  BY <1>1, <1>2, <1>3 DEF Streams
<1>7. Reading(y) /\ Cancels(y)
  BY <1>1, <1>2 DEF Reading, Cancels
<1>8. Logs(y)
  BY <1>1, <1>2, <1>4 DEF Logs
<1>9. Finishing(y)
  <2>1. x.t.cancelled \subseteq Branches
    BY <1>1 DEF TeeTypes
  <2> QED
    BY <1>1, <1>2, <1>4, <2>1 DEF Finishing
<1> QED
  BY <1>2, <1>5, <1>6, <1>7, <1>8, <1>9 DEF Whole, Fits, y

(* A step of a branch with the pull it makes: nobody who waits is left     *)
(* without one who attends.                                                *)
LEMMA BranchStepFits ==
  ASSUME NEW x, Whole(x), Attended(x), NEW i \in Branches, NEW c0, NEW c, MovesOn(x.b[i], c),
         Demand(c) => Asks(c0, c) \/ Met(c) \/ (Demand(x.b[i]) /\ ~Met(x.b[i])),
         Asks(c0, c) => CanCloseOrEnqueue(c)
  PROVE  LET y == BranchStep(x, i, c0, c)
         IN  Whole(y) /\ Attended(y)
<1> DEFINE z == [x EXCEPT !.b[i] = c]
           y == BranchStep(x, i, c0, c)
<1>1. y = IF Asks(c0, c) THEN TeePull(z) ELSE z
  BY DEF BranchStep, Asks
<1>2. /\ Whole(z) /\ z.r = x.r /\ z.t = x.t /\ z.b[i] = c
      /\ \A j \in Branches : j # i => z.b[j] = x.b[j]
  BY BranchMoves
<1> HIDE DEF y, z
<1>3. CASE ~Asks(c0, c)
  <2>1. Attended(z)
    BY <1>2, <1>3 DEF Attended
  <2> QED
    BY <1>1, <1>2, <1>3, <2>1 DEF y
<1>4. CASE Asks(c0, c) /\ z.t.reading
  <2>1. Whole(TeePull(z)) /\ Attended(TeePull(z))
    BY <1>2, <1>4, PullNoted
  <2> QED
    BY <1>1, <1>4, <2>1 DEF y
<1>5. CASE Asks(c0, c) /\ ~z.t.reading
  <2>1. c.st = "readable" /\ ~c.closeRequested
    BY <1>5 DEF CanCloseOrEnqueue
  <2>2. \A j \in Branches : z.b[j].st = "readable" => ~z.b[j].closeRequested
    BY <1>2, <2>1 DEF Whole, Fits, Finishing
  <2>3. Whole(TeePull(z)) /\ Attended(TeePull(z))
    BY <1>2, <1>5, <2>2, PullReads
  <2> QED
    BY <1>1, <1>5, <2>3 DEF y
<1> QED
  BY <1>3, <1>4, <1>5

------------------------------------------------------------------------------
(* The job that gives a chunk to the branches.                             *)

(* The job runs, and the branches in D were given its chunk: whoever waits *)
(* there is attended to, or read_again is set.                             *)
Giving(x, D) ==
  /\ TeeTypes(x) /\ Streams(x) /\ Reading(x) /\ Finishing(x) /\ Cancels(x) /\ x.t.job # NoJob
  /\ \A i \in Branches : /\ \A k \in DOMAIN x.t.log[i] : x.t.log[i][k] = k
                         /\ x.b[i].chunks = Len(x.t.log[i])
  /\ \A i \in Branches : x.b[i].st = "readable" =>
       /\ IF i \in D THEN Len(x.t.log[i]) = x.t.job ELSE Len(x.t.log[i]) + 1 = x.t.job
       /\ x.r.st # "errored" => x.t.job = Taken(x.r)
  /\ \A i \in D : Demand(x.b[i]) => Met(x.b[i]) \/ x.t.readAgain

(* The branch takes a chunk, and pulls if it wants another.                *)
LEMMA BranchEnqueue ==
  ASSUME NEW c, Sound(c), CanCloseOrEnqueue(c), c.chunks < MaxChunks, NEW c1,
         c1 = IF c.reader # NoReader /\ c.reqs[TeeReader] # <<>>
              THEN EnqueueToReader(c, TeeReader) ELSE EnqueueAfterSize(c, c.reader, 1)
  PROVE  /\ Sound(c1) /\ Pulls(c, c1) /\ c1.st = "readable" /\ ~c1.closeRequested
         /\ c1.chunks = c.chunks + 1
<1>1. c.reader = TeeReader
  BY DEF Sound
<1>2. CASE c.reqs[TeeReader] # <<>>
  <2>1. c1 = EnqueueToReader(c, TeeReader)
    BY <1>1, <1>2, FirstReader
  <2> QED
    BY <1>2, <2>1, HandOver
<1>3. CASE c.reqs[TeeReader] = <<>>
  <2>1. c1 = EnqueueAfterSize(c, TeeReader, 1)
    BY <1>1, <1>3
  <2> QED
    BY <1>3, <2>1, PutInQueue
<1> QED
  BY <1>2, <1>3

(* What a chunk given to branch i changes, where the branch was c and is   *)
(* c1; its pull is noted in read_again.                                    *)
Given(x, y, i, c, c1) ==
  /\ DOMAIN y = {"r", "b", "t"} /\ DOMAIN y.b = Branches /\ DOMAIN y.t = TeeFields
  /\ y.r = x.r /\ y.b[i] = c1 /\ \A j \in Branches : j # i => y.b[j] = x.b[j]
  /\ y.t.reading = x.t.reading /\ y.t.job = x.t.job /\ y.t.told = x.t.told
  /\ y.t.cancelled = x.t.cancelled /\ y.t.cancelP = x.t.cancelP
  /\ y.t.panic = x.t.panic
  /\ y.t.log = [x.t.log EXCEPT ![i] = Append(@, x.t.job)]
  /\ y.t.readAgain \in BOOLEAN
  /\ x.t.readAgain \/ Asks(c, c1) => y.t.readAgain

(* What EnqueueTo changes for an open branch: while the source is being    *)
(* read, the pull it may make is only noted.                               *)
LEMMA EnqueueToEffect ==
  ASSUME NEW x, TeeTypes(x), x.t.reading, NEW i \in Branches, i \notin x.t.cancelled,
         NEW c, c = x.b[i], CanCloseOrEnqueue(c), NEW c1,
         c1 = IF c.reader # NoReader /\ c.reqs[TeeReader] # <<>>
              THEN EnqueueToReader(c, TeeReader) ELSE EnqueueAfterSize(c, c.reader, 1)
  PROVE  Given(x, EnqueueTo(x, i), i, c, c1)
<1> DEFINE g == [x EXCEPT !.t.log[i] = Append(@, x.t.job)]
           z == [g EXCEPT !.b[i] = c1]
           u == [z EXCEPT !.t.readAgain = TRUE]
           y == EnqueueTo(x, i)
<1>1. /\ DOMAIN x = {"r", "b", "t"} /\ DOMAIN x.b = Branches /\ DOMAIN x.t = TeeFields
      /\ x.t.readAgain \in BOOLEAN
  BY DEF TeeTypes
<1>2. y = BranchStep(g, i, c, c1)
  BY DEF EnqueueTo
<1>3. BranchStep(g, i, c, c1) = IF Asks(c, c1) THEN TeePull(z) ELSE z
  BY DEF BranchStep, Asks
<1>4. /\ DOMAIN g = {"r", "b", "t"} /\ DOMAIN g.b = Branches /\ DOMAIN g.t = TeeFields
      /\ g.r = x.r /\ g.b = x.b
      /\ g.t.reading = x.t.reading /\ g.t.job = x.t.job /\ g.t.told = x.t.told
      /\ g.t.cancelled = x.t.cancelled /\ g.t.cancelP = x.t.cancelP
      /\ g.t.panic = x.t.panic /\ g.t.readAgain = x.t.readAgain
      /\ g.t.log = [x.t.log EXCEPT ![i] = Append(@, x.t.job)]
  BY <1>1 DEF TeeFields
<1> HIDE DEF g
<1>5. /\ DOMAIN z = {"r", "b", "t"} /\ DOMAIN z.b = Branches /\ z.t = g.t
      /\ z.r = g.r /\ z.b[i] = c1 /\ \A j \in Branches : j # i => z.b[j] = g.b[j]
  BY <1>4
<1> HIDE DEF z
<1>6. /\ DOMAIN u = {"r", "b", "t"} /\ u.r = z.r /\ u.b = z.b /\ DOMAIN u.t = TeeFields
      /\ u.t.reading = z.t.reading /\ u.t.job = z.t.job /\ u.t.told = z.t.told
      /\ u.t.cancelled = z.t.cancelled /\ u.t.cancelP = z.t.cancelP
      /\ u.t.panic = z.t.panic /\ u.t.log = z.t.log /\ u.t.readAgain = TRUE
  BY <1>4, <1>5 DEF TeeFields
<1>7. TeePull(z) = u
  BY <1>4, <1>5 DEF TeePull
<1> HIDE DEF u, y
<1>8. /\ DOMAIN y = {"r", "b", "t"} /\ DOMAIN y.b = Branches /\ DOMAIN y.t = TeeFields
      /\ y.r = x.r /\ y.b[i] = c1 /\ \A j \in Branches : j # i => y.b[j] = x.b[j]
  <2>1. y = u \/ y = z
    BY <1>2, <1>3, <1>7
  <2> QED
    BY <1>4, <1>5, <1>6, <2>1
<1>9. /\ y.t.reading = x.t.reading /\ y.t.job = x.t.job /\ y.t.told = x.t.told
      /\ y.t.cancelled = x.t.cancelled /\ y.t.cancelP = x.t.cancelP
      /\ y.t.panic = x.t.panic
      /\ y.t.log = [x.t.log EXCEPT ![i] = Append(@, x.t.job)]
  <2> DEFINE l == [x.t.log EXCEPT ![i] = Append(@, x.t.job)]
  <2>1. y.t = u.t \/ y.t = g.t
    BY <1>2, <1>3, <1>5, <1>7
  <2>2. g.t.log = l
    BY <1>4
  <2> HIDE DEF l
  <2>3. /\ y.t.reading = x.t.reading /\ y.t.job = x.t.job /\ y.t.told = x.t.told
        /\ y.t.cancelled = x.t.cancelled /\ y.t.cancelP = x.t.cancelP
        /\ y.t.panic = x.t.panic /\ y.t.log = l
    <3>1. CASE y.t = g.t
      BY <1>4, <2>2, <3>1, Zenon
    <3>2. CASE y.t = u.t
      <4>1. /\ u.t.reading = g.t.reading /\ u.t.job = g.t.job /\ u.t.told = g.t.told
            /\ u.t.cancelled = g.t.cancelled /\ u.t.cancelP = g.t.cancelP
            /\ u.t.panic = g.t.panic /\ u.t.log = g.t.log
        BY <1>5, <1>6, Zenon
      <4> QED
        BY <1>4, <2>2, <3>2, <4>1, Zenon
    <3> QED
      BY <2>1, <3>1, <3>2
  <2> QED
    BY <2>3 DEF l
<1>10. y.t.readAgain \in BOOLEAN /\ (x.t.readAgain \/ Asks(c, c1) => y.t.readAgain)
  <2>1. CASE Asks(c, c1)
    BY <1>2, <1>3, <1>6, <1>7, <2>1
  <2>2. CASE ~Asks(c, c1)
    BY <1>1, <1>2, <1>3, <1>4, <1>5, <2>2
  <2> QED
    BY <2>1, <2>2
<1> QED
  BY <1>8, <1>9, <1>10, Zenon DEF y, Given

(* A log one chunk longer still counts the chunks.                         *)
LEMMA LogGrows ==
  ASSUME NEW s \in Seq(Nat), NEW v \in Nat, v = Len(s) + 1, \A k \in DOMAIN s : s[k] = k
  PROVE  LET q == Append(s, v)
         IN  q \in Seq(Nat) /\ Len(q) = v /\ \A k \in DOMAIN q : q[k] = k
<1>1. /\ Append(s, v) \in Seq(Nat) /\ Len(Append(s, v)) = Len(s) + 1
      /\ \A k \in 1..Len(s) : Append(s, v)[k] = s[k]
      /\ Append(s, v)[Len(s) + 1] = v
  BY AppendProperties
<1>2. DOMAIN Append(s, v) = 1..(Len(s) + 1) /\ DOMAIN s = 1..Len(s) /\ Len(s) \in Nat
  BY <1>1, LenProperties
<1> QED
  BY <1>1, <1>2

(* EnqueueTo gives branch i the chunk of the job, if the branch is open.   *)
LEMMA EnqueueToGives ==
  ASSUME NEW x, NEW D \in SUBSET Branches, Giving(x, D), NEW i \in Branches, i \notin D
  PROVE  Giving(EnqueueTo(x, i), D \cup {i})
<1> DEFINE y == EnqueueTo(x, i)
           c == x.b[i]
           c1 == IF c.reader # NoReader /\ c.reqs[TeeReader] # <<>>
                 THEN EnqueueToReader(c, TeeReader) ELSE EnqueueAfterSize(c, c.reader, 1)
           v == x.t.job
<1>1. /\ TeeTypes(x) /\ Streams(x) /\ Reading(x) /\ Finishing(x) /\ Cancels(x) /\ v # NoJob
      /\ x.t.reading /\ Sound(c)
  BY DEF Giving, Reading, Streams
<1>2. CASE i \in x.t.cancelled \/ ~CanCloseOrEnqueue(c)
  <2>1. y = x
    BY <1>2 DEF EnqueueTo
  <2>2. x.b[i].st # "readable"
    BY <1>1, <1>2 DEF Finishing, CanCloseOrEnqueue
  <2>3. ~Demand(x.b[i])
    BY <2>2 DEF Demand, CanCloseOrEnqueue
  <2> HIDE DEF y
  <2>4. Giving(x, D \cup {i})
    BY <2>2, <2>3 DEF Giving
  <2> QED
    BY <2>1, <2>4 DEF y
<1>3. CASE i \notin x.t.cancelled /\ CanCloseOrEnqueue(c)
  <2>1. /\ v \in Nat /\ x.t.log[i] \in Seq(Nat) /\ x.t.log \in [Branches -> Seq(Nat)]
        /\ Len(x.t.log[i]) \in Nat
    BY <1>1, LenProperties DEF TeeTypes
  <2>2. v = Len(x.t.log[i]) + 1 /\ c.chunks = Len(x.t.log[i]) /\ c.st = "readable"
    BY <1>3 DEF Giving, CanCloseOrEnqueue
  <2>3. c.chunks < MaxChunks
    <3>1. v <= x.r.chunks /\ x.r.chunks \in 0..MaxChunks
      BY <1>1 DEF Reading, Streams, Src, Sound, RTypes
    <3> QED
      BY <2>1, <2>2, <3>1, ReadableBounds
  <2>4. /\ Sound(c1) /\ Pulls(c, c1) /\ c1.st = "readable" /\ ~c1.closeRequested
        /\ c1.chunks = c.chunks + 1
    BY <1>1, <1>3, <2>3, BranchEnqueue
  <2>5. /\ DOMAIN y = {"r", "b", "t"} /\ DOMAIN y.b = Branches /\ DOMAIN y.t = TeeFields
        /\ y.r = x.r /\ y.b[i] = c1 /\ \A j \in Branches : j # i => y.b[j] = x.b[j]
        /\ y.t.reading = x.t.reading /\ y.t.job = x.t.job /\ y.t.told = x.t.told
        /\ y.t.cancelled = x.t.cancelled /\ y.t.cancelP = x.t.cancelP
        /\ y.t.panic = x.t.panic
        /\ y.t.log = [x.t.log EXCEPT ![i] = Append(@, x.t.job)]
        /\ y.t.readAgain \in BOOLEAN
        /\ x.t.readAgain \/ Asks(c, c1) => y.t.readAgain
    <3>1. /\ c = x.b[i]
          /\ c1 = IF c.reader # NoReader /\ c.reqs[TeeReader] # <<>>
                  THEN EnqueueToReader(c, TeeReader) ELSE EnqueueAfterSize(c, c.reader, 1)
      OBVIOUS
    <3>2. TeeTypes(x) /\ x.t.reading /\ i \notin x.t.cancelled /\ CanCloseOrEnqueue(c)
      BY <1>1, <1>3
    <3> HIDE DEF c, c1, y
    <3>3. Given(x, y, i, c, c1)
      BY <3>1, <3>2, EnqueueToEffect DEF y
    <3> QED
      BY <3>3, Zenon DEF Given
  <2> HIDE DEF y, c1
  <2>6. /\ Append(x.t.log[i], v) \in Seq(Nat) /\ Len(Append(x.t.log[i], v)) = v
        /\ \A k \in DOMAIN Append(x.t.log[i], v) : Append(x.t.log[i], v)[k] = k
    <3>1. \A k \in DOMAIN x.t.log[i] : x.t.log[i][k] = k
      BY DEF Giving
    <3> HIDE DEF v
    <3> QED
      BY <2>1, <2>2, <3>1, LogGrows, Zenon
  <2>7. /\ y.t.log \in [Branches -> Seq(Nat)] /\ y.t.log[i] = Append(x.t.log[i], v)
        /\ \A j \in Branches : j # i => y.t.log[j] = x.t.log[j]
    BY <2>1, <2>5, <2>6
  <2>8. TeeTypes(y)
    BY <1>1, <2>5, <2>7 DEF TeeTypes
  <2>9. \A j \in Branches : Sound(y.b[j])
    BY <1>1, <2>4, <2>5 DEF Streams
  <2>10. Streams(y)
    BY <1>1, <2>5, <2>9 DEF Streams
  <2>11. Reading(y) /\ Cancels(y) /\ y.t.job # NoJob
    BY <1>1, <2>5 DEF Reading, Cancels
  <2>12. Finishing(y)
    <3>1. \A j \in Branches : /\ y.b[j].st = "readable" => x.b[j].st = "readable"
                              /\ y.b[j].st = "readable" => y.b[j].closeRequested = FALSE
      <4>1. ASSUME NEW j \in Branches, x.b[j].st = "readable"
            PROVE  x.b[j].closeRequested = FALSE
        <5>1. x.b[j].closeRequested \in BOOLEAN
          BY <1>1 DEF Streams, Sound, RTypes
        <5> QED
          BY <1>1, <4>1, <5>1 DEF Finishing
      <4>2. c1.closeRequested = FALSE
        BY <2>4 DEF Sound, RTypes
      <4> QED
        BY <2>2, <2>5, <4>1, <4>2
    <3>2. x.t.cancelled \subseteq Branches
      BY <1>1 DEF TeeTypes
    <3>3. /\ x.t.told => \A j \in Branches : x.b[j].st # "readable"
          /\ \A j \in x.t.cancelled : x.b[j].st # "readable"
      BY <1>1 DEF Finishing
    <3>4. /\ y.t.told => \A j \in Branches : y.b[j].st # "readable"
          /\ \A j \in y.t.cancelled : y.b[j].st # "readable"
      BY <2>5, <3>1, <3>2, <3>3
    <3> QED
      BY <3>1, <3>4 DEF Finishing
  <2>13. \A j \in Branches : /\ \A k \in DOMAIN y.t.log[j] : y.t.log[j][k] = k
                             /\ y.b[j].chunks = Len(y.t.log[j])
    BY <2>2, <2>4, <2>5, <2>6, <2>7 DEF Giving
  <2>14. \A j \in Branches : y.b[j].st = "readable" =>
           /\ IF j \in D \cup {i} THEN Len(y.t.log[j]) = y.t.job
                                  ELSE Len(y.t.log[j]) + 1 = y.t.job
           /\ y.r.st # "errored" => y.t.job = Taken(y.r)
    BY <2>2, <2>5, <2>6, <2>7 DEF Giving
  <2>15. \A j \in D \cup {i} : Demand(y.b[j]) => Met(y.b[j]) \/ y.t.readAgain
    <3>1. Demand(c1) => Met(c1) \/ y.t.readAgain
      BY <2>4, <2>5 DEF Pulls
    <3>2. ASSUME NEW j \in D, Demand(y.b[j])
          PROVE  Met(y.b[j]) \/ y.t.readAgain
      BY <2>5, <3>2 DEF Giving
    <3> QED
      BY <2>5, <3>1, <3>2
  <2> QED
    BY <2>8, <2>10, <2>11, <2>12, <2>13, <2>14, <2>15 DEF Giving, y
<1> QED
  BY <1>2, <1>3

(* The job gives both branches the chunk.                                  *)
LEMMA GivesBoth ==
  ASSUME NEW x0, Whole(x0), x0.t.job # NoJob
  PROVE  Giving(EnqueueTo(EnqueueTo([x0 EXCEPT !.t.readAgain = FALSE], 1), 2), Branches)
<1> DEFINE q == [x0 EXCEPT !.t.readAgain = FALSE]
<1>1. /\ TeeTypes(x0) /\ Streams(x0) /\ Reading(x0) /\ Logs(x0) /\ Finishing(x0) /\ Cancels(x0)
      /\ DOMAIN x0 = {"r", "b", "t"} /\ DOMAIN x0.t = TeeFields
  BY DEF Whole, Fits, TeeTypes
<1>2. /\ DOMAIN q = {"r", "b", "t"} /\ q.r = x0.r /\ q.b = x0.b /\ DOMAIN q.t = TeeFields
      /\ q.t.job = x0.t.job /\ q.t.reading = x0.t.reading /\ q.t.readAgain = FALSE
      /\ q.t.cancelled = x0.t.cancelled /\ q.t.cancelP = x0.t.cancelP
      /\ q.t.told = x0.t.told /\ q.t.log = x0.t.log /\ q.t.panic = x0.t.panic
  BY <1>1 DEF TeeFields
<1> HIDE DEF q
<1>3. Giving(q, {})
  <2>1. TeeTypes(q)
    BY <1>1, <1>2 DEF TeeTypes
  <2>2. Streams(q) /\ Cancels(q) /\ Finishing(q) /\ Reading(q) /\ q.t.job # NoJob
    BY <1>1, <1>2 DEF Streams, Cancels, Finishing, Reading
  <2>3. \A i \in Branches : /\ \A k \in DOMAIN q.t.log[i] : q.t.log[i][k] = k
                            /\ q.b[i].chunks = Len(q.t.log[i])
    BY <1>1, <1>2 DEF Logs
  <2>4. ASSUME NEW i \in Branches, q.b[i].st = "readable"
        PROVE  /\ Len(q.t.log[i]) + 1 = q.t.job
               /\ q.r.st # "errored" => q.t.job = Taken(q.r)
    <3>1. Busy1(x0.t) = 1
      BY DEF Busy1
    <3> QED
      BY <1>1, <1>2, <2>4, <3>1 DEF Logs
  <2> QED
    BY <2>1, <2>2, <2>3, <2>4 DEF Giving
<1>4. Giving(EnqueueTo(q, 1), {} \cup {1})
  BY <1>3, EnqueueToGives DEF Branches
<1>5. Giving(EnqueueTo(EnqueueTo(q, 1), 2), ({} \cup {1}) \cup {2})
  BY <1>4, EnqueueToGives DEF Branches
<1>6. ({} \cup {1}) \cup {2} = Branches
  BY DEF Branches
<1> QED
  BY <1>5, <1>6 DEF q

(* The end of the job: the source is read again if a branch asked.         *)
LEMMA JobEnds ==
  ASSUME NEW x, Giving(x, Branches)
  PROVE  LET y == [x EXCEPT !.t.reading = FALSE, !.t.job = NoJob]
             z == IF y.t.readAgain THEN TeePull(y) ELSE y
         IN  Whole(z) /\ Attended(z)
<1> DEFINE y == [x EXCEPT !.t.reading = FALSE, !.t.job = NoJob]
           z == IF y.t.readAgain THEN TeePull(y) ELSE y
<1>1. /\ TeeTypes(x) /\ Streams(x) /\ Reading(x) /\ Finishing(x) /\ Cancels(x) /\ x.t.job # NoJob
      /\ DOMAIN x = {"r", "b", "t"} /\ DOMAIN x.t = TeeFields /\ x.t.reading
  BY DEF Giving, TeeTypes, Reading
<1>2. /\ DOMAIN y = {"r", "b", "t"} /\ y.r = x.r /\ y.b = x.b /\ DOMAIN y.t = TeeFields
      /\ y.t.job = NoJob /\ y.t.reading = FALSE /\ y.t.readAgain = x.t.readAgain
      /\ y.t.cancelled = x.t.cancelled /\ y.t.cancelP = x.t.cancelP
      /\ y.t.told = x.t.told /\ y.t.log = x.t.log /\ y.t.panic = x.t.panic
  BY <1>1 DEF TeeFields
<1> HIDE DEF y, z
<1>3. TeeTypes(y)
  <2>1. NoJob \in Nat
    BY DEF NoJob
  <2> QED
    BY <1>1, <1>2, <2>1 DEF TeeTypes
<1>4. Reading(y)
  <2>1. x.r.chunks \in 0..MaxChunks
    BY <1>1 DEF Streams, Src, Sound, RTypes
  <2>2. NoJob <= x.r.chunks
    BY <2>1 DEF NoJob
  <2> QED
    BY <1>1, <1>2, <2>2 DEF Reading
<1>5. Logs(y)
  <2>1. Busy1(y.t) = 0
    BY <1>2 DEF Busy1
  <2>2. \A i \in Branches : Len(x.t.log[i]) \in Nat
    BY <1>1, LenProperties DEF TeeTypes
  <2>3. \A i \in Branches : /\ \A k \in DOMAIN y.t.log[i] : y.t.log[i][k] = k
                            /\ y.b[i].chunks = Len(y.t.log[i])
    BY <1>2 DEF Giving
  <2>4. \A i \in Branches : x.b[i].st = "readable" =>
          /\ Len(x.t.log[i]) = x.t.job
          /\ x.r.st # "errored" => x.t.job = Taken(x.r)
    BY DEF Giving
  <2>5. \A i \in Branches : y.b[i].st = "readable" =>
          /\ y.t.job # NoJob => y.t.job = Len(y.t.log[i]) + 1
          /\ y.r.st # "errored" => Len(y.t.log[i]) + Busy1(y.t) = Taken(y.r)
    BY <1>2, <2>1, <2>2, <2>4
  <2>6. (\A i \in Branches : y.b[i].st = "readable") => Len(y.t.log[1]) = Len(y.t.log[2])
    BY <1>2, <2>4 DEF Branches
  <2> QED
    BY <2>3, <2>5, <2>6 DEF Logs
<1>6. Finishing(y) /\ \A i \in Branches : y.b[i].st = "readable" => ~y.b[i].closeRequested
  BY <1>1, <1>2 DEF Finishing
<1>7. Streams(y) /\ Cancels(y)
  BY <1>1, <1>2 DEF Streams, Cancels
<1>8. Whole(y)
  BY <1>3, <1>4, <1>5, <1>6, <1>7 DEF Whole, Fits
<1>9. Whole(z) /\ Attended(z)
  <2>1. CASE y.t.readAgain
    <3>1. Whole(TeePull(y)) /\ Attended(TeePull(y))
      BY <1>2, <1>6, <1>8, PullReads
    <3> QED
      BY <2>1, <3>1 DEF z
  <2>2. CASE ~y.t.readAgain
    <3>1. \A i \in Branches : Demand(y.b[i]) => Met(y.b[i])
      BY <1>2, <2>2 DEF Giving
    <3>2. Attended(y)
      BY <3>1 DEF Attended
    <3> QED
      BY <1>8, <2>2, <3>2 DEF z
  <2> QED
    BY <2>1, <2>2
<1> QED
  BY <1>9 DEF y, z

------------------------------------------------------------------------------
(* The steps of the source, the cancel of a branch and the source's error. *)

(* A step of the source, with what its answer makes the tee do.            *)
LEMMA SourceMoves ==
  ASSUME NEW x, Whole(x), Attended(x), NEW s2, SourceStep(x.r, s2), TakenFor(x.r, s2),
         s2.cancelP # "none" => x.r.cancelP # "none"
  PROVE  LET y == Answer([x EXCEPT !.r = s2])
         IN  Whole(y) /\ Attended(y)
<1> DEFINE z == [x EXCEPT !.r = s2]
           y == Answer(z)
<1>1. Fits(x) /\ Cancels(x)
  BY DEF Whole
<1>2. Answering(z) /\ Attended(z) /\ z.r = s2 /\ z.b = x.b /\ z.t = x.t
  BY <1>1, SourceAnswering
<1> HIDE DEF z
<1>3. /\ Fits(y) /\ Attended(y) /\ y.r = z.r /\ y.t.cancelled = z.t.cancelled
      /\ z.t.cancelP # "pending" => y.t.cancelP = z.t.cancelP
  BY <1>2, AnswerFits
<1> HIDE DEF y
<1>4. Cancels(y)
  BY <1>1, <1>2, <1>3 DEF Cancels, SourceStep
<1> QED
  BY <1>3, <1>4 DEF Whole, y, z

(* A reaction of the source to start(), pull() or cancel() answers no      *)
(* read.                                                                   *)
LEMMA SourceQuiet ==
  ASSUME NEW x, Whole(x), Attended(x), NEW s2, Sound(s2), Unread(x.r, s2),
         s2.cancelP # "none" => x.r.cancelP # "none"
  PROVE  LET y == [x EXCEPT !.r = s2]
         IN  Whole(y) /\ Attended(y)
<1> DEFINE y == [x EXCEPT !.r = s2]
<1>1. /\ TeeTypes(x) /\ Src(x.r) /\ Reading(x) /\ DOMAIN x = {"r", "b", "t"}
  BY DEF Whole, Fits, TeeTypes, Streams
<1>2. /\ s2.chunks = x.r.chunks /\ s2.reads = x.r.reads /\ s2.st = x.r.st
      /\ s2.queue = x.r.queue /\ s2.reqs = x.r.reqs /\ s2.rp = x.r.rp
      /\ Taken(s2) = Taken(x.r)
  BY DEF Unread, SameData, Taken
<1>3. Src(s2)
  BY <1>1, <1>2 DEF Src
<1>4. x.r.reqs[TeeReader] # <<>> => s2.rp[1] = "pending" /\ Answered(s2)
  BY <1>1, <1>2 DEF Src, Answered
<1>5. x.r.chunks \in Nat /\ Taken(x.r) \in Int
  <2>1. x.r.chunks \in 0..MaxChunks /\ x.r.queue \in Seq(ChunkIds)
    BY <1>1 DEF Src, Sound, RTypes
  <2> QED
    BY <2>1, LenProperties DEF Taken
<1>6. SourceStep(x.r, s2)
  BY <1>2, <1>3, <1>4, <1>5 DEF SourceStep
<1>7. TakenFor(x.r, s2)
  BY <1>2, <1>4, <1>5 DEF TakenFor
<1>8. Answer(y) = y
  <2>1. y.r = s2 /\ y.t = x.t
    BY <1>1
  <2> HIDE DEF y
  <2>2. CASE y.r.reads = 0 \/ y.t.job # NoJob \/ ~y.t.reading
    BY <2>2, Zenon DEF Answer
  <2>3. CASE y.r.reads # 0 /\ y.t.job = NoJob /\ y.t.reading
    <3>1. y.r.rp[1] = "pending"
      BY <1>1, <1>4, <2>1, <2>3 DEF Reading
    <3>2. Answer(y) = CASE y.r.rp[1] = "chunk" -> [y EXCEPT !.t.job = y.r.rv[1]]
                        [] y.r.rp[1] = "done"  -> CloseSteps(y)
                        [] y.r.rp[1] = "err"   -> [y EXCEPT !.t.reading = FALSE]
                        [] OTHER               -> y
      BY <2>3, Zenon DEF Answer
    <3> QED
      BY <3>1, <3>2
  <2> QED
    BY <2>2, <2>3
<1>9. Whole(Answer(y)) /\ Attended(Answer(y))
  BY <1>6, <1>7, SourceMoves
<1> QED
  BY <1>8, <1>9

(* The cancel of the source, open or over.                                 *)
LEMMA SourceCancel ==
  ASSUME NEW s, Src(s), NEW s2, s2 = ReadableCancel(s, TeeReader)
  PROVE  SourceStep(s, s2) /\ s2.st # "readable"
<1>1. CASE s.st = "readable"
  BY <1>1, CancelStep
<1>2. CASE s.st # "readable"
  <2> DEFINE u == [s EXCEPT !.disturbed = TRUE]
  <2>1. Sound(s) /\ RTypes(s) /\ DOMAIN s = RFields /\ s.st \in {"closed", "errored"}
    BY <1>2 DEF Src, Sound, RTypes
  <2>2. RAgree(s, u, {"disturbed"}) /\ u.disturbed = TRUE /\ u.st = s.st
    BY <2>1 DEF RAgree, RFields
  <2> HIDE DEF u
  <2>3. s2 = u
    <3>1. s2 = CASE u.st = "closed"   -> u
                 [] u.st = "errored"  -> u
                 [] u.st = "readable" ->
                      CancelSteps(ReadableClose([u EXCEPT !.cancelP = "pending"], TeeReader))
      BY DEF ReadableCancel, u
    <3> QED
      BY <2>1, <2>2, <3>1
  <2>4. RTypes(u)
    <3>1. RTyped(u, {"disturbed"})
      BY <2>2 DEF RTyped
    <3> QED
      BY <2>1, <2>2, <3>1, RTypesCarry
  <2>5. /\ u.reader = s.reader /\ u.panic = s.panic /\ u.algs = s.algs
        /\ u.pulling = s.pulling /\ u.pend = s.pend /\ u.reqs = s.reqs /\ u.queue = s.queue
        /\ u.chunks = s.chunks /\ u.rp = s.rp /\ u.reads = s.reads
    BY <2>2 DEF RAgree
  <2>6. Sound(u) /\ s.reqs[TeeReader] = <<>>
    BY <1>2, <2>1, <2>2, <2>4, <2>5 DEF Sound
  <2>7. Src(u)
    BY <2>5, <2>6 DEF Src, Taken
  <2>8. s.chunks <= u.chunks
    BY <2>1, <2>5 DEF RTypes
  <2> QED
    BY <1>2, <2>2, <2>3, <2>5, <2>6, <2>7, <2>8 DEF SourceStep
<1> QED
  BY <1>1, <1>2

(* The tee's cancel algorithm for a branch that has just closed: the       *)
(* second one cancels the source and resolves the shared promise.          *)
LEMMA TeeCancelFits ==
  ASSUME NEW x, Whole(x), Attended(x), NEW i \in Branches, i \notin x.t.cancelled,
         x.b[i].st # "readable"
  PROVE  Whole(TeeCancel(x, i)) /\ Attended(TeeCancel(x, i))
<1> DEFINE y == [x EXCEPT !.t.cancelled = @ \cup {i},
                          !.t.panic = @ \/ i \in x.t.cancelled]
           s2 == ReadableCancel(x.r, TeeReader)
           outcome == CASE x.r.st = "readable" -> "source"
                        [] x.r.st = "closed"   -> "ok"
                        [] x.r.st = "errored"  -> "err"
           z0 == [y EXCEPT !.r = s2]
           z == Answer(z0)
           p == IF z.t.cancelP = "pending" THEN outcome ELSE z.t.cancelP
           g == [z EXCEPT !.t.cancelP = p]
<1>1. /\ TeeTypes(x) /\ Streams(x) /\ Reading(x) /\ Logs(x) /\ Finishing(x) /\ Cancels(x)
      /\ DOMAIN x = {"r", "b", "t"} /\ DOMAIN x.t = TeeFields
      /\ x.t.cancelled \subseteq Branches /\ x.t.panic = FALSE
  BY DEF Whole, Fits, TeeTypes
<1>2. TeeCancel(x, i) = IF y.t.cancelled # Branches THEN y ELSE g
  BY DEF TeeCancel
<1>3. /\ DOMAIN y = {"r", "b", "t"} /\ y.r = x.r /\ y.b = x.b /\ DOMAIN y.t = TeeFields
      /\ y.t.job = x.t.job /\ y.t.reading = x.t.reading /\ y.t.readAgain = x.t.readAgain
      /\ y.t.cancelled = x.t.cancelled \cup {i} /\ y.t.cancelP = x.t.cancelP
      /\ y.t.told = x.t.told /\ y.t.log = x.t.log
      /\ y.t.panic = (x.t.panic \/ i \in x.t.cancelled)
  BY <1>1 DEF TeeFields
<1> HIDE DEF y
<1>4. y.t.panic = FALSE
  BY <1>1, <1>3
<1>5. x.r.cancelP = "none"
  BY <1>1 DEF Cancels
<1>6. TeeTypes(y)
  BY <1>1, <1>3, <1>4 DEF TeeTypes
<1>7. Reading(y)
  BY <1>1, <1>3 DEF Reading
<1>8. Logs(y)
  <2>1. Busy1(y.t) = Busy1(x.t)
    BY <1>3 DEF Busy1
  <2> QED
    BY <1>1, <1>3, <2>1 DEF Logs
<1>9. Finishing(y)
  <2>1. \A j \in x.t.cancelled \cup {i} : x.b[j].st # "readable"
    BY <1>1 DEF Finishing
  <2> QED
    BY <1>1, <1>3, <2>1 DEF Finishing
<1>10. Streams(y) /\ Attended(y)
  BY <1>1, <1>3 DEF Streams, Attended
<1>11. Fits(y)
  BY <1>6, <1>7, <1>8, <1>9, <1>10 DEF Fits
<1>12. CASE y.t.cancelled # Branches
  <2>1. Cancels(y)
    BY <1>3, <1>5, <1>12 DEF Cancels
  <2>2. TeeCancel(x, i) = y
    BY <1>2, <1>12
  <2> QED
    BY <1>10, <1>11, <2>1, <2>2 DEF Whole
<1>13. CASE y.t.cancelled = Branches
  <2>1. TeeCancel(x, i) = g
    BY <1>2, <1>13
  <2>2. SourceStep(x.r, s2) /\ s2.st # "readable"
    BY <1>1, SourceCancel DEF Streams
  <2> HIDE DEF s2
  <2>3. \A j \in Branches : y.b[j].st # "readable"
    BY <1>9, <1>13 DEF Finishing
  <2>4. SourceStep(y.r, s2)
    BY <1>3, <2>2
  <2>5. Answering(z0) /\ Attended(z0) /\ z0.r = s2 /\ z0.b = y.b /\ z0.t = y.t
    BY <1>10, <1>11, <2>3, <2>4, SourceAnswering
  <2> HIDE DEF z0
  <2>6. /\ Fits(z) /\ Attended(z) /\ z.r = z0.r /\ z.t.cancelled = z0.t.cancelled
        /\ z0.t.cancelP # "pending" => z.t.cancelP = z0.t.cancelP
    BY <2>5, AnswerFits
  <2> HIDE DEF z
  <2>7. outcome # "pending"
    <3>1. x.r.st \in {"readable", "closed", "errored"}
      BY <1>1 DEF Streams, Src, Sound, RTypes
    <3> QED
      BY <3>1
  <2> HIDE DEF outcome
  <2>8. p # "pending"
    BY <2>7
  <2> HIDE DEF p
  <2>9. DOMAIN z = {"r", "b", "t"} /\ DOMAIN z.t = TeeFields /\ z.t.readAgain \in BOOLEAN
    BY <2>6 DEF Fits, TeeTypes
  <2>10. /\ DOMAIN g = {"r", "b", "t"} /\ g.r = z.r /\ g.b = z.b /\ DOMAIN g.t = TeeFields
         /\ g.t.job = z.t.job /\ g.t.reading = z.t.reading /\ g.t.readAgain = z.t.readAgain
         /\ g.t.cancelled = z.t.cancelled /\ g.t.cancelP = p
         /\ g.t.told = z.t.told /\ g.t.log = z.t.log /\ g.t.panic = z.t.panic
    BY <2>9 DEF TeeFields
  <2> HIDE DEF g
  <2>11. Fits(g) /\ Attended(g)
    BY <2>6, <2>9, <2>10, SameParts
  <2>12. Cancels(g)
    BY <1>13, <2>2, <2>5, <2>6, <2>8, <2>10 DEF Cancels
  <2> QED
    BY <2>1, <2>11, <2>12 DEF Whole
<1> QED
  BY <1>12, <1>13

(* The source's error goes to both branches.                               *)
LEMMA ErrorFits ==
  ASSUME NEW x, Whole(x)
  PROVE  LET y == State(x.r, [i \in Branches |-> RControllerError(x.b[i], x.b[i].reader)],
                        ResolveCancel([x.t EXCEPT !.told = TRUE]))
         IN  Whole(y) /\ Attended(y)
<1> DEFINE t1 == [x.t EXCEPT !.told = TRUE]
           y == State(x.r, [i \in Branches |-> RControllerError(x.b[i], x.b[i].reader)],
                      ResolveCancel(t1))
<1>1. /\ TeeTypes(x) /\ Streams(x) /\ Reading(x) /\ Logs(x) /\ Finishing(x) /\ Cancels(x)
      /\ DOMAIN x.t = TeeFields
  BY DEF Whole, Fits, TeeTypes
<1>2. /\ DOMAIN t1 = TeeFields /\ t1.reading = x.t.reading /\ t1.readAgain = x.t.readAgain
      /\ t1.job = x.t.job /\ t1.cancelled = x.t.cancelled /\ t1.cancelP = x.t.cancelP
      /\ t1.told = TRUE /\ t1.log = x.t.log /\ t1.panic = x.t.panic
  BY <1>1 DEF TeeFields
<1> HIDE DEF t1
<1>3. /\ DOMAIN y = {"r", "b", "t"} /\ y.r = x.r /\ y.t = ResolveCancel(t1)
      /\ y.b = [i \in Branches |-> RControllerError(x.b[i], x.b[i].reader)]
  BY DEF State
<1> HIDE DEF y
<1>4. /\ DOMAIN y.t = TeeFields /\ y.t.reading = x.t.reading /\ y.t.readAgain = x.t.readAgain
      /\ y.t.job = x.t.job /\ y.t.cancelled = x.t.cancelled
      /\ (x.t.cancelP # "pending" => y.t.cancelP = x.t.cancelP)
      /\ y.t.told = TRUE /\ y.t.log = x.t.log /\ y.t.panic = x.t.panic
  BY <1>2, <1>3 DEF ResolveCancel, TeeFields
<1>5. ASSUME NEW i \in Branches
      PROVE  Sound(y.b[i]) /\ y.b[i].st # "readable" /\ y.b[i].chunks = x.b[i].chunks
  <2>1. Sound(x.b[i]) /\ x.b[i].reader = TeeReader
    BY <1>1 DEF Streams, Sound
  <2>2. y.b[i] = RControllerError(x.b[i], TeeReader)
    BY <1>3, <2>1
  <2> QED
    BY <2>1, <2>2, ErrorSound DEF SameData
<1>6. TeeTypes(y)
  BY <1>1, <1>3, <1>4 DEF TeeTypes
<1>7. Streams(y)
  BY <1>1, <1>3, <1>5 DEF Streams
<1>8. Reading(y) /\ Cancels(y)
  BY <1>1, <1>3, <1>4 DEF Reading, Cancels
<1>9. Logs(y)
  BY <1>1, <1>4, <1>5 DEF Logs, Branches
<1>10. Finishing(y)
  <2>1. y.t.cancelled \subseteq Branches
    BY <1>1, <1>4 DEF TeeTypes
  <2> QED
    BY <1>5, <2>1 DEF Finishing
<1>11. Attended(y)
  BY <1>5 DEF Attended, Demand, CanCloseOrEnqueue
<1> QED
  BY <1>6, <1>7, <1>8, <1>9, <1>10, <1>11 DEF Whole, Fits, y, t1

------------------------------------------------------------------------------
(* The invariant.                                                          *)

(* The state of the three variables, as one record.                        *)
LEMMA NowParts ==
  /\ Now.r = source /\ Now.b = b /\ Now.t = tee
  /\ Now' = [r |-> source', b |-> b', t |-> tee']
BY DEF Now, State

(* A step to a state that fits.                                            *)
LEMMA Becomes ==
  ASSUME NEW x, Become(x), Whole(x), Attended(x)
  PROVE  TeeInv'
<1> DEFINE y == [r |-> source', b |-> b', t |-> tee']
<1>1. DOMAIN y = {"r", "b", "t"} /\ y.r = x.r /\ y.b = x.b /\ y.t = x.t
  BY DEF Become
<1>2. Now' = y
  BY NowParts
<1> HIDE DEF y
<1>3. Fits(x) /\ Cancels(x) /\ DOMAIN x.t = TeeFields /\ x.t.readAgain \in BOOLEAN
  BY DEF Whole, Fits, TeeTypes
<1>4. Fits(y) /\ Attended(y)
  BY <1>1, <1>3, SameParts
<1>5. Cancels(y)
  BY <1>1, <1>3 DEF Cancels
<1>6. Whole(Now') /\ Attended(Now')
  BY <1>2, <1>4, <1>5 DEF Whole
<1> QED
  BY <1>6 DEF TeeInv

(* The streams are new, and nothing was read.                              *)
LEMMA InitTee ==
  TeeInit => TeeInv
<1> SUFFICES ASSUME TeeInit PROVE Whole(Now) /\ Attended(Now)
  BY DEF TeeInv
<1> DEFINE x == Now
<1>1. DOMAIN x = {"r", "b", "t"} /\ x.r = source /\ x.b = b /\ x.t = tee
  BY DEF Now, State
<1> HIDE DEF x
<1>2. /\ Sound(source) /\ source.st = "readable" /\ source.queue = <<>> /\ source.chunks = 0
      /\ source.reqs[TeeReader] = <<>> /\ source.cancelP = "none"
  BY TeeAssumption, NewSound DEF TeeInit
<1>3. DOMAIN b = Branches
  BY DEF TeeInit
<1>4. ASSUME NEW i \in Branches
      PROVE  /\ Sound(b[i]) /\ b[i].st = "readable" /\ ~b[i].closeRequested /\ b[i].chunks = 0
             /\ b[i].reqs[TeeReader] = <<>>
  <2>1. b[i] = AcquireReader(NewReadable(1))
    BY DEF TeeInit
  <2> QED
    BY <2>1, NewSound
<1>5. /\ DOMAIN tee = TeeFields /\ tee.reading = FALSE /\ tee.readAgain = FALSE
      /\ tee.job = NoJob /\ tee.cancelled = {} /\ tee.told = FALSE /\ tee.panic = FALSE
      /\ tee.log = [i \in Branches |-> <<>>]
  BY DEF TeeInit, TeeFields
<1>6. TeeTypes(x)
  <2>1. NoJob \in Nat
    BY DEF NoJob
  <2>2. tee.log \in [Branches -> Seq(Nat)]
    BY <1>5, EmptySeq
  <2> QED
    BY <1>1, <1>3, <1>5, <2>1, <2>2 DEF TeeTypes
<1>7. Src(source) /\ Taken(source) = 0
  <2>1. Taken(source) = 0
    <3>1. Len(source.queue) = 0
      BY <1>2, EmptySeq
    <3>2. source.chunks = 0
      BY <1>2
    <3> QED
      BY <3>1, <3>2 DEF Taken
  <2>2. \A k \in DOMAIN source.queue : source.queue[k] = Taken(source) + k
    BY <1>2, EmptySeq
  <2> QED
    BY <1>2, <2>1, <2>2, Zenon DEF Src
<1>8. Streams(x)
  BY <1>1, <1>4, <1>7 DEF Streams
<1>9. Reading(x)
  BY <1>1, <1>2, <1>5 DEF Reading, NoJob
<1>10. Logs(x)
  <2>1. Busy1(x.t) = 0
    BY <1>1, <1>5 DEF Busy1
  <2>2. \A i \in Branches : Len(x.t.log[i]) = 0 /\ DOMAIN x.t.log[i] = {}
    BY <1>1, <1>5, EmptySeq
  <2> QED
    BY <1>1, <1>4, <1>5, <1>7, <2>1, <2>2 DEF Logs, Branches
<1>11. Finishing(x)
  <2>1. \A i \in Branches : b[i].closeRequested = FALSE
    BY <1>4 DEF Sound, RTypes
  <2> QED
    BY <1>1, <1>5, <2>1 DEF Finishing
<1>12. Cancels(x)
  BY <1>1, <1>2, <1>5 DEF Cancels, Branches
<1>13. Attended(x)
  BY <1>1, <1>4 DEF Attended, Demand
<1> QED
  BY <1>6, <1>8, <1>9, <1>10, <1>11, <1>12, <1>13 DEF Whole, Fits, x

(* The deferred job.                                                       *)
LEMMA GiveChunkKeeps ==
  TeeInv /\ GiveChunk => TeeInv'
<1> SUFFICES ASSUME TeeInv, GiveChunk PROVE TeeInv'
  OBVIOUS
<1> DEFINE x == EnqueueTo(EnqueueTo([Now EXCEPT !.t.readAgain = FALSE], 1), 2)
           y == [x EXCEPT !.t.reading = FALSE, !.t.job = NoJob]
           z == IF y.t.readAgain THEN TeePull(y) ELSE y
<1>1. Become(z) /\ tee.job # NoJob
  BY DEF GiveChunk
<1>2. Now.t.job # NoJob
  BY <1>1, NowParts
<1>3. Giving(x, Branches)
  BY <1>2, GivesBoth DEF TeeInv
<1> HIDE DEF x
<1>4. Whole(z) /\ Attended(z)
  BY <1>3, JobEnds
<1> QED
  BY <1>1, <1>4, Becomes

(* A step of branch i from c0 to c with the pull it makes.                 *)
LEMMA BranchKeeps ==
  ASSUME TeeInv, NEW i \in Branches, NEW c0, NEW c, Become(BranchStep(Now, i, c0, c)),
         MovesOn(b[i], c), Demand(c) => Asks(c0, c) \/ Met(c) \/ (Demand(b[i]) /\ ~Met(b[i])),
         Asks(c0, c) => CanCloseOrEnqueue(c)
  PROVE  TeeInv'
<1>1. Now.b[i] = b[i]
  BY NowParts
<1> DEFINE y == BranchStep(Now, i, c0, c)
<1>2. /\ MovesOn(Now.b[i], c)
      /\ Demand(c) => Asks(c0, c) \/ Met(c) \/ (Demand(Now.b[i]) /\ ~Met(Now.b[i]))
  BY <1>1
<1>3. Whole(y) /\ Attended(y)
  BY <1>2, BranchStepFits DEF TeeInv
<1> HIDE DEF y
<1>4. Become(y)
  BY DEF y
<1> QED
  BY <1>3, <1>4, Becomes

(* The branches' readers and the reactions of the branches.                *)
LEMMA BranchActionsKeep ==
  ASSUME TeeInv, NEW i \in Branches,
         BranchRead(i) \/ BranchStarted(i) \/ BranchPulled(i)
  PROVE  TeeInv'
<1>1. Sound(b[i])
  BY NowParts DEF TeeInv, Whole, Fits, Streams
<1>2. CASE BranchRead(i)
  <2> DEFINE c == DefaultReaderRead(b[i], TeeReader)
  <2>1. b[i].reads < MaxReads /\ Become(BranchStep(Now, i, b[i], c))
    BY <1>2 DEF BranchRead
  <2>2. /\ Sound(c) /\ Pulls(b[i], c) /\ c.chunks = b[i].chunks
        /\ c.closeRequested = b[i].closeRequested /\ (c.st = "readable" => b[i].st = "readable")
    BY <1>1, <2>1, ReadSound
  <2> HIDE DEF c
  <2>3. MovesOn(b[i], c)
    BY <2>2 DEF MovesOn
  <2> QED
    BY <2>1, <2>2, <2>3, BranchKeeps DEF Pulls
<1>3. CASE BranchStarted(i)
  <2> DEFINE c == RStartSettled(b[i], TRUE)
  <2>1. Become(BranchStep(Now, i, b[i], c))
    BY <1>3 DEF BranchStarted
  <2>2. Sound(c) /\ Pulls(b[i], c) /\ Unread(b[i], c)
    BY <1>1, StartSound
  <2> HIDE DEF c
  <2>3. MovesOn(b[i], c)
    BY <2>2 DEF MovesOn, Unread, SameData
  <2> QED
    BY <2>1, <2>2, <2>3, BranchKeeps DEF Pulls
<1>4. CASE BranchPulled(i)
  <2> DEFINE c == PullSettled(b[i], TRUE)
             c0 == [b[i] EXCEPT !.pend = @ \ {"pull"}]
  <2>1. Become(BranchStep(Now, i, c0, c))
    BY <1>4 DEF BranchPulled
  <2>2. /\ Sound(c) /\ Unread(b[i], c)
        /\ Demand(c) => Asks(c0, c) \/ Met(c) \/ (Demand(b[i]) /\ ~Met(b[i]))
        /\ Asks(c0, c) => CanCloseOrEnqueue(c)
    BY <1>1, PulledSound
  <2> HIDE DEF c, c0
  <2>3. MovesOn(b[i], c)
    BY <2>2 DEF MovesOn, Unread, SameData
  <2> QED
    BY <2>1, <2>2, <2>3, BranchKeeps
<1> QED
  BY <1>2, <1>3, <1>4

(* A branch is cancelled, and the cancel of a branch is answered.          *)
LEMMA BranchCancelKeeps ==
  ASSUME TeeInv, NEW i \in Branches, BranchCancel(i) \/ BranchCancelled(i)
  PROVE  TeeInv'
<1>1. Sound(b[i]) /\ Whole(Now) /\ Attended(Now)
  BY NowParts DEF TeeInv, Whole, Fits, Streams
<1>2. CASE BranchCancel(i)
  <2> DEFINE c == ReadableCancel(b[i], TeeReader)
             x == [Now EXCEPT !.b[i] = c]
  <2>1. b[i].st = "readable" /\ Become(TeeCancel(x, i))
    BY <1>2 DEF BranchCancel
  <2>2. Sound(c) /\ c.st = "closed" /\ SameData(b[i], c)
    BY <1>1, <2>1, CancelSound
  <2> HIDE DEF c
  <2>3. MovesOn(Now.b[i], c)
    BY <2>2, NowParts DEF MovesOn, SameData
  <2>4. /\ Whole(x) /\ x.r = Now.r /\ x.t = Now.t /\ x.b[i] = c
        /\ \A j \in Branches : j # i => x.b[j] = Now.b[j]
    BY <1>1, <2>3, BranchMoves
  <2> HIDE DEF x
  <2>5. Attended(x)
    <3>1. ~Demand(c)
      BY <2>2 DEF Demand, CanCloseOrEnqueue
    <3> QED
      BY <1>1, <2>4, <3>1 DEF Attended
  <2>6. i \notin x.t.cancelled
    BY <1>1, <2>1, <2>4, NowParts DEF Whole, Fits, Finishing
  <2>7. Whole(TeeCancel(x, i)) /\ Attended(TeeCancel(x, i))
    BY <2>2, <2>4, <2>5, <2>6, TeeCancelFits
  <2> QED
    BY <2>1, <2>7, Becomes
<1>3. CASE BranchCancelled(i)
  <2> DEFINE c == CancelSettled(b[i], CancelOutcome = "ok")
             x == [Now EXCEPT !.b[i] = c]
  <2>1. Become(x)
    BY <1>3 DEF BranchCancelled
  <2>2. /\ Sound(c) /\ Unread(b[i], c) /\ (Demand(c) => Demand(b[i])) /\ (Met(c) <=> Met(b[i]))
    BY <1>1, CancelledSound
  <2> HIDE DEF c
  <2>3. MovesOn(Now.b[i], c)
    BY <2>2, NowParts DEF MovesOn, Unread, SameData
  <2>4. /\ Whole(x) /\ x.r = Now.r /\ x.t = Now.t /\ x.b[i] = c
        /\ \A j \in Branches : j # i => x.b[j] = Now.b[j]
    BY <1>1, <2>3, BranchMoves
  <2> HIDE DEF x
  <2>5. Attended(x)
    BY <1>1, <2>2, <2>4, NowParts DEF Attended
  <2> QED
    BY <2>1, <2>4, <2>5, Becomes
<1> QED
  BY <1>2, <1>3

(* The source enqueues, closes or errs.                                    *)
LEMMA SourceAnswersKeep ==
  TeeInv /\ SourceAnswers => TeeInv'
<1> SUFFICES ASSUME TeeInv, SourceAnswers PROVE TeeInv'
  OBVIOUS
<1>1. Src(source) /\ Whole(Now) /\ Attended(Now) /\ Now.r = source
  BY NowParts DEF TeeInv, Whole, Fits, Streams
<1>2. ASSUME NEW s2, SourceStep(source, s2), TakenFor(source, s2), s2.cancelP = source.cancelP,
             Become(Answer([Now EXCEPT !.r = s2]))
      PROVE  TeeInv'
  <2> DEFINE y == Answer([Now EXCEPT !.r = s2])
  <2>1. /\ SourceStep(Now.r, s2) /\ TakenFor(Now.r, s2)
        /\ s2.cancelP # "none" => Now.r.cancelP # "none"
    BY <1>1, <1>2
  <2>2. Whole(y) /\ Attended(y)
    BY <1>1, <2>1, SourceMoves
  <2>3. Become(y)
    BY <1>2
  <2> HIDE DEF y
  <2> QED
    BY <2>2, <2>3, Becomes
<1>3. CASE SourceEnqueues
  <2> DEFINE s2 == IF source.reqs[TeeReader] # <<>> THEN EnqueueToReader(source, TeeReader)
                   ELSE EnqueueAfterSize(source, TeeReader, 1)
  <2>1. /\ CanCloseOrEnqueue(source) /\ source.chunks < MaxChunks
        /\ Become(Answer([Now EXCEPT !.r = s2]))
    BY <1>3 DEF SourceEnqueues
  <2>2. SourceStep(source, s2) /\ TakenFor(source, s2) /\ s2.cancelP = source.cancelP
    BY <1>1, <2>1, EnqueueStep
  <2> HIDE DEF s2
  <2> QED
    BY <1>2, <2>1, <2>2
<1>4. CASE SourceCloses
  <2> DEFINE s2 == RControllerClose(source, TeeReader)
  <2>1. CanCloseOrEnqueue(source) /\ Become(Answer([Now EXCEPT !.r = s2]))
    BY <1>4 DEF SourceCloses
  <2>2. SourceStep(source, s2) /\ TakenFor(source, s2) /\ s2.cancelP = source.cancelP
    BY <1>1, <2>1, CloseStep
  <2> HIDE DEF s2
  <2> QED
    BY <1>2, <2>1, <2>2
<1>5. CASE SourceErrs
  <2> DEFINE s2 == RControllerError(source, TeeReader)
  <2>1. source.st = "readable" /\ Become(Answer([Now EXCEPT !.r = s2]))
    BY <1>5 DEF SourceErrs
  <2>2. SourceStep(source, s2) /\ TakenFor(source, s2) /\ s2.cancelP = source.cancelP
    BY <1>1, <2>1, ErrorStep
  <2> HIDE DEF s2
  <2> QED
    BY <1>2, <2>1, <2>2
<1> QED
  BY <1>3, <1>4, <1>5 DEF SourceAnswers

(* The reactions of the source, and its error told to the branches.        *)
LEMMA SourceReactionsKeep ==
  TeeInv /\ (SourceStarted \/ SourcePulled \/ SourceCancelSettled \/ SourceErrored) => TeeInv'
<1> SUFFICES ASSUME TeeInv, SourceStarted \/ SourcePulled \/ SourceCancelSettled \/ SourceErrored
             PROVE  TeeInv'
  OBVIOUS
<1>1. /\ Sound(source) /\ Whole(Now) /\ Attended(Now)
      /\ Now.r = source /\ Now.b = b /\ Now.t = tee
  BY NowParts DEF TeeInv, Whole, Fits, Streams, Src
<1>2. ASSUME NEW s2, Sound(s2), Unread(source, s2),
             s2.cancelP # "none" => source.cancelP # "none", Become([Now EXCEPT !.r = s2])
      PROVE  TeeInv'
  <2> DEFINE y == [Now EXCEPT !.r = s2]
  <2>1. Unread(Now.r, s2) /\ (s2.cancelP # "none" => Now.r.cancelP # "none")
    BY <1>1, <1>2
  <2>2. Whole(y) /\ Attended(y)
    BY <1>1, <1>2, <2>1, SourceQuiet
  <2>3. Become(y)
    BY <1>2
  <2> HIDE DEF y
  <2> QED
    BY <2>2, <2>3, Becomes
<1>3. CASE SourceStarted
  <2> DEFINE s2 == RStartSettled(source, TRUE)
  <2>1. Become([Now EXCEPT !.r = s2])
    BY <1>3 DEF SourceStarted
  <2>2. Sound(s2) /\ Unread(source, s2) /\ s2.cancelP = source.cancelP
    BY <1>1, StartSound
  <2> HIDE DEF s2
  <2> QED
    BY <1>2, <2>1, <2>2
<1>4. CASE SourcePulled
  <2> DEFINE s2 == PullSettled(source, TRUE)
  <2>1. Become([Now EXCEPT !.r = s2])
    BY <1>4 DEF SourcePulled
  <2>2. Sound(s2) /\ Unread(source, s2) /\ s2.cancelP = source.cancelP
    BY <1>1, PulledSound
  <2> HIDE DEF s2
  <2> QED
    BY <1>2, <2>1, <2>2
<1>5. CASE SourceCancelSettled
  <2>1. PICK ok \in BOOLEAN : Become([Now EXCEPT !.r = CancelSettled(source, ok)])
    BY <1>5 DEF SourceCancelSettled
  <2> DEFINE s2 == CancelSettled(source, ok)
  <2>2. Sound(s2) /\ Unread(source, s2) /\ (s2.cancelP = "none" <=> source.cancelP = "none")
    BY <1>1, CancelledSound
  <2>3. Become([Now EXCEPT !.r = s2])
    BY <2>1
  <2> HIDE DEF s2
  <2> QED
    BY <1>2, <2>2, <2>3
<1>6. CASE SourceErrored
  <2> DEFINE y == State(Now.r, [i \in Branches |-> RControllerError(Now.b[i], Now.b[i].reader)],
                        ResolveCancel([Now.t EXCEPT !.told = TRUE]))
  <2>1. Whole(y) /\ Attended(y)
    BY <1>1, ErrorFits
  <2>2. Become(y)
    BY <1>1, <1>6 DEF SourceErrored
  <2> HIDE DEF y
  <2> QED
    BY <2>1, <2>2, Becomes
<1> QED
  BY <1>3, <1>4, <1>5, <1>6

(* Every step keeps the invariant.                                         *)
LEMMA NextTee ==
  TeeInv /\ [TeeNext]_teeVars => TeeInv'
<1> SUFFICES ASSUME TeeInv, [TeeNext]_teeVars PROVE TeeInv'
  OBVIOUS
<1>1. CASE GiveChunk
  BY <1>1, GiveChunkKeeps
<1>2. CASE SourceErrored \/ SourceStarted \/ SourcePulled \/ SourceCancelSettled
  BY <1>2, SourceReactionsKeep
<1>3. CASE \E i \in Branches : BranchRead(i) \/ BranchCancel(i) \/ BranchStarted(i)
                                 \/ BranchPulled(i) \/ BranchCancelled(i)
  <2>1. PICK i \in Branches : BranchRead(i) \/ BranchCancel(i) \/ BranchStarted(i)
                                \/ BranchPulled(i) \/ BranchCancelled(i)
    BY <1>3
  <2> QED
    BY <2>1, BranchActionsKeep, BranchCancelKeeps
<1>4. CASE SourceAnswers
  BY <1>4, SourceAnswersKeep
<1>5. CASE UNCHANGED teeVars
  <2>1. Now' = Now
    BY <1>5 DEF teeVars, Now
  <2> QED
    BY <2>1 DEF TeeInv
<1> QED
  BY <1>1, <1>2, <1>3, <1>4, <1>5 DEF TeeNext

(* The tee keeps its inductive invariant.                                  *)
THEOREM TeeInvariant ==
  TeeSpec => []TeeInv
<1> QED
  BY InitTee, NextTee, PTL DEF TeeSpec

(* Both branches get every chunk once and in order, and no expect() is     *)
(* reached: neither a slower reader nor the other branch's cancel() makes  *)
(* one miss or repeat a chunk, and between jobs two open branches have had *)
(* the same chunks (chunk_steps and its deferred job).                     *)
THEOREM BranchesGetEveryChunkHolds ==
  TeeSpec => []BranchesGetEveryChunk
<1>1. TeeInv => BranchesGetEveryChunk
  <2> SUFFICES ASSUME TeeInv PROVE BranchesGetEveryChunk
    OBVIOUS
  <2>1. /\ TeeTypes(Now) /\ Streams(Now) /\ Logs(Now)
        /\ Now.r = source /\ Now.b = b /\ Now.t = tee
    BY NowParts DEF TeeInv, Whole, Fits
  <2>2. ~source.panic /\ ~tee.panic /\ \A i \in Branches : ~b[i].panic
    BY <2>1 DEF TeeTypes, Streams, Src, Sound
  <2>3. \A i \in Branches : \A k \in DOMAIN tee.log[i] : tee.log[i][k] = k
    BY <2>1 DEF Logs
  <2>4. ASSUME \A i \in Branches : b[i].st = "readable"
        PROVE  tee.log[1] = tee.log[2]
    <3>1. 1 \in Branches /\ 2 \in Branches
      BY DEF Branches
    <3>2. tee.log[1] \in Seq(Nat) /\ tee.log[2] \in Seq(Nat)
      BY <2>1, <3>1 DEF TeeTypes
    <3>3. Len(tee.log[1]) = Len(tee.log[2])
      BY <2>1, <2>4 DEF Logs
    <3>4. /\ DOMAIN tee.log[1] = 1..Len(tee.log[1]) /\ DOMAIN tee.log[2] = 1..Len(tee.log[2])
      BY <3>2, LenProperties
    <3>5. \A k \in 1..Len(tee.log[1]) : tee.log[1][k] = tee.log[2][k]
      BY <2>3, <3>1, <3>3, <3>4
    <3> QED
      BY <3>2, <3>3, <3>5, SeqEqual
  <2> QED
    BY <2>2, <2>3, <2>4 DEF BranchesGetEveryChunk
<1> QED
  BY <1>1, TeeInvariant, PTL

(* No demand of a branch is forgotten: while a reader waits at an open     *)
(* branch, the source is being read, or the branch will pull again, or the *)
(* source's error is on its way (read_again in tee_pull_algorithm).        *)
THEOREM DemandNotLostHolds ==
  TeeSpec => []DemandNotLost
<1>1. TeeInv => DemandNotLost
  BY NowParts DEF TeeInv, Attended, DemandNotLost, Demand, Met
<1> QED
  BY <1>1, TeeInvariant, PTL

(* The cancel of both branches cancels the source and answers both, and    *)
(* the source is cancelled by nothing else (tee_cancel_algorithm).         *)
THEOREM CancelReachesSourceHolds ==
  TeeSpec => []CancelReachesSource
<1>1. TeeInv => CancelReachesSource
  BY NowParts DEF TeeInv, Whole, Cancels, CancelReachesSource
<1> QED
  BY <1>1, TeeInvariant, PTL

==============================================================================
