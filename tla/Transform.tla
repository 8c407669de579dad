------------------------------- MODULE Transform -------------------------------
(***************************************************************************)
(* A TransformStream: the writable side whose sink is the transformer, the *)
(* readable side whose source it feeds, and the backpressure flag and      *)
(* promise between them (transform/stream.rs, transform/controller.rs).    *)
(* The two sides are the streams of WritableOps and ReadableOps, locked by *)
(* one writer and one reader; every chunk has size one.                    *)
(*                                                                         *)
(* The transformer's functions are user code.  They may use the controller *)
(* at any time; their promises settle when they like.                      *)
(***************************************************************************)
EXTENDS WritableOps, ReadableOps

CONSTANTS
  WritableHwm,  \* highWaterMark of the writable side
  ReadableHwm   \* highWaterMark of the readable side

ASSUME TransformAssumption ==
  /\ WritableHwm \in Nat /\ ReadableHwm \in Nat
  /\ MaxWriters >= 1 /\ MaxReaders >= 1

VARIABLES
  w,  \* the writable side
  r,  \* the readable side
  t   \* the TransformStream and its controller

vars == <<w, r, t>>

Reader == 1
Writer == 1

(* `promise' is backpressure_change_promise, "none" for None; `wait' and   *)
(* `pull' are the promises a write and a pull() hold: while pending, each  *)
(* is the current one.                                                     *)
Init ==
  /\ w = AcquireWriter(NewWritable(WritableHwm), FALSE)
  /\ r = AcquireReader(NewReadable(ReadableHwm))
  /\ t = [bp |-> TRUE, promise |-> "pending", algs |-> TRUE, sink |-> "idle",
          wait |-> "none", pull |-> "none", panic |-> FALSE]

(* A panic ends the process.                                               *)
Alive == ~t.panic

------------------------------------------------------------------------------
(* The flag and the promise.                                               *)

ResolveChange(t1) ==
  [t1 EXCEPT !.promise = Settle(@, "ok"), !.wait = Settle(@, "ok"),
             !.pull = Settle(@, "ok")]

(* transform_stream_set_backpressure: the promise is resolved, not renewed.*)
SetBackpressure(t1, b) == [ResolveChange(t1) EXCEPT !.bp = b]

(* Mutant: a pull renews the promise without resolving the old one.        *)
SourcePullUnresolved(t1) ==
  [t1 EXCEPT !.promise = "pending", !.pull = "pending", !.bp = FALSE]

SourcePull(t1) ==
  [ResolveChange(t1) EXCEPT !.promise = "pending", !.pull = "pending", !.bp = FALSE]

(* transform_stream_error_writable_and_unblock_write: the writable side    *)
(* itself is left as it is.                                                *)
UnblockWrite(t1) ==
  [ResolveChange(t1) EXCEPT !.promise = "none", !.algs = FALSE, !.bp = FALSE]

PerformTransform(t1) ==
  IF t1.algs THEN [t1 EXCEPT !.sink = "transforming", !.wait = "none"]
             ELSE [t1 EXCEPT !.panic = TRUE]

(* Mutant: under backpressure with no promise the chunk is skipped.        *)
SinkWriteSkips(t1) ==
  IF t1.bp
  THEN IF t1.promise = "none" THEN t1
       ELSE [t1 EXCEPT !.sink = "waiting", !.wait = t1.promise]
  ELSE PerformTransform(t1)

SinkWrite(t1) ==
  IF t1.bp /\ t1.promise # "none"
  THEN [t1 EXCEPT !.sink = "waiting", !.wait = t1.promise]
  ELSE PerformTransform(t1)

(* A step of the writable side that hands the sink another chunk, and one  *)
(* of the readable side that asks the source for more, run the algorithm   *)
(* of this module inside.                                                  *)
AfterWritable(w1, w0, t1) ==
  IF w1.inWrite \notin {NoChunk, w0.inWrite} THEN SinkWrite(t1) ELSE t1
AfterReadable(r1, r0, t1) ==
  IF "pull" \in r1.pend \ r0.pend THEN SourcePull(t1) ELSE t1

------------------------------------------------------------------------------
(* The writer and the reader.                                              *)

Write ==
  LET w1 == WriteAfterSize(w, Writer, 1)
  IN  /\ Alive /\ w.writes < MaxWrites
      /\ w' = w1 /\ t' = AfterWritable(w1, w, t) /\ UNCHANGED r

Close ==
  /\ Alive /\ ~CloseQueuedOrInFlight(w) /\ w.st \in {"writable", "erroring"}
  /\ w' = WritableClose(w, Writer) /\ UNCHANGED <<r, t>>

Abort ==
  /\ Alive /\ w.st \in {"writable", "erroring"}
  /\ w' = AbortAfterSignal([w EXCEPT !.signalled = TRUE], Writer) /\ UNCHANGED <<r, t>>

Read ==
  LET r1 == DefaultReaderRead(r, Reader)
  IN  /\ Alive /\ r.reads < MaxReads
      /\ r' = r1 /\ t' = AfterReadable(r1, r, t) /\ UNCHANGED w

Cancel ==
  /\ Alive /\ r.st = "readable"
  /\ r' = ReadableCancel(r, Reader) /\ UNCHANGED <<w, t>>

------------------------------------------------------------------------------
(* The transformer uses its controller.                                    *)

(* A stream that can take no chunk ignores it, and the flag is looked at   *)
(* again either way: any difference sets it.                               *)
Enqueue ==
  LET r1 == IF ~CanCloseOrEnqueue(r) THEN r
            ELSE IF r.reqs[Reader] # <<>> THEN EnqueueToReader(r, Reader)
            ELSE EnqueueAfterSize(r, Reader, 1)
      t1 == AfterReadable(r1, r, t)
      full == r1.st # "readable" \/ r1.hwm - r1.total <= 0
  IN  /\ Alive /\ r.chunks < MaxChunks
      /\ r' = r1
      /\ t' = IF full # t1.bp THEN SetBackpressure(t1, TRUE) ELSE t1
      /\ UNCHANGED w

ControllerError ==
  /\ Alive /\ r' = RControllerError(r, Reader) /\ t' = UnblockWrite(t) /\ UNCHANGED w

Terminate ==
  /\ Alive /\ r' = RControllerClose(r, Reader) /\ t' = UnblockWrite(t) /\ UNCHANGED w

------------------------------------------------------------------------------
(* Reactions.                                                              *)

(* The transformer's start() answers for the writable side only; the       *)
(* readable side is started with nothing to do.                            *)
WritableStarted ==
  /\ Alive /\ "start" \in w.pend
  /\ \E ok \in BOOLEAN :
       LET w1 == StartSettled(w, ok) IN w' = w1 /\ t' = AfterWritable(w1, w, t)
  /\ UNCHANGED r

ReadableStarted ==
  LET r1 == RStartSettled(r, TRUE)
  IN  /\ Alive /\ "start" \in r.pend
      /\ r' = r1 /\ t' = AfterReadable(r1, r, t) /\ UNCHANGED w

BackpressureChanged ==
  /\ Alive /\ t.sink = "waiting" /\ t.wait = "ok"
  /\ t' = PerformTransform(t) /\ UNCHANGED <<w, r>>

(* The promise of transform() settles, and with it the sink's write; a     *)
(* rejection is the writable side's only.                                  *)
Transformed ==
  /\ Alive /\ t.sink = "transforming"
  /\ \E ok \in BOOLEAN :
       LET w1 == WriteSettled(w, ok)
       IN  w' = w1 /\ t' = AfterWritable(w1, w, [t EXCEPT !.sink = "idle"])
  /\ UNCHANGED r

Pulled ==
  LET r0 == [r EXCEPT !.pend = @ \ {"pull"}]
      r1 == PullSettled(r, TRUE)
  IN  /\ Alive /\ "pull" \in r.pend /\ t.pull = "ok"
      /\ r' = r1 /\ t' = AfterReadable(r1, r0, [t EXCEPT !.pull = "none"])
      /\ UNCHANGED w

(* flush() has answered.                                                   *)
Flushed ==
  /\ Alive /\ "close" \in w.pend
  /\ \E ok \in BOOLEAN :
       /\ w' = CloseSettled(w, ok)
       /\ r' = IF ok THEN RControllerClose(r, Reader) ELSE RControllerError(r, Reader)
       /\ t' = IF ok THEN [ResolveChange(t) EXCEPT !.promise = "none", !.algs = FALSE]
                     ELSE UnblockWrite(t)

(* The transformer's cancel() has answered, for abort() on the writable    *)
(* side and for cancel() on the readable side; neither side is told of the *)
(* other's end.                                                            *)
SinkAborted ==
  /\ Alive /\ "abort" \in w.pend
  /\ \E ok \in BOOLEAN : w' = AbortSettled(w, ok)
  /\ t' = [t EXCEPT !.algs = FALSE] /\ UNCHANGED r

SourceCancelled ==
  /\ Alive /\ "cancel" \in r.pend
  /\ \E ok \in BOOLEAN : r' = CancelSettled(r, ok)
  /\ t' = UnblockWrite(t) /\ UNCHANGED w

Next ==
  \/ Write \/ Close \/ Abort \/ Read \/ Cancel
  \/ Enqueue \/ ControllerError \/ Terminate
  \/ WritableStarted \/ ReadableStarted \/ BackpressureChanged \/ Transformed
  \/ Pulled \/ Flushed \/ SinkAborted \/ SourceCancelled

Spec == Init /\ [][Next]_vars

(* The transformer's promises settle and reactions get their turns.        *)
FairSpec ==
  /\ Spec
  /\ WF_vars(WritableStarted) /\ WF_vars(ReadableStarted)
  /\ WF_vars(BackpressureChanged) /\ WF_vars(Transformed)
  /\ WF_vars(Pulled) /\ WF_vars(Flushed)
  /\ WF_vars(SinkAborted) /\ WF_vars(SourceCancelled)

------------------------------------------------------------------------------
(* Properties.                                                             *)

(* The sink works on the chunk the writable side has in flight and on no   *)
(* other, through backpressure, errors and cancellation; and neither side  *)
(* reaches an expect() of its own.                                         *)
SinkFollowsStream ==
  /\ ~w.panic /\ ~r.panic
  /\ ~t.panic => ((t.sink # "idle") <=> (w.inWrite # NoChunk))

(* A reader that reads releases the write that waits: the pull its read    *)
(* causes lowers the flag.  A write and a read do not both wait for ever.  *)
ReadReleasesWrite ==
  (t.sink = "waiting" /\ r.reqs[Reader] # <<>>)
    ~> (t.sink # "waiting" \/ r.reqs[Reader] = <<>> \/ t.panic)

(* The assertion in perform_transform, expect("transform algorithm must    *)
(* exist").                                                                *)
TransformAlgorithmExists == ~t.panic
==============================================================================
