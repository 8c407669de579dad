----------------------------- MODULE WritableOps -----------------------------
(***************************************************************************)
(* The algorithms of a writable web stream, its default controller and its *)
(* default writer (modules/raster_runtime_stream_web/src/writable), as     *)
(* operators from a stream to a stream.  A stream is one record: the       *)
(* fields of WritableStream and WritableStreamDefaultController, the       *)
(* status of every promise the caller holds, and `pend', the sink's        *)
(* promises that have a reaction registered and have not settled yet.      *)
(*                                                                         *)
(* A chunk is the number of the write() that brought it; CloseSentinel     *)
(* stands for the symbol the controller queues for close().  The operators *)
(* take the writer `w' the Rust code carries along in                      *)
(* WritableStreamObjects: NoWriter for UndefinedWriter and None.  Handlers *)
(* reached from a promise reaction refresh it (refresh_writer), the others *)
(* keep the one their caller had.                                          *)
(***************************************************************************)
EXTENDS StreamBasics

CONSTANTS
  MaxWrites,   \* bound on the writes a stream accepts
  MaxWriters   \* bound on the writers acquired over a stream's life

ASSUME WritableBounds == MaxWrites \in Nat /\ MaxWriters \in Nat

NoWriter == 0
CloseSentinel == 0

NewWritable(hwm) ==
  [st |-> "writable", bp |-> hwm <= 0, closeReq |-> FALSE, inClose |-> FALSE,
   inWrite |-> NoChunk, abortReq |-> "none", writer |-> NoWriter,
   writeReqs |-> <<>>, queue |-> <<>>, total |-> 0,
   size |-> [i \in 1..MaxWrites |-> 0], hwm |-> hwm,
   started |-> FALSE, algs |-> TRUE, signalled |-> FALSE,
   closeW |-> NoWriter, pend |-> {"start"}, panic |-> FALSE, writes |-> 0,
   wp |-> [i \in 1..MaxWrites |-> "none"], closeP |-> "none", abortP |-> "none",
   writers |-> 0,
   wr |-> [w \in 1..MaxWriters |->
             [ready |-> "none", closed |-> "none", late |-> FALSE]]]

HasOperationInFlight(s) == s.inWrite # NoChunk \/ s.inClose
CloseQueuedOrInFlight(s) == s.closeReq \/ s.inClose
Backpressure(s) == s.hwm - s.total <= 0

------------------------------------------------------------------------------
(* Erroring and finishing.                                                 *)

EnsureReadyRejected(s, w) ==
  IF w = NoWriter THEN s ELSE [s EXCEPT !.wr[w].ready = "err"]

RejectCloseAndClosed(s, w) ==
  LET t == IF s.closeReq
           THEN [s EXCEPT !.closeReq = FALSE, !.closeP = Settle(@, "err")]
           ELSE s
  IN  IF w = NoWriter THEN t
      ELSE [t EXCEPT !.wr[w].closed = Settle(@, "err")]

ClearAlgorithms(s) == [s EXCEPT !.algs = FALSE]

(* The sink's abort() runs with the stream already errored, so nothing it  *)
(* calls back into changes the stream.                                     *)
AbortSteps(s) ==
  IF s.algs THEN [ClearAlgorithms(s) EXCEPT !.pend = @ \cup {"abort"}]
            ELSE Panicked(s)

FinishErroring(s, w) ==
  LET t == [s EXCEPT !.st = "errored", !.queue = <<>>, !.total = 0,
                     !.wp = [i \in DOMAIN @ |->
                               IF i \in Elements(s.writeReqs)
                               THEN Settle(@[i], "err") ELSE @[i]],
                     !.writeReqs = <<>>, !.abortReq = "none"]
  IN  CASE s.abortReq = "none"    -> RejectCloseAndClosed(t, w)
        [] s.abortReq = "already" ->
             RejectCloseAndClosed([t EXCEPT !.abortP = Settle(@, "err")], w)
        [] s.abortReq = "fresh"   -> AbortSteps(t)

StartErroring(s, w) ==
  LET t == EnsureReadyRejected([s EXCEPT !.st = "erroring"], w)
  IN  IF ~HasOperationInFlight(t) /\ t.started THEN FinishErroring(t, w) ELSE t

DealWithRejection(s, w) ==
  CASE s.st = "writable" -> StartErroring(s, w)
    [] s.st = "erroring" -> FinishErroring(s, w)
    [] OTHER             -> Panicked(s)

------------------------------------------------------------------------------
(* The controller's queue.                                                 *)

(* Mutant: the request in flight stays in the list.                        *)
MarkFirstWriteRequestKept(s) ==
  IF s.writeReqs = <<>> THEN Panicked(s)
  ELSE [s EXCEPT !.inWrite = Head(s.writeReqs)]

MarkFirstWriteRequestInFlight(s) ==
  IF s.writeReqs = <<>> THEN Panicked(s)
  ELSE [s EXCEPT !.inWrite = Head(s.writeReqs), !.writeReqs = Tail(s.writeReqs)]

MarkCloseRequestInFlight(s) ==
  IF ~s.closeReq THEN Panicked(s)
  ELSE [s EXCEPT !.inClose = TRUE, !.closeReq = FALSE]

SizeOf(s, v) == IF v = CloseSentinel THEN 0 ELSE s.size[v]

DequeueValue(s) ==
  IF s.queue = <<>> THEN Panicked(s)
  ELSE LET rest == s.total - SizeOf(s, Head(s.queue))
       IN  [s EXCEPT !.queue = Tail(@), !.total = IF rest < 0 THEN 0 ELSE rest]

(* The sink's write() and close() run here; what they call back into comes *)
(* after the state below is in place, as any later call does.              *)
ProcessWrite(s) ==
  LET t == MarkFirstWriteRequestInFlight(s)
  IN  IF t.algs THEN [t EXCEPT !.pend = @ \cup {"write"}] ELSE Panicked(t)

ProcessClose(s, w) ==
  LET t == DequeueValue(MarkCloseRequestInFlight(s))
  IN  IF t.algs
      THEN [ClearAlgorithms(t) EXCEPT !.pend = @ \cup {"close"}, !.closeW = w]
      ELSE Panicked(t)

AdvanceQueueIfNeeded(s, w) ==
  CASE ~s.started \/ s.inWrite # NoChunk -> s
    [] s.started /\ s.inWrite = NoChunk /\ s.st = "erroring" -> FinishErroring(s, w)
    [] s.started /\ s.inWrite = NoChunk /\ s.st # "erroring" ->
         IF s.queue = <<>> THEN s
         ELSE IF Head(s.queue) = CloseSentinel THEN ProcessClose(s, w)
         ELSE ProcessWrite(s)

(* Mutant: new backpressure does not renew the writer's ready promise.     *)
UpdateBackpressureNoRenew(s, w) ==
  LET b == Backpressure(s)
      t == [s EXCEPT !.bp = b]
  IN  IF w = NoWriter \/ b \/ ~s.bp THEN t
      ELSE [t EXCEPT !.wr[w].ready = Settle(@, "ok")]

UpdateBackpressure(s, w) ==
  LET b == Backpressure(s)
      t == [s EXCEPT !.bp = b]
  IN  IF w = NoWriter \/ b = s.bp THEN t
      ELSE IF b THEN [t EXCEPT !.wr[w].ready = "pending"]
      ELSE [t EXCEPT !.wr[w].ready = Settle(@, "ok")]

UpdateBackpressureIfOpen(s, w) ==
  IF ~CloseQueuedOrInFlight(s) /\ s.st = "writable"
  THEN UpdateBackpressure(s, w) ELSE s

ControllerClose(s, w) ==
  AdvanceQueueIfNeeded([s EXCEPT !.queue = Append(@, CloseSentinel)], w)

ControllerErrorIfNeeded(s, w) ==
  IF s.st = "writable" THEN StartErroring(ClearAlgorithms(s), w) ELSE s

(* A size that is not a finite number from zero up is refused by the queue *)
(* after the write request was added.                                      *)
ControllerWrite(s, w, size) ==
  IF size = BadSize THEN ControllerErrorIfNeeded(s, w)
  ELSE AdvanceQueueIfNeeded(
         UpdateBackpressureIfOpen(
           [s EXCEPT !.queue = Append(@, s.writes),
                     !.size[s.writes] = size, !.total = @ + size], w), w)

------------------------------------------------------------------------------
(* Reactions to the sink's promises; each refreshes the writer but the one *)
(* to close(), which keeps the writer that was there when close() ran.     *)

(* Mutant: the queue is not looked at when the sink has started.           *)
StartSettledIdle(s, ok) ==
  LET t == [s EXCEPT !.pend = @ \ {"start"}, !.started = TRUE]
  IN  IF ok THEN t ELSE DealWithRejection(t, t.writer)

StartSettled(s, ok) ==
  LET t == [s EXCEPT !.pend = @ \ {"start"}, !.started = TRUE]
  IN  IF ok THEN AdvanceQueueIfNeeded(t, t.writer)
            ELSE DealWithRejection(t, t.writer)

FinishInFlightWrite(s, outcome) ==
  [s EXCEPT !.pend = @ \ {"write"}, !.inWrite = NoChunk,
            !.wp[s.inWrite] = Settle(@, outcome)]

(* Mutant: a failed write is taken off the queue and the next one begun.   *)
WriteSettledGoesOn(s, ok) ==
  LET t == FinishInFlightWrite(s, IF ok THEN "ok" ELSE "err")
  IN  AdvanceQueueIfNeeded(
        UpdateBackpressureIfOpen(DequeueValue(t), t.writer), t.writer)

WriteSettled(s, ok) ==
  LET t == FinishInFlightWrite(s, IF ok THEN "ok" ELSE "err")
  IN  IF ok
      THEN AdvanceQueueIfNeeded(
             UpdateBackpressureIfOpen(DequeueValue(t), t.writer), t.writer)
      ELSE DealWithRejection(
             IF t.st = "writable" THEN ClearAlgorithms(t) ELSE t, t.writer)

FinishInFlightClose(s, w) ==
  LET t == [s EXCEPT !.pend = @ \ {"close"}, !.inClose = FALSE,
                     !.closeP = Settle(@, "ok"), !.st = "closed"]
      u == IF s.st = "erroring" /\ s.abortReq # "none"
           THEN [t EXCEPT !.abortReq = "none", !.abortP = Settle(@, "ok")] ELSE t
  IN  IF w = NoWriter THEN u ELSE [u EXCEPT !.wr[w].closed = Settle(@, "ok")]

(* Mutant: an abort that waits for the failed close is not answered.       *)
FinishInFlightCloseForgetsAbort(s, w) ==
  DealWithRejection([s EXCEPT !.pend = @ \ {"close"}, !.inClose = FALSE,
                              !.closeP = Settle(@, "err")], w)

FinishInFlightCloseWithError(s, w) ==
  LET t == [s EXCEPT !.pend = @ \ {"close"}, !.inClose = FALSE,
                     !.closeP = Settle(@, "err")]
      u == IF s.abortReq # "none"
           THEN [t EXCEPT !.abortReq = "none", !.abortP = Settle(@, "err")] ELSE t
  IN  DealWithRejection(u, w)

CloseSettled(s, ok) ==
  IF ok THEN FinishInFlightClose(s, s.closeW)
        ELSE FinishInFlightCloseWithError(s, s.closeW)

AbortSettled(s, ok) ==
  RejectCloseAndClosed(
    [s EXCEPT !.pend = @ \ {"abort"},
              !.abortP = Settle(@, IF ok THEN "ok" ELSE "err")], s.writer)

------------------------------------------------------------------------------
(* What the holder of the stream, of its writer or of its controller calls.*)

(* set_up_writable_stream_default_writer; `late' is kept for the           *)
(* properties: the writer came while an older call held another one.       *)
AcquireWriter(s, late) ==
  LET w == s.writers + 1
      ready == CASE s.st = "writable" ->
                      IF ~CloseQueuedOrInFlight(s) /\ s.bp THEN "pending" ELSE "ok"
                 [] s.st = "closed" -> "ok"
                 [] s.st \in {"erroring", "errored"} -> "err"
      closed == CASE s.st \in {"writable", "erroring"} -> "pending"
                  [] s.st = "closed"  -> "ok"
                  [] s.st = "errored" -> "err"
  IN  [s EXCEPT !.writers = w, !.writer = w,
                !.wr[w] = [ready |-> ready, closed |-> closed, late |-> late]]

ReleaseWriter(s, w) ==
  [s EXCEPT !.wr[w].ready = "err", !.wr[w].closed = "err", !.writer = NoWriter]

(* writable_stream_abort after the abort signal's listeners have run.      *)
AbortAfterSignal(s, w) ==
  CASE s.st \in {"closed", "errored"} \/ s.abortReq # "none" -> s
    [] s.st = "erroring" /\ s.abortReq = "none" ->
         [s EXCEPT !.abortReq = "already", !.abortP = "pending"]
    [] s.st = "writable" /\ s.abortReq = "none" ->
         StartErroring([s EXCEPT !.abortReq = "fresh", !.abortP = "pending"], w)

(* writable_stream_close behind its callers' refusal of a second close.    *)
WritableClose(s, w) ==
  IF s.st \in {"closed", "errored"} THEN s
  ELSE LET t == [s EXCEPT !.closeReq = TRUE, !.closeP = "pending"]
           u == IF w # NoWriter /\ t.bp /\ t.st = "writable"
                THEN [t EXCEPT !.wr[w].ready = Settle(@, "ok")] ELSE t
       IN  ControllerClose(u, w)

(* writable_stream_default_writer_write once the size is known.           *)
WriteAfterSize(s, w, size) ==
  LET t == IF size = SizeThrows THEN ControllerErrorIfNeeded(s, w) ELSE s
  IN  IF \/ t.writer # w
         \/ t.st \in {"errored", "closed", "erroring"}
         \/ CloseQueuedOrInFlight(t)
      THEN t
      ELSE LET i == t.writes + 1
               u == [t EXCEPT !.writes = i, !.wp[i] = "pending",
                              !.writeReqs = Append(@, i)]
           IN  ControllerWrite(u, w, IF size = SizeThrows THEN 1 ELSE size)
==============================================================================
