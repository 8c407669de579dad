----------------------------- MODULE ReadableOps -----------------------------
(***************************************************************************)
(* The algorithms of a readable web stream with a default controller and   *)
(* a default reader (modules/raster_runtime_stream_web/src/readable), as   *)
(* operators from a stream to a stream.  A stream is one record: the       *)
(* fields of ReadableStream and ReadableStreamDefaultController, the read  *)
(* requests of each reader, and the outcome of every read() promise.       *)
(*                                                                         *)
(* Chunks and reads are numbered in the order enqueue() and read() were    *)
(* called; chunk v has the size the strategy gave it.  The operators take  *)
(* the reader `rd' the Rust code carries in ReadableStreamObjects, NoReader*)
(* for UndefinedReader and None.                                           *)
(***************************************************************************)
EXTENDS StreamBasics

CONSTANTS
  MaxChunks,  \* bound on the chunks enqueued in a stream
  MaxReads,   \* bound on the reads made of a stream
  MaxReaders  \* bound on the readers acquired over a stream's life

ASSUME ReadableBounds ==
  MaxChunks \in Nat /\ MaxReads \in Nat /\ MaxReaders \in Nat

NoReader == 0

NewReadable(hwm) ==
  [st |-> "readable", reader |-> NoReader, disturbed |-> FALSE,
   queue |-> <<>>, total |-> 0, size |-> [v \in 1..MaxChunks |-> 0],
   closeRequested |-> FALSE, pulling |-> FALSE, pullAgain |-> FALSE,
   started |-> FALSE, algs |-> TRUE, hwm |-> hwm, pend |-> {"start"},
   panic |-> FALSE, chunks |-> 0, reads |-> 0, readers |-> 0,
   reqs |-> [rd \in 1..MaxReaders |-> <<>>],
   closed |-> [rd \in 1..MaxReaders |-> "none"],
   rp |-> [i \in 1..MaxReads |-> "none"],
   rv |-> [i \in 1..MaxReads |-> NoChunk],
   cancelP |-> "none"]

(* close_steps and error_steps of the requests a reader holds.             *)
SettleReads(r, rd, outcome) ==
  [r EXCEPT !.rp = [i \in DOMAIN @ |-> IF i \in Elements(r.reqs[rd])
                                       THEN outcome ELSE @[i]],
            !.reqs[rd] = <<>>]

------------------------------------------------------------------------------
(* The stream.                                                             *)

ReadableError(r, rd) ==
  LET t == [r EXCEPT !.st = "errored"]
  IN  IF rd = NoReader THEN t
      ELSE SettleReads([t EXCEPT !.closed[rd] = Settle(@, "err")], rd, "err")

(* Mutant: the close steps of the waiting reads are left out.              *)
ReadableCloseKeepsReads(r, rd) ==
  LET t == [r EXCEPT !.st = "closed"]
  IN  IF rd = NoReader THEN t ELSE [t EXCEPT !.closed[rd] = Settle(@, "ok")]

ReadableClose(r, rd) ==
  LET t == [r EXCEPT !.st = "closed"]
  IN  IF rd = NoReader THEN t
      ELSE SettleReads([t EXCEPT !.closed[rd] = Settle(@, "ok")], rd, "done")

(* Mutant: the newest request is fulfilled instead of the oldest.          *)
FulfillLastReadRequest(r, rd, v) ==
  IF r.reqs[rd] = <<>> THEN Panicked(r)
  ELSE LET n == Len(r.reqs[rd])
       IN  [r EXCEPT !.reqs[rd] = SubSeq(@, 1, n - 1),
                     !.rp[r.reqs[rd][n]] = "chunk", !.rv[r.reqs[rd][n]] = v]

FulfillReadRequest(r, rd, v) ==
  IF r.reqs[rd] = <<>> THEN Panicked(r)
  ELSE LET i == Head(r.reqs[rd])
       IN  [r EXCEPT !.reqs[rd] = Tail(@), !.rp[i] = "chunk", !.rv[i] = v]

------------------------------------------------------------------------------
(* The controller.                                                         *)

RClearAlgorithms(r) == [r EXCEPT !.algs = FALSE]
ResetQueue(r) == [r EXCEPT !.queue = <<>>, !.total = 0]

CanCloseOrEnqueue(r) == r.st = "readable" /\ ~r.closeRequested

ShouldCallPull(r, rd) ==
  /\ CanCloseOrEnqueue(r) /\ r.started
  /\ \/ rd # NoReader /\ r.reqs[rd] # <<>>
     \/ r.hwm - r.total > 0

(* The source's pull() runs here, with the state below already in place.   *)
CallPullIfNeeded(r, rd) ==
  CASE ~ShouldCallPull(r, rd)             -> r
    [] ShouldCallPull(r, rd) /\ r.pulling -> [r EXCEPT !.pullAgain = TRUE]
    [] ShouldCallPull(r, rd) /\ ~r.pulling ->
         IF r.algs THEN [r EXCEPT !.pulling = TRUE, !.pend = @ \cup {"pull"}]
                   ELSE Panicked(r)

RControllerError(r, rd) ==
  IF r.st # "readable" THEN r
  ELSE ReadableError(RClearAlgorithms(ResetQueue(r)), rd)

RControllerClose(r, rd) ==
  IF ~CanCloseOrEnqueue(r) THEN r
  ELSE LET t == [r EXCEPT !.closeRequested = TRUE]
       IN  IF t.queue = <<>> THEN ReadableClose(RClearAlgorithms(t), rd) ELSE t

(* enqueue() for a reader that waits: no size is computed.                 *)
EnqueueToReader(r, rd) ==
  LET v == r.chunks + 1
  IN  CallPullIfNeeded(FulfillReadRequest([r EXCEPT !.chunks = v], rd, v), rd)

(* enqueue() after size() returned: the stream is not looked at again, the *)
(* chunk goes to the queue whatever size() did to the stream meanwhile.    *)
EnqueueAfterSize(r, rd, size) ==
  LET v == r.chunks + 1
  IN  IF size \in {BadSize, SizeThrows} THEN RControllerError(r, rd)
      ELSE CallPullIfNeeded(
             [r EXCEPT !.chunks = v, !.queue = Append(@, v),
                       !.size[v] = size, !.total = @ + size], rd)

RDequeueValue(r) ==
  LET rest == r.total - r.size[Head(r.queue)]
  IN  [r EXCEPT !.queue = Tail(@), !.total = IF rest < 0 THEN 0 ELSE rest]

(* Mutant: a requested close does not wait for the rest of the queue.      *)
PullStepsClosesEarly(r, rd, i) ==
  IF r.queue # <<>>
  THEN LET t == RDequeueValue(r)
           u == IF t.closeRequested
                THEN ReadableClose(RClearAlgorithms(t), rd)
                ELSE CallPullIfNeeded(t, rd)
       IN  [u EXCEPT !.rp[i] = "chunk", !.rv[i] = Head(r.queue)]
  ELSE CallPullIfNeeded(
         [r EXCEPT !.rp[i] = "pending", !.reqs[rd] = Append(@, i)], rd)

(* pull_steps for the read request i.                                      *)
PullSteps(r, rd, i) ==
  IF r.queue # <<>>
  THEN LET t == RDequeueValue(r)
           u == IF t.closeRequested /\ t.queue = <<>>
                THEN ReadableClose(RClearAlgorithms(t), rd)
                ELSE CallPullIfNeeded(t, rd)
       IN  [u EXCEPT !.rp[i] = "chunk", !.rv[i] = Head(r.queue)]
  ELSE CallPullIfNeeded(
         [r EXCEPT !.rp[i] = "pending", !.reqs[rd] = Append(@, i)], rd)

(* cancel_steps; the source's cancel() runs with the stream closed.        *)
CancelSteps(r) ==
  IF r.algs THEN [RClearAlgorithms(ResetQueue(r)) EXCEPT !.pend = @ \cup {"cancel"}]
            ELSE Panicked(r)

------------------------------------------------------------------------------
(* Reactions to the source's promises; each refreshes the reader.          *)

RStartSettled(r, ok) ==
  LET t == [r EXCEPT !.pend = @ \ {"start"}]
  IN  IF ok THEN CallPullIfNeeded([t EXCEPT !.started = TRUE], t.reader)
            ELSE RControllerError(t, t.reader)

(* Mutant: demand that arose during a pull is forgotten.                   *)
PullSettledOnce(r, ok) ==
  LET t == [r EXCEPT !.pend = @ \ {"pull"}]
  IN  IF ~ok THEN RControllerError(t, t.reader)
      ELSE [t EXCEPT !.pulling = FALSE, !.pullAgain = FALSE]

PullSettled(r, ok) ==
  LET t == [r EXCEPT !.pend = @ \ {"pull"}]
  IN  IF ~ok THEN RControllerError(t, t.reader)
      ELSE IF t.pullAgain
      THEN CallPullIfNeeded([t EXCEPT !.pulling = FALSE, !.pullAgain = FALSE], t.reader)
      ELSE [t EXCEPT !.pulling = FALSE]

CancelSettled(r, ok) ==
  [r EXCEPT !.pend = @ \ {"cancel"},
            !.cancelP = Settle(@, IF ok THEN "ok" ELSE "err")]

------------------------------------------------------------------------------
(* What the holder of the stream or of its reader calls.                   *)

AcquireReader(r) ==
  LET rd == r.readers + 1
  IN  [r EXCEPT !.readers = rd, !.reader = rd,
                !.closed[rd] = CASE r.st = "readable" -> "pending"
                                 [] r.st = "closed"   -> "ok"
                                 [] r.st = "errored"  -> "err"]

(* The list of read requests is emptied first, so that error_read_requests *)
(* finds none to reject.                                                   *)
ReleaseReader(r, rd) ==
  SettleReads([r EXCEPT !.reqs[rd] = <<>>, !.closed[rd] = "err",
                        !.reader = NoReader], rd, "err")

DefaultReaderRead(r, rd) ==
  LET i == r.reads + 1
      t == [r EXCEPT !.reads = i, !.disturbed = TRUE]
  IN  CASE t.st = "closed"   -> [t EXCEPT !.rp[i] = "done"]
        [] t.st = "errored"  -> [t EXCEPT !.rp[i] = "err"]
        [] t.st = "readable" -> PullSteps(t, rd, i)

(* readable_stream_cancel; a closed or errored stream answers at once.     *)
ReadableCancel(r, rd) ==
  LET t == [r EXCEPT !.disturbed = TRUE]
  IN  CASE t.st = "closed"   -> t
        [] t.st = "errored"  -> t
        [] t.st = "readable" ->
             CancelSteps(ReadableClose([t EXCEPT !.cancelP = "pending"], rd))
==============================================================================
