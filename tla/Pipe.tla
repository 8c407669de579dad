--------------------------------- MODULE Pipe ---------------------------------
(***************************************************************************)
(* pipeTo(): a readable stream, a writable stream and the PipeTo object    *)
(* between them (readable/stream/pipe.rs).  The streams are those of       *)
(* ReadableOps and WritableOps; every chunk has size one.  Each promise    *)
(* reaction of the pipe is an action enabled once its promise has settled; *)
(* the reactions of the source and of the sink are those of ReadableStream *)
(* and WritableStream.                                                     *)
(*                                                                         *)
(* The engine's microtask queue is first in, first out.  The model keeps   *)
(* the one consequence the pipe depends on: a reaction to the writer's     *)
(* ready promise that is already queued (ReadyQueued) runs before the      *)
(* reactions that the end of a write, of an action or of the destination   *)
(* queues after it.                                                        *)
(***************************************************************************)
EXTENDS WritableOps, ReadableOps

CONSTANTS
  SourceHwm,  \* highWaterMark of the source
  DestHwm,    \* highWaterMark of the destination
  Options     \* the ways pipeTo() is called

AllOptions ==
  [preventClose : BOOLEAN, preventAbort : BOOLEAN, preventCancel : BOOLEAN,
   signal : {"none", "live"},
   throws : BOOLEAN]  \* a listener of the sink's abort signal throws

ASSUME PipeAssumption ==
  /\ SourceHwm \in Nat /\ DestHwm \in Nat
  /\ Options \subseteq AllOptions

(* The tables of the streams are no limit to the pipe: it makes one write  *)
(* and one read per chunk and one read for the end.                        *)
ASSUME PipeBounds ==
  /\ MaxReaders >= 1 /\ MaxWriters >= 1
  /\ MaxWrites >= MaxChunks /\ MaxReads >= MaxChunks + 1

VARIABLES
  r,  \* the source
  w,  \* the destination
  p   \* the pipe

vars == <<r, w, p>>

Reader == 1
Writer == 1

Init ==
  /\ r = NewReadable(SourceHwm)
  /\ w = NewWritable(DestHwm)
  /\ \E o \in Options :
       p = [preventClose |-> o.preventClose, preventAbort |-> o.preventAbort,
            preventCancel |-> o.preventCancel, throws |-> o.throws,
            signal |-> o.signal, armed |-> FALSE,
            loop |-> "off", ready |-> "none", sent |-> <<>>,
            cur |-> NoChunk, waitFor |-> NoChunk, shutting |-> FALSE,
            phase |-> "off", action |-> "none", failed |-> FALSE,
            needs |-> {}, rejected |-> FALSE, result |-> "none"]

Started == p.phase # "off"

(* The model ends with the pipe: afterwards the streams are those of       *)
(* ReadableStream and WritableStream again.                                *)
Live == p.phase \notin {"done", "threw"}

(* The promise the loop captured from the writer follows the writer's own  *)
(* while it is pending; once settled it is another promise.                *)
Step(r1, w1, p1) ==
  /\ r' = r1 /\ w' = w1
  /\ p' = [p1 EXCEPT !.ready = IF @ = "pending" THEN w1.wr[Writer].ready ELSE @]

(* The current write's promise has its rejection caught.                   *)
WriteDone(i) == i \notin {k \in DOMAIN w.wp : w.wp[k] = "pending"}

------------------------------------------------------------------------------
(* Shutting down.                                                          *)

(* finalize: both locks are given back and the pipe's promise settles.     *)
Finalize(r1, w1, p1, failed) ==
  Step(ReleaseReader(r1, Reader), ReleaseWriter(w1, Writer),
       [p1 EXCEPT !.phase = "done", !.armed = FALSE,
                  !.result = IF failed THEN "err" ELSE "ok"])

(* A listener of the sink's abort signal that throws ends the shutdown     *)
(* there: the error leaves do_the_rest and nobody handles it.              *)
AbortThrows(w1, p1) ==
  /\ p1.throws /\ ~w1.signalled
  /\ \/ p1.action = "abort" /\ w1.st \notin {"closed", "errored"}
     \/ p1.action = "both" /\ ~p1.preventAbort /\ w1.st = "writable"

AbortDest(w1) == AbortAfterSignal([w1 EXCEPT !.signalled = TRUE], Writer)

(* The pipe now waits for the promises in `needs'.                         *)
Acting(p1, needs, rejected) ==
  [p1 EXCEPT !.phase = "acting", !.needs = needs, !.rejected = rejected]

CloseDest(r1, w1, p1) ==
  LET closing == CloseQueuedOrInFlight(w1) \/ w1.st = "closed"
  IN  IF closing \/ w1.st = "errored" THEN Step(r1, w1, Acting(p1, {}, ~closing))
      ELSE Step(r1, WritableClose(w1, Writer), Acting(p1, {"close"}, FALSE))

(* Mutant: an abort is waited for whatever state the destination is in.    *)
AbortBothUnchecked(r1, w1, p1) ==
  LET cancel == ~p1.preventCancel /\ r1.st = "readable"
  IN  Step(IF cancel THEN ReadableCancel(r1, Reader) ELSE r1,
           IF p1.preventAbort THEN w1 ELSE AbortDest(w1),
           Acting(p1, {n \in {"abort", "cancel"} :
                         IF n = "abort" THEN ~p1.preventAbort ELSE cancel}, FALSE))

(* The abort algorithm's actions, each only where its stream is still open.*)
AbortBoth(r1, w1, p1) ==
  LET abort  == ~p1.preventAbort /\ w1.st = "writable"
      cancel == ~p1.preventCancel /\ r1.st = "readable"
  IN  Step(IF cancel THEN ReadableCancel(r1, Reader) ELSE r1,
           IF abort THEN AbortDest(w1) ELSE w1,
           Acting(p1, {n \in {"abort", "cancel"} :
                         IF n = "abort" THEN abort ELSE cancel}, FALSE))

DoTheRest(r1, w1, p1) ==
  IF AbortThrows(w1, p1)
  THEN Step(r1, [w1 EXCEPT !.signalled = TRUE], [p1 EXCEPT !.phase = "threw"])
  ELSE CASE p1.action = "none"   -> Finalize(r1, w1, p1, p1.failed)
         [] p1.action = "abort"  ->
              Step(r1, AbortDest(w1),
                   Acting(p1, IF w1.st \in {"closed", "errored"} THEN {} ELSE {"abort"},
                          FALSE))
         [] p1.action = "cancel" ->
              Step(ReadableCancel(r1, Reader), w1,
                   Acting(p1, IF r1.st = "readable" THEN {"cancel"} ELSE {},
                          r1.st = "errored"))
         [] p1.action = "close"  -> CloseDest(r1, w1, p1)
         [] p1.action = "both"   -> AbortBoth(r1, w1, p1)

(* Mutant: the writes already made are not waited for.                     *)
ShutdownAtOnce(r1, w1, p0, action, failed) ==
  DoTheRest(r1, w1, [p0 EXCEPT !.shutting = TRUE, !.action = action, !.failed = failed])

(* shutdown and shutdown_with_action: only the first one counts, and an    *)
(* open destination is first given the chunks already read.                *)
Shutdown(r1, w1, p0, action, failed) ==
  LET p1 == [p0 EXCEPT !.shutting = TRUE, !.action = action, !.failed = failed]
  IN  IF w1.st = "writable" /\ ~CloseQueuedOrInFlight(w1)
      THEN Step(r1, w1, [p1 EXCEPT !.phase = "waiting", !.waitFor = p1.cur])
      ELSE DoTheRest(r1, w1, p1)

OnSourceError(r1, w1, p1) ==
  Shutdown(r1, w1, p1, IF p1.preventAbort THEN "none" ELSE "abort", TRUE)
OnSourceClose(r1, w1, p1) ==
  Shutdown(r1, w1, p1, IF p1.preventClose THEN "none" ELSE "close", FALSE)

(* Mutant: the destination's error is not kept for the end.                *)
OnDestErrorForgotten(r1, w1, p1) ==
  Shutdown(r1, w1, p1, IF p1.preventCancel THEN "none" ELSE "cancel", FALSE)

OnDestError(r1, w1, p1) ==
  Shutdown(r1, w1, p1, IF p1.preventCancel THEN "none" ELSE "cancel", TRUE)

------------------------------------------------------------------------------
(* The call and its signal.                                                *)

(* pipeTo() locks both streams and looks once at the states they were in;  *)
(* with an aborted signal it runs the abort algorithm and starts no loop.  *)
PipeTo ==
  LET r1 == [AcquireReader(r) EXCEPT !.disturbed = TRUE]
      w1 == AcquireWriter(w, "close" \in w.pend)
      p1 == [p EXCEPT !.phase = "piping", !.result = "pending", !.loop = "next",
                      !.armed = (p.signal = "live")]
  IN  /\ Live /\ p.phase = "off"
      /\ IF p.signal = "aborted" THEN Shutdown(r1, w1, [p1 EXCEPT !.loop = "ended"], "both", TRUE)
         ELSE IF r.st = "errored" THEN OnSourceError(r1, w1, p1)
         ELSE IF w.st \in {"erroring", "errored"} THEN OnDestError(r1, w1, p1)
         ELSE IF r.st = "closed" THEN OnSourceClose(r1, w1, p1)
         ELSE IF CloseQueuedOrInFlight(w) \/ w.st = "closed" THEN OnDestError(r1, w1, p1)
         ELSE Step(r1, w1, p1)

SignalAborts ==
  LET p1 == [p EXCEPT !.signal = "aborted", !.armed = FALSE]
  IN  /\ Live /\ p.signal = "live"
      /\ IF p.armed /\ ~p.shutting THEN Shutdown(r, w, p1, "both", TRUE)
         ELSE Step(r, w, p1)

------------------------------------------------------------------------------
(* The loop: wait for the writer, read, write, again.                      *)

(* chunk_steps, close_steps and error_steps of the pipe's read request,    *)
(* run inside whatever call on the source answered the read.               *)
Deliver(r1, p1) ==
  LET i  == r1.reads
      w1 == WriteAfterSize(w, Writer, 1)
  IN  IF p1.loop # "reading" \/ r1.rp[i] = "pending" THEN Step(r1, w, p1)
      ELSE IF r1.rp[i] = "chunk"
      THEN Step(r1, w1,
                [p1 EXCEPT !.loop = "next", !.sent = Append(@, r1.rv[i]),
                           !.cur = IF w1.writes > w.writes THEN w1.writes ELSE NoChunk])
      ELSE Step(r1, w, [p1 EXCEPT !.loop = "ended"])

(* Mutant: the loop does not wait for the writer to be ready.              *)
PipeStepEager ==
  /\ Live /\ p.loop = "next"
  /\ IF p.shutting THEN Step(r, w, [p EXCEPT !.loop = "ended"])
     ELSE Step(r, w, [p EXCEPT !.loop = "ready", !.ready = "ok"])

PipeStep ==
  /\ Live /\ p.loop = "next"
  /\ IF p.shutting THEN Step(r, w, [p EXCEPT !.loop = "ended"])
     ELSE Step(r, w, [p EXCEPT !.loop = "ready", !.ready = w.wr[Writer].ready])

ReadyQueued == p.loop = "ready" /\ p.ready = "ok"

(* The read begins whether or not a shutdown has begun meanwhile.          *)
ReadyFulfilled ==
  /\ Live /\ ReadyQueued
  /\ Deliver(DefaultReaderRead(r, Reader), [p EXCEPT !.loop = "reading"])

ReadyRejected ==
  /\ Live /\ p.loop = "ready" /\ p.ready = "err"
  /\ Step(r, w, [p EXCEPT !.loop = "ended"])

------------------------------------------------------------------------------
(* The pipe's other reactions.                                             *)

Watching == Live /\ Started /\ ~p.shutting

SourceErrored == Watching /\ r.closed[Reader] = "err" /\ OnSourceError(r, w, p)
SourceClosed  == Watching /\ r.closed[Reader] = "ok" /\ OnSourceClose(r, w, p)
DestErrored   == /\ Watching /\ ~ReadyQueued
                 /\ w.wr[Writer].closed = "err" /\ OnDestError(r, w, p)

(* wait_for_writes_to_finish goes round again when a chunk that was being  *)
(* read has become another write.                                          *)
WritesFinished ==
  /\ Live /\ p.phase = "waiting" /\ ~ReadyQueued /\ WriteDone(p.waitFor)
  /\ IF p.waitFor # p.cur THEN Step(r, w, [p EXCEPT !.waitFor = p.cur])
     ELSE DoTheRest(r, w, p)

Needed(n) == CASE n = "abort" -> w.abortP [] n = "close" -> w.closeP
               [] n = "cancel" -> r.cancelP

ActionFails == p.rejected \/ \E n \in p.needs : Needed(n) = "err"
ActionSucceeds == ~p.rejected /\ \A n \in p.needs : Needed(n) = "ok"

ActionSettled ==
  /\ Live /\ p.phase = "acting" /\ ~ReadyQueued
  /\ ActionFails \/ ActionSucceeds
  /\ Finalize(r, w, p, ActionFails \/ p.failed)

------------------------------------------------------------------------------
(* The source and the sink, and the holder of the streams before the pipe. *)

Enqueue ==
  /\ Live /\ CanCloseOrEnqueue(r) /\ r.chunks < MaxChunks
  /\ Deliver(IF r.reader # NoReader /\ r.reqs[Reader] # <<>>
             THEN EnqueueToReader(r, r.reader) ELSE EnqueueAfterSize(r, r.reader, 1), p)

SourceCloses == Live /\ CanCloseOrEnqueue(r) /\ Deliver(RControllerClose(r, r.reader), p)
SourceErrs   == Live /\ r.st = "readable" /\ Deliver(RControllerError(r, r.reader), p)

SourceStarted   == Live /\ "start" \in r.pend /\ \E ok \in BOOLEAN : Deliver(RStartSettled(r, ok), p)
SourcePulled    == Live /\ "pull" \in r.pend /\ \E ok \in BOOLEAN : Deliver(PullSettled(r, ok), p)
SourceCancelled == Live /\ "cancel" \in r.pend /\ \E ok \in BOOLEAN : Step(CancelSettled(r, ok), w, p)

SinkErrs    == Live /\ w.st = "writable" /\ Step(r, ControllerErrorIfNeeded(w, w.writer), p)
SinkStarted == Live /\ "start" \in w.pend /\ \E ok \in BOOLEAN : Step(r, StartSettled(w, ok), p)
SinkWrote   == Live /\ "write" \in w.pend /\ \E ok \in BOOLEAN : Step(r, WriteSettled(w, ok), p)
SinkClosed  == Live /\ "close" \in w.pend /\ \E ok \in BOOLEAN : Step(r, CloseSettled(w, ok), p)
SinkAborted == Live /\ "abort" \in w.pend /\ \E ok \in BOOLEAN : Step(r, AbortSettled(w, ok), p)

(* close() and abort() on the destination before it is piped to.           *)
CloseEarly == /\ Live /\ ~Started /\ ~CloseQueuedOrInFlight(w) /\ w.st \in {"writable", "erroring"}
              /\ Step(r, WritableClose(w, NoWriter), p)
AbortEarly == /\ Live /\ ~Started /\ w.st \in {"writable", "erroring"} /\ ~p.throws
              /\ Step(r, AbortAfterSignal([w EXCEPT !.signalled = TRUE], NoWriter), p)

PipeReacts ==
  \/ PipeStep \/ ReadyFulfilled \/ ReadyRejected
  \/ SourceErrored \/ SourceClosed \/ DestErrored
  \/ WritesFinished \/ ActionSettled

SinkReacts == SinkStarted \/ SinkWrote \/ SinkClosed \/ SinkAborted

Next ==
  \/ PipeTo \/ SignalAborts \/ PipeReacts
  \/ Enqueue \/ SourceCloses \/ SourceErrs
  \/ SourceStarted \/ SourcePulled \/ SourceCancelled
  \/ SinkErrs \/ SinkReacts \/ CloseEarly \/ AbortEarly

Spec == Init /\ [][Next]_vars

(* The reactions of the pipe get their turns in the microtask queue, and   *)
(* the sink's and the source's promises settle.  Nothing makes the source  *)
(* enqueue, close or err.                                                  *)
FairSpec ==
  /\ Spec
  /\ WF_vars(PipeReacts) /\ SF_vars(SinkReacts) /\ SF_vars(SourceCancelled)

------------------------------------------------------------------------------
(* Properties.                                                             *)

(* What the pipe writes is what the source enqueued, in order, each chunk  *)
(* once, and never more of it than the destination's high water mark asks  *)
(* for: the loop reads only when the writer is ready.  No expect() of      *)
(* either stream is reached however pipe, source, sink and signal          *)
(* interleave.                                                             *)
PipesInOrder ==
  /\ ~r.panic /\ ~w.panic
  /\ \A k \in DOMAIN p.sent : p.sent[k] = k
  /\ w.total <= w.hwm

(* A chunk that was read is written: as long as the destination is open    *)
(* every chunk taken from the source was accepted by it, also one that     *)
(* arrives while a shutdown waits; and a shutdown that only waits for the  *)
(* writes gives the locks back after the last of them.                     *)
ReadChunksWritten ==
  /\ w.st = "writable" => w.writes = Len(p.sent)
  /\ p.result # "pending" /\ p.action = "none" /\ w.st = "writable" =>
       \A i \in DOMAIN w.wp : w.wp[i] # "pending"

(* pipeTo() that succeeds has moved everything: the source is closed and   *)
(* drained, and where the pipe was to close the destination, that is       *)
(* closed with every chunk written.                                        *)
SuccessMeansPiped ==
  p.result = "ok" =>
    /\ r.st = "closed" /\ Len(p.sent) = r.chunks
    /\ "close" \in p.needs =>
         w.st = "closed" /\ \A i \in 1..r.chunks : w.wp[i] = "ok"

(* Once the source has ended, the destination has failed or a shutdown has *)
(* begun for any other reason, the pipe's promise settles and both streams *)
(* are unlocked, whatever is still being read or written; only a throwing  *)
(* abort listener prevents it.                                             *)
PipeEnds ==
  (Started /\ (p.shutting \/ r.st # "readable" \/ w.st \in {"erroring", "errored"}))
    ~> (p.phase = "threw" \/ (p.result \in {"ok", "err"}
                               /\ r.reader = NoReader /\ w.writer = NoWriter))

==============================================================================
