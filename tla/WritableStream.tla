---------------------------- MODULE WritableStream ----------------------------
(***************************************************************************)
(* One writable web stream, the JavaScript that uses it and the sink       *)
(* behind it.  Everything runs on the JavaScript thread: a call runs to    *)
(* its end, except where the Rust code gives up its borrows to run user    *)
(* code, the queuing strategy's size() inside write() and the listeners of *)
(* the controller's abort signal inside abort().  Those calls are split:   *)
(* `stack' holds the suspended ones, each with the writer it carries, and  *)
(* the user code they run may call back into the stream.  The reactions    *)
(* to the sink's promises run when no call is on the stack.                *)
(***************************************************************************)
EXTENDS WritableOps

CONSTANTS
  HighWaterMark,  \* the strategy's highWaterMark
  MaxDepth,       \* bound on nested user code
  Sizes           \* what size() does: a size, BadSize or SizeThrows

ASSUME WritableAssumption ==
  /\ HighWaterMark \in Nat /\ MaxDepth \in Nat
  /\ Sizes \subseteq Nat \cup {BadSize, SizeThrows}

VARIABLES
  s,      \* the stream
  stack   \* the calls that user code runs inside, innermost last

vars == <<s, stack>>

Init ==
  /\ s = NewWritable(HighWaterMark)
  /\ stack = <<>>

Push(call, w) == stack' = Append(stack, [call |-> call, w |-> w])
Pop == stack' = SubSeq(stack, 1, Len(stack) - 1)
Running(call) == stack # <<>> /\ stack[Len(stack)].call = call
Carried == stack[Len(stack)].w
Suspended(call) == {i \in DOMAIN stack : stack[i].call = call}

------------------------------------------------------------------------------
(* Calls.                                                                  *)

GetWriter ==
  /\ s.writer = NoWriter /\ s.writers < MaxWriters
  /\ s' = AcquireWriter(s, stack # <<>> \/ "close" \in s.pend)
  /\ UNCHANGED stack

ReleaseLock ==
  /\ s.writer # NoWriter
  /\ s' = ReleaseWriter(s, s.writer)
  /\ UNCHANGED stack

(* write() up to size(): a strategy whose algorithms were cleared counts   *)
(* every chunk as one and runs no user code.                               *)
Write ==
  /\ s.writer # NoWriter
  /\ s.writes + Cardinality(Suspended("write")) < MaxWrites
  /\ IF s.algs
     THEN /\ Len(stack) < MaxDepth
          /\ Push("write", s.writer) /\ UNCHANGED s
     ELSE s' = WriteAfterSize(s, s.writer, 1) /\ UNCHANGED stack

SizeReturns ==
  /\ Running("write")
  /\ \E size \in Sizes : s' = WriteAfterSize(s, Carried, size)
  /\ Pop

(* stream.abort() on an unlocked stream and writer.abort() on a locked one.*)
Abort ==
  /\ s.st \notin {"closed", "errored"}
  /\ IF s.signalled
     THEN s' = AbortAfterSignal(s, s.writer) /\ UNCHANGED stack
     ELSE /\ Len(stack) < MaxDepth
          /\ s' = [s EXCEPT !.signalled = TRUE]
          /\ Push("abort", s.writer)

ListenersReturn ==
  /\ Running("abort")
  /\ s' = AbortAfterSignal(s, Carried)
  /\ Pop

(* A listener throws: the emit stops and abort() throws with it.           *)
ListenerThrows ==
  /\ Running("abort")
  /\ Pop /\ UNCHANGED s

(* stream.close() on an unlocked stream and writer.close() on a locked one.*)
Close ==
  /\ ~CloseQueuedOrInFlight(s)
  /\ s' = WritableClose(s, s.writer)
  /\ UNCHANGED stack

ControllerError ==
  /\ s.st = "writable"
  /\ s' = ControllerErrorIfNeeded(s, s.writer)
  /\ UNCHANGED stack

------------------------------------------------------------------------------
(* Reactions: the sink's promise settles and its microtask runs.           *)

Reaction(name) == stack = <<>> /\ name \in s.pend /\ UNCHANGED stack

SinkStarted == Reaction("start") /\ \E ok \in BOOLEAN : s' = StartSettled(s, ok)
SinkWrote   == Reaction("write") /\ \E ok \in BOOLEAN : s' = WriteSettled(s, ok)
SinkClosed  == Reaction("close") /\ \E ok \in BOOLEAN : s' = CloseSettled(s, ok)
SinkAborted == Reaction("abort") /\ \E ok \in BOOLEAN : s' = AbortSettled(s, ok)

UserCodeReturns == SizeReturns \/ ListenersReturn \/ ListenerThrows

Next ==
  \/ GetWriter \/ ReleaseLock \/ Write \/ Abort \/ Close \/ ControllerError
  \/ UserCodeReturns
  \/ SinkStarted \/ SinkWrote \/ SinkClosed \/ SinkAborted

Spec == Init /\ [][Next]_vars

(* User code returns, the sink's promises are taken to settle, and the     *)
(* microtask queue is first in, first out: calls made by other jobs come   *)
(* in between, but a reaction whose promise has settled gets its turn.     *)
FairSpec ==
  /\ Spec
  /\ \A depth \in 1..MaxDepth : SF_vars(Len(stack) = depth /\ UserCodeReturns)
  /\ SF_vars(SinkStarted) /\ SF_vars(SinkWrote)
  /\ SF_vars(SinkClosed) /\ SF_vars(SinkAborted)

------------------------------------------------------------------------------
(* Properties.                                                             *)

(* The stream's list of write requests and the controller's queue are two  *)
(* lists kept in step by hand: the queue holds the chunk in flight, then   *)
(* one chunk per request in the same order, then the close sentinel if a   *)
(* close is waiting.  A stream that is erroring keeps the chunk in flight  *)
(* at the head, so that the dequeue after the sink's answer removes it.    *)
(* Hence no expect() is reached: however calls, nested user code and sink  *)
(* promises interleave, an in-flight mark has its request, an algorithm is *)
(* still there when it is needed, and no finished stream is rejected.      *)
RequestsMatchQueue ==
  LET head == IF s.inWrite = NoChunk THEN <<>> ELSE <<s.inWrite>>
      last == IF s.closeReq THEN <<CloseSentinel>> ELSE <<>>
  IN  /\ ~s.panic
      /\ s.st = "writable" => s.queue = head \o s.writeReqs \o last
      /\ s.inWrite # NoChunk => s.queue # <<>> /\ Head(s.queue) = s.inWrite
      /\ s.st \in {"closed", "errored"} =>
           s.queue = <<>> /\ s.writeReqs = <<>> /\ s.inWrite = NoChunk

(* A finished stream leaves nobody waiting: no write is pending, and once  *)
(* the sink's abort() has answered neither is the close or the abort.      *)
FinishedSettles ==
  s.st \in {"closed", "errored"} =>
    /\ \A i \in DOMAIN s.wp : s.wp[i] # "pending"
    /\ "abort" \notin s.pend => s.closeP # "pending" /\ s.abortP # "pending"

(* Writes succeed in the order they were made and close() succeeds last:   *)
(* no chunk is reported written when an earlier one failed, and a close    *)
(* that succeeded had every accepted chunk written.                        *)
WritesSucceedInOrder ==
  /\ \A i, j \in DOMAIN s.wp :
       i < j /\ s.wp[j] = "ok" => s.wp[i] = "ok"
  /\ s.closeP = "ok" =>
       \A i \in DOMAIN s.wp : s.wp[i] \in {"none", "ok"}

(* What the current writer shows its user follows the stream: ready waits  *)
(* exactly while there is backpressure and no close, and is rejected once  *)
(* the stream errs; closed is settled with the stream.                     *)
WriterFollowsStream(w) ==
  /\ s.st = "writable" =>
       s.wr[w].ready = IF s.bp /\ ~CloseQueuedOrInFlight(s) THEN "pending" ELSE "ok"
  /\ s.st \in {"erroring", "errored"} => s.wr[w].ready = "err"
  /\ s.st \in {"writable", "erroring"} => s.wr[w].closed = "pending"
  /\ s.st = "closed" => s.wr[w].closed = "ok" /\ s.wr[w].ready # "pending"
  /\ s.st = "errored" /\ "abort" \notin s.pend => s.wr[w].closed = "err"

(* A writer acquired while no suspended abort() or write() and no close in *)
(* flight carried an older writer always follows the stream.               *)
PunctualWriterFollows ==
  s.writer # NoWriter /\ ~s.wr[s.writer].late => WriterFollowsStream(s.writer)

(* The comment in front of the assignment in writable_stream_finish_in_    *)
(* flight_close: "If writer is not undefined, resolve writer.[[closed-     *)
(* Promise]] with undefined", with writer being stream.[[writer]].         *)
ClosedStreamResolvesWriter ==
  s.st = "closed" /\ s.writer # NoWriter => s.wr[s.writer].closed = "ok"

(* Every write, close and abort that was accepted is answered, provided    *)
(* the sink answers: no order of start, close, abort and errors leaves one *)
(* of them waiting for ever.                                               *)
RequestsSettle ==
  /\ \A i \in 1..MaxWrites : s.wp[i] = "pending" ~> s.wp[i] # "pending"
  /\ s.closeP = "pending" ~> s.closeP # "pending"
  /\ s.abortP = "pending" ~> s.abortP # "pending"
==============================================================================
