---------------------------- MODULE ReadableStream ----------------------------
(***************************************************************************)
(* One readable web stream with a default controller, the JavaScript that  *)
(* reads it and the source behind it.  A call runs to its end except where *)
(* enqueue() runs the queuing strategy's size(): `stack' holds those calls *)
(* with the reader each carries, and size() may call back into the stream. *)
(* The reactions to the source's promises run when no call is on the stack.*)
(*                                                                         *)
(* The source is driven by pull(): its promise settles after the source    *)
(* has enqueued, closed or erred at least once since pull() was called     *)
(* (`served'), or rejects.                                                 *)
(***************************************************************************)
EXTENDS ReadableOps

CONSTANTS
  HighWaterMark,  \* the strategy's highWaterMark
  MaxDepth,       \* bound on nested size() calls
  Sizes           \* what size() does: a size, -1 (no size) or -2 (throws)

ASSUME ReadableAssumption ==
  /\ HighWaterMark \in Nat /\ MaxDepth \in Nat
  /\ Sizes \subseteq Nat \cup {-1, -2}

VARIABLES
  r,        \* the stream
  stack,    \* the readers carried by the enqueue() calls inside size()
  served,   \* the source has answered the pull in flight
  reentered \* size() used the stream it sizes for, other than to enqueue

vars == <<r, stack, served, reentered>>

Init ==
  /\ r = NewReadable(HighWaterMark)
  /\ stack = <<>> /\ served = FALSE /\ reentered = FALSE

(* A pull() called by this step has not been answered yet.                 *)
Serve(answers) == served' = (answers \/ (served /\ r'.pulling /\ r.pulling))

Reenter == reentered' = (reentered \/ stack # <<>>)

------------------------------------------------------------------------------
(* Calls on the stream and its reader.                                     *)

GetReader ==
  /\ r.reader = NoReader /\ r.readers < MaxReaders
  /\ r' = AcquireReader(r)
  /\ Reenter /\ UNCHANGED <<stack, served>>

ReleaseLock ==
  /\ r.reader # NoReader
  /\ r' = ReleaseReader(r, r.reader)
  /\ Reenter /\ UNCHANGED <<stack, served>>

Read ==
  /\ r.reader # NoReader /\ r.reads < MaxReads
  /\ r' = DefaultReaderRead(r, r.reader)
  /\ Reenter /\ Serve(FALSE) /\ UNCHANGED stack

(* stream.cancel() on an unlocked stream and reader.cancel() on a locked   *)
(* one.                                                                    *)
Cancel ==
  /\ r.st = "readable"
  /\ r' = ReadableCancel(r, r.reader)
  /\ Reenter /\ UNCHANGED <<stack, served>>

------------------------------------------------------------------------------
(* Calls of the source on the controller.                                  *)

(* The chunks that suspended calls still have to enqueue are counted too.  *)
Enqueue ==
  /\ CanCloseOrEnqueue(r) /\ r.chunks + Len(stack) < MaxChunks
  /\ IF r.reader # NoReader /\ r.reqs[r.reader] # <<>>
     THEN r' = EnqueueToReader(r, r.reader) /\ Serve(TRUE) /\ UNCHANGED stack
     ELSE IF r.algs
     THEN /\ Len(stack) < MaxDepth
          /\ stack' = Append(stack, r.reader) /\ UNCHANGED <<r, served>>
     ELSE r' = [r EXCEPT !.panic = TRUE] /\ UNCHANGED <<stack, served>>
  /\ UNCHANGED reentered

SizeReturns ==
  /\ stack # <<>>
  /\ \E size \in Sizes : r' = EnqueueAfterSize(r, stack[Len(stack)], size)
  /\ stack' = SubSeq(stack, 1, Len(stack) - 1)
  /\ Serve(TRUE) /\ UNCHANGED reentered

SourceCloses ==
  /\ CanCloseOrEnqueue(r)
  /\ r' = RControllerClose(r, r.reader)
  /\ Reenter /\ Serve(TRUE) /\ UNCHANGED stack

ControllerError ==
  /\ r.st = "readable"
  /\ r' = RControllerError(r, r.reader)
  /\ Reenter /\ Serve(TRUE) /\ UNCHANGED stack

------------------------------------------------------------------------------
(* Reactions: the source's promise settles and its microtask runs.         *)

Reaction(name) == stack = <<>> /\ name \in r.pend /\ UNCHANGED <<stack, reentered>>

SourceStarted ==
  Reaction("start") /\ (\E ok \in BOOLEAN : r' = RStartSettled(r, ok)) /\ Serve(FALSE)

SourcePulled ==
  /\ Reaction("pull")
  /\ \E ok \in BOOLEAN : (ok => served \/ r.st # "readable") /\ r' = PullSettled(r, ok)
  /\ served' = FALSE

SourceCancelled ==
  Reaction("cancel") /\ (\E ok \in BOOLEAN : r' = CancelSettled(r, ok)) /\ UNCHANGED served

SourceAnswers == Enqueue \/ SourceCloses \/ ControllerError

Next ==
  \/ GetReader \/ ReleaseLock \/ Read \/ Cancel
  \/ SourceAnswers \/ SizeReturns
  \/ SourceStarted \/ SourcePulled \/ SourceCancelled

Spec == Init /\ [][Next]_vars

(* size() returns, a source that was asked with pull() answers, and a      *)
(* settled promise's reaction gets its turn in the microtask queue.        *)
FairSpec ==
  /\ Spec
  /\ \A depth \in 1..MaxDepth : SF_vars(Len(stack) = depth /\ SizeReturns)
  /\ SF_vars(r.pulling /\ ~served /\ SourceAnswers)
  /\ SF_vars(SourceStarted) /\ SF_vars(SourcePulled) /\ SF_vars(SourceCancelled)

------------------------------------------------------------------------------
(* Properties.                                                             *)

Delivered == {r.rv[i] : i \in {j \in DOMAIN r.rp : r.rp[j] = "chunk"}}
QueuedChunks == {r.queue[k] : k \in DOMAIN r.queue}

(* Nothing the source enqueued is lost or handed out twice: while the      *)
(* stream is readable each chunk is either queued or was given to exactly  *)
(* one read, a released reader's reads included; and a stream that closed  *)
(* because its controller was closed has delivered every chunk.  And no    *)
(* expect() is reached on the way: pull(), cancel() and size() are only    *)
(* asked of a controller that still has them.                              *)
ChunksConserved ==
  /\ ~r.panic
  /\ r.st = "readable" =>
       Delivered \cup QueuedChunks = 1..r.chunks /\ Delivered \cap QueuedChunks = {}
  /\ \A i, j \in DOMAIN r.rp :
       i # j /\ r.rp[i] = "chunk" /\ r.rp[j] = "chunk" => r.rv[i] # r.rv[j]
  /\ r.st = "closed" /\ r.cancelP = "none" /\ ~reentered => Delivered = 1..r.chunks

(* Reads are answered in order: a later read never gets an earlier chunk,  *)
(* and no read waits while a chunk is queued.  A size() that reads from    *)
(* the very stream it sizes for is excepted: its chunk is queued behind    *)
(* the read, as the Streams standard has it.                               *)
ReadsInOrder ==
  ~reentered =>
    /\ \A i, j \in DOMAIN r.rp :
         i < j /\ r.rp[i] = "chunk" /\ r.rp[j] = "chunk" => r.rv[i] < r.rv[j]
    /\ r.reader # NoReader /\ r.reqs[r.reader] # <<>> => r.queue = <<>>

(* The reader's closed promise and its reads end with the stream: once the *)
(* stream is closed or errored no read of the current reader waits.  A     *)
(* size() that exchanges the reader is excepted: an enqueue that then errs *)
(* tells the reader it carried.                                            *)
ReaderEndsWithStream ==
  r.reader # NoReader /\ ~reentered =>
    /\ r.closed[r.reader] =
         CASE r.st = "readable" -> "pending" [] r.st = "closed" -> "ok"
           [] r.st = "errored" -> "err"
    /\ r.st # "readable" => r.reqs[r.reader] = <<>>

(* The comment in readable_stream_default_reader_release: "Perform !       *)
(* ReadableStreamDefaultReaderErrorReadRequests(reader, e)": every read    *)
(* promise the released reader gave out is rejected.                       *)
ReleaseSettlesReads ==
  r.reader = NoReader => \A i \in DOMAIN r.rp : r.rp[i] # "pending"

(* A reader is never starved: with a source that answers each pull(), a    *)
(* read is answered or its reader released.  It is what pull_again is for: *)
(* the demand that arose while a pull was in flight is not forgotten.      *)
ReadsAreServed ==
  \A i \in 1..MaxReads :
    r.rp[i] = "pending" ~>
      \/ r.rp[i] # "pending" \/ reentered \/ r.chunks + Len(stack) = MaxChunks
      \/ \A rd \in 1..MaxReaders : i \notin {r.reqs[rd][k] : k \in DOMAIN r.reqs[rd]}
==============================================================================
