--------------------------- MODULE ReadableProofs ---------------------------
(***************************************************************************)
(* Proofs about ReadableStream, for every highWaterMark, every behaviour   *)
(* of size() and every number of chunks, reads and readers: chunks are     *)
(* conserved, reads are answered in order, and a reader ends with its      *)
(* stream.                                                                 *)
(*                                                                         *)
(* The inductive invariant IInv has two halves.  RGood holds even          *)
(* when size() calls back into the stream: which requests exist, and where *)
(* every chunk is.  Fine says what a re-entrant size() may upset, and is   *)
(* only claimed of a stream that was not re-entered (Quiet).               *)
(***************************************************************************)
EXTENDS ReadableStream, StreamLemmas

(* An enqueue() that waits for size() carries the current reader, finds    *)
(* no read waiting when it resumes, and the stream not closed.             *)
Quiet ==
  ~reentered =>
    /\ Fine(r)
    /\ \A i \in DOMAIN stack : stack[i] = r.reader
    /\ stack # <<>> => NoRequests(r) /\ r.st # "closed"

StackFits == stack \in Seq(MaybeReader) /\ r.chunks + Len(stack) <= MaxChunks

IInv == RGood(r) /\ Quiet /\ StackFits /\ reentered \in BOOLEAN

------------------------------------------------------------------------------
(* The specification.                                                      *)

(* A new stream satisfies the invariant.                                   *)
LEMMA InitEstablishes == Init => IInv
<1> SUFFICES ASSUME Init PROVE IInv
  OBVIOUS
<1>1. r = NewReadable(HighWaterMark) /\ stack = <<>> /\ reentered = FALSE
  BY DEF Init
<1>2. RGood(r) /\ Fine(r) /\ r.chunks = 0
  BY <1>1, NewReadableGood, ReadableAssumption
<1>3. StackFits
  <2>1. stack \in Seq(MaybeReader) /\ Len(stack) = 0
    BY <1>1, EmptySeq
  <2> QED
    BY <1>2, <2>1, ReadableBounds DEF StackFits
<1>4. Quiet
  BY <1>1, <1>2 DEF Quiet
<1> QED
  BY <1>1, <1>2, <1>3, <1>4 DEF IInv

(* A call inside size() re-enters the stream; a call outside it finds no   *)
(* enqueue() suspended.                                                    *)
LEMMA CallKeeps ==
  ASSUME IInv, RGood(r'), r'.chunks = r.chunks, Fine(r) => Fine(r'), Reenter, stack' = stack
  PROVE  IInv'
<1>1. StackFits' /\ reentered' \in BOOLEAN
  BY DEF IInv, StackFits, Reenter
<1>2. ~reentered' => ~reentered /\ stack = <<>>
  BY DEF Reenter, IInv
<1>3. Quiet'
  BY <1>2 DEF Quiet, IInv
<1> QED
  BY <1>1, <1>3 DEF IInv

(* A reaction runs while no call is on the stack.                          *)
LEMMA ReactionKeeps ==
  ASSUME IInv, NEW name, Reaction(name), RGood(r'), r'.chunks = r.chunks, Fine(r) => Fine(r')
  PROVE  IInv'
<1>1. stack = <<>> /\ stack' = stack /\ reentered' = reentered
  BY DEF Reaction
<1>2. Reenter
  BY <1>1 DEF Reenter, IInv
<1> QED
  BY <1>1, <1>2, CallKeeps

(* Every step keeps the invariant.                                         *)
LEMMA ReadableStep ==
  ASSUME IInv, [Next]_vars
  PROVE  IInv'
<1>1. /\ RGood(r) /\ Quiet /\ StackFits /\ reentered \in BOOLEAN
      /\ r.reader \in MaybeReader /\ (r.reader # NoReader <=> r.reader \in ReaderIds)
  BY LockedReader DEF IInv
<1>2. /\ r.chunks \in Nat /\ stack \in Seq(MaybeReader) /\ Len(stack) \in Nat
      /\ DOMAIN stack = 1..Len(stack) /\ r.chunks + Len(stack) <= MaxChunks
      /\ MaxChunks \in Nat
  <2>1. r.chunks \in 0..MaxChunks
    BY <1>1 DEF RGood, RBase, RTypes
  <2> QED
    BY <1>1, <2>1, LenProperties, ReadableBounds, ReadableAssumption DEF StackFits
<1>3. CASE GetReader
  <2>1. RGood(r') /\ r'.chunks = r.chunks /\ (Fine(r) => Fine(r'))
    BY <1>1, <1>3, AcquireReaderKeeps DEF GetReader
  <2> QED
    BY <1>3, <2>1, CallKeeps DEF GetReader
<1>4. CASE ReleaseLock
  <2>1. RGood(r') /\ r'.chunks = r.chunks /\ (Fine(r) => Fine(r'))
    BY <1>1, <1>4, ReleaseReaderKeeps DEF ReleaseLock
  <2> QED
    BY <1>4, <2>1, CallKeeps DEF ReleaseLock
<1>5. CASE Read
  <2>1. RGood(r') /\ Counts(r, r') /\ (Fine(r) => Fine(r'))
    BY <1>1, <1>5, ReadKeeps DEF Read
  <2> QED
    BY <1>5, <2>1, CallKeeps DEF Read, Counts
<1>6. CASE Cancel
  <2>1. RGood(r') /\ Counts(r, r') /\ (Fine(r) => Fine(r'))
    BY <1>1, <1>6, CancelKeeps DEF Cancel
  <2> QED
    BY <1>6, <2>1, CallKeeps DEF Cancel, Counts
<1>7. CASE SourceCloses
  <2>1. RGood(r') /\ Counts(r, r') /\ (Fine(r) => Fine(r'))
    BY <1>1, <1>7, ControllerCloseKeeps DEF SourceCloses
  <2> QED
    BY <1>7, <2>1, CallKeeps DEF SourceCloses, Counts
<1>8. CASE ControllerError
  <2>1. RGood(r') /\ Counts(r, r') /\ (Fine(r) => Fine(r'))
    BY <1>1, <1>8, RControllerErrorKeeps DEF ControllerError
  <2> QED
    BY <1>8, <2>1, CallKeeps DEF ControllerError, Counts
<1>9. CASE Enqueue
  <2>1. /\ CanCloseOrEnqueue(r) /\ r.chunks + Len(stack) < MaxChunks
        /\ reentered' = reentered
    BY <1>9 DEF Enqueue
  <2>2. r.st = "readable" /\ r.algs /\ r.chunks < MaxChunks
    BY <1>1, <1>2, <2>1 DEF CanCloseOrEnqueue, RGood
  <2>3. CASE r.reader # NoReader /\ r.reqs[r.reader] # <<>>
    <3>1. r' = EnqueueToReader(r, r.reader) /\ stack' = stack
      BY <1>9, <2>3 DEF Enqueue
    <3>2. /\ RGood(r') /\ r'.chunks = r.chunks + 1 /\ r'.reader = r.reader
          /\ (Fine(r) => Fine(r'))
      BY <1>1, <2>2, <2>3, <3>1, EnqueueToReaderKeeps
    <3>3. ~reentered => stack = <<>>
      BY <1>1, <2>3 DEF Quiet, NoRequests
    <3>4. Quiet'
      BY <1>1, <2>1, <3>1, <3>2, <3>3 DEF Quiet
    <3>5. StackFits'
      BY <1>2, <2>1, <3>1, <3>2 DEF StackFits
    <3> QED
      BY <1>1, <2>1, <3>2, <3>4, <3>5 DEF IInv
  <2>4. CASE ~(r.reader # NoReader /\ r.reqs[r.reader] # <<>>)
    <3>1. stack' = Append(stack, r.reader) /\ r' = r
      BY <1>9, <2>2, <2>4 DEF Enqueue
    <3>2. /\ stack' \in Seq(MaybeReader) /\ Len(stack') = Len(stack) + 1
          /\ \A i \in DOMAIN stack' : stack'[i] = r.reader \/ (i \in DOMAIN stack /\ stack'[i] = stack[i])
      BY <1>1, <1>2, <3>1, AppendProperties, LenProperties
    <3>3. NoRequests(r)
      <4>1. \A e \in ReaderIds : e # r.reader => r.reqs[e] = <<>>
        BY <1>1 DEF RGood, RBase, Requests
      <4>2. \A e \in ReaderIds : e = r.reader => r.reqs[e] = <<>>
        BY <1>1, <2>4
      <4> QED
        BY <4>1, <4>2 DEF NoRequests
    <3>4. Quiet'
      BY <1>1, <2>1, <2>2, <3>1, <3>2, <3>3 DEF Quiet
    <3>5. StackFits'
      BY <1>2, <2>1, <3>1, <3>2 DEF StackFits
    <3> QED
      BY <1>1, <2>1, <3>1, <3>4, <3>5 DEF IInv
  <2> QED
    BY <2>3, <2>4
<1>10. CASE SizeReturns
  <2> DEFINE d == stack[Len(stack)]
  <2>1. PICK z \in Sizes : r' = EnqueueAfterSize(r, d, z)
    BY <1>10 DEF SizeReturns
  <2>2. /\ stack # <<>> /\ stack' = SubSeq(stack, 1, Len(stack) - 1)
        /\ reentered' = reentered
    BY <1>10 DEF SizeReturns
  <2>3. Len(stack) \in Nat \ {0}
    BY <1>2, <2>2, EmptySeq
  <2>4. /\ stack' \in Seq(MaybeReader) /\ Len(stack') = Len(stack) - 1
        /\ DOMAIN stack' = 1..(Len(stack) - 1)
        /\ \A i \in 1..(Len(stack) - 1) : stack'[i] = stack[i] /\ i \in DOMAIN stack
    BY <1>2, <2>2, <2>3, SubSeqProperties, LenProperties
  <2>5. d \in MaybeReader /\ Len(stack) \in DOMAIN stack
    BY <1>2, <2>3
  <2>6. z \in Nat \cup {-1, -2} /\ r.chunks < MaxChunks
    BY <1>2, <2>3, ReadableBounds, ReadableAssumption
  <2>7. /\ RGood(r') /\ r'.chunks \in {r.chunks, r.chunks + 1} /\ r'.reader = r.reader
        /\ Fine(r) /\ NoRequests(r) /\ r.st # "closed" /\ d = r.reader
             => Fine(r') /\ NoRequests(r') /\ r'.st # "closed"
    BY <1>1, <2>1, <2>5, <2>6, EnqueueAfterSizeKeeps
  <2>8. Quiet'
    BY <1>1, <2>2, <2>4, <2>5, <2>7 DEF Quiet
  <2>9. StackFits'
    BY <1>2, <2>3, <2>4, <2>7 DEF StackFits
  <2> QED
    BY <1>1, <2>2, <2>7, <2>8, <2>9 DEF IInv
<1>11. CASE SourceStarted
  <2>1. RGood(r') /\ Counts(r, r') /\ (Fine(r) => Fine(r'))
    BY <1>1, <1>11, RStartSettledKeeps DEF SourceStarted
  <2> QED
    BY <1>11, <2>1, ReactionKeeps DEF SourceStarted, Counts
<1>12. CASE SourcePulled
  <2>1. RGood(r') /\ Counts(r, r') /\ (Fine(r) => Fine(r'))
    BY <1>1, <1>12, PullSettledKeeps DEF SourcePulled
  <2> QED
    BY <1>12, <2>1, ReactionKeeps DEF SourcePulled, Counts
<1>13. CASE SourceCancelled
  <2>1. RGood(r') /\ Counts(r, r') /\ (Fine(r) => Fine(r'))
    BY <1>1, <1>13, CancelSettledKeeps DEF SourceCancelled
  <2> QED
    BY <1>13, <2>1, ReactionKeeps DEF SourceCancelled, Counts
<1>14. CASE UNCHANGED vars
  BY <1>14 DEF vars, IInv, Quiet, StackFits
<1> QED
  BY <1>3, <1>4, <1>5, <1>6, <1>7, <1>8, <1>9, <1>10, <1>11, <1>12, <1>13, <1>14
     DEF Next, SourceAnswers

(* The inductive invariant: where every chunk and every request of a       *)
(* readable stream is, after any sequence of calls and reactions.          *)
THEOREM IInvHolds == Spec => []IInv
<1>1. IInv /\ [Next]_vars => IInv'
  BY ReadableStep
<1> QED
  BY <1>1, InitEstablishes, PTL DEF Spec

(* Nothing the source enqueues is lost or handed out twice, and no         *)
(* expect() of the controller is reached.                                  *)
THEOREM ChunksConservedHolds == Spec => []ChunksConserved
<1>1. ASSUME IInv PROVE ChunksConserved
  <2>1. RTypes(r) /\ ~r.panic /\ Stored(r) /\ Retained(r, {}) /\ Quiet
    BY <1>1 DEF IInv, RGood, RBase
  <2>2. DOMAIN r.rp = ReadIds /\ r.chunks \in 0..MaxChunks /\ r.queue \in Seq(ChunkIds)
    BY <2>1 DEF RTypes
  <2>3. \A v : v \in Delivered <=> WasRead(r, v)
    BY <2>2 DEF Delivered, WasRead, Got
  <2>4. \A v : v \in QueuedChunks <=> InQueue(r, v)
    BY DEF QueuedChunks, InQueue
  <2>5. \A v : v \in 1..r.chunks <=> v \in ChunkIds /\ v <= r.chunks
    BY <2>2, ReadableBounds, ReadableAssumption DEF ChunkIds
  <2>6. \A v : WasRead(r, v) => v \in 1..r.chunks /\ ~InQueue(r, v)
    BY <2>1 DEF Stored, WasRead
  <2>7. \A v : InQueue(r, v) => v \in 1..r.chunks
    BY <2>1, <2>2, <2>5 DEF Stored, InQueue
  <2>8. r.st = "readable" =>
          Delivered \cup QueuedChunks = 1..r.chunks /\ Delivered \cap QueuedChunks = {}
    BY <2>1, <2>3, <2>4, <2>5, <2>6, <2>7 DEF Retained
  <2>9. \A i, j \in DOMAIN r.rp :
          i # j /\ r.rp[i] = "chunk" /\ r.rp[j] = "chunk" => r.rv[i] # r.rv[j]
    BY <2>1, <2>2 DEF Stored, Got
  <2>10. r.st = "closed" /\ r.cancelP = "none" /\ ~reentered => Delivered = 1..r.chunks
    BY <2>1, <2>3, <2>5, <2>6 DEF Quiet, Fine, Complete
  <2> QED
    BY <2>1, <2>8, <2>9, <2>10 DEF ChunksConserved
<1> QED
  BY <1>1, IInvHolds, PTL

(* Reads are answered in the order they were made, and none waits while a  *)
(* chunk is queued.                                                        *)
THEOREM ReadsInOrderHolds == Spec => []ReadsInOrder
<1>1. ASSUME IInv PROVE ReadsInOrder
  <2>1. RGood(r) /\ Quiet /\ DOMAIN r.rp = ReadIds
    BY <1>1 DEF IInv, RGood, RBase, RTypes
  <2>2. r.reader # NoReader => r.reader \in ReaderIds
    BY <2>1, LockedReader
  <2> QED
    BY <2>1, <2>2 DEF ReadsInOrder, Quiet, Fine, Ordered, Got, NoRequests
<1> QED
  BY <1>1, IInvHolds, PTL

(* A reader's closed promise and its reads end with its stream.            *)
THEOREM ReaderEndsWithStreamHolds == Spec => []ReaderEndsWithStream
<1>1. ASSUME IInv PROVE ReaderEndsWithStream
  <2> SUFFICES ASSUME r.reader # NoReader, ~reentered
               PROVE  /\ r.closed[r.reader] =
                           CASE r.st = "readable" -> "pending" [] r.st = "closed" -> "ok"
                             [] r.st = "errored" -> "err"
                      /\ r.st # "readable" => r.reqs[r.reader] = <<>>
    BY Zenon DEF ReaderEndsWithStream
  <2>1. RGood(r) /\ Quiet /\ r.st \in {"readable", "closed", "errored"}
    BY <1>1 DEF IInv, RGood, RBase, RTypes
  <2>2. r.reader \in ReaderIds
    BY <2>1, LockedReader
  <2>3. Ended(r)
    BY <2>1 DEF Quiet, Fine
  <2> DEFINE p == CASE r.st = "readable" -> "pending" [] r.st = "closed" -> "ok"
                    [] r.st = "errored" -> "err"
  <2>4. /\ r.st = "readable" => p = "pending"
        /\ r.st = "closed" => p = "ok"
        /\ r.st = "errored" => p = "err"
    BY Zenon
  <2> HIDE DEF p
  <2>5. r.closed[r.reader] = p
    BY <2>1, <2>3, <2>4 DEF Ended, Shown
  <2>6. r.st # "readable" => r.reqs[r.reader] = <<>>
    BY <2>2, <2>3 DEF Ended, NoRequests
  <2> QED
    BY <2>5, <2>6, Zenon DEF p
<1> QED
  BY <1>1, IInvHolds, PTL
=============================================================================
