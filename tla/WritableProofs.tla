--------------------------- MODULE WritableProofs ---------------------------
(***************************************************************************)
(* Proofs about WritableStream, for every highWaterMark, every behaviour   *)
(* of size(), of the sink and of the abort signal's listeners, and every   *)
(* number of writes and writers: queue and requests match, a finished      *)
(* stream settles its promises, writes succeed in order, and a punctual    *)
(* writer's promises follow the stream.                                    *)
(*                                                                         *)
(* The four properties need each other.  A promise is settled because a    *)
(* reaction is awaited (InFlight, Promises); the reaction finds its chunk  *)
(* because the queue has its shape (Open); writes succeed in order because *)
(* requests do (Order); and the writer is told because the calls suspended *)
(* in size() and in the abort signal's listeners carry it (StackFits).     *)
(* Each operator has a lemma: what it keeps of Good, and whose promises it *)
(* settles.                                                                *)
(***************************************************************************)
EXTENDS WritableStream, StreamLemmas

(* A suspended write() or abort() and the writer it carries.               *)
Frames == [call : {"write", "abort"}, w : MaybeWriter]
(* The suspended writes, each of which may still add a write.              *)
WritesIn(q) == {i \in DOMAIN q : q[i].call = "write"}

(* Suspended calls carry the punctual writer and fit the bound on writes.  *)
StackFits ==
  /\ stack \in Seq(Frames)
  /\ s.writes + Cardinality(WritesIn(stack)) <= MaxWrites
  /\ Punctual(s) => \A i \in DOMAIN stack : stack[i].w = s.writer

(* The inductive invariant.                                                *)
IInv == Good(s) /\ Busy(s) /\ StackFits

(* The suspended writes can be counted.                                    *)
LEMMA WritesInCount ==
  ASSUME NEW q \in Seq(Frames)
  PROVE  IsFiniteSet(WritesIn(q)) /\ Cardinality(WritesIn(q)) \in Nat
<1>1. IsFiniteSet(DOMAIN q)
  <2>1. DOMAIN q = 1..Len(q) /\ Len(q) \in Nat
    BY LenProperties
  <2> QED
    BY <2>1, FS_Interval
<1>2. WritesIn(q) \subseteq DOMAIN q
  BY DEF WritesIn
<1> QED
  BY <1>1, <1>2, FS_Subset, FS_CardinalityType

(* A call that suspends adds one frame, and one write if it is a write().  *)
LEMMA PushEffect ==
  ASSUME NEW q \in Seq(Frames), NEW f \in Frames
  PROVE  LET p == Append(q, f)
         IN  /\ p \in Seq(Frames)
             /\ \A i \in DOMAIN p : p[i] = f \/ (i \in DOMAIN q /\ p[i] = q[i])
             /\ Cardinality(WritesIn(p)) <= Cardinality(WritesIn(q)) + 1
             /\ f.call # "write" => Cardinality(WritesIn(p)) = Cardinality(WritesIn(q))
<1> DEFINE p == Append(q, f)
           n == Len(q) + 1
<1>1. /\ p \in Seq(Frames) /\ Len(p) = n /\ Len(q) \in Nat
      /\ \A i \in 1..Len(q) : p[i] = q[i]
      /\ p[n] = f /\ DOMAIN p = 1..n /\ DOMAIN q = 1..Len(q)
  BY AppendProperties, LenProperties
<1> HIDE DEF p
<1>2. \A i \in DOMAIN p : p[i] = f \/ (i \in DOMAIN q /\ p[i] = q[i])
  BY <1>1
<1>3. /\ IsFiniteSet(WritesIn(q)) /\ Cardinality(WritesIn(q)) \in Nat
  BY WritesInCount
<1>4. CASE f.call = "write"
  <2>1. WritesIn(p) = WritesIn(q) \cup {n} /\ n \notin WritesIn(q)
    BY <1>1, <1>4 DEF WritesIn
  <2>2. Cardinality(WritesIn(p)) = Cardinality(WritesIn(q)) + 1
    BY <1>3, <2>1, FS_AddElement
  <2> QED
    BY <1>1, <1>2, <1>3, <1>4, <2>2 DEF p
<1>5. CASE f.call # "write"
  <2>1. WritesIn(p) = WritesIn(q)
    BY <1>1, <1>5 DEF WritesIn
  <2> QED
    BY <1>1, <1>2, <1>3, <2>1 DEF p
<1> QED
  BY <1>4, <1>5

(* A call that resumes takes its frame away.                               *)
LEMMA PopEffect ==
  ASSUME NEW q \in Seq(Frames), q # <<>>
  PROVE  LET p == SubSeq(q, 1, Len(q) - 1)
         IN  /\ p \in Seq(Frames) /\ Len(q) \in DOMAIN q
             /\ \A i \in DOMAIN p : i \in DOMAIN q /\ p[i] = q[i]
             /\ Cardinality(WritesIn(p)) <= Cardinality(WritesIn(q))
             /\ q[Len(q)].call = "write" =>
                  Cardinality(WritesIn(p)) + 1 = Cardinality(WritesIn(q))
<1> DEFINE n == Len(q)
           p == SubSeq(q, 1, n - 1)
<1>1. n \in Nat \ {0} /\ DOMAIN q = 1..n /\ \A i \in 1..n : q[i] \in Frames
  BY LenProperties, EmptySeq
<1>2. /\ p \in Seq(Frames) /\ Len(p) = n - 1
      /\ \A i \in 1..(n - 1) : p[i] = q[i]
      /\ DOMAIN p = 1..(n - 1)
  <2>1. \A i \in 1..(n - 1) : q[i] \in Frames
    BY <1>1
  <2>2. /\ p \in Seq(Frames) /\ Len(p) = (IF 1 <= n - 1 THEN (n - 1) - 1 + 1 ELSE 0)
        /\ \A i \in 1..((n - 1) - 1 + 1) : p[i] = q[1 + i - 1]
    BY <1>1, <2>1, SubSeqProperties
  <2> HIDE DEF p, n
  <2>3. Len(p) = n - 1
    BY <1>1, <2>2
  <2>4. \A i \in 1..(n - 1) : p[i] = q[i]
    BY <1>1, <2>2
  <2> QED
    BY <2>2, <2>3, <2>4, LenProperties
<1> HIDE DEF p
<1>3. /\ IsFiniteSet(WritesIn(p)) /\ Cardinality(WritesIn(p)) \in Nat
  BY <1>2, WritesInCount
<1>4. \A i \in DOMAIN p : i \in DOMAIN q /\ p[i] = q[i]
  BY <1>1, <1>2
<1>5. CASE q[n].call = "write"
  <2>1. WritesIn(q) = WritesIn(p) \cup {n} /\ n \notin WritesIn(p)
    BY <1>1, <1>2, <1>5 DEF WritesIn
  <2>2. Cardinality(WritesIn(q)) = Cardinality(WritesIn(p)) + 1
    BY <1>3, <2>1, FS_AddElement
  <2> QED
    BY <1>1, <1>2, <1>3, <1>4, <2>2 DEF p
<1>6. CASE q[n].call # "write"
  <2>1. WritesIn(q) = WritesIn(p)
    BY <1>1, <1>2, <1>6 DEF WritesIn
  <2> QED
    BY <1>1, <1>2, <1>3, <1>4, <1>6, <2>1 DEF p
<1> QED
  BY <1>5, <1>6

(* A new stream satisfies the invariant.                                   *)
LEMMA InitEstablishes ==
  Init => IInv
<1> SUFFICES ASSUME Init PROVE IInv
  OBVIOUS
<1>1. s = NewWritable(HighWaterMark) /\ stack = <<>>
  BY DEF Init
<1>2. Good(s) /\ Busy(s) /\ ~Punctual(s) /\ s.writes = 0
  BY <1>1, NewWritableGood, WritableAssumption
<1>3. StackFits
  <2>1. WritesIn(<<>>) = {}
    BY DEF WritesIn
  <2>2. Cardinality(WritesIn(stack)) = 0 /\ stack \in Seq(Frames)
    BY <1>1, <2>1, FS_EmptySet, EmptySeq
  <2> QED
    BY <1>1, <1>2, <2>2, WritableBounds DEF StackFits
<1> QED
  BY <1>2, <1>3 DEF IInv

(* A step that leaves the stack alone keeps the invariant when it keeps    *)
(* the lock.                                                               *)
LEMMA CallKeeps ==
  ASSUME IInv, UNCHANGED stack, Good(s'), Busy(s'), KeptWriter(s, s'),
         s'.writes + Cardinality(WritesIn(stack)) <= MaxWrites
  PROVE  IInv'
<1>1. ASSUME Punctual(s') PROVE Punctual(s) /\ s'.writer = s.writer
  <2>1. s.writer \in WriterIds
    BY <1>1 DEF Punctual, KeptWriter, IInv, Good, Base, Types, NoWriter, MaybeWriter, WriterIds
  <2> QED
    BY <1>1, <2>1 DEF Punctual, KeptWriter
<1> QED
  BY <1>1 DEF IInv, StackFits

(* A suspended call that resumes keeps the invariant, and uses the write   *)
(* it had reserved.                                                        *)
LEMMA ReturnKeeps ==
  ASSUME IInv, stack # <<>>, Pop, Good(s'), Busy(s'), KeptWriter(s, s'),
         \/ s'.writes = s.writes
         \/ stack[Len(stack)].call = "write" /\ s'.writes <= s.writes + 1
  PROVE  IInv'
<1>1. ASSUME Punctual(s') PROVE Punctual(s) /\ s'.writer = s.writer
  <2>1. s.writer \in WriterIds
    BY <1>1 DEF Punctual, KeptWriter, IInv, Good, Base, Types, NoWriter, MaybeWriter, WriterIds
  <2> QED
    BY <1>1, <2>1 DEF Punctual, KeptWriter
<1>2. /\ stack' \in Seq(Frames)
      /\ \A i \in DOMAIN stack' : i \in DOMAIN stack /\ stack'[i] = stack[i]
      /\ Cardinality(WritesIn(stack')) <= Cardinality(WritesIn(stack))
      /\ stack[Len(stack)].call = "write" =>
           Cardinality(WritesIn(stack')) + 1 = Cardinality(WritesIn(stack))
  BY PopEffect DEF Pop, IInv, StackFits
<1>3. /\ Cardinality(WritesIn(stack)) \in Nat /\ Cardinality(WritesIn(stack')) \in Nat
      /\ s.writes + Cardinality(WritesIn(stack)) <= MaxWrites
  BY <1>2, WritesInCount DEF IInv, StackFits
<1>4. s.writes \in 0..MaxWrites /\ s'.writes \in 0..MaxWrites
  BY DEF IInv, Good, Base, Types
<1>5. s'.writes + Cardinality(WritesIn(stack')) <= MaxWrites
  BY <1>2, <1>3, <1>4, WritableBounds, WritableAssumption
<1>6. Punctual(s') => \A i \in DOMAIN stack' : stack'[i].w = s'.writer
  BY <1>1, <1>2 DEF IInv, StackFits
<1> QED
  BY <1>2, <1>5, <1>6 DEF IInv, StackFits

(* The writer the innermost suspended call carries is the punctual writer, *)
(* if there is one.                                                        *)
LEMMA CarriedTold ==
  ASSUME IInv, stack # <<>>
  PROVE  Told(s, Carried)
<1>1. stack \in Seq(Frames) /\ Len(stack) \in DOMAIN stack
  BY PopEffect DEF IInv, StackFits
<1>2. stack[Len(stack)] \in Frames
  BY <1>1, LenProperties
<1> QED
  BY <1>1, <1>2 DEF Told, Carried, Frames, IInv, StackFits

(* Every step keeps the invariant.                                         *)
LEMMA WritableStep ==
  IInv /\ [Next]_vars => IInv'
<1> SUFFICES ASSUME IInv, [Next]_vars PROVE IInv'
  OBVIOUS
<1>1. /\ Good(s) /\ Busy(s) /\ StackFits /\ Types(s) /\ InFlight(s)
      /\ Told(s, s.writer)
  BY DEF IInv, Good, Base, Told, Types
<1>2. /\ stack \in Seq(Frames) /\ Cardinality(WritesIn(stack)) \in Nat
      /\ s.writes \in Nat /\ s.writes + Cardinality(WritesIn(stack)) <= MaxWrites
      /\ Suspended("write") = WritesIn(stack)
  <2>1. Suspended("write") = WritesIn(stack)
    BY DEF Suspended, WritesIn
  <2>2. s.writes \in Nat
    BY <1>1, WritableBounds, WritableAssumption DEF Types
  <2> QED
    BY <1>1, <2>1, <2>2, WritesInCount DEF StackFits
<1>3. ASSUME UNCHANGED stack, Good(s'), Busy(s'), Kept(s, s') PROVE IInv'
  BY <1>2, <1>3, CallKeeps, KeptIsKeptWriter
<1>4. CASE GetWriter
  <2> DEFINE late == stack # <<>> \/ "close" \in s.pend
  <2>1. /\ s' = AcquireWriter(s, late) /\ s.writers < MaxWriters /\ UNCHANGED stack
        /\ late \in BOOLEAN /\ (s.inClose => late)
    BY <1>1, <1>4 DEF GetWriter, InFlight
  <2>2. Good(s') /\ Busy(s') /\ s'.writes = s.writes /\ (Punctual(s') => ~late)
    <3> HIDE DEF late
    <3> QED
      BY <1>1, <2>1, AcquireKeeps
  <2>3. Punctual(s') => stack = <<>>
    BY <2>2
  <2> QED
    BY <1>1, <1>2, <2>1, <2>2, <2>3 DEF IInv, StackFits
<1>5. CASE ReleaseLock
  <2>1. s' = ReleaseWriter(s, s.writer) /\ s.writer # NoWriter /\ UNCHANGED stack
    BY <1>5 DEF ReleaseLock
  <2>2. Good(s') /\ Busy(s') /\ ~Punctual(s') /\ s'.writes = s.writes
    BY <1>1, <2>1, ReleaseKeeps
  <2> QED
    BY <1>1, <1>2, <2>1, <2>2 DEF IInv, StackFits
<1>6. CASE Write
  <2>1. s.writes + Cardinality(WritesIn(stack)) < MaxWrites
    BY <1>2, <1>6 DEF Write
  <2>2. CASE s.algs
    <3> DEFINE f == [call |-> "write", w |-> s.writer]
    <3>1. s' = s /\ stack' = Append(stack, f)
      BY <1>6, <2>2 DEF Write, Push
    <3>2. f \in Frames /\ f.w = s.writer
      BY <1>1 DEF Frames, Types
    <3> HIDE DEF f
    <3>3. /\ stack' \in Seq(Frames)
          /\ \A i \in DOMAIN stack' :
               stack'[i] = f \/ (i \in DOMAIN stack /\ stack'[i] = stack[i])
          /\ Cardinality(WritesIn(stack')) <= Cardinality(WritesIn(stack)) + 1
      BY <1>2, <3>1, <3>2, PushEffect
    <3>4. Cardinality(WritesIn(stack')) \in Nat
      BY <3>3, WritesInCount
    <3>5. s'.writes + Cardinality(WritesIn(stack')) <= MaxWrites
      BY <1>2, <2>1, <3>1, <3>3, <3>4, WritableBounds, WritableAssumption
    <3>6. Punctual(s') => \A i \in DOMAIN stack' : stack'[i].w = s'.writer
      BY <1>1, <3>1, <3>2, <3>3 DEF StackFits
    <3> QED
      BY <1>1, <3>1, <3>3, <3>5, <3>6 DEF IInv, StackFits
  <2>3. CASE ~s.algs
    <3>1. s' = WriteAfterSize(s, s.writer, 1) /\ UNCHANGED stack
      BY <1>6, <2>3 DEF Write
    <3>2. s.writes < MaxWrites
      BY <1>2, <2>1, WritableBounds, WritableAssumption
    <3>3. Good(s') /\ Busy(s') /\ KeptWriter(s, s') /\ s'.writes <= s.writes + 1
      BY <1>1, <3>1, <3>2, WriteAfterSizeKeeps
    <3>4. s'.writes \in 0..MaxWrites
      BY <3>3 DEF Good, Base, Types
    <3>5. s'.writes + Cardinality(WritesIn(stack)) <= MaxWrites
      BY <1>2, <2>1, <3>3, <3>4, WritableBounds, WritableAssumption
    <3> QED
      BY <3>1, <3>3, <3>5, CallKeeps
  <2> QED
    BY <2>2, <2>3
<1>7. CASE SizeReturns
  <2>1. stack # <<>> /\ stack[Len(stack)].call = "write" /\ Pop
    BY <1>7 DEF SizeReturns, Running
  <2>2. PICK size \in Sizes : s' = WriteAfterSize(s, Carried, size)
    BY <1>7 DEF SizeReturns
  <2>3. size \in Nat \cup {BadSize, SizeThrows}
    BY WritableBounds, WritableAssumption
  <2>4. Told(s, Carried)
    BY <2>1, CarriedTold
  <2>5. s.writes < MaxWrites
    <3> DEFINE p == SubSeq(stack, 1, Len(stack) - 1)
    <3>1. p \in Seq(Frames) /\ Cardinality(WritesIn(p)) + 1 = Cardinality(WritesIn(stack))
      BY <1>2, <2>1, PopEffect
    <3>2. Cardinality(WritesIn(p)) \in Nat
      BY <3>1, WritesInCount
    <3> HIDE DEF p
    <3> QED
      BY <1>2, <3>1, <3>2, WritableBounds, WritableAssumption
  <2>6. Good(s') /\ Busy(s') /\ KeptWriter(s, s') /\ s'.writes <= s.writes + 1
    BY <1>1, <2>2, <2>3, <2>4, <2>5, WriteAfterSizeKeeps
  <2> QED
    BY <2>1, <2>6, ReturnKeeps
<1>8. CASE Abort
  <2>1. CASE s.signalled
    <3>1. s' = AbortAfterSignal(s, s.writer) /\ UNCHANGED stack
      BY <1>8, <2>1 DEF Abort
    <3>2. Good(s') /\ Busy(s') /\ Kept(s, s')
      BY <1>1, <3>1, AbortAfterSignalKeeps
    <3> QED
      BY <1>3, <3>1, <3>2
  <2>2. CASE ~s.signalled
    <3> DEFINE f == [call |-> "abort", w |-> s.writer]
               y == [s EXCEPT !.signalled = TRUE]
    <3>1. s' = y /\ stack' = Append(stack, f)
      BY <1>8, <2>2 DEF Abort, Push
    <3>2. f \in Frames /\ f.w = s.writer /\ f.call # "write"
      BY <1>1 DEF Frames, Types
    <3> HIDE DEF f
    <3>3. /\ stack' \in Seq(Frames)
          /\ \A i \in DOMAIN stack' :
               stack'[i] = f \/ (i \in DOMAIN stack /\ stack'[i] = stack[i])
          /\ Cardinality(WritesIn(stack')) = Cardinality(WritesIn(stack))
      BY <1>2, <3>1, <3>2, PushEffect
    <3>4. Good(y) /\ Busy(y) /\ Agree(s, y, {"signalled"})
      BY <1>1, SignalKeeps
    <3> HIDE DEF y
    <3>10. y.writes = s.writes /\ y.writer = s.writer /\ y.wr = s.wr
      BY <3>4 DEF Agree
    <3>13. Good(s') /\ Busy(s')
      BY <3>1, <3>4
    <3>14. Punctual(s') => \A i \in DOMAIN stack' : stack'[i].w = s'.writer
      BY <1>1, <3>1, <3>2, <3>3, <3>10 DEF StackFits, Punctual
    <3> QED
      BY <1>2, <3>1, <3>3, <3>10, <3>13, <3>14 DEF IInv, StackFits
  <2> QED
    BY <2>1, <2>2
<1>9. CASE ListenersReturn
  <2>1. stack # <<>> /\ Pop /\ s' = AbortAfterSignal(s, Carried)
    BY <1>9 DEF ListenersReturn, Running
  <2>2. Good(s') /\ Busy(s') /\ Kept(s, s')
    BY <1>1, <2>1, CarriedTold, AbortAfterSignalKeeps
  <2> QED
    BY <2>1, <2>2, ReturnKeeps, KeptIsKeptWriter
<1>10. CASE ListenerThrows
  <2>1. stack # <<>> /\ Pop /\ s' = s
    BY <1>10 DEF ListenerThrows, Running
  <2> QED
    BY <1>1, <2>1, ReturnKeeps DEF KeptWriter
<1>11. CASE Close
  <2>1. ~CloseQueuedOrInFlight(s) /\ s' = WritableClose(s, s.writer) /\ UNCHANGED stack
    BY <1>11 DEF Close
  <2>2. Good(s') /\ Busy(s') /\ Kept(s, s')
    BY <1>1, <2>1, WritableCloseKeeps
  <2> QED
    BY <1>3, <2>1, <2>2
<1>12. CASE ControllerError
  <2>1. /\ s.st = "writable" /\ s' = ControllerErrorIfNeeded(s, s.writer)
        /\ UNCHANGED stack
    BY <1>12 DEF ControllerError
  <2>2. Base(s) /\ Follows(s) /\ s.abortReq = "none"
    BY <1>1, <2>1 DEF Good, Open
  <2>3. Base(s') /\ Busy(s') /\ Follows(s') /\ Kept(s, s') /\ s'.st # "writable"
    BY <1>1, <2>1, <2>2, ControllerErrorKeeps
  <2>4. Good(s')
    BY <2>3 DEF Good, Open
  <2> QED
    BY <1>3, <2>1, <2>3, <2>4
<1>13. CASE SinkStarted
  <2>1. "start" \in s.pend /\ UNCHANGED stack
    BY <1>13 DEF SinkStarted, Reaction
  <2>2. PICK ok \in BOOLEAN : s' = StartSettled(s, ok)
    BY <1>13 DEF SinkStarted
  <2>3. Good(s') /\ Busy(s') /\ Kept(s, s')
    BY <1>1, <2>1, <2>2, StartSettledKeeps
  <2> QED
    BY <1>3, <2>1, <2>3
<1>14. CASE SinkWrote
  <2>1. "write" \in s.pend /\ UNCHANGED stack
    BY <1>14 DEF SinkWrote, Reaction
  <2>2. PICK ok \in BOOLEAN : s' = WriteSettled(s, ok)
    BY <1>14 DEF SinkWrote
  <2>3. Good(s') /\ Busy(s') /\ Kept(s, s')
    BY <1>1, <2>1, <2>2, WriteSettledKeeps
  <2> QED
    BY <1>3, <2>1, <2>3
<1>15. CASE SinkClosed
  <2>1. "close" \in s.pend /\ UNCHANGED stack
    BY <1>15 DEF SinkClosed, Reaction
  <2>2. PICK ok \in BOOLEAN : s' = CloseSettled(s, ok)
    BY <1>15 DEF SinkClosed
  <2>3. CASE ok
    <3>1. s' = FinishInFlightClose(s, s.closeW)
      BY <2>2, <2>3 DEF CloseSettled
    <3>2. Good(s') /\ Busy(s') /\ Kept(s, s')
      BY <1>1, <2>1, <3>1, CloseOkKeeps
    <3> QED
      BY <1>3, <2>1, <3>2
  <2>4. CASE ~ok
    <3>1. s' = FinishInFlightCloseWithError(s, s.closeW)
      BY <2>2, <2>4 DEF CloseSettled
    <3>2. Good(s') /\ Busy(s') /\ Kept(s, s')
      BY <1>1, <2>1, <3>1, CloseFailedKeeps
    <3> QED
      BY <1>3, <2>1, <3>2
  <2> QED
    BY <2>3, <2>4
<1>16. CASE SinkAborted
  <2>1. "abort" \in s.pend /\ UNCHANGED stack
    BY <1>16 DEF SinkAborted, Reaction
  <2>2. PICK ok \in BOOLEAN : s' = AbortSettled(s, ok)
    BY <1>16 DEF SinkAborted
  <2>3. Good(s') /\ Busy(s') /\ Kept(s, s')
    BY <1>1, <2>1, <2>2, AbortSettledKeeps
  <2> QED
    BY <1>3, <2>1, <2>3
<1>17. CASE UNCHANGED vars
  <2>1. s' = s /\ stack' = stack
    BY <1>17 DEF vars
  <2> QED
    BY <1>1, <2>1 DEF IInv, StackFits
<1> QED
  BY <1>4, <1>5, <1>6, <1>7, <1>8, <1>9, <1>10, <1>11, <1>12, <1>13, <1>14, <1>15,
     <1>16, <1>17 DEF Next, UserCodeReturns

(* The inductive invariant holds after any sequence of calls, re-entrant   *)
(* callbacks and reactions of the sink.                                    *)
THEOREM IInvHolds == Spec => []IInv
<1> QED
  BY InitEstablishes, WritableStep, PTL DEF Spec

(* The queue is the write in flight, the write requests in order and the   *)
(* close sentinel, and no expect() of the controller is reached.           *)
THEOREM RequestsMatchQueueHolds == Spec => []RequestsMatchQueue
<1>1. IInv => RequestsMatchQueue
  <2> SUFFICES ASSUME IInv PROVE RequestsMatchQueue
    OBVIOUS
  <2>1. InFlight(s) /\ Open(s)
    BY DEF IInv, Good, Base
  <2> QED
    BY <2>1 DEF RequestsMatchQueue, InFlight, Open, Shape, Finished
<1> QED
  BY <1>1, IInvHolds, PTL

(* A closed or errored stream has nothing queued and leaves no promise of  *)
(* its callers pending, but for those that wait for the sink's abort().    *)
THEOREM FinishedSettlesHolds == Spec => []FinishedSettles
<1>1. IInv => FinishedSettles
  <2> SUFFICES ASSUME IInv, s.st \in {"closed", "errored"} 
               PROVE  /\ \A i \in DOMAIN s.wp : s.wp[i] # "pending"
                      /\ "abort" \notin s.pend => s.closeP # "pending" /\ s.abortP # "pending"
    BY DEF FinishedSettles
  <2>1. Types(s) /\ InFlight(s) /\ Promises(s)
    BY DEF IInv, Good, Base
  <2>2. s.writeReqs = <<>> /\ s.inWrite = NoChunk /\ ~s.inClose /\ s.abortReq = "none"
    BY <2>1 DEF InFlight, Finished
  <2>3. \A i \in WriteIds : ~Waiting(s, i)
    BY <2>2 DEF Waiting, WriteIds, NoChunk
  <2>4. DOMAIN s.wp = WriteIds
    BY <2>1 DEF Types
  <2> QED
    BY <2>1, <2>2, <2>3, <2>4 DEF Promises, Finished
<1> QED
  BY <1>1, IInvHolds, PTL

(* A write succeeds only after every earlier write, and a close only after *)
(* every write.                                                            *)
THEOREM WritesSucceedInOrderHolds == Spec => []WritesSucceedInOrder
<1>1. IInv => WritesSucceedInOrder
  <2> SUFFICES ASSUME IInv PROVE WritesSucceedInOrder
    OBVIOUS
  <2>1. Order(s) /\ DOMAIN s.wp = WriteIds
    BY DEF IInv, Good, Base, Types
  <2> QED
    BY <2>1 DEF WritesSucceedInOrder, Order
<1> QED
  BY <1>1, IInvHolds, PTL

(* The ready and closed promises of a writer acquired while no suspended   *)
(* call and no close in flight carried an older one follow the stream.     *)
THEOREM PunctualWriterFollowsHolds == Spec => []PunctualWriterFollows
<1>1. IInv => PunctualWriterFollows
  BY DEF IInv, Good, Follows, Punctual, Shows, PunctualWriterFollows, WriterFollowsStream
<1> QED
  BY <1>1, IInvHolds, PTL
=============================================================================
