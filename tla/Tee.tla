---------------------------------- MODULE Tee ----------------------------------
(***************************************************************************)
(* tee(): one source stream read through a reader of its own, and two      *)
(* branch streams that each get every chunk (readable/stream/tee.rs, the   *)
(* default controller's tee).  All three are streams of ReadableOps; the   *)
(* branches pull by reading the source, and share the TeeState.            *)
(*                                                                         *)
(* A chunk read from the source goes to the branches in a job of its own   *)
(* (defer), which runs before any reaction queued later.                   *)
(*                                                                         *)
(* The names say Tee or Branch where Transform has the plain one: the      *)
(* proofs about both are in one module.                                    *)
(***************************************************************************)
EXTENDS ReadableOps, FiniteSets

CONSTANT SourceHwm  \* highWaterMark of the source

ASSUME TeeAssumption == SourceHwm \in Nat /\ MaxReaders >= 1 /\ MaxReads >= 1

VARIABLES
  source,  \* the stream that is read
  b,       \* the branches
  tee      \* the TeeState

teeVars == <<source, b, tee>>

Branches == {1, 2}
TeeReader == 1
NoJob == 0

(* `log' is what each branch was given, `cancelP' the shared cancel        *)
(* promise: "source" when it was resolved with the source's own.           *)
TeeInit ==
  /\ source = AcquireReader(NewReadable(SourceHwm))
  /\ b = [i \in Branches |-> AcquireReader(NewReadable(1))]
  /\ tee = [reading |-> FALSE, readAgain |-> FALSE, job |-> NoJob,
            cancelled |-> {}, cancelP |-> "pending", told |-> FALSE,
            log |-> [i \in Branches |-> <<>>], panic |-> FALSE]

State(r1, b1, t1) == [r |-> r1, b |-> b1, t |-> t1]
Now == State(source, b, tee)
Become(x) == source' = x.r /\ b' = x.b /\ tee' = x.t

ResolveCancel(t1) ==
  IF t1.cancelled = Branches THEN t1
  ELSE [t1 EXCEPT !.cancelP = IF @ = "pending" THEN "ok" ELSE @]

------------------------------------------------------------------------------
(* The read request on the source.                                         *)

CloseSteps(x) ==
  State(x.r,
        [i \in Branches |-> IF i \in x.t.cancelled THEN x.b[i]
                            ELSE RControllerClose(x.b[i], x.b[i].reader)],
        ResolveCancel([x.t EXCEPT !.reading = FALSE]))

(* What the answer of the outstanding read does, inside the call on the    *)
(* source that gave it.                                                    *)
Answer(x) ==
  CASE x.r.reads = 0 \/ x.t.job # NoJob \/ ~x.t.reading -> x
    [] x.r.reads # 0 /\ x.t.job = NoJob /\ x.t.reading ->
         CASE x.r.rp[1] = "chunk" -> [x EXCEPT !.t.job = x.r.rv[1]]
           [] x.r.rp[1] = "done"  -> CloseSteps(x)
           [] x.r.rp[1] = "err"   -> [x EXCEPT !.t.reading = FALSE]
           [] OTHER               -> x

(* tee_pull_algorithm.                                                     *)
TeePull(x) ==
  IF x.t.reading THEN [x EXCEPT !.t.readAgain = TRUE]
  ELSE Answer(State(DefaultReaderRead([x.r EXCEPT !.reads = 0], TeeReader), x.b,
                    [x.t EXCEPT !.reading = TRUE]))

(* A step of branch i from c0 to c1, with the pull it makes.               *)
BranchStep(x, i, c0, c1) ==
  LET y == [x EXCEPT !.b[i] = c1]
  IN  IF "pull" \in c1.pend \ c0.pend THEN TeePull(y) ELSE y

(* Mutant: a chunk goes only to a branch that has a read waiting.          *)
EnqueueToWaiting(x, i) ==
  LET c == x.b[i]
  IN  IF i \in x.t.cancelled \/ ~CanCloseOrEnqueue(c) \/ c.reqs[TeeReader] = <<>> THEN x
      ELSE BranchStep([x EXCEPT !.t.log[i] = Append(@, x.t.job)], i, c,
                      EnqueueToReader(c, TeeReader))

EnqueueTo(x, i) ==
  LET c == x.b[i]
      y == [x EXCEPT !.t.log[i] = Append(@, x.t.job)]
  IN  IF i \in x.t.cancelled \/ ~CanCloseOrEnqueue(c) THEN x
      ELSE IF c.reader # NoReader /\ c.reqs[TeeReader] # <<>>
      THEN BranchStep(y, i, c, EnqueueToReader(c, TeeReader))
      ELSE BranchStep(y, i, c, EnqueueAfterSize(c, c.reader, 1))

(* Mutant: demand that arose while the chunk was handed out is forgotten.  *)
GiveChunkOnce ==
  LET x == EnqueueTo(EnqueueTo([Now EXCEPT !.t.readAgain = FALSE], 1), 2)
  IN  /\ tee.job # NoJob
      /\ Become([x EXCEPT !.t.reading = FALSE, !.t.job = NoJob])

(* The deferred half of chunk_steps.                                       *)
GiveChunk ==
  LET x == EnqueueTo(EnqueueTo([Now EXCEPT !.t.readAgain = FALSE], 1), 2)
      y == [x EXCEPT !.t.reading = FALSE, !.t.job = NoJob]
  IN  /\ tee.job # NoJob
      /\ Become(IF y.t.readAgain THEN TeePull(y) ELSE y)

------------------------------------------------------------------------------
(* The branches' readers.                                                  *)

BranchRead(i) ==
  /\ b[i].reads < MaxReads
  /\ Become(BranchStep(Now, i, b[i], DefaultReaderRead(b[i], TeeReader)))

(* Mutant: either branch's cancel cancels the source.                      *)
TeeCancelEither(x, i) ==
  LET y == [x EXCEPT !.t.cancelled = @ \cup {i}]
      outcome == IF x.r.st = "readable" THEN "source" ELSE "ok"
      z == Answer([y EXCEPT !.r = ReadableCancel(x.r, TeeReader)])
  IN  [z EXCEPT !.t.cancelP = IF @ = "pending" THEN outcome ELSE @]

(* tee_cancel_algorithm: the second cancel cancels the source, which       *)
(* answers the read that is outstanding there.                             *)
TeeCancel(x, i) ==
  LET y == [x EXCEPT !.t.cancelled = @ \cup {i},
                     !.t.panic = @ \/ i \in x.t.cancelled]
      outcome == CASE x.r.st = "readable" -> "source"
                   [] x.r.st = "closed"   -> "ok"
                   [] x.r.st = "errored"  -> "err"
  IN  IF y.t.cancelled # Branches THEN y
      ELSE LET z == Answer([y EXCEPT !.r = ReadableCancel(x.r, TeeReader)])
           IN  [z EXCEPT !.t.cancelP = IF @ = "pending" THEN outcome ELSE @]

BranchCancel(i) ==
  /\ b[i].st = "readable"
  /\ Become(TeeCancel([Now EXCEPT !.b[i] = ReadableCancel(b[i], TeeReader)], i))

------------------------------------------------------------------------------
(* The source.                                                             *)

SourceEnqueues ==
  /\ CanCloseOrEnqueue(source) /\ source.chunks < MaxChunks
  /\ Become(Answer([Now EXCEPT !.r = IF source.reqs[TeeReader] # <<>>
                                     THEN EnqueueToReader(source, TeeReader)
                                     ELSE EnqueueAfterSize(source, TeeReader, 1)]))

SourceCloses ==
  /\ CanCloseOrEnqueue(source)
  /\ Become(Answer([Now EXCEPT !.r = RControllerClose(source, TeeReader)]))

SourceErrs ==
  /\ source.st = "readable"
  /\ Become(Answer([Now EXCEPT !.r = RControllerError(source, TeeReader)]))

SourceAnswers == SourceEnqueues \/ SourceCloses \/ SourceErrs

SourceStarted ==
  /\ "start" \in source.pend
  /\ Become([Now EXCEPT !.r = RStartSettled(source, TRUE)])

SourcePulled ==
  /\ "pull" \in source.pend
  /\ Become([Now EXCEPT !.r = PullSettled(source, TRUE)])

SourceCancelSettled ==
  /\ "cancel" \in source.pend
  /\ \E ok \in BOOLEAN : Become([Now EXCEPT !.r = CancelSettled(source, ok)])

------------------------------------------------------------------------------
(* Reactions of the tee.                                                   *)

BranchStarted(i) ==
  /\ "start" \in b[i].pend
  /\ Become(BranchStep(Now, i, b[i], RStartSettled(b[i], TRUE)))

(* A pull's promise is resolved from the start.                            *)
BranchPulled(i) ==
  /\ "pull" \in b[i].pend /\ tee.job = NoJob
  /\ Become(BranchStep(Now, i, [b[i] EXCEPT !.pend = @ \ {"pull"}],
                       PullSettled(b[i], TRUE)))

CancelOutcome == IF tee.cancelP = "source" THEN source.cancelP ELSE tee.cancelP

BranchCancelled(i) ==
  /\ "cancel" \in b[i].pend /\ CancelOutcome \in {"ok", "err"}
  /\ Become([Now EXCEPT !.b[i] = CancelSettled(b[i], CancelOutcome = "ok")])

(* The rejection of the source reader's closed promise.                    *)
SourceErrored ==
  /\ source.closed[TeeReader] = "err" /\ ~tee.told /\ tee.job = NoJob
  /\ Become(State(source, [i \in Branches |-> RControllerError(b[i], b[i].reader)],
                  ResolveCancel([tee EXCEPT !.told = TRUE])))

TeeNext ==
  \/ GiveChunk \/ SourceErrored
  \/ \E i \in Branches : BranchRead(i) \/ BranchCancel(i) \/ BranchStarted(i)
                           \/ BranchPulled(i) \/ BranchCancelled(i)
  \/ SourceAnswers \/ SourceStarted \/ SourcePulled \/ SourceCancelSettled

TeeSpec == TeeInit /\ [][TeeNext]_teeVars

------------------------------------------------------------------------------
(* Properties.                                                             *)

(* Both branches get every chunk once, in the source's order: neither a    *)
(* slower reader nor the other branch's cancel() makes one miss or repeat  *)
(* a chunk, and between jobs two open branches have had the same chunks.   *)
(* No expect() is reached: in the three streams, or "tee stream already    *)
(* has a cancel reason".                                                   *)
BranchesGetEveryChunk ==
  /\ ~source.panic /\ ~tee.panic /\ \A i \in Branches : ~b[i].panic
  /\ \A i \in Branches : \A k \in DOMAIN tee.log[i] : tee.log[i][k] = k
  /\ (\A i \in Branches : b[i].st = "readable") /\ tee.job = NoJob =>
       tee.log[1] = tee.log[2]

(* No demand is forgotten: while a reader of an open branch waits, the     *)
(* source is being read, or the branch will pull again, or the source's    *)
(* error is on its way.  It is what read_again is for when one branch asks *)
(* while the other has the read.                                           *)
DemandNotLost ==
  \A i \in Branches :
    CanCloseOrEnqueue(b[i]) /\ b[i].started /\ b[i].reqs[TeeReader] # <<>> =>
      \/ tee.reading \/ (b[i].pulling /\ b[i].pullAgain)
      \/ source.st = "errored" /\ ~tee.told

(* Cancelling both branches cancels the source and answers both; one       *)
(* cancelled branch leaves the source to the other.                        *)
CancelReachesSource ==
  /\ tee.cancelled = Branches => source.st # "readable" /\ tee.cancelP # "pending"
  /\ source.cancelP # "none" => tee.cancelled = Branches
==============================================================================
