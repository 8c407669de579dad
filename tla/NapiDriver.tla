------------------------------ MODULE NapiDriver -------------------------------
(***************************************************************************)
(* The N-API driver of one Env (driver.rs), its async work items and one   *)
(* thread-safe function (async_work.rs), and the two-phase dispose of the  *)
(* Env (env.rs).                                                           *)
(*                                                                         *)
(* The JavaScript thread is `js', its stack of native calls, and `loop',   *)
(* the run_loop task.  Every N-API call of an addon callback drains the    *)
(* driver first, so callbacks nest.  Workers and the threads that call the *)
(* thread-safe function run beside it and meet it in the job channel, the  *)
(* payload queue and the counters.                                         *)
(***************************************************************************)
EXTENDS Integers, Sequences, FiniteSets

CONSTANTS
  Works,     \* async work items
  Threads,   \* threads, each owning one reference to the function
  Payloads,  \* the data pointers passed to it
  MaxQueues, \* values of max_queue_size; 0 is unlimited
  MaxRerefs, \* bound on the calls of napi_ref_threadsafe_function
  Uses       \* what else the addon does: "cancel", "abort", "unref"

ASSUME NapiAssumption ==
  /\ IsFiniteSet(Works) /\ IsFiniteSet(Threads) /\ IsFiniteSet(Payloads)
  /\ MaxQueues \subseteq Nat /\ MaxRerefs \in Nat
  /\ Uses \subseteq {"cancel", "abort", "unref"}

VARIABLES
  d,     \* DriverState: the channel, the three counters, the flags
  f,     \* ThreadsafeFunction
  work,  \* AsyncWorkState of each item, and its blocking task; what its
         \* completions reported, `out', and how many there were, `done'
  js,    \* the stack of the JS thread, innermost first
  loop,  \* where run_loop is; `tail': one is past its loop, not yet finished
  tail,
  th,    \* each thread: its program counter and what it carries
  pay,   \* who owns each payload
  env    \* dispose_state and roots_released

vars == <<d, f, work, js, loop, tail, th, pay, env>>

(* The process made the function, whose driver loop is spawned but not yet *)
(* polled; JavaScript owns the references the threads do not.              *)
Init ==
  /\ d = [tx |-> TRUE, jobs |-> <<>>, pending |-> 0, idle |-> 1,
          inflight |-> 0, running |-> TRUE, finished |-> FALSE]
  /\ \E q \in MaxQueues :
     f = [state |-> "open", max |-> q, items |-> <<>>, closed |-> FALSE,
          refs |-> Cardinality(Threads) + 1, idle |-> 1, aborted |-> FALSE,
          finish |-> FALSE, finalized |-> 0, reg |-> TRUE, mine |-> TRUE,
          reref |-> 0]
  /\ work = [w \in Works |-> [st |-> "created", task |-> "none", posted |-> FALSE,
                              out |-> "none", done |-> 0]]
  /\ js = <<>>
  /\ loop = "spawned"
  /\ tail = FALSE
  /\ th = [t \in Threads |-> [pc |-> "idle", item |-> "none", blocking |-> FALSE,
                              ref |-> TRUE]]
  /\ pay = [p \in Payloads |-> "caller"]
  /\ env = [state |-> "active", roots |-> FALSE]

------------------------------------------------------------------------------
(* DriverState.                                                            *)

(* Mutant: completions that are still owed do not keep the loop.           *)
QuiescentButOwed(d1) == d1.pending = 0 /\ d1.idle = 0

Quiescent(d1) == d1.pending = 0 /\ d1.inflight = 0 /\ d1.idle = 0

(* post_job, when the sender is still there.                               *)
Post(d1, job) ==
  IF d1.tx THEN [d1 EXCEPT !.pending = @ + 1, !.jobs = Append(@, job)] ELSE d1

WakeIfQuiescent(d1) == IF Quiescent(d1) THEN Post(d1, <<"wake">>) ELSE d1

ReleaseKeepalive(d1) ==
  WakeIfQuiescent([d1 EXCEPT !.inflight = IF @ = 0 THEN 0 ELSE @ - 1])

(* Mutant: a completion that cannot be posted keeps its keepalive.         *)
PostCompleteLeaks(d1, job) == IF d1.tx THEN Post(d1, job) ELSE d1

(* post_async_complete_job: a completion that cannot be posted is dropped. *)
PostComplete(d1, job) == IF d1.tx THEN Post(d1, job) ELSE ReleaseKeepalive(d1)

DecPending(d1) == [d1 EXCEPT !.pending = IF @ = 0 THEN 0 ELSE @ - 1]

(* spawn_loop, on the JS thread.                                           *)
SpawnLoop(d1) == [d1 EXCEPT !.running = TRUE, !.finished = @ /\ d1.running]
LoopAfterSpawn(d1, l) == IF d1.running THEN l ELSE "spawned"

------------------------------------------------------------------------------
(* The thread-safe function.                                               *)

BeginClosing(f1) ==
  [f1 EXCEPT !.state = IF @ = "open" THEN "closing" ELSE @, !.closed = TRUE]

Abort(f1) == [BeginClosing(f1) EXCEPT !.aborted = TRUE]

(* Frames of the JS stack: a batch of payloads taken from the queue, the   *)
(* rest of finish_tsfn_release below it.                                   *)
BatchOf(items) == IF items = <<>> THEN <<>> ELSE << <<"batch", items>> >>
Batch(f1) == BatchOf(f1.items)
TakeAll(f1) == [f1 EXCEPT !.items = <<>>]

(* Mutant: the last payloads are handed out and stay in the queue.         *)
StartFinishKeeps(f1) ==
  IF f1.finish THEN [f1 EXCEPT !.reg = FALSE]
  ELSE [f1 EXCEPT !.finish = TRUE, !.closed = TRUE]

(* finish_tsfn_release up to its callbacks, once.                          *)
StartFinish(f1) ==
  IF f1.finish THEN [f1 EXCEPT !.reg = FALSE]
  ELSE TakeAll([f1 EXCEPT !.finish = TRUE, !.closed = TRUE])
FinishFrames(f1) == IF f1.finish THEN <<>> ELSE Append(Batch(f1), <<"finish">>)

------------------------------------------------------------------------------
(* The JS thread.  It leaves run_loop only where the task awaits.          *)

InLoop == loop \in {"top", "try", "exit", "last"}
Idle == js = <<>> /\ ~InLoop

(* Addon or script code runs, at the top level or in a callback; one that  *)
(* only tears a payload down is given no env and frees it.                 *)
UserCode == Idle \/ (js # <<>> /\ Head(js)[1] \in {"call", "complete"})

(* A parked recv() holds the receiver's lock, a drain holds it throughout. *)
RxFree == loop # "recv" /\ \A i \in DOMAIN js : js[i] # <<"drain">>

(* pop_front of a queue that may be empty.                                 *)
FirstOf(q) == IF q = <<>> THEN q ELSE <<Head(q)>>
RestOf(q)  == IF q = <<>> THEN q ELSE Tail(q)

(* The callbacks of a job run over the "job" frame, the dec_pending that    *)
(* follows process_driver_job.                                             *)
RunJob(frames, stack) ==
  LET d1 == [d EXCEPT !.jobs = Tail(@)]
  IN IF frames = <<>> THEN js' = stack /\ d' = DecPending(d1)
     ELSE js' = frames \o << <<"job">> >> \o stack /\ d' = d1

(* The completion of item w, unless one was dispatched before.             *)
TakeDone(w, out, stack) ==
  /\ IF work[w].posted
     THEN RunJob(<<>>, stack) /\ UNCHANGED work
     ELSE /\ RunJob(<< <<"complete", w>> >>, stack)
          /\ work' = [work EXCEPT ![w].posted = TRUE, ![w].out = out, ![w].done = @ + 1]
  /\ UNCHANGED f

(* process_driver_job of the first job.                                    *)
TakeJob(stack) ==
  LET job == Head(d.jobs)
  IN \/ /\ job[1] = "wake"
        /\ RunJob(<<>>, stack) /\ UNCHANGED <<f, work>>
     \/ /\ job[1] = "tsfn"
        /\ RunJob(BatchOf(FirstOf(f.items)), stack)
        /\ f' = [f EXCEPT !.items = RestOf(@)] /\ UNCHANGED work
     \/ /\ job[1] = "abort"
        /\ RunJob(Batch(f), stack) /\ f' = TakeAll(f) /\ UNCHANGED work
     \/ /\ job[1] = "release"
        /\ RunJob(FinishFrames(f), stack) /\ f' = StartFinish(f) /\ UNCHANGED work
     \/ job[1] = "done" /\ TakeDone(job[2], job[3], stack)

(* drain_threadsafe_functions takes the whole queue before it delivers.    *)
DrainThreadsafeFunctions(stack) ==
  IF f.reg THEN js' = Batch(f) \o stack /\ f' = TakeAll(f)
           ELSE js' = stack /\ UNCHANGED f

(* drain_driver_jobs, first thing in every N-API call and in every poll of *)
(* the event loop: with_env, poll_pending_drivers.  One that finds nothing *)
(* to do is left out.                                                      *)
Poll ==
  /\ UserCode /\ env.state # "finished"
  /\ LET spawn == d.pending > 0 /\ ~d.running
     IN /\ spawn \/ (RxFree /\ d.jobs # <<>>) \/ (f.reg /\ f.items # <<>>)
        /\ d' = IF spawn THEN SpawnLoop(d) ELSE d
        /\ loop' = IF spawn THEN "spawned" ELSE loop
  /\ IF RxFree THEN js' = << <<"drain">>, <<"tsfns">> >> \o js /\ UNCHANGED f
               ELSE DrainThreadsafeFunctions(js)
  /\ UNCHANGED <<work, tail, th, pay, env>>

(* drain_ready_jobs: one turn of its loop, or its end.                     *)
DrainJob ==
  /\ js # <<>> /\ Head(js) = <<"drain">> /\ d.jobs # <<>>
  /\ TakeJob(js)
  /\ UNCHANGED <<loop, tail, th, pay, env>>

DrainEnd ==
  /\ js # <<>> /\ Head(js) = <<"drain">> /\ d.jobs = <<>>
  /\ js' = Tail(js)
  /\ UNCHANGED <<d, f, work, loop, tail, th, pay, env>>

JobEnd ==
  /\ js # <<>> /\ Head(js) = <<"job">>
  /\ d' = DecPending(d)
  /\ js' = Tail(js)
  /\ UNCHANGED <<f, work, loop, tail, th, pay, env>>

DrainTsfns ==
  /\ js # <<>> /\ Head(js) = <<"tsfns">>
  /\ DrainThreadsafeFunctions(Tail(js))
  /\ UNCHANGED <<d, work, loop, tail, th, pay, env>>

(* consume_tsfn_payload: the callback of the next payload of the batch.    *)
Consume ==
  /\ js # <<>> /\ Head(js)[1] = "batch"
  /\ LET p == Head(Head(js)[2])
         op == IF f.aborted THEN "teardown" ELSE "call"
     IN /\ js' = << <<op, p>> >> \o BatchOf(Tail(Head(js)[2])) \o Tail(js)
        /\ pay' = [pay EXCEPT ![p] = IF f.aborted THEN "torn" ELSE "delivered"]
  /\ UNCHANGED <<d, f, work, loop, tail, th, env>>

CallReturns ==
  /\ js # <<>> /\ Head(js)[1] \in {"call", "teardown"}
  /\ js' = Tail(js)
  /\ UNCHANGED <<d, f, work, loop, tail, th, pay, env>>

(* dispatch_async_completion after the callback.                           *)
CompleteReturns ==
  /\ js # <<>> /\ Head(js)[1] = "complete"
  /\ d' = ReleaseKeepalive(d)
  /\ js' = Tail(js)
  /\ UNCHANGED <<f, work, loop, tail, th, pay, env>>

(* finish_tsfn_release from the finalizer on, and unregister_tsfn.         *)
FinishRelease ==
  /\ js # <<>> /\ Head(js) = <<"finish">>
  /\ f' = [f EXCEPT !.finalized = @ + 1, !.idle = 0, !.state = "closed", !.reg = FALSE]
  /\ d' = WakeIfQuiescent([d EXCEPT !.idle = @ - f.idle])
  /\ js' = Tail(js)
  /\ UNCHANGED <<work, loop, tail, th, pay, env>>

------------------------------------------------------------------------------
(* run_loop.  With the channel open and empty it looks at the counters     *)
(* again and yields if they moved; only the JS thread raises the ones that *)
(* are not jobs, so they have not.                                         *)

LoopTop ==
  /\ js = <<>> /\ loop \in {"spawned", "top"}
  /\ loop' = IF Quiescent(d) THEN "try" ELSE "recv"
  /\ UNCHANGED <<d, f, work, js, tail, th, pay, env>>

LoopTry ==
  /\ js = <<>> /\ loop = "try"
  /\ \/ /\ d.jobs # <<>>
        /\ loop' = "top"
        /\ TakeJob(js)
     \/ /\ d.jobs = <<>>
        /\ loop' = IF d.tx THEN "exit" ELSE "drain"
        /\ UNCHANGED <<d, f, work, js>>
  /\ UNCHANGED <<tail, th, pay, env>>

LoopRecv ==
  /\ js = <<>> /\ loop = "recv"
  /\ \/ /\ d.jobs # <<>>
        /\ loop' = "top"
        /\ TakeJob(js)
     \/ /\ d.jobs = <<>> /\ ~d.tx
        /\ loop' = "drain"
        /\ UNCHANGED <<d, f, work, js>>
  /\ UNCHANGED <<tail, th, pay, env>>

(* wait_until_quiescent: drain, look, yield.                               *)
LoopDrain ==
  /\ js = <<>> /\ loop = "drain"
  /\ \/ d.jobs # <<>> /\ js' = << <<"drain">> >> /\ UNCHANGED loop
     \/ d.jobs = <<>> /\ Quiescent(d) /\ loop' = "exit" /\ UNCHANGED js
  /\ UNCHANGED <<d, f, work, tail, th, pay, env>>

LoopExit ==
  /\ js = <<>> /\ loop = "exit"
  /\ d' = [d EXCEPT !.running = FALSE]
  /\ loop' = "last"
  /\ UNCHANGED <<f, work, js, tail, th, pay, env>>

(* The first look of the closing while loop follows without an await; the  *)
(* later ones come after a yield, when another run_loop may be running.    *)
LoopLast ==
  /\ js = <<>> /\ loop = "last"
  /\ loop' = "none"
  /\ IF Quiescent(d)
     THEN d' = [d EXCEPT !.finished = TRUE] /\ UNCHANGED <<js, tail>>
     ELSE js' = << <<"drain">> >> /\ tail' = TRUE /\ UNCHANGED d
  /\ UNCHANGED <<f, work, th, pay, env>>

LoopTail ==
  /\ Idle /\ tail
  /\ \/ /\ Quiescent(d)
        /\ d' = [d EXCEPT !.finished = TRUE] /\ tail' = FALSE /\ UNCHANGED js
     \/ /\ ~Quiescent(d) /\ RxFree /\ d.jobs # <<>>
        /\ js' = << <<"drain">> >> /\ UNCHANGED <<d, tail>>
  /\ UNCHANGED <<f, work, loop, th, pay, env>>

------------------------------------------------------------------------------
(* Async work, on the JS thread and in its blocking task.                  *)

QueueWork(w) ==
  /\ UserCode /\ env.state = "active"
  /\ work[w].st = "created"
  /\ work' = [work EXCEPT ![w].st = "queued", ![w].task = "spawned"]
  /\ d' = SpawnLoop([d EXCEPT !.inflight = @ + 1])
  /\ loop' = LoopAfterSpawn(d, loop)
  /\ UNCHANGED <<f, js, tail, th, pay, env>>

(* An item without an execute callback completes on the spot.              *)
QueueWorkInline(w) ==
  /\ UserCode /\ env.state = "active"
  /\ work[w].st = "created"
  /\ work' = [work EXCEPT ![w].st = "running", ![w].task = "ended"]
  /\ d' = SpawnLoop(PostComplete([d EXCEPT !.inflight = @ + 1], <<"done", w, "ok">>))
  /\ loop' = LoopAfterSpawn(d, loop)
  /\ UNCHANGED <<f, js, tail, th, pay, env>>

(* Mutant: an item that is running can be cancelled too.                   *)
CancelWorkRunning(w) ==
  /\ UserCode /\ "cancel" \in Uses /\ work[w].st \in {"queued", "running"}
  /\ work' = [work EXCEPT ![w].st = "cancelled"]
  /\ UNCHANGED <<d, f, js, loop, tail, th, pay, env>>

CancelWork(w) ==
  /\ UserCode /\ "cancel" \in Uses /\ work[w].st = "queued"
  /\ work' = [work EXCEPT ![w].st = "cancelled"]
  /\ UNCHANGED <<d, f, js, loop, tail, th, pay, env>>

WorkerStart(w) ==
  /\ work[w].task = "spawned"
  /\ \/ /\ work[w].st = "queued"
        /\ work' = [work EXCEPT ![w].st = "running", ![w].task = "executing"]
        /\ UNCHANGED d
     \/ /\ work[w].st = "cancelled"
        /\ work' = [work EXCEPT ![w].task = "ended"]
        /\ d' = PostComplete(d, <<"done", w, "cancelled">>)
  /\ UNCHANGED <<f, js, loop, tail, th, pay, env>>

WorkerEnd(w) ==
  /\ work[w].task = "executing"
  /\ work' = [work EXCEPT ![w].task = "ended"]
  /\ d' = PostComplete(d, <<"done", w, "ok">>)
  /\ UNCHANGED <<f, js, loop, tail, th, pay, env>>

------------------------------------------------------------------------------
(* The thread-safe function, on its threads.                               *)

Full == f.max > 0 /\ Len(f.items) >= f.max

(* napi_call_threadsafe_function: the look at `state'...                   *)
ThreadCall(t, p, blocking) ==
  /\ th[t].pc = "idle" /\ th[t].ref /\ pay[p] = "caller"
  /\ \A u \in Threads : th[u].item # p
  /\ f.reg /\ f.state = "open"
  /\ th' = [th EXCEPT ![t].pc = "admit", ![t].item = p, ![t].blocking = blocking]
  /\ UNCHANGED <<d, f, work, js, loop, tail, pay, env>>

(* ... and admit_and_post under the queue's lock.  A blocking call waits   *)
(* on the condition variable while the queue is full.  The payload of a    *)
(* call that fails stays with the caller.                                  *)
AdmitAndPost(t) ==
  /\ th[t].pc = "admit"
  /\ f.closed \/ ~Full \/ ~th[t].blocking
  /\ th' = [th EXCEPT ![t].pc = "idle", ![t].item = "none", ![t].blocking = FALSE]
  /\ IF f.closed \/ Full \/ ~d.tx THEN UNCHANGED <<d, f, pay>>
     ELSE /\ f' = [f EXCEPT !.items = Append(@, th[t].item)]
          /\ pay' = [pay EXCEPT ![th[t].item] = "queue"]
          /\ d' = Post(d, <<"tsfn">>)
  /\ UNCHANGED <<work, js, loop, tail, env>>

(* napi_release_threadsafe_function off the JS thread: the reference, and  *)
(* the end of the function with the last one.                              *)
Drop(f1) ==
  LET f2 == [f1 EXCEPT !.refs = @ - 1] IN IF f2.refs = 0 THEN BeginClosing(f2) ELSE f2

ThreadRelease(t) ==
  /\ \/ th[t].pc = "drop"
     \/ th[t].pc = "idle" /\ th[t].ref /\ f.reg
  /\ f' = Drop(f)
  /\ th' = [th EXCEPT ![t].pc = IF f.refs = 1 THEN "postrelease" ELSE "idle",
                      ![t].ref = FALSE]
  /\ UNCHANGED <<d, work, js, loop, tail, pay, env>>

ThreadAbort(t) ==
  /\ "abort" \in Uses /\ th[t].pc = "idle" /\ th[t].ref /\ f.reg
  /\ f' = Abort(f)
  /\ th' = [th EXCEPT ![t].pc = "postabort"]
  /\ UNCHANGED <<d, work, js, loop, tail, pay, env>>

ThreadPostAbort(t) ==
  /\ th[t].pc = "postabort"
  /\ d' = Post(d, <<"abort">>)
  /\ th' = [th EXCEPT ![t].pc = "drop"]
  /\ UNCHANGED <<f, work, js, loop, tail, pay, env>>

ThreadPostRelease(t) ==
  /\ th[t].pc = "postrelease"
  /\ d' = Post(d, <<"release">>)
  /\ th' = [th EXCEPT ![t].pc = "idle"]
  /\ UNCHANGED <<f, work, js, loop, tail, pay, env>>

------------------------------------------------------------------------------
(* The thread-safe function, on the JS thread.                             *)

(* napi_call_threadsafe_function, not blocking, by JavaScript's own thread. *)
JsCall(p) ==
  /\ UserCode /\ f.reg /\ f.mine /\ f.state = "open"
  /\ pay[p] = "caller" /\ \A t \in Threads : th[t].item # p
  /\ ~f.closed /\ ~Full /\ d.tx
  /\ f' = [f EXCEPT !.items = Append(@, p)]
  /\ pay' = [pay EXCEPT ![p] = "queue"]
  /\ d' = SpawnLoop(Post(d, <<"tsfn">>))
  /\ loop' = LoopAfterSpawn(d, loop)
  /\ UNCHANGED <<work, js, tail, th, env>>

(* napi_acquire_threadsafe_function, for a thread: the look at `state'...  *)
JsAcquire(t) ==
  /\ UserCode /\ f.reg /\ f.mine /\ f.state = "open"
  /\ th[t].pc = "idle" /\ ~th[t].ref
  /\ js' = << <<"acquire", t>> >> \o js
  /\ UNCHANGED <<d, f, work, loop, tail, th, pay, env>>

(* ... and the reference, which the thread owns from here.                 *)
JsAcquired ==
  /\ js # <<>> /\ Head(js)[1] = "acquire"
  /\ f' = [f EXCEPT !.refs = @ + 1]
  /\ th' = [th EXCEPT ![Head(js)[2]].ref = TRUE]
  /\ js' = Tail(js)
  /\ UNCHANGED <<d, work, loop, tail, pay, env>>

JsRelease ==
  /\ UserCode /\ f.reg /\ f.mine
  /\ f' = [f EXCEPT !.mine = FALSE]
  /\ js' = << <<"drop">> >> \o js
  /\ UNCHANGED <<d, work, loop, tail, th, pay, env>>

JsAbort ==
  /\ UserCode /\ "abort" \in Uses /\ f.reg /\ f.mine
  /\ f' = [TakeAll(Abort(f)) EXCEPT !.mine = FALSE]
  /\ js' = Batch(f) \o << <<"drop">> >> \o js
  /\ UNCHANGED <<d, work, loop, tail, th, pay, env>>

JsDrop ==
  /\ js # <<>> /\ Head(js) = <<"drop">>
  /\ f' = IF f.refs = 1 THEN StartFinish(Drop(f)) ELSE Drop(f)
  /\ js' = (IF f.refs = 1 THEN FinishFrames(f) ELSE <<>>) \o Tail(js)
  /\ UNCHANGED <<d, work, loop, tail, th, pay, env>>

JsUnref ==
  /\ UserCode /\ "unref" \in Uses /\ f.reg /\ f.idle = 1
  /\ f' = [f EXCEPT !.idle = 0]
  /\ d' = WakeIfQuiescent([d EXCEPT !.idle = @ - 1])
  /\ UNCHANGED <<work, js, loop, tail, th, pay, env>>

JsRef ==
  /\ UserCode /\ f.reg /\ f.idle = 0 /\ f.reref < MaxRerefs
  /\ f' = [f EXCEPT !.idle = 1, !.reref = @ + 1]
  /\ d' = SpawnLoop([d EXCEPT !.idle = @ + 1])
  /\ loop' = LoopAfterSpawn(d, loop)
  /\ UNCHANGED <<work, js, tail, th, pay, env>>

------------------------------------------------------------------------------
(* Dispose of the Env.                                                     *)

(* begin_dispose: close_all_tsfn_for_env, then the sender.                 *)
BeginDispose ==
  /\ Idle /\ env.state = "active"
  /\ env' = [env EXCEPT !.state = "beginning"]
  /\ IF f.reg /\ f.state # "closed"
     THEN /\ f' = StartFinish(Abort(f))
          /\ js' = FinishFrames(f) \o << <<"closesender">> >>
     ELSE /\ f' = [f EXCEPT !.reg = FALSE]
          /\ js' = << <<"closesender">> >>
  /\ UNCHANGED <<d, work, loop, tail, th, pay>>

CloseSender ==
  /\ js # <<>> /\ Head(js) = <<"closesender">>
  /\ env' = [env EXCEPT !.roots = d.inflight = 0]
  /\ d' = [d EXCEPT !.tx = FALSE]
  /\ js' = Tail(js)
  /\ UNCHANGED <<f, work, loop, tail, th, pay>>

(* main waits for idle and wait_finished; try_finish_dispose drains, looks *)
(* again, and frees the Env.                                               *)
FinishDispose ==
  /\ Idle /\ loop = "none" /\ ~tail
  /\ env.state = "beginning" /\ d.finished
  /\ js' = << <<"drain">>, <<"free">> >>
  /\ UNCHANGED <<d, f, work, loop, tail, th, pay, env>>

FreeEnv ==
  /\ js # <<>> /\ Head(js) = <<"free">>
  /\ env' = IF d.finished /\ Quiescent(d) THEN [state |-> "finished", roots |-> TRUE]
                                          ELSE [env EXCEPT !.state = "failed"]
  /\ js' = Tail(js)
  /\ UNCHANGED <<d, f, work, loop, tail, th, pay>>

------------------------------------------------------------------------------
Done ==
  /\ env.state = "finished" /\ \A t \in Threads : th[t].pc = "idle"
  /\ UNCHANGED vars

Next ==
  \/ Poll \/ DrainJob \/ DrainEnd \/ JobEnd \/ DrainTsfns \/ Consume
  \/ CallReturns \/ CompleteReturns \/ FinishRelease
  \/ LoopTop \/ LoopTry \/ LoopRecv \/ LoopDrain
  \/ LoopExit \/ LoopLast \/ LoopTail
  \/ \E w \in Works : \/ QueueWork(w) \/ QueueWorkInline(w) \/ CancelWork(w)
                      \/ WorkerStart(w) \/ WorkerEnd(w)
  \/ \E t \in Threads : \/ \E p \in Payloads, b \in BOOLEAN : ThreadCall(t, p, b)
                        \/ AdmitAndPost(t) \/ ThreadRelease(t) \/ ThreadAbort(t)
                        \/ ThreadPostAbort(t) \/ ThreadPostRelease(t)
                        \/ JsAcquire(t)
  \/ \E p \in Payloads : JsCall(p)
  \/ JsAcquired \/ JsRelease \/ JsAbort \/ JsDrop \/ JsUnref \/ JsRef
  \/ BeginDispose \/ CloseSender \/ FinishDispose \/ FreeEnv
  \/ Done

Spec == Init /\ [][Next]_vars

------------------------------------------------------------------------------
(* Properties.                                                             *)

Frames(op) == {i \in DOMAIN js : js[i][1] = op}

(* The completions still to be delivered, one keepalive each.              *)
InChannel(w) == \E i \in DOMAIN d.jobs : d.jobs[i][1] = "done" /\ d.jobs[i][2] = w
Owed(w) ==
  \/ work[w].task \in {"spawned", "executing"}
  \/ InChannel(w)
  \/ \E i \in Frames("complete") : js[i][2] = w

(* What quiescence is decided on is exact: pending counts the jobs queued  *)
(* and in dispatch, inflight the completions owed, idle the function's     *)
(* reference.  A keepalive released twice would let the loop leave under   *)
(* another item; one never released would keep the process.                *)
CountersExact ==
  /\ d.pending = Len(d.jobs) + Cardinality(Frames("job"))
  /\ d.inflight = Cardinality({w \in Works : Owed(w)})
  /\ d.idle = f.idle

InBatch(p) == {i \in Frames("batch") : \E k \in DOMAIN js[i][2] : js[i][2][k] = p}
Queued(p) == {k \in DOMAIN f.items : f.items[k] = p}

(* The payloads an accepted call handed over are in the queue or in one    *)
(* batch until their callback runs, once; each one in the queue has a job  *)
(* of its own in the channel, whoever emptied the queue in between; and a  *)
(* function that is closed holds nothing, whatever a thread was doing when *)
(* it closed.                                                              *)
PayloadsConserved ==
  /\ \A p \in Payloads :
       Cardinality(Queued(p)) + Cardinality(InBatch(p)) = IF pay[p] = "queue" THEN 1 ELSE 0
  /\ Len(f.items) <= Cardinality({i \in DOMAIN d.jobs : d.jobs[i] = <<"tsfn">>})
  /\ f.state = "closed" => f.items = <<>> /\ f.finalized = 1

(* An item completes at most once, however far apart, no completion of an  *)
(* item that completed is in the channel, and it completes as cancelled    *)
(* only if its execute never ran; once the roots are gone no completion is *)
(* on its way.                                                             *)
CompletionHonest ==
  /\ \A w \in Works :
       /\ work[w].out = "cancelled" => work[w].st = "cancelled"
       /\ work[w].out = "ok" => work[w].st = "running"
       /\ work[w].done <= IF InChannel(w) THEN 0 ELSE 1
  /\ env.roots => d.inflight = 0

(* A dispose that found the driver finished can free the Env: nothing in   *)
(* the channel, no task or worker that still names it.  And while a        *)
(* dispose waits there is a run_loop that will end its wait.               *)
DisposeSucceeds ==
  /\ env.state # "failed"
  /\ env.state = "finished" =>
       d.jobs = <<>> /\ loop = "none" /\ ~tail /\ \A w \in Works : ~Owed(w)
  /\ env.state = "beginning" /\ Idle => d.finished \/ loop # "none" \/ tail
================================================================================
