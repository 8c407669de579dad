# Raster: TLA+ models of the runtime's event loop, HTTP server, web streams and N-API driver

Raster is a Node-compatible JavaScript runtime in Rust on QuickJS. One thread
runs JavaScript and every tokio task of a runtime; workers and native add-ons
bring threads of their own. What is hard in it is seldom a computation. It is
that a step which looks atomic (run a batch of timers, answer a request) is a
sequence of awaits and callbacks, and that any of them may re-enter the same
state, drop the future that was half way through, or decide that nothing keeps
the process alive any more.

This directory holds TLA+ modules translated from that code, TLC
configurations that check them on small instances, and TLAPS proofs of the
main results for every size. Paths below are relative to the repository root.

## 1. Inventory

`PROJECT.json` lists every component, including those that are not modelled
and why. The ones that carry the program's own logic:

| component | state | operations | meets |
|---|---|---|---|
| timers (`modules/raster_runtime_timers/src/lib.rs`) | per-runtime list of entries, a `running` flag, the next deadline, `executing_hook_id`, a `Notify` | setTimeout/setInterval/setImmediate, clear, ref/unref, `poll_timers`, the loop task, discard at exit | event-loop references, drain loop, HTTP pump, synchronous import, async hooks |
| event-loop references (`libs/raster_runtime_utils/src/event_loop.rs`) | reference count, `http_inflight` | reference, unreference, Drop, adjust_http_inflight | everything that keeps the process alive |
| driver wake-ups (`libs/raster_runtime_utils/src/driver_poll.rs`) | one `Notify` per runtime, registry of native pollers | wake, poll | timers, N-API, drain loop |
| drain loop (`raster_runtime/src/drain.rs`) | none of its own | turn, idle, exit | all of the above, signals |
| http server (`modules/raster_runtime_http/src/server.rs`) | server flags and counters, a task and three channels per connection, the lock `HTTP_JS_ROOT`, request and response objects | listen, close, accept, dispatch, body loop, replies, closeAll/closeIdle, keep-alive | timers (pump), event-loop references, Hyper |
| http client, http2, net, dgram, tls | sockets, streams, agents | connect, write, end, destroy | event-loop references |
| signals (`raster_runtime/src/signal_bridge.rs`, process `lifecycle.rs`) | pending queue, snapshot of listener counts | watch, enqueue, deliver | drain loop, another thread |
| worker threads | thread state, message channels | post, receive, terminate, exit | main and worker isolates |
| N-API driver, async work, thread-safe functions (`modules/raster_runtime_napi/src/driver.rs`, `async_work.rs`, `env.rs`) | job channel, three keepalive counters, loop flags; status word of a work; bounded payload queue, thread count and life cycle of a function; dispose state | queue, cancel, complete, call, acquire, release, abort, ref, unref, drain, dispose | pool and add-on threads, drain loop |
| async hooks | stack of execution contexts | push, pop, restore | timers, promises, HTTP |
| child processes and IPC | channel, exit status, stdio | spawn, message, disconnect, exit, close | event-loop references |
| web streams (`modules/raster_runtime_stream_web/src`) | state, queue, requests and in-flight marks of a stream, promises of its reader or writer, `pulling`/`pull_again`, the transform's backpressure flag and promise, the tee's `reading`/`read_again` | write, close, abort, read, cancel, enqueue, error, lock and release, pipeTo, tee, transform | user code (sinks, sources, size(), listeners) and the promise queue |
| node streams | buffers, flags | read, write, pipe | events |
| module loader | require and import caches | load, resolve | timers (nested poll) |

Parts with no concurrency and little state (buffers, URLs, Intl, crypto
bindings, compression, path handling...) are unit-tested conversions; they are
listed in `PROJECT.json` as not modelled.

**What makes it hard**

* *Re-entrance.* `poll_timers` has three callers: the loop task, the pump that
  an HTTP handler runs while it awaits, and a synchronous import that blocks
  inside a callback of another poll. They share the list, the flag and
  `executing_hook_id`; each has a vector of collected calls of its own.
* *Counting.* A process exits when a count reaches zero. One increment too
  many hangs it, one too few kills it under a live handle, and the count
  saturates, so an error is silent.
* *Lost wake-ups.* The loop task sleeps in `select!`; creating a sooner
  timer, clearing, unref and the last unreference each have to wake it.
* *Dropped futures.* A connection that ends takes its service future with it
  at whatever await it stands on. Code after that await does not run.
* *Three-way rendezvous.* "close" is emitted by whichever of close(), the
  accept loop and the last connection comes last.
* *Repeated polling.* The body loop is one `select!` of four futures, made
  anew every turn.
* *User code inside an algorithm.* A stream's size(), its abort listeners, a
  sink or a transformer run in the middle of a stream operation and may call
  back into the same stream. The Rust code gives up its borrows there and goes
  on afterwards with the reader or writer it had before.
* *Promise order.* What a stream does next is decided by reactions to promises
  of the sink or source, which settle in any order with respect to calls.
* *Real threads.* Add-on threads and pool workers meet the JavaScript thread
  in a channel, a bounded queue with a condition variable and three counters
  that decide whether the driver loop, and with it the process, may end.

**What correct means**

* timers: each one-shot callback runs at most once, whoever polls; hook events
  come in order; a referenced timer fires; the loop does not oversleep; flag
  and task agree; the reference count is exact; a process with nothing to do
  exits.
* http server: handlers are serialised; "close" is emitted when, and only
  when, everything is down; idle closing spares requests; a response that was
  sent is returned; close with closeAllConnections completes.
* web streams: the request list and the queue stay in step, so no `expect()`
  is reached; chunks are delivered once and in order; every request settles; a
  pipe that succeeds has moved everything, and one that shuts down gives both
  locks back; both branches of a tee get every chunk; no demand is forgotten.
* N-API: the keepalive counters are exact; a payload is delivered once; an item
  reported cancelled never ran; a dispose that found the driver finished can
  free the Env.

`PROJECT.json`'s "hazards" names the lines where each of these could go wrong
and the properties that watch them.

## 2. Plan

Done, in this order:

1. `Timers` (with the reference count, the wake-ups, the pump, the import and
   the drain loop's part), `TimerQueue` as its abstract promise,
   `TimersRefinement`, `TimersProofs`.
2. `HttpServer`, `HttpServerProofs`.
3. `WritableOps` and `ReadableOps`, the algorithms of the two kinds of web
   stream; `WritableStream` and `ReadableStream`, each with the code that uses
   it; `Pipe`, `Transform` and `Tee`, which compose them.
4. `NapiDriver`: the driver loop, async work, a thread-safe function and the
   two-phase dispose.
5. Proofs of every invariant of `Timers`, `HttpServer`, `WritableStream`,
   `ReadableStream` and `NapiDriver` that a run checks: `TimersProofs`,
   `HttpServerProofs`, `WritableProofs`, `ReadableProofs`, `NapiProofs`.
6. `StreamLemmas`: what each operator of `WritableOps` and `ReadableOps` keeps
   of a stream, apart from any specification; on it, the proofs about the
   compositions, `PipeProofs` and `TransformTeeProofs`.

Next, most important first:

7. The byte controller and its pull-into descriptors, on the stream of
   `ReadableOps`.
8. `Drain`: `drain.rs`, `signal_bridge.rs`, `lifecycle.rs`, teardown in
   `main.rs`. The watcher thread against the listener snapshot; the idle future
   dropped by a signal; beforeExit that makes new work; the order of worker,
   N-API and VM shutdown. It composes with the references of `Timers`.
9. `WorkerThreads`: two isolates, messages, terminate against natural exit;
   abstract specification: one exit event, after the last message.
10. `AsyncHooks`, `ChildIpc`, `HttpClient`, then net/http2.

## 3. Modules and code

### Timers

Everything here runs on one thread, so an action is one uninterrupted stretch
of it. A poll is several actions, because every callback is JavaScript that may
create, clear, ref, unref, import (and so poll again) or throw.

| code | model |
|---|---|
| `RuntimeTimerState.timers`, `Timeout` | `timers` and one variable per field: `callback`, `deadline`, `interval`, `repeating`, `pendingDestroy`, `referenced` |
| `running`, `deadline`, `executing_hook_id`, `notify` | `running`, `stateDeadline`, `executing`, `timerTok` |
| `EventLoopRef`, `RuntimeLoopState.refs`, `http_inflight` | `loopRef`, `heldHandles`, `refs`; `request` (in flight unless "none") |
| the driver `Notify` | `driverTok`, `driverNotify` |
| `create_spawn_loop` | `SpawnLoop`, `WakeLoop`, `Park`; `task`, `sleepUntil` |
| `set_timeout_interval`, `clear_timeout_interval`, `TimerHandle` | `SetTimer` (with `ArmLoop`), `ClearTimer`, `RefTimer`, `UnrefTimer`, `DropHandle` |
| `poll_timers` | `BeginPoll`, then `StartCallback`, `EndCallback` or `ThrowCallback`, `FinishItem` for each call, `EndPoll`; `frames` is the stack of polls in progress |
| `JsEventLoopPump`, its `executing_timers` | `PumpTick`, `pumpVec`; `BeginRequest`, `Dispatch`, `EndRequest`, `AbandonRequest` |
| `wait_for_import_promise` | `ImportPoll` |
| `drain.rs`: `poll_drivers`, `stay_alive`, the exit | `Resume`, `StayAlive`, `NaturalExit` with `DiscardAllTimers` |

A tokio `Notify` is a count of notifications: one may be kept as a permit, the
others belong to registered waiters, and a waiter dropped with a notification
hands it on (`Clip`). `sort_unstable_by_key` is any sorted order. The hook
events, `born`, `cleared`, `unrefd` and `fires` are history the properties
read; no guard reads them.

`Uses` says whether JavaScript calls ref() ("ref") and unref() ("unref") and
whether it lets handles be collected ("collect").

`TimerQueue` is what setTimeout promises as long as only the loop polls: a
callback is called at most once, after its delay, and not ahead of a timeout
due earlier; until then it may be given up. `TimersRefinement` maps the list,
the call vectors and the calls made to it. A timeout waits while its entry has
its callback and, from the poll that collects it, while it is in a vector; the
sort of a batch and the strict comparison with the clock are what makes each
call the abstract one.

### HttpServer

An action is what one task does between two awaits, or one call JavaScript
makes. Between the emission of "request" and the first await of dispatch no
other task runs (`ThreadFree`); in the body loop and while the response is
awaited every other task may.

| code | model |
|---|---|
| `Server` | `listening`, `closing`, `closeEmitted`, `connections`, `serverRef`; `listener` is the task of `listen`, `stopMsg` its `close_tx` |
| `emit_close_if_ready` and its three callers | `EmitCloseIfReady` in `Close`, `ListenerStops`, `Drop` |
| `spawn_connection` | `conn` and the channels `closeMsg`, `idleMsg`, `activity`, timer `armed`; `Accept`, `ConnectionClose`, `IdleClose`, `Activity`, `IdleTimeout`, `ConnectionDone` |
| the service function | `Request` (both counters up), `Finish` (both down), `Drop` (the future is dropped, nothing comes down but what dies with it) |
| `dispatch`, `HTTP_JS_ROOT` | `svc`: wait, handler, body, reply; `lockOwner` with `Lock` in `Request`, `Unlock` in `Finish` and `Drop`; `Dispatch`, `Upgrade`, `HandlerDone`, `Reply` |
| the body loop | `BodyFrame`, `BodyDone`, `TooLarge`, `TimedOut`, `Millisecond`, `PumpTick` |
| `IncomingMessage`, `ServerResponse` | the record `req[c]`; `StartResponse`, `EndResponse`, `DestroyResponse`, `EndStream`, `Pause`, `DestroyRequest`, `Read`, `WriteContinue` |

The lock is state of its own. A request that arrives takes it or waits; the
guard goes with the future, when dispatch returns or is dropped, and the lock
then belongs to one of those that wait before that one has run, so it can be
dropped in between as well.

Hyper and clients are external and may do anything at any time. The constant
`Uses` names the features a program makes use of, so that a run can ask about
a program that, for instance, never calls pause().

The two models meet in `Timers`' view of a request: its `BeginRequest`,
`Dispatch`, `EndRequest` and `AbandonRequest` are `Request`, `Dispatch`,
`Finish` and `Drop` of `HttpServer`, seen from the count and the pump.

### WritableOps, WritableStream

`StreamBasics` holds what both kinds of stream share: how a promise settles, the
answers of size() and the Rust code's `expect()`.
The bounds of a stream's tables (`MaxWrites`, `MaxWriters`; `MaxChunks`,
`MaxReads`, `MaxReaders`) belong to `WritableOps` and `ReadableOps`. A stream is one record, and every algorithm of the Rust code is an operator
from a stream to a stream with the name it has in the code: the fields of
`WritableStream` and `WritableStreamDefaultController`, the status of each
promise a caller holds (`wp`, `closeP`, `abortP`, `wr`), and `pend`, the sink's
promises that have a reaction registered. The extra argument is the writer the
code carries along in `WritableStreamObjects`: operators reached from a
reaction refresh it, the others keep their caller's, and that is where a stale
one can come from.

| code | model |
|---|---|
| `WritableStream`, its controller | `s.st`, `writeReqs`, `inWrite`, `closeReq`, `inClose`, `abortReq`, `bp`; `queue`, `total`, `started`, `algs` |
| `WritableStreamDefaultWriter` | `s.wr[w]`: ready and closed |
| write(), abort() around user code | `Write`, then `SizeReturns`; `Abort`, then `ListenersReturn` or `ListenerThrows`; `stack` holds the suspended calls |
| getWriter, releaseLock, close, controller.error | `GetWriter`, `ReleaseLock`, `Close`, `ControllerError` |
| reactions to the sink's promises | `SinkStarted`, `SinkWrote`, `SinkClosed`, `SinkAborted` (each fulfilled or rejected) |
| `expect()` and `panic!` | `Panicked`; the first conjunct of `RequestsMatchQueue` excludes it |

### ReadableOps, ReadableStream

The same for a readable stream with a default controller: `queue`,
`closeRequested`, `pulling`, `pullAgain`, and for each reader its read requests
`reqs` and its closed promise. `rp[i]` and `rv[i]` are how read number i ended
and with which chunk. `served` says that the source has answered the pull in
flight, which only the fairness and the reaction `SourcePulled` look at;
`reentered` marks behaviours in which size() used the very stream it sizes for
other than to enqueue: three properties except them, because there the
Streams standard itself has a chunk overtaken or the older reader told.

### Pipe, Transform, Tee

They compose the operators above; one action is one reaction of the pipe, the
transformer or the tee together with all it does to both streams.

| code | model |
|---|---|
| `PipeTo`, `pipe_step`, `next` | `p.loop`: next, ready, reading, ended; `PipeStep`, `ReadyFulfilled`, `ReadyRejected`, `Deliver` (the read request's steps, run inside the call on the source that answers) |
| the four conditions and the signal | `SourceErrored`, `SourceClosed`, `DestErrored`, the look at the states in `PipeTo`, `SignalAborts` |
| `shutdown`, `shutdown_with_action`, `wait_for_writes_to_finish`, `finalize` | `Shutdown`, `WritesFinished`, `DoTheRest`, `ActionSettled`, `Finalize`; `p.phase` |
| `TransformStream`, its controller | `t.bp`, `t.promise`, `t.algs`; `t.sink` is what the sink's write algorithm waits for, `t.wait` and `t.pull` the promises a write and a pull() hold |
| `TeeState`, `tee_pull_algorithm`, `tee_cancel_algorithm` | `tee.reading`, `tee.readAgain`, `tee.job` (the deferred half of `chunk_steps`), `tee.cancelled`, `tee.cancelP`; `TeePull`, `GiveChunk`, `TeeCancel` |

The engine's promise queue is first in, first out. The models let reactions run
in any order, which is more than the engine does, except where a module relies
on the order: in `Pipe` a ready reaction that is queued runs before the
reactions queued after it (`ReadyQueued`), and in `Tee` the deferred job runs
before the reactions queued later.

### NapiDriver

The JavaScript thread is the stack `js` of native frames and the run_loop task
`loop`; an action runs to the next callback, await or lock. Every N-API call of
a callback drains the driver first (`Poll` in `UserCode`), so frames nest:
`drain`, `job`, `tsfns`, `batch`, `call`, `complete`, `finish`. Workers and the
threads that call the function interleave with it at every atomic operation and
every lock: the look at `state` and the entry into the queue are two actions
(`ThreadCall`, `AdmitAndPost`), so are a release and the post that follows.

| code | model |
|---|---|
| `DriverState` | `d`: `tx`, `jobs`, `pending`, `idle` (`idle_refs`), `inflight`, `running`, `finished` |
| `run_loop`, `wait_until_quiescent` | `LoopTop`, `LoopTry`, `LoopRecv`, `LoopDrain`, `LoopExit`, `LoopLast`; `tail`: a loop that cleared `loop_running` and still yields in its closing while (`LoopTail`) |
| `drain_driver_jobs`, `drain_ready_jobs`, `process_driver_job` | `Poll`, `DrainJob`, `DrainEnd`, `JobEnd`, `DrainTsfns`; `TakeJob` has a disjunct for each kind of job, `TakeDone` is the completion's, and `RunJob` leaves a job's callbacks on the stack or, when it has none, counts it done at once |
| `AsyncWorkState`, its blocking task | `work[w]`; `QueueWork`, `CancelWork`, `WorkerStart`, `WorkerEnd`, `CompleteReturns`; `QueueWorkInline` without an execute callback |
| `ThreadsafeFunction`, `TsfnQueue` | `f`; `ThreadCall`, `AdmitAndPost`, `ThreadRelease`, `ThreadAbort`, `JsCall`, `JsAcquire`, `JsRelease`, `JsAbort`, `JsDrop`, `JsUnref`, `JsRef`, `Consume`, `FinishRelease` |
| `begin_dispose`, `try_finish_dispose` and main's wait between them | `BeginDispose`, `CloseSender`, `FinishDispose`, `FreeEnv` |

## 4. Runs

Passing runs (distinct states in brackets):

| run | asks | bounds |
|---|---|---|
| `timers` (1.6 M) | as long as no timer was unref'd the loop sleeps past no deadline by more than `MIN_SLEEP`; `Timers` implements `TimerQueue` | three timeouts, delays 0 and 2, five ticks, clears, only the loop polls |
| `timers_poll` (4.1 M) | types; the count is exact; no one-shot fires twice, with the loop, the HTTP pump and polls nested in callbacks all polling, throwing and being abandoned | two timeouts, ref, unref, handles collected, one request, depth two |
| `timers_live` (219 k) | flag and task agree; a parked loop that nothing keeps has a wake-up on its way; an immediate goes before a timeout made no earlier; hook events come in order; every timeout and immediate is called unless it was cleared or unref'd; a process nothing keeps alive exits | two timers of any kind, delay 0, two ticks, unref, a socket that keeps the process, only the loop polls, fairness |
| `http` (1.0 M) | types and counters; "close" is neither lost nor early; handlers are serialised; the lock is not lost; idle closing spares requests | two keep-alive connections, two requests each, unref, closeAll, closeIdle, pause, resume |
| `http_live` (49 k) | a sent response is returned; shutdown completes | two connections, a request timeout of two ticks, closeAll, destroy, continue, upgrade, fairness |
| `web_writable` (15 k) | requests and queue in step; a finished stream leaves nobody waiting; writes succeed in order; the writer follows the stream; every request settles | three writes, two writers, nesting two, size() that answers, errs or throws, fairness |
| `web_readable` (89 k) | no chunk lost or repeated; reads answered in order; the reader ends with the stream; no read starves | three chunks, three reads, two readers, nesting one, fairness |
| `web_pipe` (232 k) | chunks written in order under backpressure; what is read is written; success means all was piped; every shutdown ends | two chunks, high water marks 1, four ways to call pipeTo(), fairness |
| `web_transform` (99 k) | the sink works on the chunk in flight; a read releases a write | two writes, three chunks, two reads, fairness |
| `web_tee` (2.6 M) | both branches get every chunk; no demand is lost; cancel reaches the source when both do | two chunks, two reads per branch |
| `napi` (1.1 M) | exact counters; payloads delivered once; completions honest; dispose succeeds | one work, one thread, two payloads, queue bounds 0 (none) and 1, one re-ref, dispose at any time |

One run shows a disagreement between the code and what the repository says of
it, a finding in `PROJECT.json`: `transform_panic`. After terminate(), error()
or a cancelled readable side the transformer's algorithms are gone while the
writable side stays writable, and the next chunk reaches
`expect("transform algorithm must exist")`.

**Counterexamples kept beside the runs.** These configurations are not part of
the regular runs; TLC refutes the property each names within seconds. They
record what the code does not keep, and can be run the same way:

| configuration, module | shows |
|---|---|
| `TimersPump`, `MCTimers` (`LoopStaysUp`) | the pump's poll raises `running` after the loop task has ended: nothing restarts it |
| `TimersSleep`, `MCTimers` (`LoopNeverOversleeps`) | a loop that ends with an unref'd timer still listed leaves the old `state.deadline` behind (`lib.rs:292`); the loop the next setTimeout starts sleeps until that timer's own deadline (`lib.rs:297-300`), past the listed one's |
| `TimersClear`, `MCTimers` (`ClearedNeverFires`) | a timer cleared by an earlier callback of its batch still fires |
| `HttpPaused`, `MCHttpServer` (`Answered`) | a response sent while the request is paused is not returned |
| `HttpTimeout`, `MCHttpServer` (`BodyTimesOut`) | the pump tick restarts the request timeout every millisecond |
| `HttpInflight`, `MCHttpServer` (`InflightExact`) | a dropped service future leaves `http_inflight` up |
| `WritableLate`, `MCWritable` (`ClosedStreamResolvesWriter`) | a writer acquired while the sink closes is not told that the stream closed |
| `ReadableRelease`, `MCReadable` (`ReleaseSettlesReads`) | releaseLock() leaves a pending read() pending for ever |

More behaviours were met while modelling that the repository says too little
about to hold the code to:

* a poll nested in a callback by a synchronous import resets
  `executing_hook_id`, so that a self-clear later in that callback emits
  destroy before after; `timers_live` therefore checks, and `HookOrderHolds` proves,
  `HookOrder` with the loop as the only poller. An interval cleared from outside once its call was collected
  gets before and after following its destroy, so `HookOrder` asks the full
  order of one-shots only;
* ref() on a finished timer holds the process until its handle is collected
  (the count stays exact), and writeContinue() after the handler's first turns
  has no effect;
* close() between listen() and the end of the bind emits "close" at once, and
  "listening" follows. With "earlyClose" in `Uses` TLC refutes
  `CloseMeansQuiet` in a few steps; the run and the theorem leave it out;
* in a pipe, a read can begin after the shutdown did, and a throwing listener
  of the sink's abort signal leaves the pipe's promise pending (the exception
  in `PipeEnds`);
* in a transform, abort() of the writable side and a transform() that rejects
  never err the readable side, and `set_backpressure` does not renew the
  change promise, so a write may go to the transformer in spite of
  backpressure;
* in N-API, a drain nested in a callback delivers newer payloads before the
  rest of the outer batch, and `finished` may be set while a second run_loop
  runs, which the dispose's second look at the counters makes harmless.

**Why the bounds are enough.** A timeout and an interval differ only in what
the poll does with the entry, a timeout and an immediate only in the deadline,
so each run takes the kinds its properties tell apart. Most timer hazards are
pairs: a timer and the one that clears it, a batch of two, a timer and a handle
that outlives it, a poll and the poll inside it. Two timers and a depth of two
have every such pair. What the loop sleeps for takes three: one it has polled
and sleeps for, one that is sooner and must wake it, one that is later and must
not; delays of 0 and 2 and a clock to 5 let a loop end, leave its deadline
behind and be restarted (`timers`).
`MaxTasks` = 2 in `timers_live` allows the second loop task that a wrong flag
would spawn. In `timers_poll` it is 1: a second loop task would be one more caller that polls
while no other poll is in progress, which the pump already is. `MaxTime` 2 to 5 lets a delay
pass, an interval rearm and fire again. `ImmediateLead` is larger than
`MaxTime`, as the code's lead is larger than any time a poll waits, and `Far`
is never reached. For HTTP, two connections have every overlap of handlers and
three have a "last but one"; two requests per connection have a keep-alive
timer that meets the next request; one body frame has a body that fits and one
that does not. For streams, three writes have one in flight, one queued and one
made by nested code, and a second writer or reader is what a stale one can be
confused with; a chunk in the queue, one in flight and one still to come make
the cases of a pipe and a tee. The four sets of options in `web_pipe` set each
flag both ways, each with and without a signal. For N-API, one thread that
calls, releases and aborts beside a JavaScript thread that does the same has
every race on the queue and on the last reference; queue bounds 0 and 1 have
the unlimited and the full queue; two payloads have a batch with a rest. Every bound is a named constant and a guard: `SetTimer` stops
making timers that would fall due after `MaxTime`, so the end of time cuts no
timer off.

**Deadlock** is checked in `timers`, `timers_live`, `http`, `http_live` and
`napi`. Not in `timers_poll`: an abandoned request leaves the in-flight count up
(the subject of `HttpInflight`), and then the process waits forever at the end
of time. Not in the stream runs: a stream that is closed and unlocked, with
every bound used up, has nothing left to do.

**Symmetry** permutes the connections and the payloads, in runs without liveness
properties.

**Fairness.** Timers: the clock advances (strong fairness: `Tick` waits for the
actions between two awaits, which come again and again, but real time passes
whatever the thread does); tokio polls a task that is ready; a
callback returns and its poll goes on; the drain loop turns (`drain.rs` bounds
its idle by 20 ms). HTTP: the bind completes; a handler returns; a `select!`
with a ready branch is polled; ticks and milliseconds come; and, because
`select!` tries its branches in random order, the timeout branch that is ready
again and again is taken (the only strong fairness of HTTP). In both, JavaScript and
clients owe nothing: no call, no body, no resume, no end of a request.
Streams: user code that was called returns, a promise of the sink or the source
settles one way or the other, and a reaction gets its turn. That is strong
fairness where calls of other jobs can come in between again and again: the
promise queue is first in, first out, so such a call delays a reaction but
cannot overtake it for ever. In `web_readable` a source that was asked answers
the pull; in `web_pipe` it owes nothing, neither a chunk nor an end.

**Mutants.** Each property of a passing run has a mutant in `PROJECT.json`, a
definition marked "Mutant:" beside the one it replaces, that breaks it.

## 5. Proofs

All theorems hold for every value of the constants that satisfies the
assumption named in the module that declares them: finite sets, natural bounds
and high water marks, room for the reader and the writer a composition
acquires (`WritableBounds`, `ReadableBounds`, `PipeBounds`...). A theorem that
needs more says so below.

| module | obligations | proves |
|---|---|---|
| `TimersProofs` | 4657 | the count is exact; one loop, released when nothing keeps it, sleeping past no deadline; a one-shot is called at most once, whoever polls; hook events in order, immediates first; `Timers` implements `TimerQueue` |
| `HttpServerProofs` | 643 | counters, serial handlers, a lock that is not lost, "close" |
| `StreamLemmas` | 5838 | what every operator keeps of a writable and of a readable stream |
| `WritableProofs` | 519 | all invariants of `WritableStream` |
| `ReadableProofs` | 336 | all invariants of `ReadableStream` |
| `PipeProofs` | 1806 | all invariants of `Pipe` |
| `TransformTeeProofs` | 2986 | all invariants of `Transform` and of `Tee` |
| `NapiProofs` | 5869 | all invariants of `NapiDriver` |

`TimersProofs`

* `TypesHold`, `CountIsExact`: `Spec => []TypeOK`, `Spec => []RefsExact`. The
  inductive invariant is `TypeOK /\ Allocated /\ RefsExact`. `RefsExact` alone
  is not inductive: `SetTimer` adds one to the count and the new id to
  `loopRef`, which is right only if the id was not there (`Allocated`: only
  ids below `nextId` hold anything), and a release subtracts the size of an
  intersection with saturation, which is exact only for finite sets
  (`ReleaseCount`). There is one step per action; every release goes through
  `UnreferenceExact`, every poll through `BeginPollIInv`.
* `OneLoopHolds`, `ParkedLoopIsReleased`, `SleepCoversHolds` assume
  `OnlyTheLoopPolls` (no requests, no import): with a pump the first is false,
  which `TimersPump` shows. The invariant is
  `LInv == IInv /\ OneLoop /\ Listed /\ Released /\ Covered`. `OneLoop` relates
  the flag, the task and the poll in progress, so that a spawn finds no other
  loop; `Listed` says which entries of the list may still be called and that the
  others are due, so that an ending loop leaves no referenced timer behind;
  `Released` that a task about to wait, or waiting, is kept by something or has
  a notification pending; `Covered` that without a pending notification the
  sleep and the stored deadline bound every timer's, and that without a loop
  there is no timer to bound.

* `FiresOnceHolds`, for all pollers: the loop, the pump of every request and
  imports nested to any depth. `FInv == IInv /\ Queues /\ Unfired /\ FiresAtMostOnce`.
  `Queues` says of the call vectors, one per frame of the stack of polls and one
  per pump: none holds a one-shot twice, no two hold the same one, and a
  one-shot in one of them has lost its callback in the list and was not called.
  The collected vector is a sorted sequence of a set of as many elements, and a
  surjection between sets of one size is injective; that is why it has no
  duplicates.

* `HookOrderHolds`, `ImmediateFirstHolds` assume `OnlyTheLoopPolls`. `OInv == LInv /\ FInv /\ Hooked /\
  Ordered`. `Hooked`: where a timer is (listed, collected, in its callback,
  gone) tells which hook event was its last. `Ordered`: the vector is sorted; an
  immediate's key lies before its birth, a timeout's at or after it and in the
  past; immediates still in the list are younger than every collected timeout;
  and an immediate that was neither called nor cleared is still to be called.

* `RefinesTimerQueue` assumes `OnlyTheLoopPolls`: `Spec => ImplementsTimerQueue`.
  `QInv == OInv /\ Aligned`, where `Aligned` says that a timeout's deadline in
  the list, or its key in the vector, is the instant it is due, and that what
  is in the list is due no earlier than what is in the vector (a poll takes all
  that is due, and what is made afterwards is due later). `CallStep` shows that
  a call is the abstract one, `CreateStep` that a new timer is; every other step
  leaves the calls and the instants alone and at most gives up timers.

`HttpServerProofs`

* `HttpTypesHold`: the counters are decremented with unchecked `fetch_sub`, so
  that they stay natural numbers is the content. It needs `Counted`
  (`connections` is the number of open tasks) and `ActiveExact`
  (`active_requests` is 1 exactly while the service future is pending;
  `http_inflight` is never below the number of pending ones, though it may be
  above: a dropped future leaves it up).
* `HandlersAreSerial`, `LockIsNotLost`: `OneHandler` and `LockNotLost`, the two
  parts of `LockSound` (`LockIsSound`), with any number of connections, across
  every await and drop. `LockHeld` says that a dispatch that has begun its
  handler owns the lock, that one connection at most does, and `LockNotLost`;
  `UnlockHeld` is the lemma for the two places where a guard is dropped.
* `CloseIsNotLost`: needs `ListenOrder` (`listening` iff the listener accepts)
  and `Counted`, since the last connection decides by the counter.
* `CloseIsQuiet`: assumes that close() is not called between listen() and
  "listening" (`"earlyClose" \notin Uses`); without the assumption it is false
  (section 4). `QuietOrder` says that "close" implies an ended
  listener, which accepts nobody any more.
* `IdleClosesSpareRequests`: the action property, from `ActiveExact`.

`StreamLemmas`, `WritableProofs`

* `RequestsMatchQueueHolds`, `FinishedSettlesHolds`, `WritesSucceedInOrderHolds`,
  `PunctualWriterFollowsHolds`. `IInv == Good /\ Busy /\ StackFits`. `Good` is a
  predicate on the stream record, and one lemma per operator of `WritableOps`
  says that it is kept: types, marks in flight, promises and their order
  (`Base`), the shape of the queue while the stream is writable (`Open`), the
  writer's promises (`Follows`). It holds between any two operators, so nested
  user code finds it. `Busy`: an erroring stream waits for an operation in
  flight or for start(), so that something will finish its erroring.
  `StackFits`: the calls suspended in size() or a listener carry the writer that
  a punctual one must not be confused with, and their chunks are still within
  the bound.

`StreamLemmas`, `ReadableProofs`

* `ChunksConservedHolds`, `ReadsInOrderHolds`, `ReaderEndsWithStreamHolds`.
  `IInv == Good /\ Quiet /\ StackFits`. `Good` (no panic, requests that are the
  current reader's pending reads, no chunk both queued and read or read twice,
  none missing) holds even when size() re-enters the stream. `Quiet` claims
  `Fine` (complete when it closes, reads in order and none waiting on a queued
  chunk, a reader that shows how the stream ended) only while `reentered` is
  false, which is where the properties claim it, and says that an enqueue()
  suspended in size() finds the reader it had and no read waiting.

`PipeProofs`

* `PipesInOrderHolds`, `ReadChunksWrittenHolds`, `SuccessMeansPipedHolds`, for
  every pair of high water marks (0 included), every set of options and any
  number of chunks. The inductive invariant `PInv` is a predicate of the three
  records, `PipeFits(r, w, p)`, because an action computes with streams and a
  pipe that are not yet assigned: `Deliver` runs inside the source's answer,
  `Shutdown` inside a reaction that may go on to `Acting` and `Finalize`, and
  each of these has a lemma that it keeps `PipeFits`. Its parts: both streams
  keep their own invariants (`Streams`); who holds which lock, and that a writer
  acquired while the destination was closing is one whose pipe shuts down
  (`Locks`); the phases (`Control`); the i-th
  read got chunk i and what was read was sent (`Sent`); the destination has
  room when the loop is about to read (`Room`, which is what makes "within the
  high water mark" inductive); a chunk sent is a write of the destination
  (`Written`); a destination that is being closed gets no more chunks (`Closing`);
  a shutdown without an error comes of a source that ended by itself
  (`Reasons`); and what the result says (`Outcome`).

`TransformTeeProofs`

* `SinkFollowsStreamHolds`. `TInv` adds to the invariants of the two sides that
  the transformer is busy exactly while the writable side has a write in flight
  (`InStep`); the lemmas say of every operator of `WritableOps` whether it
  begins, ends or keeps that write.
* `BranchesGetEveryChunkHolds`, `DemandNotLostHolds`, `CancelReachesSourceHolds`,
  for every high water mark of the source and any number of chunks and reads.
  The three streams of a tee are never released, so each keeps `Sound`: locked
  by its first reader, a pull awaited exactly while it pulls, reads waiting only
  for an empty queue; one lemma per operator says so, and says whether the step
  looked if it should pull (`Pulls`). `TeeInv` is again a predicate of a state
  not yet assigned, `Whole /\ Attended`. `Whole`: at most one read of the source
  waits, exactly while the tee reads and has no job (`Reading`); an open branch
  was given all that left the source's queue but the chunk of the job (`Logs`),
  which is what makes "every chunk once" inductive; a branch waits to close only
  when the source has ended, and then both do (`Finishing`, without which a pull
  could find a branch that is closing); the second cancel went to the source
  (`Cancels`). `Attended` is the demand property. Three half-way states have
  predicates of their own, because a property fails in them: `Answering`, between
  the source's step and what the tee makes of its answer (`AnswerFits`);
  `Giving(x, D)`, in the job after the branches in D were given the chunk
  (`EnqueueToGives`, `JobEnds`); and a branch's step before the pull it makes
  (`BranchStepFits`).

`NapiProofs`

* `CountersHold`, `CompletionsHonest`, `PayloadsHold`, `DisposesSucceed`, for
  any number of work items, threads and payloads, every bound of the queue and
  callbacks nested to any depth. Jobs, queued payloads and frames are all
  counted by `Count(s, M)`, the number of elements of a sequence that are in M;
  concatenation adds counts, so each action is a small sum.
* `CInv` says for each item where its one completion is: the task, a job of the
  channel, a frame of the stack or, by the counter `done`, behind it (`ItemFits`), and counts those that are
  anywhere (`Keeps`). `CountersExact` alone is not inductive: that a completion
  is not dispatched twice rests on `posted`, that a cancelled item did not run
  on the task's state. `Closes` (a sender is closed by a dispose only) makes
  the release of the roots final.
* `PInv`: `Owned` counts a payload in the queue and in the batches of the stack;
  `Carried` says that a thread between the look at `state` and the queue has its
  payload for itself; `Finishing` that finish_tsfn_release runs once and leaves
  a queue that stays closed; `Backed` that every queued payload has a job.
* `DInv`: `LoopState` ties `loop_running` to the task and says that a loop that
  is gone, tail included, left nothing owed; `Disposing` that a dispose finished
  the function and closed the sender before it waits, so that its last drain
  finds jobs but no callback (`LastDrain`), and nothing runs between that drain
  and the look at the counters but threads that can post no more (`Disarmed`).

**Left to TLC:** liveness under fairness (`TimerFires`, `Drains`, `Answered`,
`ShutdownCompletes`, `RequestsSettle`, `ReadsAreServed`, `PipeEnds`,
`ReadReleasesWrite`), which the prover cannot reason about, and anything that
would need `ENABLED` or induction over data. Every invariant that a passing run
checks is also a theorem. No module uses RECURSIVE operators.

## 6. Not modelled, and abstractions

* Timers: `timers/promises`, `queueMicrotask`, argument conversion, async-hook
  functions that throw themselves, a failed restore of the hook context,
  allocation failures. `Notify` is used from one thread here. A timer's id stands for its hook id too.
* A process is one runtime; exit by `process.exit`, signals and beforeExit are
  planned with `Drain`.
* HTTP: header and status contents, bytes, trailers, traffic on an upgraded
  socket, agents, the Unix-socket and TLS ways in. Errors of bind and accept
  end the listener's task with an exception and so the process. A failed
  allocation inside dispatch answers 500, which is a `Finish` like any other. A
  server listens once: `close_emitted` is never reset, so what a second
  listen() should mean is open (a hazard in `PROJECT.json`). A pause or destroy
  made outside the pump's own tick is seen by the body loop one turn later, at
  most a millisecond; the model lets it act at once.
* The pump inside dispatch also polls timers; that side is `Timers`' `PumpTick`.
* Web streams: the byte controller, BYOB readers and the byte tee, async
  iteration, `ReadableStream.from`, the native pull shortcut of fetch bodies,
  argument and strategy conversion. A chunk is a number, a reason is an "err".
  In `Pipe`, `Transform` and `Tee` every chunk has size one and size() runs no
  user code; in `Pipe` the model ends when the pipe does. `Tee`'s source starts
  and pulls without failing on its own; it errs and closes through its
  controller. A panic of the code is a state, after which `Transform` stops.
* N-API: values, scopes, references, wraps, finalizers and the garbage
  collection inside `release_js_roots`; creation and deletion of works and
  functions (both exist from the start), cleanup hooks, several Envs. A blocking
  call is made from other threads only (on a full queue JavaScript's own thread
  would wait for itself), and JavaScript acquires references for threads that
  own none. The counters are sequentially
  consistent, as the code's orderings on them are or as one modification order
  gives. `Poll` that would find nothing to do is left out.
* Everything else in `PROJECT.json` with status "not_modelled". The repository
  is a whole runtime, over a hundred thousand lines, most of them bindings and
  conversions with little state; the models cover the parts where several
  actors meet, a small share of those lines.
