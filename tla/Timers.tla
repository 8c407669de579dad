------------------------------- MODULE Timers -------------------------------
(***************************************************************************)
(* The timers of one JSRuntime and the event-loop references that keep its *)
(* process alive: modules/raster_runtime_timers/src/lib.rs on top of       *)
(* libs/raster_runtime_utils/src/event_loop.rs and driver_poll.rs, with    *)
(* the callers that poll timers outside the timer loop (HTTP response      *)
(* pump, synchronous import) and the drain loop that restarts it.          *)
(*                                                                         *)
(* Everything that touches this state runs on the JS thread, so an action  *)
(* is one uninterrupted stretch of it; a poll of the timers is several     *)
(* actions, because each callback it calls is JavaScript that may itself   *)
(* create, clear, ref, unref and poll.  `frames` is the stack of polls in  *)
(* progress.  Instants are integers; a timer's id stands for both its      *)
(* external id and its async-hook id.                                      *)
(***************************************************************************)
EXTENDS Integers, Sequences, FiniteSets

CONSTANTS
    MaxTimers,      \* timers created in a behaviour
    MaxTasks,       \* timer-loop tasks alive at once
    MaxTime,        \* last value of the clock
    MaxDepth,       \* polls nested in one another
    Kinds,          \* providers JavaScript uses
    Delays,         \* delays passed to setTimeout / setInterval
    MinSleep,       \* MIN_SLEEP of poll_timers
    ImmediateLead,  \* how far in the past an immediate's deadline is put
    ClearLead,      \* how far in the past a cleared timer's deadline is put
    Far,            \* FAR_FUTURE: an instant no behaviour reaches
    Handles,        \* other holders of an EventLoopRef (sockets, ports, ...)
    Requests,       \* HTTP request handlers that can be in flight
    Importing,      \* whether JavaScript may block in a synchronous import
    Uses            \* what else JavaScript makes use of

ASSUME TimersAssumption ==
    /\ MaxTimers \in Nat /\ MaxTasks \in Nat \ {0}
    /\ MaxTime \in Nat /\ MaxDepth \in Nat
    /\ Delays \subseteq Nat /\ Kinds \subseteq {"Timeout", "Interval", "Immediate"}
    /\ MinSleep \in Nat \ {0} /\ ImmediateLead \in Nat \ {0}
    /\ ClearLead \in Nat \ {0} /\ Far \in Nat /\ MaxTime <= Far
    /\ IsFiniteSet(Handles) /\ IsFiniteSet(Requests)
    /\ Importing \in BOOLEAN
    /\ Uses \subseteq {"ref", "unref", "collect"}

Ids == 1 .. MaxTimers
Tasks == 1 .. MaxTasks
Providers == {"Timeout", "Interval", "Immediate"}

VARIABLES
    now,            \* Instant::now()
    nextId,         \* TIMER_ID
    kind,           \* provider type of each timer
    timers,         \* the entries of RuntimeTimerState.timers
    callback,       \* entries whose callback is Some
    deadline,       \* Timeout.deadline
    interval,       \* Timeout.interval
    repeating,      \* entries with Timeout.repeating
    pendingDestroy, \* entries with Timeout.pending_destroy
    referenced,     \* entries with Timeout.referenced
    loopRef,        \* timers whose EventLoopRef is referenced
    jsHandle,       \* timers whose TimerHandle is still reachable from JS
    running,        \* RuntimeTimerState.running
    stateDeadline,  \* RuntimeTimerState.deadline
    executing,      \* RuntimeTimerState.executing_hook_id (0 = none)
    timerTok,       \* pending notifications of RuntimeTimerState.notify
    driverTok,      \* pending notifications of the runtime's driver Notify
    driverNotify,   \* whether the driver Notify has been registered
    task,           \* the spawned timer-loop tasks
    sleepUntil,     \* deadline of each task's Sleep
    frames,         \* polls in progress, innermost first
    pumpVec,        \* call_vec that each request's pump keeps between ticks
    refs,           \* RuntimeLoopState.refs
    heldHandles,    \* Handles whose EventLoopRef is referenced
    request,        \* each HTTP request; http_inflight counts those not "none"
    exited,         \* the process has stopped running JavaScript
    hook,           \* last async-hook event emitted for each timer
    born,           \* when each timer was created
    cleared,        \* timers that clearTimeout was called on
    unrefd,         \* timers that unref() was called on
    fires           \* calls of each one-shot callback (1 for an interval that fired)

entryVars == <<kind, timers, callback, deadline, interval, repeating,
               pendingDestroy, referenced>>
refVars == <<loopRef, refs, heldHandles>>
stateVars == <<running, stateDeadline>>
taskVars == <<task, sleepUntil>>
tokVars == <<timerTok, driverTok>>
ghostVars == <<hook, born, cleared, unrefd, fires>>
vars == <<now, nextId, entryVars, refVars, jsHandle, stateVars, executing,
          tokVars, driverNotify, taskVars, frames, pumpVec, request, exited,
          ghostVars>>

-----------------------------------------------------------------------------
(* Notify (tokio).  A notification goes to a waiter that has registered, or *)
(* is kept as at most one permit.  A waiter dropped by select! while a      *)
(* notification is assigned to it hands it on.                              *)

Waiters == {t \in Tasks : task[t] = "parked"}

Clip(n, waiting) ==
    IF n <= 1 + Cardinality(waiting) THEN n ELSE 1 + Cardinality(waiting)

NotifyOne(n) == Clip(n + 1, Waiters)

-----------------------------------------------------------------------------
(* event_loop.rs: the reference count.                                      *)

Saturating(n, k) == IF n >= k THEN n - k ELSE 0

\* wake_native_drivers does nothing before the Notify is registered.
WokenDrivers(n) == IF driverNotify THEN NotifyOne(n) ELSE n

\* Mutant: reaching zero wakes nobody.
DecrementedTokNoWake(k, n) == n

\* decrement_ref, k times: the transition to zero wakes the drivers.
DecrementedTok(k, n) ==
    IF k > 0 /\ refs > 0 /\ refs <= k THEN WokenDrivers(n) ELSE n

\* Mutant: the count drops without looking at the handle's own flag.
UnreferenceUnchecked(S) ==
    LET k == Cardinality(S) IN
    /\ loopRef' = loopRef \ S
    /\ refs' = refs - k
    /\ driverTok' = DecrementedTok(k, driverTok)
    /\ UNCHANGED heldHandles

\* EventLoopRef::unreference on the timers in S.
UnreferenceAll(S) ==
    LET k == Cardinality(loopRef \cap S) IN
    /\ loopRef' = loopRef \ S
    /\ refs' = Saturating(refs, k)
    /\ driverTok' = DecrementedTok(k, driverTok)
    /\ UNCHANGED heldHandles

HasInflight == \E r \in Requests : request[r] # "none"
Serving == \E r \in Requests : request[r] = "serving"

\* should_keep_timer_loop
KeepsTimersAlive ==
    /\ timers \cap callback # {}
    /\ HasInflight \/ refs > 0 \/ timers \cap callback \cap referenced # {}

StayAlive == refs > 0 \/ HasInflight \/ KeepsTimersAlive

-----------------------------------------------------------------------------
(* The JS thread: JavaScript runs outside any poll, or inside the innermost *)
(* one: in the pending jobs drained before its first callback, in the       *)
(* callback, and in the microtasks drained after it.                        *)

JSRunning ==
    /\ ~exited
    /\ frames # <<>> => Head(frames).phase \in {"jobs", "call", "micro"}

LiveTasks == {t \in Tasks : task[t] # "none"}

\* create_spawn_loop
SpawnLoop(until) ==
    \E t \in Tasks :
        /\ task[t] = "none"
        /\ \A u \in Tasks : u < t => task[u] # "none"
        /\ task' = [task EXCEPT ![t] = "ready"]
        /\ sleepUntil' = [sleepUntil EXCEPT ![t] = until]
        /\ driverNotify' = TRUE

\* resume_timer_loop_if_idle
ResumeIfIdle ==
    IF ~running /\ KeepsTimersAlive
    THEN /\ running' = TRUE
         /\ SpawnLoop(stateDeadline)
    ELSE UNCHANGED <<running, task, sleepUntil, driverNotify>>

\* Mutant: an immediate is due now, like setTimeout(fn, 0).
DeadlineOfNoLead(k, delay) == IF k = "Immediate" THEN now ELSE now + delay

DeadlineOf(k, delay) == IF k = "Immediate" THEN now - ImmediateLead ELSE now + delay

\* Mutant: a sooner deadline is stored without waking the task that sleeps.
ArmLoopNoNotify(d) ==
    /\ IF running
       THEN /\ stateDeadline' = IF d < stateDeadline THEN d ELSE stateDeadline
            /\ UNCHANGED <<running, taskVars, driverNotify>>
       ELSE /\ running' = TRUE
            /\ SpawnLoop(d)
            /\ UNCHANGED stateDeadline
    /\ UNCHANGED timerTok

\* The end of set_timeout_interval: wake the task when the new deadline is the
\* soonest, or spawn one (should_keep_timer_loop holds: the timer just pushed
\* is referenced).
ArmLoop(d) ==
    IF running
    THEN /\ IF d < stateDeadline
            THEN /\ stateDeadline' = d
                 /\ timerTok' = NotifyOne(timerTok)
            ELSE UNCHANGED <<stateDeadline, timerTok>>
         /\ UNCHANGED <<running, taskVars, driverNotify>>
    ELSE /\ running' = TRUE
         /\ SpawnLoop(d)
         /\ UNCHANGED <<stateDeadline, timerTok>>

\* set_timeout_interval, called with referenced = true by every caller.
SetTimer(k, delay) ==
    /\ JSRunning
    /\ nextId <= MaxTimers
    /\ k = "Immediate" => delay = 0
    /\ k # "Immediate" => now + delay + MinSleep < MaxTime
    /\ LET i == nextId
           d == DeadlineOf(k, delay)
       IN
       /\ nextId' = nextId + 1
       /\ kind' = [kind EXCEPT ![i] = k]
       /\ hook' = [hook EXCEPT ![i] = "init"]
       /\ born' = [born EXCEPT ![i] = now]
       /\ timers' = timers \cup {i}
       /\ callback' = callback \cup {i}
       /\ deadline' = [deadline EXCEPT ![i] = d]
       /\ interval' = [interval EXCEPT ![i] = delay]
       /\ repeating' = IF k = "Interval" THEN repeating \cup {i} ELSE repeating
       /\ referenced' = referenced \cup {i}
       /\ loopRef' = loopRef \cup {i}
       /\ refs' = refs + 1
       /\ jsHandle' = jsHandle \cup {i}
       /\ ArmLoop(d)
    /\ UNCHANGED <<now, pendingDestroy, heldHandles, executing, driverTok,
                   frames, pumpVec, request, exited, cleared, unrefd, fires>>

\* The look-up by id in RuntimeTimerState.timers.
Found(i) == i \in timers

\* Mutant: a clear always counts as coming from outside.
SelfClearNever(i) == i = 0

\* self_clear: the clear comes from the timer's own callback.
SelfClear(i) == executing = i

\* clear_timeout_interval: nothing happens unless the entry is still listed.
ClearTimer(i) ==
    /\ JSRunning
    /\ i < nextId
    /\ cleared' = cleared \cup {i}
    /\ IF Found(i)
       THEN /\ callback' = callback \ {i}
            /\ repeating' = repeating \ {i}
            /\ deadline' = [deadline EXCEPT ![i] = now - ClearLead]
            /\ referenced' = referenced \ {i}
            /\ UnreferenceAll({i})
            /\ timerTok' = NotifyOne(timerTok)
            /\ IF SelfClear(i)
               THEN /\ pendingDestroy' = pendingDestroy \cup {i}
                    /\ UNCHANGED hook
               ELSE /\ hook' = [hook EXCEPT ![i] = "destroy"]
                    /\ UNCHANGED pendingDestroy
       ELSE UNCHANGED <<callback, repeating, deadline, referenced, refVars,
                        tokVars, pendingDestroy, hook>>
    /\ UNCHANGED <<now, nextId, kind, timers, interval, jsHandle, stateVars,
                   executing, driverNotify, taskVars, frames, pumpVec,
                   request, exited, unrefd, fires, born>>

\* Mutant: every ref() counts.
RefTimerAlwaysCounts(i) ==
    /\ JSRunning /\ "ref" \in Uses
    /\ i \in jsHandle
    /\ loopRef' = loopRef \cup {i}
    /\ refs' = refs + 1
    /\ referenced' = IF i \in timers THEN referenced \cup {i} ELSE referenced
    /\ UNCHANGED <<now, nextId, kind, timers, callback, deadline, interval,
                   repeating, pendingDestroy, heldHandles, jsHandle, stateVars,
                   executing, tokVars, driverNotify, taskVars, frames, pumpVec,
                   request, exited, ghostVars>>

\* TimerHandle.ref(): reference the loop, then set_timer_referenced(true).
RefTimer(i) ==
    /\ JSRunning /\ "ref" \in Uses
    /\ i \in jsHandle
    /\ loopRef' = loopRef \cup {i}
    /\ refs' = IF i \in loopRef THEN refs ELSE refs + 1
    /\ referenced' = IF i \in timers THEN referenced \cup {i} ELSE referenced
    /\ UNCHANGED <<now, nextId, kind, timers, callback, deadline, interval,
                   repeating, pendingDestroy, heldHandles, jsHandle, stateVars,
                   executing, tokVars, driverNotify, taskVars, frames, pumpVec,
                   request, exited, ghostVars>>

\* TimerHandle.unref(): unreference, then set_timer_referenced(false), which
\* wakes the timer loop when the entry is listed.
UnrefTimer(i) ==
    /\ JSRunning /\ "unref" \in Uses
    /\ i \in jsHandle
    /\ UnreferenceAll({i})
    /\ IF i \in timers
       THEN /\ referenced' = referenced \ {i}
            /\ timerTok' = NotifyOne(timerTok)
       ELSE UNCHANGED <<referenced, timerTok>>
    /\ unrefd' = unrefd \cup {i}
    /\ UNCHANGED <<now, nextId, kind, timers, callback, deadline, interval,
                   repeating, pendingDestroy, jsHandle, stateVars, executing,
                   driverNotify, taskVars, frames, pumpVec, request, exited,
                   hook, born, cleared, fires>>

\* The garbage collector drops the TimerHandle of a timer whose entry is gone:
\* the last owner of the EventLoopRef, whose Drop releases a reference it still
\* holds.  (Dropped earlier, it only takes ref and unref away from JavaScript.)
DropHandle(i) ==
    /\ JSRunning /\ "collect" \in Uses
    /\ i \in jsHandle \ timers
    /\ jsHandle' = jsHandle \ {i}
    /\ UnreferenceAll({i})
    /\ UNCHANGED <<now, nextId, entryVars, stateVars, executing, timerTok,
                   driverNotify, taskVars, frames, pumpVec, request, exited,
                   ghostVars>>

\* EventLoopRef::reference by another handle.
RefHandle(h) ==
    /\ JSRunning
    /\ heldHandles' = heldHandles \cup {h}
    /\ refs' = IF h \in heldHandles THEN refs ELSE refs + 1
    /\ UNCHANGED <<now, nextId, entryVars, loopRef, jsHandle, stateVars,
                   executing, tokVars, driverNotify, taskVars, frames, pumpVec,
                   request, exited, ghostVars>>

\* EventLoopRef::unreference by another handle (unref, close, drop).
UnrefHandle(h) ==
    /\ JSRunning
    /\ LET k == IF h \in heldHandles THEN 1 ELSE 0 IN
       /\ heldHandles' = heldHandles \ {h}
       /\ refs' = Saturating(refs, k)
       /\ driverTok' = DecrementedTok(k, driverTok)
    /\ UNCHANGED <<now, nextId, entryVars, loopRef, jsHandle, stateVars,
                   executing, timerTok, driverNotify, taskVars, frames, pumpVec,
                   request, exited, ghostVars>>

-----------------------------------------------------------------------------
(* poll_timers.                                                             *)

Due == {i \in timers : deadline[i] < now}
Firing == Due \cap callback
OneShots == Firing \ repeating
Rearmed == Firing \cap repeating
Remaining == timers \ (Due \ Rearmed)

NewDeadline ==
    [i \in Ids |-> IF i \in Rearmed THEN now + interval[i] ELSE deadline[i]]

\* `lowest`: the soonest deadline left, FAR_FUTURE when the list is empty.
LeftDeadlines == {NewDeadline[i] : i \in Remaining} \cup {Far}
IsLowest(d) == \A e \in LeftDeadlines : d <= e

\* The next sleep is at least MIN_SLEEP long.
SleepFor(lowest) == IF lowest - now < MinSleep THEN now + MinSleep ELSE lowest

\* What the poll appends to call_vec: a repeating timer is keyed by its next
\* deadline.
CallItems == {[key |-> NewDeadline[i], id |-> i] : i \in Firing}

\* Mutant: the calls are made in the order of the list.
SortedCallsByList(items) ==
    {s \in [1 .. Cardinality(items) -> items] :
        /\ \A x \in items : \E a \in DOMAIN s : s[a] = x
        /\ \A a, b \in DOMAIN s : a < b => s[a].id <= s[b].id}

\* sort_unstable_by_key: any order of the items that is sorted by key.
SortedCalls(items) ==
    {s \in [1 .. Cardinality(items) -> items] :
        /\ \A x \in items : \E a \in DOMAIN s : s[a] = x
        /\ \A a, b \in DOMAIN s : a < b => s[a].key <= s[b].key}

ItemsOf(s) == {s[a] : a \in DOMAIN s}

\* The part of poll_timers up to the first callback.  `left` is what the
\* caller's call_vec still holds; dTok is the driver Notify on entry.
BeginPoll(caller, owner, left, dTok, lowest) ==
    LET k == Cardinality(loopRef \cap OneShots) IN
    /\ \E s \in SortedCalls(CallItems \cup ItemsOf(left)) :
         frames' = <<[caller |-> caller, owner |-> owner, rest |-> s,
                      hasItems |-> Remaining # {}, cur |-> 0,
                      phase |-> IF s = <<>> THEN "next" ELSE "jobs"]>> \o frames
    /\ timers' = Remaining
    /\ callback' = callback \ OneShots
    /\ deadline' = NewDeadline
    /\ referenced' = referenced \ OneShots
    /\ loopRef' = loopRef \ OneShots
    /\ refs' = Saturating(refs, k)
    /\ driverTok' = DecrementedTok(k, dTok)
    /\ IsLowest(lowest)
    /\ stateDeadline' = IF timers # {} THEN SleepFor(lowest) ELSE stateDeadline
    /\ UNCHANGED <<now, nextId, kind, interval, repeating, pendingDestroy,
                   heldHandles, jsHandle, running, executing, driverNotify,
                   request, exited, ghostVars>>

\* One turn of the spawned task: select! takes one ready branch, then polls.
WakeLoop(t) ==
    /\ ~exited /\ frames = <<>>
    /\ task[t] \in {"ready", "parked"}
    /\ \E branch \in {"timer", "sleep", "driver"}, lowest \in LeftDeadlines :
        LET others == Waiters \ {t}
            tTok == IF branch = "timer" THEN timerTok - 1 ELSE timerTok
            dTok == IF branch = "driver" THEN driverTok - 1 ELSE driverTok
        IN
        /\ branch = "timer" => timerTok > 0
        /\ branch = "driver" => driverTok > 0
        /\ branch = "sleep" => sleepUntil[t] <= now
        /\ timerTok' = Clip(tTok, others)
        /\ BeginPoll("loop", t, <<>>, Clip(dTok, others), lowest)
        /\ sleepUntil' = IF timers # {} THEN [sleepUntil EXCEPT ![t] = SleepFor(lowest)]
                                        ELSE sleepUntil
    /\ task' = [task EXCEPT ![t] = "polling"]
    /\ UNCHANGED pumpVec

\* No branch of select! is ready: the task registers with both Notify and its
\* Sleep.
Park(t) ==
    /\ ~exited /\ frames = <<>>
    /\ task[t] = "ready"
    /\ timerTok = 0 /\ driverTok = 0 /\ now < sleepUntil[t]
    /\ task' = [task EXCEPT ![t] = "parked"]
    /\ UNCHANGED <<now, nextId, entryVars, refVars, jsHandle, stateVars,
                   executing, tokVars, driverNotify, sleepUntil, frames,
                   pumpVec, request, exited, ghostVars>>

\* JsEventLoopPump::tick while a response is awaited.
PumpTick(r) ==
    /\ ~exited /\ frames = <<>>
    /\ request[r] = "serving"
    /\ \E lowest \in LeftDeadlines :
         BeginPoll("pump", r, pumpVec[r], driverTok, lowest)
    /\ pumpVec' = [pumpVec EXCEPT ![r] = <<>>]
    /\ UNCHANGED <<taskVars, timerTok>>

\* Mutant: the nested poll runs the call_vec of the poll it interrupts.
ImportPollShares ==
    /\ Importing /\ JSRunning
    /\ Len(frames) < MaxDepth
    /\ \E lowest \in LeftDeadlines :
         BeginPoll("import", 0, IF frames = <<>> THEN <<>> ELSE Head(frames).rest,
                   driverTok, lowest)
    /\ UNCHANGED <<taskVars, timerTok, pumpVec>>

\* wait_for_import_promise / load_file_via_import poll while they block.
ImportPoll ==
    /\ Importing /\ JSRunning
    /\ Len(frames) < MaxDepth
    /\ \E lowest \in LeftDeadlines : BeginPoll("import", 0, <<>>, driverTok, lowest)
    /\ UNCHANGED <<taskVars, timerTok, pumpVec>>

Top == Head(frames)
SetTop(f) == frames' = <<f>> \o Tail(frames)

\* Mutant: a call whose entry has left the list is passed over.
StartCallbackIfListed ==
    /\ ~exited /\ frames # <<>>
    /\ Top.phase \in {"jobs", "next"} /\ Top.rest # <<>>
    /\ LET i == Head(Top.rest).id
           called == i \in timers
       IN
       /\ executing' = IF called THEN i ELSE executing
       /\ hook' = IF called THEN [hook EXCEPT ![i] = "before"] ELSE hook
       /\ fires' = IF called THEN [fires EXCEPT ![i] = @ + 1] ELSE fires
       /\ SetTop([Top EXCEPT !.rest = Tail(@), !.cur = IF called THEN i ELSE 0,
                             !.phase = IF called THEN "call" ELSE "next"])
    /\ UNCHANGED <<now, nextId, entryVars, refVars, jsHandle, stateVars,
                   tokVars, driverNotify, taskVars, pumpVec, request, exited,
                   cleared, unrefd, born>>

\* Take the next item: mark it executing, emit Before, enter its callback.
StartCallback ==
    /\ ~exited /\ frames # <<>>
    /\ Top.phase \in {"jobs", "next"} /\ Top.rest # <<>>
    /\ LET i == Head(Top.rest).id IN
       /\ executing' = i
       /\ hook' = [hook EXCEPT ![i] = "before"]
       /\ fires' = [fires EXCEPT ![i] = IF kind[i] = "Interval" THEN 1 ELSE @ + 1]
       /\ SetTop([Top EXCEPT !.rest = Tail(@), !.cur = i, !.phase = "call"])
    /\ UNCHANGED <<now, nextId, entryVars, refVars, jsHandle, stateVars,
                   tokVars, driverNotify, taskVars, pumpVec, request, exited,
                   cleared, unrefd, born>>

\* The callback returns: emit After, then drain its microtasks.
EndCallback ==
    /\ ~exited /\ frames # <<>>
    /\ Top.phase = "call"
    /\ hook' = [hook EXCEPT ![Top.cur] = "after"]
    /\ SetTop([Top EXCEPT !.phase = "micro"])
    /\ UNCHANGED <<now, nextId, entryVars, refVars, jsHandle, stateVars,
                   executing, tokVars, driverNotify, taskVars, pumpVec,
                   request, exited, cleared, unrefd, fires, born>>

\* destroy_now: the entry left the list, or was cleared in its own callback.
FinishItem ==
    /\ ~exited /\ frames # <<>>
    /\ Top.phase = "micro"
    /\ LET i == Top.cur IN
       IF i \notin timers \/ i \in pendingDestroy
       THEN /\ hook' = [hook EXCEPT ![i] = "destroy"]
            /\ timers' = timers \ {i}
       ELSE UNCHANGED <<hook, timers>>
    /\ executing' = 0
    /\ SetTop([Top EXCEPT !.cur = 0, !.phase = "next"])
    /\ UNCHANGED <<now, nextId, kind, callback, deadline, interval, repeating,
                   pendingDestroy, referenced, refVars, jsHandle, stateVars,
                   tokVars, driverNotify, taskVars, pumpVec, request, exited,
                   cleared, unrefd, fires, born>>

\* The callback throws: After is emitted, the guard resets executing, and the
\* error leaves poll_timers.  In the timer loop it ends the process; the pump
\* ignores it and keeps the rest of its call_vec; an import rethrows it and
\* drops the rest.
ThrowCallback ==
    /\ ~exited /\ frames # <<>>
    /\ Top.phase = "call"
    /\ hook' = [hook EXCEPT ![Top.cur] = "after"]
    /\ executing' = 0
    /\ frames' = Tail(frames)
    /\ exited' = (Top.caller = "loop")
    /\ pumpVec' = IF Top.caller = "pump"
                  THEN [pumpVec EXCEPT ![Top.owner] = Top.rest] ELSE pumpVec
    /\ UNCHANGED <<now, nextId, entryVars, refVars, jsHandle, stateVars,
                   tokVars, driverNotify, taskVars, request, cleared,
                   unrefd, fires, born>>

\* Mutant: the task ends on an empty list but leaves the running flag up.
EndPollFlagUp ==
    /\ ~exited /\ frames # <<>>
    /\ Top.phase = "next" /\ Top.rest = <<>>
    /\ running' = KeepsTimersAlive
    /\ task' = IF Top.caller = "loop"
               THEN [task EXCEPT ![Top.owner] =
                        IF KeepsTimersAlive /\ Top.hasItems THEN "ready" ELSE "none"]
               ELSE task
    /\ frames' = Tail(frames)
    /\ UNCHANGED <<now, nextId, entryVars, refVars, jsHandle, stateDeadline,
                   executing, tokVars, driverNotify, sleepUntil, pumpVec,
                   request, exited, ghostVars>>

\* The end of poll_timers, and what the caller does with its result.
EndPoll ==
    /\ ~exited /\ frames # <<>>
    /\ Top.phase = "next" /\ Top.rest = <<>>
    /\ running' = (KeepsTimersAlive /\ Top.hasItems)
    /\ task' = IF Top.caller = "loop"
               THEN [task EXCEPT ![Top.owner] = IF running' THEN "ready" ELSE "none"]
               ELSE task
    /\ frames' = Tail(frames)
    /\ UNCHANGED <<now, nextId, entryVars, refVars, jsHandle, stateDeadline,
                   executing, tokVars, driverNotify, sleepUntil, pumpVec,
                   request, exited, ghostVars>>

-----------------------------------------------------------------------------
(* HTTP handlers and the drain loop.                                        *)

\* The connection's service: adjust_http_inflight(+1), then dispatch waits for
\* the lock HTTP_JS_ROOT.
BeginRequest(r) ==
    /\ ~exited /\ frames = <<>>
    /\ request[r] = "none"
    /\ request' = [request EXCEPT ![r] = "waiting"]
    /\ driverTok' = WokenDrivers(driverTok)
    /\ UNCHANGED <<now, nextId, entryVars, refVars, jsHandle, stateVars,
                   executing, timerTok, driverNotify, taskVars, frames,
                   pumpVec, exited, ghostVars>>

\* dispatch has the lock: it makes its pump and restarts an idle timer loop.
Dispatch(r) ==
    /\ ~exited /\ frames = <<>>
    /\ request[r] = "waiting" /\ ~Serving
    /\ request' = [request EXCEPT ![r] = "serving"]
    /\ ResumeIfIdle
    /\ UNCHANGED <<now, nextId, entryVars, refVars, jsHandle, stateDeadline,
                   executing, tokVars, frames, pumpVec, exited, ghostVars>>

\* dispatch returns (an upgrade nobody listens to, before it does anything):
\* the pump and its call_vec are dropped, then adjust_http_inflight(-1).
EndRequest(r) ==
    /\ ~exited /\ frames = <<>>
    /\ request[r] = "serving" \/ (request[r] = "waiting" /\ ~Serving)
    /\ request' = [request EXCEPT ![r] = "none"]
    /\ driverTok' = WokenDrivers(driverTok)
    /\ pumpVec' = [pumpVec EXCEPT ![r] = <<>>]
    /\ UNCHANGED <<now, nextId, entryVars, refVars, jsHandle, stateVars,
                   executing, timerTok, driverNotify, taskVars, frames, exited,
                   ghostVars>>

\* connection_close or a lost connection drops the service future: dispatch,
\* its lock and its pump go, and adjust_http_inflight(-1) is never reached.
AbandonRequest(r) ==
    /\ ~exited /\ frames = <<>>
    /\ request[r] \in {"waiting", "serving"}
    /\ request' = [request EXCEPT ![r] = "abandoned"]
    /\ pumpVec' = [pumpVec EXCEPT ![r] = <<>>]
    /\ UNCHANGED <<now, nextId, entryVars, refVars, jsHandle, stateVars,
                   executing, tokVars, driverNotify, taskVars, frames, exited,
                   ghostVars>>

\* poll_drivers of the drain loop.
Resume ==
    /\ ~exited /\ frames = <<>>
    /\ ~running /\ KeepsTimersAlive
    /\ ResumeIfIdle
    /\ UNCHANGED <<now, nextId, entryVars, refVars, jsHandle, stateDeadline,
                   executing, tokVars, frames, pumpVec, request, exited,
                   ghostVars>>

\* discard_all_timers_on_process_exit
DiscardAllTimers ==
    /\ hook' = [i \in Ids |-> IF i \in timers \cap callback THEN "destroy" ELSE hook[i]]
    /\ callback' = callback \ timers
    /\ repeating' = repeating \ timers
    /\ UnreferenceAll(timers)
    /\ timers' = {}
    /\ running' = FALSE
    /\ timerTok' = NotifyOne(timerTok)
    /\ UNCHANGED <<now, nextId, kind, deadline, interval, pendingDestroy,
                   referenced, jsHandle, stateDeadline, executing, driverNotify,
                   taskVars, frames, pumpVec, request, cleared, unrefd,
                   fires, born>>

\* The natural exit: nothing keeps the loop alive and idle() has run every
\* spawned task to its end.
NaturalExit ==
    /\ ~exited /\ frames = <<>>
    /\ ~StayAlive /\ LiveTasks = {}
    /\ DiscardAllTimers
    /\ exited' = TRUE

\* Time passes while the JS thread is idle or busy in a callback.
Tick ==
    /\ ~exited
    /\ frames # <<>> => Head(frames).phase = "call"
    /\ now < MaxTime
    /\ now' = now + 1
    /\ UNCHANGED <<nextId, entryVars, refVars, jsHandle, stateVars, executing,
                   tokVars, driverNotify, taskVars, frames, pumpVec, request,
                   exited, ghostVars>>

Stopped == exited /\ UNCHANGED vars

-----------------------------------------------------------------------------
Init ==
    /\ now = 0 /\ nextId = 1
    /\ kind = [i \in Ids |-> "Timeout"]
    /\ timers = {} /\ callback = {}
    /\ deadline = [i \in Ids |-> 0]
    /\ interval = [i \in Ids |-> 0]
    /\ repeating = {} /\ pendingDestroy = {} /\ referenced = {}
    /\ loopRef = {} /\ refs = 0 /\ heldHandles = {} /\ jsHandle = {}
    /\ running = FALSE /\ stateDeadline = Far /\ executing = 0
    /\ timerTok = 0 /\ driverTok = 0 /\ driverNotify = FALSE
    /\ task = [t \in Tasks |-> "none"]
    /\ sleepUntil = [t \in Tasks |-> 0]
    /\ frames = <<>>
    /\ pumpVec = [r \in Requests |-> <<>>]
    /\ request = [r \in Requests |-> "none"] /\ exited = FALSE
    /\ hook = [i \in Ids |-> "none"]
    /\ born = [i \in Ids |-> 0]
    /\ cleared = {} /\ unrefd = {} /\ fires = [i \in Ids |-> 0]

Next ==
    \/ \E k \in Kinds, delay \in Delays : SetTimer(k, delay)
    \/ \E i \in Ids : ClearTimer(i) \/ RefTimer(i) \/ UnrefTimer(i) \/ DropHandle(i)
    \/ \E h \in Handles : RefHandle(h) \/ UnrefHandle(h)
    \/ \E t \in Tasks : WakeLoop(t) \/ Park(t)
    \/ \E r \in Requests : \/ PumpTick(r) \/ BeginRequest(r) \/ Dispatch(r)
                           \/ EndRequest(r) \/ AbandonRequest(r)
    \/ ImportPoll
    \/ StartCallback \/ EndCallback \/ FinishItem \/ ThrowCallback \/ EndPoll
    \/ Resume \/ NaturalExit
    \/ Tick \/ Stopped

Spec == Init /\ [][Next]_vars

\* What the runtime schedules: the clock advances whatever the thread is busy
\* with, tokio polls the timer-loop task once it is ready, a callback returns
\* and its poll goes on, and the drain loop turns at least every 20 ms.
\* JavaScript owes no call, a signal may never come, and a request may never
\* end.
Fairness ==
    /\ SF_vars(Tick)
    /\ \A t \in Tasks : WF_vars(WakeLoop(t)) /\ WF_vars(Park(t))
    /\ WF_vars(StartCallback) /\ WF_vars(EndCallback)
    /\ WF_vars(FinishItem) /\ WF_vars(EndPoll)
    /\ WF_vars(Resume) /\ WF_vars(NaturalExit)

FairSpec == Spec /\ Fairness

-----------------------------------------------------------------------------
Call == [key : Int, id : Ids]
Frame == [caller : {"loop", "pump", "import"}, owner : Tasks \cup Requests \cup {0},
          rest : Seq(Call), hasItems : BOOLEAN, cur : 0 .. MaxTimers,
          phase : {"jobs", "next", "call", "micro"}]

EntryTypes ==
    /\ now \in Nat /\ nextId \in 1 .. MaxTimers + 1
    /\ kind \in [Ids -> Providers]
    /\ timers \subseteq Ids /\ callback \subseteq Ids
    /\ deadline \in [Ids -> Int] /\ interval \in [Ids -> Nat]
    /\ repeating \subseteq Ids /\ pendingDestroy \subseteq Ids
    /\ referenced \subseteq Ids

RefTypes ==
    /\ loopRef \subseteq Ids /\ jsHandle \subseteq Ids
    /\ heldHandles \subseteq Handles
    /\ request \in [Requests -> {"none", "waiting", "serving", "abandoned"}]
    /\ refs \in Nat

FlagTypes == running \in BOOLEAN /\ driverNotify \in BOOLEAN /\ exited \in BOOLEAN

LoopTypes ==
    /\ stateDeadline \in Int
    /\ timerTok \in Nat /\ driverTok \in Nat
    /\ task \in [Tasks -> {"none", "ready", "parked", "polling"}]
    /\ sleepUntil \in [Tasks -> Int]

PollTypes ==
    /\ executing \in 0 .. MaxTimers
    /\ frames \in Seq(Frame)
    /\ pumpVec \in [Requests -> Seq(Call)]

HookTypes ==
    /\ hook \in [Ids -> {"none", "init", "before", "after", "destroy"}]
    /\ born \in [Ids -> Nat]
    /\ cleared \subseteq Ids /\ unrefd \subseteq Ids
    /\ fires \in [Ids -> Nat]

\* The type of every variable of the timer state.
TypeOK ==
    EntryTypes /\ RefTypes /\ FlagTypes /\ LoopTypes /\ PollTypes /\ HookTypes

\* The runtime's reference count is the number of handles that hold a
\* reference, through every order of ref, unref, clear, fire and drop of the
\* same timer: one too many and the process never exits, one too few and it
\* exits under a live handle.
RefsExact == refs = Cardinality(loopRef) + Cardinality(heldHandles)

\* A timer-loop task that waits in select! with nothing left to keep it has a
\* wake-up on its way.  Otherwise the task outlives its work and the drain
\* loop, which waits for every spawned task before it exits, hangs until the
\* next unref'd deadline.
ParkedLoopReleased ==
    \A t \in Tasks :
        (task[t] = "parked" /\ ~exited) =>
            KeepsTimersAlive \/ timerTok > 0 \/ driverTok > 0

\* The running flag is up exactly while one timer-loop task exists: a flag
\* left up makes set_timeout_interval and the drain loop wait for a task that
\* is gone, a flag down beside a live task spawns a second one.
RunningMeansOneLoop ==
    ~exited => /\ running <=> LiveTasks # {}
               /\ \A t, u \in LiveTasks : t = u

\* A parked loop with no wake-up on its way sleeps past no timer's deadline by
\* more than MIN_SLEEP.  The code does not keep it for a program that unrefs
\* timers: the loop ends with an unref'd timer still listed, and the setTimeout
\* that restarts it makes it sleep until its own deadline and leaves
\* RuntimeTimerState.deadline, with which later timers are compared, as it was.
LoopNeverOversleeps ==
    \A t \in Tasks, i \in Ids :
        (task[t] = "parked" /\ timerTok = 0 /\ driverTok = 0 /\ ~exited
            /\ i \in callback)
        => sleepUntil[t] <= deadline[i] + MinSleep

\* As long as no timer was unref'd, a parked loop oversleeps no timer, though
\* set_timeout_interval wakes it only for a deadline below the one the last
\* poll stored, and a loop that ended may have left that one behind.
SleepCovers == unrefd = {} => LoopNeverOversleeps

\* A setTimeout or setImmediate callback is called at most once, whoever polls
\* (timer loop, HTTP pump, nested import) and whenever it is cleared.
FiresAtMostOnce ==
    \A i \in Ids : kind[i] # "Interval" => fires[i] <= 1

\* The hook events of a setTimeout or setImmediate come in Node's order: its
\* callback never starts once destroy was emitted.  For any timer, an interval
\* that clears itself included, destroy never comes between before and after.
HookOrder ==
    [][\A i \in Ids :
        hook'[i] # hook[i] =>
            /\ <<hook[i], hook'[i]>> # <<"before", "destroy">>
            /\ kind[i] # "Interval" =>
                 <<hook[i], hook'[i]>> \in
                   {<<"none", "init">>, <<"init", "before">>, <<"init", "destroy">>,
                    <<"before", "after">>, <<"after", "destroy">>}]_vars

\* "If `setImmediate(fn)` and `setTimeout(fn, 0)` are queued at the exact same
\* time, `setImmediate(fn)` takes precedence": a timeout's callback never
\* starts while an immediate queued no later is still waiting.
ImmediateFirst ==
    [][\A i, j \in Ids :
        (/\ fires'[i] # fires[i] /\ kind[i] = "Timeout"
         /\ j < nextId /\ kind[j] = "Immediate" /\ j \notin cleared
         /\ born[j] <= born[i])
        => fires[j] > 0]_vars

\* A clearTimeout'd callback is never called afterwards.
ClearedNeverFires ==
    [][\A i \in cleared : fires'[i] = fires[i]]_vars

\* While timers require the timer loop to stay up and the flag says it is up,
\* a task is there to poll them.
LoopStaysUp ==
    (~exited /\ frames = <<>> /\ KeepsTimersAlive /\ running) => LiveTasks # {}

\* The callback of every setTimeout and setImmediate is called in the end,
\* unless clearTimeout or unref() was called on that timer or the process
\* stopped first: it is neither left in the list nor lost between its
\* collection by a poll and its call.
TimerFires ==
    \A i \in Ids :
        (i < nextId /\ kind[i] # "Interval")
        ~> (fires[i] > 0 \/ i \in cleared \/ i \in unrefd \/ exited)

\* A process that nothing keeps alive exits, unless new work appears.
Drains == ~StayAlive ~> (StayAlive \/ exited)
=============================================================================
