---------------------------- MODULE TimersProofs ----------------------------
(***************************************************************************)
(* Proofs about Timers: the types and the reference count; the loop's      *)
(* flag, release and sleep; that a one-shot fires at most once; the order  *)
(* of hook events and of immediates; and that Timers implements TimerQueue. *)
(***************************************************************************)
EXTENDS TimersRefinement, TLAPS, FiniteSetTheorems, FunctionTheorems, SequenceTheorems

\* Every subset of the ids, the tasks and the other handles is finite.
LEMMA FiniteConstants ==
    /\ IsFiniteSet(Ids) /\ IsFiniteSet(Tasks) /\ IsFiniteSet(Handles)
    /\ \A S \in SUBSET Ids : IsFiniteSet(S) /\ Cardinality(S) \in Nat
    /\ \A S \in SUBSET Tasks : IsFiniteSet(S) /\ Cardinality(S) \in Nat
    /\ \A S \in SUBSET Handles : IsFiniteSet(S) /\ Cardinality(S) \in Nat
<1>1. IsFiniteSet(Ids) /\ IsFiniteSet(Tasks) /\ IsFiniteSet(Handles)
  BY TimersAssumption, FS_Interval DEF Ids, Tasks
<1>2. ASSUME NEW U, IsFiniteSet(U), NEW S \in SUBSET U
      PROVE  IsFiniteSet(S) /\ Cardinality(S) \in Nat
  BY <1>2, FS_Subset, FS_CardinalityType
<1> QED
  BY <1>1, <1>2

\* Notify keeps a natural number of notifications, and one that was just sent
\* is there.
LEMMA ClipType ==
    ASSUME NEW n \in Nat, NEW W \in SUBSET Tasks
    PROVE  /\ Clip(n, W) \in Nat
           /\ n > 0 => Clip(n, W) > 0
<1>1. Cardinality(W) \in Nat
  BY FiniteConstants
<1> QED
  BY <1>1 DEF Clip

\* A notification leaves a count of notifications.
LEMMA NotifyType ==
    ASSUME NEW n \in Nat
    PROVE  /\ NotifyOne(n) \in Nat /\ NotifyOne(n) > 0
           /\ WokenDrivers(n) \in Nat
           /\ \A k : DecrementedTok(k, n) \in Nat
<1>1. Waiters \in SUBSET Tasks
  BY DEF Waiters
<1>2. NotifyOne(n) \in Nat /\ NotifyOne(n) > 0
  BY <1>1, ClipType, n + 1 \in Nat DEF NotifyOne
<1> QED
  BY <1>2 DEF WokenDrivers, DecrementedTok

\* Releasing the references of S takes exactly the held ones off the count.
LEMMA ReleaseCount ==
    ASSUME NEW L \in SUBSET Ids, NEW S, NEW H \in SUBSET Handles,
           NEW n, n = Cardinality(L) + Cardinality(H)
    PROVE  /\ Cardinality(L \cap S) \in Nat
           /\ Saturating(n, Cardinality(L \cap S))
                = Cardinality(L \ S) + Cardinality(H)
<1>1. IsFiniteSet(L) /\ Cardinality(L) \in Nat /\ Cardinality(H) \in Nat
  BY FiniteConstants
<1>2. L \cap S \in SUBSET Ids /\ L \ S \in SUBSET Ids
  OBVIOUS
<1>3. Cardinality(L \cap S) \in Nat /\ Cardinality(L \ S) \in Nat
  BY <1>2, FiniteConstants
<1>4. Cardinality(L \ S) = Cardinality(L) - Cardinality(L \cap S)
  BY <1>1, FS_Difference
<1> QED
  BY <1>1, <1>3, <1>4 DEF Saturating

-----------------------------------------------------------------------------
\* Ids are handed out once: only timers created so far hold anything.
Allocated ==
    /\ loopRef \subseteq 1 .. nextId - 1
    /\ jsHandle \subseteq 1 .. nextId - 1

IInv == TypeOK /\ Allocated /\ RefsExact

\* A runtime starts with nothing referenced.
LEMMA InitIInv == Init => IInv
<1> SUFFICES ASSUME Init PROVE IInv
  OBVIOUS
<1>1. TypeOK
  <2>1. <<>> \in Seq(Frame) /\ <<>> \in Seq(Call)
    BY EmptySeq
  <2>2. EntryTypes
    BY TimersAssumption DEF Init, EntryTypes, Providers
  <2>3. RefTypes
    BY DEF Init, RefTypes
  <2>4. LoopTypes
    BY TimersAssumption DEF Init, LoopTypes
  <2>5. PollTypes
    BY <2>1, TimersAssumption DEF Init, PollTypes
  <2>6. HookTypes
    BY DEF Init, HookTypes
  <2>7. FlagTypes
    BY DEF Init, FlagTypes
  <2> QED
    BY <2>2, <2>3, <2>4, <2>5, <2>6, <2>7 DEF TypeOK
<1>2. Allocated
  BY DEF Init, Allocated
<1>3. RefsExact
  BY FS_EmptySet DEF Init, RefsExact
<1> QED
  BY <1>1, <1>2, <1>3 DEF IInv

-----------------------------------------------------------------------------
(* The pieces of actions that several of them share.                        *)

\* A spawned task has a state and a sleep.
LEMMA SpawnType ==
    ASSUME LoopTypes, NEW until \in Int, SpawnLoop(until)
    PROVE  /\ task' \in [Tasks -> {"none", "ready", "parked", "polling"}]
           /\ sleepUntil' \in [Tasks -> Int]
BY DEF SpawnLoop, LoopTypes

\* So it has when an idle loop is resumed,
LEMMA ResumeType ==
    ASSUME LoopTypes, ResumeIfIdle
    PROVE  /\ task' \in [Tasks -> {"none", "ready", "parked", "polling"}]
           /\ sleepUntil' \in [Tasks -> Int]
<1>1. CASE UNCHANGED <<running, task, sleepUntil, driverNotify>>
  BY <1>1 DEF LoopTypes
<1>2. CASE SpawnLoop(stateDeadline)
  BY <1>2, SpawnType DEF LoopTypes
<1> QED
  BY <1>1, <1>2 DEF ResumeIfIdle

\* and when set_timeout_interval wakes or spawns it.
LEMMA ArmType ==
    ASSUME LoopTypes, NEW d \in Int, ArmLoop(d)
    PROVE  /\ task' \in [Tasks -> {"none", "ready", "parked", "polling"}]
           /\ sleepUntil' \in [Tasks -> Int]
           /\ stateDeadline' \in Int /\ timerTok' \in Nat
<1>1. CASE UNCHANGED taskVars /\ (UNCHANGED <<stateDeadline, timerTok>>
                \/ (stateDeadline' = d /\ timerTok' = NotifyOne(timerTok)))
  BY <1>1, NotifyType DEF LoopTypes, taskVars
<1>2. CASE SpawnLoop(d) /\ UNCHANGED <<stateDeadline, timerTok>>
  BY <1>2, SpawnType DEF LoopTypes
<1> QED
  BY <1>1, <1>2 DEF ArmLoop

\* UnreferenceAll keeps the count exact.
LEMMA UnreferenceExact ==
    ASSUME IInv, NEW S, UnreferenceAll(S)
    PROVE  /\ RefsExact' /\ refs' \in Nat /\ driverTok' \in Nat
           /\ loopRef' \subseteq loopRef /\ heldHandles' = heldHandles
<1>1. /\ loopRef \in SUBSET Ids /\ heldHandles \in SUBSET Handles
      /\ refs = Cardinality(loopRef) + Cardinality(heldHandles)
      /\ driverTok \in Nat
  BY DEF IInv, TypeOK, RefTypes, LoopTypes, RefsExact
<1>2. /\ refs' = Cardinality(loopRef \ S) + Cardinality(heldHandles)
      /\ loopRef' = loopRef \ S /\ heldHandles' = heldHandles
  BY <1>1, ReleaseCount DEF UnreferenceAll
<1>3. driverTok' \in Nat
  BY <1>1, NotifyType DEF UnreferenceAll
<1>4. Cardinality(loopRef \ S) \in Nat /\ Cardinality(heldHandles) \in Nat
  BY <1>1, FiniteConstants, loopRef \ S \in SUBSET Ids
<1> QED
  BY <1>2, <1>3, <1>4 DEF RefsExact

\* The calls a poll collects are finitely many, so their order is a sequence.
LEMMA SortedCallsType ==
    ASSUME EntryTypes, NEW left \in Seq(Call),
           NEW s \in SortedCalls(CallItems \cup ItemsOf(left))
    PROVE  s \in Seq(Call)
<1> DEFINE f == [i \in Firing |-> [key |-> NewDeadline[i], id |-> i]]
           items == CallItems \cup ItemsOf(left)
<1>1. Firing \in SUBSET Ids
  BY DEF EntryTypes, Firing, Due
<1>2. f \in Surjection(Firing, CallItems)
  <2>1. f \in [Firing -> CallItems] /\ \A c \in CallItems : \E i \in Firing : f[i] = c
    BY DEF CallItems
  <2> QED
    BY <2>1, Fun_IsSurj
<1>3. IsFiniteSet(CallItems)
  BY <1>1, <1>2, FiniteConstants, FS_Surjection
<1>4. IsFiniteSet(ItemsOf(left)) /\ ItemsOf(left) \subseteq Call
  <2>1. left \in [1 .. Len(left) -> Call] /\ Len(left) \in Nat /\ DOMAIN left = 1 .. Len(left)
    BY LenProperties
  <2>2. left \in [1 .. Len(left) -> ItemsOf(left)]
        /\ \A c \in ItemsOf(left) : \E a \in 1 .. Len(left) : left[a] = c
    BY <2>1 DEF ItemsOf
  <2>3. left \in Surjection(1 .. Len(left), ItemsOf(left))
    BY <2>2, Fun_IsSurj
  <2>4. IsFiniteSet(1 .. Len(left))
    BY <2>1, FS_Interval
  <2> QED
    BY <2>1, <2>3, <2>4, FS_Surjection DEF ItemsOf
<1>5. CallItems \subseteq Call
  <2>1. \A i \in Ids : NewDeadline[i] \in Int
    BY DEF EntryTypes, NewDeadline
  <2> QED
    BY <1>1, <2>1 DEF CallItems, Call
<1>6. Cardinality(items) \in Nat /\ items \subseteq Call
  BY <1>3, <1>4, <1>5, FS_Union, FS_CardinalityType
<1>7. s \in [1 .. Cardinality(items) -> items]
  BY DEF SortedCalls
<1>8. PICK n \in Nat : s \in [1 .. n -> Call]
  BY <1>6, <1>7
<1> HIDE DEF items, f
<1> QED
  BY <1>8

\* The first half of poll_timers, whoever calls it.
LEMMA BeginPollIInv ==
    ASSUME IInv,
           NEW caller \in {"loop", "pump", "import"},
           NEW owner \in Tasks \cup Requests \cup {0},
           NEW left \in Seq(Call), NEW dTok \in Nat,
           NEW lowest \in LeftDeadlines,
           BeginPoll(caller, owner, left, dTok, lowest)
    PROVE  /\ EntryTypes' /\ RefTypes' /\ FlagTypes' /\ HookTypes'
           /\ Allocated' /\ RefsExact'
           /\ stateDeadline' \in Int /\ driverTok' \in Nat
           /\ SleepFor(lowest) \in Int
           /\ executing' \in 0 .. MaxTimers
           /\ frames' \in Seq(Frame)
<1>1. /\ EntryTypes /\ RefTypes /\ FlagTypes /\ LoopTypes /\ PollTypes /\ HookTypes
      /\ Allocated /\ RefsExact
  BY DEF IInv, TypeOK
<1>2. NewDeadline \in [Ids -> Int]
  BY <1>1 DEF EntryTypes, NewDeadline
<1>3. lowest \in Int
  BY <1>1, <1>2, TimersAssumption DEF LeftDeadlines, Remaining, EntryTypes
<1>4. SleepFor(lowest) \in Int
  BY <1>1, <1>3, TimersAssumption DEF SleepFor, EntryTypes
<1>5. EntryTypes'
  BY <1>1, <1>2 DEF BeginPoll, EntryTypes, Remaining
<1>6. stateDeadline' \in Int
  BY <1>1, <1>4 DEF BeginPoll, LoopTypes
<1>7. driverTok' \in Nat
  BY NotifyType DEF BeginPoll
<1>8. refs' = Cardinality(loopRef \ OneShots) + Cardinality(heldHandles)
  <2>1. refs' = Saturating(refs, Cardinality(loopRef \cap OneShots))
    BY DEF BeginPoll
  <2>2. /\ loopRef \in SUBSET Ids /\ heldHandles \in SUBSET Handles
        /\ refs = Cardinality(loopRef) + Cardinality(heldHandles)
    BY <1>1 DEF RefTypes, RefsExact
  <2> QED
    BY <2>1, <2>2, ReleaseCount
<1>9. Cardinality(loopRef \ OneShots) \in Nat /\ Cardinality(heldHandles) \in Nat
  <2>1. loopRef \ OneShots \in SUBSET Ids /\ heldHandles \in SUBSET Handles
    BY <1>1 DEF RefTypes
  <2> QED
    BY <2>1, FiniteConstants
<1>10. RefTypes' /\ Allocated' /\ RefsExact'
  <2>1. /\ loopRef' = loopRef \ OneShots /\ jsHandle' = jsHandle /\ nextId' = nextId
        /\ heldHandles' = heldHandles /\ request' = request
    BY DEF BeginPoll
  <2>2. RefsExact'
    BY <1>8, <2>1 DEF RefsExact
  <2>3. refs' \in Nat
    BY <1>8, <1>9
  <2>4. RefTypes'
    BY <1>1, <2>1, <2>3 DEF RefTypes
  <2>5. Allocated'
    BY <1>1, <2>1 DEF Allocated
  <2> QED
    BY <2>2, <2>4, <2>5
<1>11. FlagTypes'
  BY <1>1 DEF BeginPoll, FlagTypes, ghostVars
<1>12. HookTypes'
  BY <1>1 DEF BeginPoll, HookTypes, ghostVars
<1>13. executing' \in 0 .. MaxTimers
  BY <1>1 DEF BeginPoll, PollTypes
<1>14. frames' \in Seq(Frame)
  <2>1. PICK s \in SortedCalls(CallItems \cup ItemsOf(left)) :
           frames' = <<[caller |-> caller, owner |-> owner, rest |-> s,
                        hasItems |-> Remaining # {}, cur |-> 0,
                        phase |-> IF s = <<>> THEN "next" ELSE "jobs"]>> \o frames
    BY DEF BeginPoll
  <2>2. s \in Seq(Call)
    BY <1>1, SortedCallsType
  <2>3. [caller |-> caller, owner |-> owner, rest |-> s,
         hasItems |-> Remaining # {}, cur |-> 0,
         phase |-> IF s = <<>> THEN "next" ELSE "jobs"] \in Frame
    BY <2>2, TimersAssumption DEF Frame
  <2> QED
    BY <1>1, <2>1, <2>3 DEF PollTypes
<1> QED
  BY <1>4, <1>5, <1>6, <1>7, <1>10, <1>11, <1>12, <1>13, <1>14

\* The innermost poll and the item it takes next.
LEMMA TopType ==
    ASSUME PollTypes, frames # <<>>
    PROVE  /\ Top \in Frame /\ Tail(frames) \in Seq(Frame)
           /\ Top.rest \in Seq(Call) /\ Top.cur \in 0 .. MaxTimers
<1>1. frames \in Seq(Frame)
  BY DEF PollTypes
<1>2. Head(frames) \in Frame /\ Tail(frames) \in Seq(Frame)
  BY <1>1, HeadTailProperties
<1>3. Top \in Frame
  BY <1>2 DEF Top
<1>4. Top.rest \in Seq(Call) /\ Top.cur \in 0 .. MaxTimers
  BY <1>3 DEF Frame
<1> QED
  BY <1>2, <1>3, <1>4

\* The item a poll takes next, and what it leaves.
LEMMA NextCallType ==
    ASSUME NEW s \in Seq(Call), s # <<>>
    PROVE  Tail(s) \in Seq(Call) /\ Head(s).id \in Ids
<1>1. Head(s) \in Call /\ Tail(s) \in Seq(Call)
  BY HeadTailProperties
<1> QED
  BY <1>1 DEF Call

\* A poll that goes on is still a poll.
LEMMA FrameUpdate ==
    ASSUME NEW f \in Frame
    PROVE  /\ \A s \in Seq(Call), i \in Ids :
                [f EXCEPT !.rest = s, !.cur = i, !.phase = "call"] \in Frame
           /\ [f EXCEPT !.phase = "micro"] \in Frame
           /\ [f EXCEPT !.cur = 0, !.phase = "next"] \in Frame
<1>1. Ids \subseteq 0 .. MaxTimers /\ 0 \in 0 .. MaxTimers
  BY TimersAssumption DEF Ids
<1>2. ASSUME NEW s \in Seq(Call), NEW i \in Ids
      PROVE  [f EXCEPT !.rest = s, !.cur = i, !.phase = "call"] \in Frame
  BY <1>1 DEF Frame
<1>3. [f EXCEPT !.phase = "micro"] \in Frame
  BY DEF Frame
<1>4. [f EXCEPT !.cur = 0, !.phase = "next"] \in Frame
  BY <1>1 DEF Frame
<1> QED
  BY <1>2, <1>3, <1>4

-----------------------------------------------------------------------------
\* Every step keeps the types, the bookkeeping of ids and the exact count.
LEMMA StepIInv == IInv /\ [Next]_vars => IInv'
<1> SUFFICES ASSUME IInv, [Next]_vars PROVE IInv'
  OBVIOUS
<1> USE DEF entryVars, refVars, stateVars, taskVars, tokVars, ghostVars
<1>0. /\ IInv /\ EntryTypes /\ RefTypes /\ FlagTypes /\ LoopTypes /\ PollTypes /\ HookTypes
      /\ Allocated /\ RefsExact
  BY DEF IInv, TypeOK
<1>1. ASSUME NEW k \in Kinds, NEW delay \in Delays, SetTimer(k, delay) PROVE IInv'
  <2>1. nextId \in Ids /\ DeadlineOf(k, delay) \in Int
    BY <1>1, <1>0, TimersAssumption DEF SetTimer, EntryTypes, Ids, DeadlineOf
  <2>2. Cardinality(loopRef') = Cardinality(loopRef) + 1 /\ Cardinality(loopRef) \in Nat
    BY <1>1, <1>0, FiniteConstants, FS_AddElement DEF SetTimer, RefTypes, EntryTypes, Allocated
  <2>3. /\ task' \in [Tasks -> {"none", "ready", "parked", "polling"}]
        /\ sleepUntil' \in [Tasks -> Int]
        /\ stateDeadline' \in Int /\ timerTok' \in Nat
    BY <1>1, <1>0, <2>1, ArmType DEF SetTimer
  <2>4. running' \in BOOLEAN /\ driverNotify' \in BOOLEAN
    BY <1>1, <1>0 DEF SetTimer, ArmLoop, SpawnLoop, FlagTypes
  <2>5. EntryTypes'
    BY <1>1, <1>0, <2>1, TimersAssumption DEF SetTimer, EntryTypes, Providers
  <2>6. RefTypes'
    BY <1>1, <1>0, <2>1 DEF SetTimer, RefTypes
  <2>7. FlagTypes'
    BY <1>1, <1>0, <2>4 DEF SetTimer, FlagTypes
  <2>8. LoopTypes'
    BY <1>1, <1>0, <2>1, <2>3 DEF SetTimer, LoopTypes
  <2>9. PollTypes'
    BY <1>1, <1>0 DEF SetTimer, PollTypes
  <2>10. HookTypes'
    BY <1>1, <1>0, <2>1 DEF SetTimer, HookTypes, EntryTypes
  <2>a. /\ loopRef' = loopRef \cup {nextId} /\ jsHandle' = jsHandle \cup {nextId}
        /\ nextId' = nextId + 1 /\ refs' = refs + 1 /\ heldHandles' = heldHandles
    BY <1>1 DEF SetTimer
  <2>b. nextId \in Nat \ {0}
    BY <1>0 DEF EntryTypes
  <2>11. Allocated'
    BY <1>0, <2>a, <2>b DEF Allocated
  <2>c. Cardinality(heldHandles) \in Nat
    BY <1>0, FiniteConstants DEF RefTypes
  <2>12. RefsExact'
    BY <1>0, <2>2, <2>a, <2>c DEF RefsExact
  <2> QED
    BY <2>5, <2>6, <2>7, <2>8, <2>9, <2>10, <2>11, <2>12 DEF IInv, TypeOK
<1>2. ASSUME NEW i \in Ids, ClearTimer(i) PROVE IInv'
  <2>1. /\ RefsExact' /\ refs' \in Nat /\ driverTok' \in Nat
        /\ loopRef' \subseteq loopRef /\ heldHandles' = heldHandles
    BY <1>2, <1>0, UnreferenceExact DEF ClearTimer, IInv, TypeOK, RefTypes, LoopTypes, RefsExact, refVars, tokVars
  <2>2. timerTok' \in Nat
    BY <1>2, <1>0, NotifyType DEF ClearTimer, LoopTypes, tokVars
  <2>3. EntryTypes'
    BY <1>2, <1>0, TimersAssumption DEF ClearTimer, EntryTypes
  <2>4. RefTypes'
    BY <1>2, <1>0, <2>1 DEF ClearTimer, RefTypes
  <2>5. FlagTypes'
    BY <1>2, <1>0 DEF ClearTimer, FlagTypes
  <2>6. LoopTypes'
    BY <1>2, <1>0, <2>1, <2>2 DEF ClearTimer, LoopTypes
  <2>7. PollTypes'
    BY <1>2, <1>0 DEF ClearTimer, PollTypes
  <2>8. HookTypes'
    BY <1>2, <1>0 DEF ClearTimer, HookTypes
  <2>9. Allocated'
    BY <1>2, <1>0, <2>1 DEF ClearTimer, Allocated
  <2>10. RefsExact'
    BY <1>2, <1>0, <2>1 DEF RefsExact
  <2> QED
    BY <2>3, <2>4, <2>5, <2>6, <2>7, <2>8, <2>9, <2>10 DEF IInv, TypeOK
<1>3. ASSUME NEW i \in Ids, RefTimer(i) PROVE IInv'
  <2>1. /\ Cardinality(loopRef') = IF i \in loopRef THEN Cardinality(loopRef) ELSE Cardinality(loopRef) + 1
        /\ Cardinality(loopRef) \in Nat /\ Cardinality(heldHandles) \in Nat
    BY <1>3, <1>0, FiniteConstants, FS_AddElement DEF RefTimer, RefTypes
  <2>2. EntryTypes'
    BY <1>3, <1>0 DEF RefTimer, EntryTypes
  <2>3. RefTypes'
    BY <1>3, <1>0 DEF RefTimer, RefTypes
  <2>4. FlagTypes'
    BY <1>3, <1>0 DEF RefTimer, FlagTypes
  <2>5. LoopTypes'
    BY <1>3, <1>0 DEF RefTimer, LoopTypes
  <2>6. PollTypes'
    BY <1>3, <1>0 DEF RefTimer, PollTypes
  <2>7. HookTypes'
    BY <1>3, <1>0 DEF RefTimer, HookTypes
  <2>8. Allocated'
    BY <1>3, <1>0 DEF RefTimer, Allocated
  <2>9. RefsExact'
    BY <1>3, <1>0, <2>1 DEF RefTimer, RefsExact
  <2> QED
    BY <2>2, <2>3, <2>4, <2>5, <2>6, <2>7, <2>8, <2>9 DEF IInv, TypeOK
<1>4. ASSUME NEW i \in Ids, UnrefTimer(i) PROVE IInv'
  <2>1. /\ RefsExact' /\ refs' \in Nat /\ driverTok' \in Nat
        /\ loopRef' \subseteq loopRef /\ heldHandles' = heldHandles
    BY <1>4, <1>0, UnreferenceExact DEF UnrefTimer
  <2>2. timerTok' \in Nat
    BY <1>4, <1>0, NotifyType DEF UnrefTimer, LoopTypes
  <2>3. EntryTypes'
    BY <1>4, <1>0 DEF UnrefTimer, EntryTypes
  <2>4. RefTypes'
    BY <1>4, <1>0, <2>1 DEF UnrefTimer, RefTypes
  <2>5. FlagTypes'
    BY <1>4, <1>0 DEF UnrefTimer, FlagTypes
  <2>6. LoopTypes'
    BY <1>4, <1>0, <2>1, <2>2 DEF UnrefTimer, LoopTypes
  <2>7. PollTypes'
    BY <1>4, <1>0 DEF UnrefTimer, PollTypes
  <2>8. HookTypes'
    BY <1>4, <1>0 DEF UnrefTimer, HookTypes
  <2>9. Allocated'
    BY <1>4, <1>0, <2>1 DEF UnrefTimer, Allocated
  <2>10. RefsExact'
    BY <1>4, <1>0, <2>1 DEF RefsExact
  <2> QED
    BY <2>3, <2>4, <2>5, <2>6, <2>7, <2>8, <2>9, <2>10 DEF IInv, TypeOK
<1>5. ASSUME NEW i \in Ids, DropHandle(i) PROVE IInv'
  <2>1. /\ RefsExact' /\ refs' \in Nat /\ driverTok' \in Nat
        /\ loopRef' \subseteq loopRef /\ heldHandles' = heldHandles
    BY <1>5, <1>0, UnreferenceExact DEF DropHandle
  <2>2. EntryTypes'
    BY <1>5, <1>0 DEF DropHandle, EntryTypes
  <2>3. RefTypes'
    BY <1>5, <1>0, <2>1 DEF DropHandle, RefTypes
  <2>4. FlagTypes'
    BY <1>5, <1>0 DEF DropHandle, FlagTypes
  <2>5. LoopTypes'
    BY <1>5, <1>0, <2>1 DEF DropHandle, LoopTypes
  <2>6. PollTypes'
    BY <1>5, <1>0 DEF DropHandle, PollTypes
  <2>7. HookTypes'
    BY <1>5, <1>0 DEF DropHandle, HookTypes
  <2>8. Allocated'
    BY <1>5, <1>0, <2>1 DEF DropHandle, Allocated
  <2>9. RefsExact'
    BY <1>5, <1>0, <2>1 DEF RefsExact
  <2> QED
    BY <2>2, <2>3, <2>4, <2>5, <2>6, <2>7, <2>8, <2>9 DEF IInv, TypeOK
<1>6. ASSUME NEW h \in Handles, RefHandle(h) PROVE IInv'
  <2>1. /\ Cardinality(heldHandles') = IF h \in heldHandles THEN Cardinality(heldHandles) ELSE Cardinality(heldHandles) + 1
        /\ Cardinality(loopRef) \in Nat /\ Cardinality(heldHandles) \in Nat
    BY <1>6, <1>0, FiniteConstants, FS_AddElement DEF RefHandle, RefTypes
  <2>2. EntryTypes'
    BY <1>6, <1>0 DEF RefHandle, EntryTypes
  <2>3. RefTypes'
    BY <1>6, <1>0 DEF RefHandle, RefTypes
  <2>4. FlagTypes'
    BY <1>6, <1>0 DEF RefHandle, FlagTypes
  <2>5. LoopTypes'
    BY <1>6, <1>0 DEF RefHandle, LoopTypes
  <2>6. PollTypes'
    BY <1>6, <1>0 DEF RefHandle, PollTypes
  <2>7. HookTypes'
    BY <1>6, <1>0 DEF RefHandle, HookTypes
  <2>8. Allocated'
    BY <1>6, <1>0 DEF RefHandle, Allocated
  <2>9. RefsExact'
    BY <1>6, <1>0, <2>1 DEF RefHandle, RefsExact
  <2> QED
    BY <2>2, <2>3, <2>4, <2>5, <2>6, <2>7, <2>8, <2>9 DEF IInv, TypeOK
<1>7. ASSUME NEW h \in Handles, UnrefHandle(h) PROVE IInv'
  <2>1. /\ Cardinality(heldHandles') = IF h \in heldHandles THEN Cardinality(heldHandles) - 1 ELSE Cardinality(heldHandles)
        /\ Cardinality(loopRef) \in Nat /\ Cardinality(heldHandles) \in Nat
        /\ Cardinality(heldHandles') \in Nat
    BY <1>7, <1>0, FiniteConstants, FS_RemoveElement, FS_CardinalityType DEF UnrefHandle, RefTypes
  <2>2. EntryTypes'
    BY <1>7, <1>0 DEF UnrefHandle, EntryTypes
  <2>3. RefTypes'
    BY <1>7, <1>0 DEF UnrefHandle, RefTypes, Saturating
  <2>4. FlagTypes'
    BY <1>7, <1>0 DEF UnrefHandle, FlagTypes
  <2>5. LoopTypes'
    BY <1>7, <1>0, NotifyType DEF UnrefHandle, LoopTypes
  <2>6. PollTypes'
    BY <1>7, <1>0 DEF UnrefHandle, PollTypes
  <2>7. HookTypes'
    BY <1>7, <1>0 DEF UnrefHandle, HookTypes
  <2>8. Allocated'
    BY <1>7, <1>0 DEF UnrefHandle, Allocated
  <2>9. RefsExact'
    BY <1>7, <1>0, <2>1 DEF UnrefHandle, RefsExact, Saturating
  <2> QED
    BY <2>2, <2>3, <2>4, <2>5, <2>6, <2>7, <2>8, <2>9 DEF IInv, TypeOK
<1>8. ASSUME NEW t \in Tasks, WakeLoop(t) PROVE IInv'
  <2>1. PICK branch \in {"timer", "sleep", "driver"}, lowest \in LeftDeadlines :
          LET others == Waiters \ {t}
              tTok == IF branch = "timer" THEN timerTok - 1 ELSE timerTok
              dTok == IF branch = "driver" THEN driverTok - 1 ELSE driverTok
          IN  /\ branch = "timer" => timerTok > 0
              /\ branch = "driver" => driverTok > 0
              /\ timerTok' = Clip(tTok, others)
              /\ BeginPoll("loop", t, <<>>, Clip(dTok, others), lowest)
              /\ sleepUntil' = IF timers # {} THEN [sleepUntil EXCEPT ![t] = SleepFor(lowest)]
                                              ELSE sleepUntil
    BY <1>8 DEF WakeLoop
  <2> DEFINE others == Waiters \ {t}
             tTok == IF branch = "timer" THEN timerTok - 1 ELSE timerTok
             dTok == IF branch = "driver" THEN driverTok - 1 ELSE driverTok
  <2>2. others \in SUBSET Tasks /\ tTok \in Nat /\ dTok \in Nat
    BY <1>0, <2>1 DEF Waiters, LoopTypes
  <2>3. timerTok' \in Nat /\ Clip(dTok, others) \in Nat
    BY <2>1, <2>2, ClipType
  <2>4. BeginPoll("loop", t, <<>>, Clip(dTok, others), lowest)
    BY <2>1
  <2>5. <<>> \in Seq(Call)
    BY EmptySeq
  <2> HIDE DEF others, tTok, dTok
  <2>6. /\ EntryTypes' /\ RefTypes' /\ FlagTypes' /\ HookTypes' /\ Allocated' /\ RefsExact'
        /\ stateDeadline' \in Int /\ driverTok' \in Nat
        /\ executing' \in 0 .. MaxTimers /\ frames' \in Seq(Frame)
        /\ SleepFor(lowest) \in Int
    BY <1>0, <2>3, <2>4, <2>5, BeginPollIInv
  <2>7. LoopTypes'
    <3>1. sleepUntil' \in [Tasks -> Int]
      BY <1>0, <2>1, <2>6 DEF LoopTypes
    <3>2. task' \in [Tasks -> {"none", "ready", "parked", "polling"}]
      BY <1>0, <1>8 DEF WakeLoop, LoopTypes
    <3> QED
      BY <2>3, <2>6, <3>1, <3>2 DEF LoopTypes
  <2>8. PollTypes'
    BY <1>0, <1>8, <2>6 DEF WakeLoop, PollTypes
  <2> QED
    BY <2>6, <2>7, <2>8 DEF IInv, TypeOK
<1>9. ASSUME NEW t \in Tasks, Park(t) PROVE IInv'
  <2>1. EntryTypes'
    BY <1>9, <1>0 DEF Park, EntryTypes
  <2>2. RefTypes'
    BY <1>9, <1>0 DEF Park, RefTypes
  <2>3. FlagTypes'
    BY <1>9, <1>0 DEF Park, FlagTypes
  <2>4. LoopTypes'
    BY <1>9, <1>0 DEF Park, LoopTypes
  <2>5. PollTypes'
    BY <1>9, <1>0 DEF Park, PollTypes
  <2>6. HookTypes'
    BY <1>9, <1>0 DEF Park, HookTypes
  <2>7. Allocated'
    BY <1>9, <1>0 DEF Park, Allocated
  <2>8. RefsExact'
    BY <1>9, <1>0 DEF Park, RefsExact
  <2> QED
    BY <2>1, <2>2, <2>3, <2>4, <2>5, <2>6, <2>7, <2>8 DEF IInv, TypeOK
<1>10. ASSUME NEW r \in Requests, PumpTick(r) PROVE IInv'
  <2>1. PICK lowest \in LeftDeadlines :
          BeginPoll("pump", r, pumpVec[r], driverTok, lowest)
    BY <1>10 DEF PumpTick
  <2>2. pumpVec[r] \in Seq(Call) /\ driverTok \in Nat /\ <<>> \in Seq(Call)
    BY <1>0, EmptySeq DEF PollTypes, LoopTypes
  <2>3. /\ EntryTypes' /\ RefTypes' /\ FlagTypes' /\ HookTypes' /\ Allocated' /\ RefsExact'
        /\ stateDeadline' \in Int /\ driverTok' \in Nat
        /\ executing' \in 0 .. MaxTimers /\ frames' \in Seq(Frame)
    BY <1>0, <2>1, <2>2, BeginPollIInv
  <2>4. LoopTypes'
    BY <1>0, <1>10, <2>3 DEF PumpTick, LoopTypes, taskVars
  <2>5. PollTypes'
    BY <1>0, <1>10, <2>2, <2>3 DEF PumpTick, PollTypes
  <2> QED
    BY <2>3, <2>4, <2>5 DEF IInv, TypeOK
<1>11. ASSUME ImportPoll PROVE IInv'
  <2>1. PICK lowest \in LeftDeadlines :
          BeginPoll("import", 0, <<>>, driverTok, lowest)
    BY <1>11 DEF ImportPoll
  <2>2. <<>> \in Seq(Call) /\ driverTok \in Nat /\ <<>> \in Seq(Call)
    BY <1>0, EmptySeq DEF PollTypes, LoopTypes
  <2>3. /\ EntryTypes' /\ RefTypes' /\ FlagTypes' /\ HookTypes' /\ Allocated' /\ RefsExact'
        /\ stateDeadline' \in Int /\ driverTok' \in Nat
        /\ executing' \in 0 .. MaxTimers /\ frames' \in Seq(Frame)
    BY <1>0, <2>1, <2>2, BeginPollIInv
  <2>4. LoopTypes'
    BY <1>0, <1>11, <2>3 DEF ImportPoll, LoopTypes, taskVars
  <2>5. PollTypes'
    BY <1>0, <1>11, <2>2, <2>3 DEF ImportPoll, PollTypes
  <2> QED
    BY <2>3, <2>4, <2>5 DEF IInv, TypeOK
<1>12. ASSUME StartCallback PROVE IInv'
  <2>1. /\ Top \in Frame /\ Tail(frames) \in Seq(Frame)
        /\ Top.rest \in Seq(Call) /\ Top.cur \in 0 .. MaxTimers
    BY <1>12, <1>0, TopType DEF StartCallback
  <2>2. /\ Tail(Top.rest) \in Seq(Call) /\ Head(Top.rest).id \in Ids
    BY <1>12, <2>1, NextCallType DEF StartCallback
  <2>3. [Top EXCEPT !.rest = Tail(@), !.cur = Head(Top.rest).id, !.phase = "call"] \in Frame
    BY <2>1, <2>2, FrameUpdate
  <2>4. EntryTypes'
    BY <1>12, <1>0 DEF StartCallback, EntryTypes
  <2>5. RefTypes'
    BY <1>12, <1>0 DEF StartCallback, RefTypes
  <2>6. FlagTypes'
    BY <1>12, <1>0 DEF StartCallback, FlagTypes
  <2>7. LoopTypes'
    BY <1>12, <1>0 DEF StartCallback, LoopTypes
  <2>8. PollTypes'
    BY <1>12, <1>0, <2>1, <2>2, <2>3 DEF StartCallback, PollTypes, SetTop, Ids
  <2>9. HookTypes'
    BY <1>12, <1>0, <2>1, <2>2 DEF StartCallback, HookTypes, Top
  <2>10. Allocated'
    BY <1>12, <1>0 DEF StartCallback, Allocated
  <2>11. RefsExact'
    BY <1>12, <1>0 DEF StartCallback, RefsExact
  <2> QED
    BY <2>4, <2>5, <2>6, <2>7, <2>8, <2>9, <2>10, <2>11 DEF IInv, TypeOK
<1>13. ASSUME EndCallback PROVE IInv'
  <2>1. /\ Top \in Frame /\ Tail(frames) \in Seq(Frame)
        /\ Top.rest \in Seq(Call) /\ Top.cur \in 0 .. MaxTimers
    BY <1>13, <1>0, TopType DEF EndCallback
  <2>2. [Top EXCEPT !.phase = "micro"] \in Frame
    BY <2>1, FrameUpdate
  <2>3. EntryTypes'
    BY <1>13, <1>0 DEF EndCallback, EntryTypes
  <2>4. RefTypes'
    BY <1>13, <1>0 DEF EndCallback, RefTypes
  <2>5. FlagTypes'
    BY <1>13, <1>0 DEF EndCallback, FlagTypes
  <2>6. LoopTypes'
    BY <1>13, <1>0 DEF EndCallback, LoopTypes
  <2>7. PollTypes'
    BY <1>13, <1>0, <2>1, <2>2 DEF EndCallback, PollTypes, SetTop
  <2>8. HookTypes'
    BY <1>13, <1>0 DEF EndCallback, HookTypes
  <2>9. Allocated'
    BY <1>13, <1>0 DEF EndCallback, Allocated
  <2>10. RefsExact'
    BY <1>13, <1>0 DEF EndCallback, RefsExact
  <2> QED
    BY <2>3, <2>4, <2>5, <2>6, <2>7, <2>8, <2>9, <2>10 DEF IInv, TypeOK
<1>14. ASSUME FinishItem PROVE IInv'
  <2>1. /\ Top \in Frame /\ Tail(frames) \in Seq(Frame)
        /\ Top.rest \in Seq(Call) /\ Top.cur \in 0 .. MaxTimers
    BY <1>14, <1>0, TopType DEF FinishItem
  <2>2. [Top EXCEPT !.cur = 0, !.phase = "next"] \in Frame
    BY <2>1, FrameUpdate
  <2>3. EntryTypes'
    BY <1>14, <1>0 DEF FinishItem, EntryTypes
  <2>4. RefTypes'
    BY <1>14, <1>0 DEF FinishItem, RefTypes
  <2>5. FlagTypes'
    BY <1>14, <1>0 DEF FinishItem, FlagTypes
  <2>6. LoopTypes'
    BY <1>14, <1>0 DEF FinishItem, LoopTypes
  <2>7. PollTypes'
    BY <1>14, <1>0, <2>1, <2>2, TimersAssumption DEF FinishItem, PollTypes, SetTop
  <2>8. HookTypes'
    BY <1>14, <1>0 DEF FinishItem, HookTypes
  <2>9. Allocated'
    BY <1>14, <1>0 DEF FinishItem, Allocated
  <2>10. RefsExact'
    BY <1>14, <1>0 DEF FinishItem, RefsExact
  <2> QED
    BY <2>3, <2>4, <2>5, <2>6, <2>7, <2>8, <2>9, <2>10 DEF IInv, TypeOK
<1>15. ASSUME ThrowCallback PROVE IInv'
  <2>1. /\ Top \in Frame /\ Tail(frames) \in Seq(Frame)
        /\ Top.rest \in Seq(Call) /\ Top.cur \in 0 .. MaxTimers
    BY <1>15, <1>0, TopType DEF ThrowCallback
  <2>2. EntryTypes'
    BY <1>15, <1>0 DEF ThrowCallback, EntryTypes
  <2>3. RefTypes'
    BY <1>15, <1>0 DEF ThrowCallback, RefTypes
  <2>4. FlagTypes'
    BY <1>15, <1>0 DEF ThrowCallback, FlagTypes
  <2>5. LoopTypes'
    BY <1>15, <1>0 DEF ThrowCallback, LoopTypes
  <2>6. PollTypes'
    <3>1. frames' \in Seq(Frame) /\ executing' \in 0 .. MaxTimers
      BY <1>15, <2>1, TimersAssumption DEF ThrowCallback
    <3>2. pumpVec \in [Requests -> Seq(Call)]
      BY <1>0 DEF PollTypes
    <3>3. pumpVec' \in [Requests -> Seq(Call)]
      <4>1. CASE pumpVec' = pumpVec
        BY <4>1, <3>2
      <4>2. CASE pumpVec' = [pumpVec EXCEPT ![Top.owner] = Top.rest]
        BY <4>2, <3>2, <2>1
      <4> QED
        BY <1>15, <4>1, <4>2 DEF ThrowCallback
    <3> QED
      BY <3>1, <3>3 DEF PollTypes
  <2>7. HookTypes'
    BY <1>15, <1>0 DEF ThrowCallback, HookTypes
  <2>8. Allocated'
    BY <1>15, <1>0 DEF ThrowCallback, Allocated
  <2>9. RefsExact'
    BY <1>15, <1>0 DEF ThrowCallback, RefsExact
  <2> QED
    BY <2>2, <2>3, <2>4, <2>5, <2>6, <2>7, <2>8, <2>9 DEF IInv, TypeOK
<1>16. ASSUME EndPoll PROVE IInv'
  <2>1. /\ Top \in Frame /\ Tail(frames) \in Seq(Frame)
        /\ Top.rest \in Seq(Call) /\ Top.cur \in 0 .. MaxTimers
    BY <1>16, <1>0, TopType DEF EndPoll
  <2>2. EntryTypes'
    BY <1>16, <1>0 DEF EndPoll, EntryTypes
  <2>3. RefTypes'
    BY <1>16, <1>0 DEF EndPoll, RefTypes
  <2>4. FlagTypes'
    BY <1>16, <1>0 DEF EndPoll, FlagTypes
  <2>5. LoopTypes'
    BY <1>16, <1>0 DEF EndPoll, LoopTypes
  <2>6. PollTypes'
    BY <1>16, <1>0, <2>1 DEF EndPoll, PollTypes
  <2>7. HookTypes'
    BY <1>16, <1>0 DEF EndPoll, HookTypes
  <2>8. Allocated'
    BY <1>16, <1>0 DEF EndPoll, Allocated
  <2>9. RefsExact'
    BY <1>16, <1>0 DEF EndPoll, RefsExact
  <2> QED
    BY <2>2, <2>3, <2>4, <2>5, <2>6, <2>7, <2>8, <2>9 DEF IInv, TypeOK
<1>17. ASSUME NEW r \in Requests, BeginRequest(r) PROVE IInv'
  <2>1. EntryTypes'
    BY <1>17, <1>0 DEF BeginRequest, EntryTypes
  <2>2. RefTypes'
    BY <1>17, <1>0 DEF BeginRequest, RefTypes
  <2>3. FlagTypes'
    BY <1>17, <1>0 DEF BeginRequest, FlagTypes
  <2>4. LoopTypes'
    BY <1>17, <1>0, NotifyType DEF BeginRequest, LoopTypes
  <2>5. PollTypes'
    BY <1>17, <1>0 DEF BeginRequest, PollTypes
  <2>6. HookTypes'
    BY <1>17, <1>0 DEF BeginRequest, HookTypes
  <2>7. Allocated'
    BY <1>17, <1>0 DEF BeginRequest, Allocated
  <2>8. RefsExact'
    BY <1>17, <1>0 DEF BeginRequest, RefsExact
  <2> QED
    BY <2>1, <2>2, <2>3, <2>4, <2>5, <2>6, <2>7, <2>8 DEF IInv, TypeOK
<1>23. ASSUME NEW r \in Requests, AbandonRequest(r) PROVE IInv'
  <2>1. EntryTypes'
    BY <1>23, <1>0 DEF AbandonRequest, EntryTypes
  <2>2. RefTypes'
    BY <1>23, <1>0 DEF AbandonRequest, RefTypes
  <2>3. FlagTypes'
    BY <1>23, <1>0 DEF AbandonRequest, FlagTypes
  <2>4. LoopTypes'
    BY <1>23, <1>0 DEF AbandonRequest, LoopTypes
  <2>5. PollTypes'
    BY <1>23, <1>0, EmptySeq DEF AbandonRequest, PollTypes
  <2>6. HookTypes'
    BY <1>23, <1>0 DEF AbandonRequest, HookTypes
  <2>7. Allocated'
    BY <1>23, <1>0 DEF AbandonRequest, Allocated
  <2>8. RefsExact'
    BY <1>23, <1>0 DEF AbandonRequest, RefsExact
  <2> QED
    BY <2>1, <2>2, <2>3, <2>4, <2>5, <2>6, <2>7, <2>8 DEF IInv, TypeOK
<1>24. ASSUME NEW r \in Requests, Dispatch(r) PROVE IInv'
  <2>1. /\ task' \in [Tasks -> {"none", "ready", "parked", "polling"}]
        /\ sleepUntil' \in [Tasks -> Int]
    BY <1>24, <1>0, ResumeType DEF Dispatch
  <2>2. running' \in BOOLEAN /\ driverNotify' \in BOOLEAN
    BY <1>24, <1>0 DEF Dispatch, ResumeIfIdle, SpawnLoop, FlagTypes
  <2>3. EntryTypes'
    BY <1>24, <1>0 DEF Dispatch, EntryTypes
  <2>4. RefTypes'
    BY <1>24, <1>0 DEF Dispatch, RefTypes
  <2>5. FlagTypes'
    BY <1>24, <1>0, <2>2 DEF Dispatch, FlagTypes
  <2>6. LoopTypes'
    BY <1>24, <1>0, <2>1 DEF Dispatch, LoopTypes
  <2>7. PollTypes'
    BY <1>24, <1>0 DEF Dispatch, PollTypes
  <2>8. HookTypes'
    BY <1>24, <1>0 DEF Dispatch, HookTypes
  <2>9. Allocated'
    BY <1>24, <1>0 DEF Dispatch, Allocated
  <2>10. RefsExact'
    BY <1>24, <1>0 DEF Dispatch, RefsExact
  <2> QED
    BY <2>3, <2>4, <2>5, <2>6, <2>7, <2>8, <2>9, <2>10 DEF IInv, TypeOK
<1>18. ASSUME NEW r \in Requests, EndRequest(r) PROVE IInv'
  <2>1. EntryTypes'
    BY <1>18, <1>0 DEF EndRequest, EntryTypes
  <2>2. RefTypes'
    BY <1>18, <1>0 DEF EndRequest, RefTypes
  <2>3. FlagTypes'
    BY <1>18, <1>0 DEF EndRequest, FlagTypes
  <2>4. LoopTypes'
    BY <1>18, <1>0, NotifyType DEF EndRequest, LoopTypes
  <2>5. PollTypes'
    BY <1>18, <1>0, EmptySeq DEF EndRequest, PollTypes
  <2>6. HookTypes'
    BY <1>18, <1>0 DEF EndRequest, HookTypes
  <2>7. Allocated'
    BY <1>18, <1>0 DEF EndRequest, Allocated
  <2>8. RefsExact'
    BY <1>18, <1>0 DEF EndRequest, RefsExact
  <2> QED
    BY <2>1, <2>2, <2>3, <2>4, <2>5, <2>6, <2>7, <2>8 DEF IInv, TypeOK
<1>19. ASSUME Resume PROVE IInv'
  <2>1. /\ task' \in [Tasks -> {"none", "ready", "parked", "polling"}]
        /\ sleepUntil' \in [Tasks -> Int]
    BY <1>19, <1>0, ResumeType DEF Resume
  <2>2. running' \in BOOLEAN /\ driverNotify' \in BOOLEAN
    BY <1>19, <1>0 DEF Resume, ResumeIfIdle, SpawnLoop, FlagTypes
  <2>3. EntryTypes'
    BY <1>19, <1>0 DEF Resume, EntryTypes
  <2>4. RefTypes'
    BY <1>19, <1>0 DEF Resume, RefTypes
  <2>5. FlagTypes'
    BY <1>19, <1>0, <2>2 DEF Resume, FlagTypes
  <2>6. LoopTypes'
    BY <1>19, <1>0, <2>1 DEF Resume, LoopTypes
  <2>7. PollTypes'
    BY <1>19, <1>0 DEF Resume, PollTypes
  <2>8. HookTypes'
    BY <1>19, <1>0 DEF Resume, HookTypes
  <2>9. Allocated'
    BY <1>19, <1>0 DEF Resume, Allocated
  <2>10. RefsExact'
    BY <1>19, <1>0 DEF Resume, RefsExact
  <2> QED
    BY <2>3, <2>4, <2>5, <2>6, <2>7, <2>8, <2>9, <2>10 DEF IInv, TypeOK
<1>20. ASSUME NaturalExit PROVE IInv'
  <2>1. /\ RefsExact' /\ refs' \in Nat /\ driverTok' \in Nat
        /\ loopRef' \subseteq loopRef /\ heldHandles' = heldHandles
    BY <1>20, <1>0, UnreferenceExact DEF NaturalExit, DiscardAllTimers
  <2>2. timerTok' \in Nat
    BY <1>20, <1>0, NotifyType DEF NaturalExit, DiscardAllTimers, LoopTypes
  <2>3. EntryTypes'
    BY <1>20, <1>0 DEF NaturalExit, EntryTypes, DiscardAllTimers
  <2>4. RefTypes'
    BY <1>20, <1>0, <2>1 DEF NaturalExit, RefTypes, DiscardAllTimers
  <2>5. FlagTypes'
    BY <1>20, <1>0 DEF NaturalExit, FlagTypes, DiscardAllTimers
  <2>6. LoopTypes'
    BY <1>20, <1>0, <2>1, <2>2 DEF NaturalExit, LoopTypes, DiscardAllTimers
  <2>7. PollTypes'
    BY <1>20, <1>0 DEF NaturalExit, PollTypes, DiscardAllTimers
  <2>8. HookTypes'
    BY <1>20, <1>0 DEF NaturalExit, HookTypes, DiscardAllTimers
  <2>9. Allocated'
    BY <1>20, <1>0, <2>1 DEF NaturalExit, Allocated, DiscardAllTimers
  <2>10. RefsExact'
    BY <1>20, <1>0, <2>1 DEF RefsExact
  <2> QED
    BY <2>3, <2>4, <2>5, <2>6, <2>7, <2>8, <2>9, <2>10 DEF IInv, TypeOK
<1>21. ASSUME Tick PROVE IInv'
  <2>1. EntryTypes'
    BY <1>21, <1>0 DEF Tick, EntryTypes
  <2>2. RefTypes'
    BY <1>21, <1>0 DEF Tick, RefTypes
  <2>3. FlagTypes'
    BY <1>21, <1>0 DEF Tick, FlagTypes
  <2>4. LoopTypes'
    BY <1>21, <1>0 DEF Tick, LoopTypes
  <2>5. PollTypes'
    BY <1>21, <1>0 DEF Tick, PollTypes
  <2>6. HookTypes'
    BY <1>21, <1>0 DEF Tick, HookTypes
  <2>7. Allocated'
    BY <1>21, <1>0 DEF Tick, Allocated
  <2>8. RefsExact'
    BY <1>21, <1>0 DEF Tick, RefsExact
  <2> QED
    BY <2>1, <2>2, <2>3, <2>4, <2>5, <2>6, <2>7, <2>8 DEF IInv, TypeOK
<1>22. ASSUME UNCHANGED vars PROVE IInv'
  <2>1. EntryTypes'
    BY <1>22, <1>0 DEF vars, EntryTypes
  <2>2. RefTypes'
    BY <1>22, <1>0 DEF vars, RefTypes
  <2>3. FlagTypes'
    BY <1>22, <1>0 DEF vars, FlagTypes
  <2>4. LoopTypes'
    BY <1>22, <1>0 DEF vars, LoopTypes
  <2>5. PollTypes'
    BY <1>22, <1>0 DEF vars, PollTypes
  <2>6. HookTypes'
    BY <1>22, <1>0 DEF vars, HookTypes
  <2>7. Allocated'
    BY <1>22, <1>0 DEF vars, Allocated
  <2>8. RefsExact'
    BY <1>22, <1>0 DEF vars, RefsExact
  <2> QED
    BY <2>1, <2>2, <2>3, <2>4, <2>5, <2>6, <2>7, <2>8 DEF IInv, TypeOK
<1> QED
  BY <1>1, <1>2, <1>3, <1>4, <1>5, <1>6, <1>7, <1>8, <1>9, <1>10, <1>11, <1>12,
     <1>13, <1>14, <1>15, <1>16, <1>17, <1>23, <1>24, <1>18, <1>19, <1>20, <1>21, <1>22
     DEF Next, Stopped

\* For any number of timers, tasks, handles and requests, and any nesting of
\* polls, the timer state keeps its types.
THEOREM TypesHold == Spec => []TypeOK
<1>1. Init => IInv
  BY InitIInv
<1>2. IInv /\ [Next]_vars => IInv'
  BY StepIInv
<1>3. IInv => TypeOK
  BY DEF IInv
<1> QED
  BY <1>1, <1>2, <1>3, PTL DEF Spec

\* In every reachable state the runtime's reference count is the number of
\* timers and handles that hold it: no order of ref, unref, clear, fire, drop
\* and exit loses or duplicates a reference, and saturation never hides one.
THEOREM CountIsExact == Spec => []RefsExact
<1>1. Init => IInv
  BY InitIInv
<1>2. IInv /\ [Next]_vars => IInv'
  BY StepIInv
<1>3. IInv => RefsExact
  BY DEF IInv
<1> QED
  BY <1>1, <1>2, <1>3, PTL DEF Spec

------------------------------------------------------------------------------
(* Proofs about the timer loop of a runtime in which only the loop polls:  *)
(* the running flag, the wake-ups and the sleep of its task.  A pump or a  *)
(* nested import writes the same flag, and then the first of these results *)
(* is false (TimersPump).                                                  *)

\* No HTTP handler pumps and nothing blocks in a synchronous import.
OnlyTheLoopPolls == Requests = {} /\ ~Importing

\* The flag, the task and the poll in progress belong together: the task that
\* polls owns the one frame there is.
OneLoop ==
    ~exited =>
        /\ running <=> LiveTasks # {}
        /\ \A t, u \in LiveTasks : t = u
        /\ running => driverNotify
        /\ \A t \in Tasks : task[t] = "polling" <=> frames # <<>> /\ Top.owner = t
        /\ frames # <<>> => /\ Len(frames) = 1 /\ Top.caller = "loop"
                            /\ Top.owner \in Tasks

\* The entries of the list: a callback belongs to a listed timer that is not
\* about to be destroyed, and an entry without one is due.
Listed ==
    /\ callback \subseteq timers
    /\ timers \subseteq 1 .. nextId - 1
    /\ pendingDestroy \subseteq 1 .. nextId - 1
    /\ callback \cap pendingDestroy = {}
    /\ \A i \in timers \ callback : deadline[i] < now
    /\ unrefd = {} => callback \subseteq referenced
    /\ now <= MaxTime

\* A task about to wait, or waiting, has a reason to be there.
Waiting(t) == task[t] \in {"ready", "parked"}

Released ==
    ~exited => \A t \in Tasks : Waiting(t) =>
        /\ timers # {}
        /\ KeepsTimersAlive \/ timerTok > 0 \/ driverTok > 0

\* While no notification is pending, the sleep and the stored deadline of the
\* loop cover every timer; without a loop there is none to cover; and a poll
\* that saw no timer left still has none.
Covered ==
    ~exited /\ unrefd = {} /\ timerTok = 0 =>
        /\ \A t \in LiveTasks, i \in callback : sleepUntil[t] <= deadline[i] + MinSleep
        /\ \A t \in LiveTasks : sleepUntil[t] <= stateDeadline
        /\ LiveTasks = {} => callback = {} /\ MaxTime <= stateDeadline
        /\ frames # <<>> /\ Top.hasItems => callback # {}
        /\ frames # <<>> /\ ~Top.hasItems => callback = {} /\ MaxTime <= stateDeadline

LInv == IInv /\ OneLoop /\ Listed /\ Released /\ Covered

\* A runtime starts with no task, no timer and no poll.
LEMMA InitLInv == Init => LInv
<1> SUFFICES ASSUME Init PROVE LInv
  OBVIOUS
<1>1. IInv
  BY InitIInv
<1>2. LiveTasks = {}
  BY DEF Init, LiveTasks
<1>3. OneLoop
  BY <1>2 DEF Init, OneLoop
<1>4. Listed
  BY TimersAssumption DEF Init, Listed
<1>5. Released
  BY DEF Init, Released, Waiting
<1>6. Covered
  BY <1>2, TimersAssumption DEF Init, Covered
<1> QED
  BY <1>1, <1>3, <1>4, <1>5, <1>6 DEF LInv

\* What the loop's runtime can do.
LEMMA LoopSteps ==
    ASSUME OnlyTheLoopPolls, [Next]_vars
    PROVE  \/ \E k \in Kinds, delay \in Delays : SetTimer(k, delay)
           \/ \E i \in Ids : ClearTimer(i) \/ RefTimer(i) \/ UnrefTimer(i) \/ DropHandle(i)
           \/ \E h \in Handles : RefHandle(h) \/ UnrefHandle(h)
           \/ \E t \in Tasks : WakeLoop(t) \/ Park(t)
           \/ StartCallback \/ EndCallback \/ FinishItem \/ ThrowCallback \/ EndPoll
           \/ Resume \/ NaturalExit \/ Tick \/ UNCHANGED vars
BY DEF OnlyTheLoopPolls, Next, ImportPoll, Stopped

\* A task is spawned when there is none.
LEMMA SpawnLive ==
    ASSUME LoopTypes, LiveTasks = {}, NEW until \in Int, SpawnLoop(until)
    PROVE  /\ driverNotify'
           /\ \E t \in Tasks :
                /\ LiveTasks' = {t}
                /\ task'[t] = "ready" /\ sleepUntil'[t] = until
                /\ \A u \in Tasks : u # t => task'[u] = "none"
<1>1. PICK t \in Tasks : /\ task' = [task EXCEPT ![t] = "ready"]
                         /\ sleepUntil' = [sleepUntil EXCEPT ![t] = until]
                         /\ driverNotify' = TRUE
  BY DEF SpawnLoop
<1>2. \A u \in Tasks : task[u] = "none"
  BY DEF LiveTasks
<1>3. /\ task'[t] = "ready" /\ sleepUntil'[t] = until
      /\ \A u \in Tasks : u # t => task'[u] = "none"
  BY <1>1, <1>2 DEF LoopTypes
<1>4. LiveTasks' = {t}
  BY <1>3 DEF LiveTasks
<1> QED
  BY <1>1, <1>3, <1>4

\* The innermost poll changes, the ones below it stay.
LEMMA TopSet ==
    ASSUME PollTypes, frames # <<>>, NEW f \in Frame, SetTop(f)
    PROVE  /\ frames' # <<>> /\ Top' = f /\ Len(frames') = Len(frames)
           /\ Tail(frames') = Tail(frames) /\ Tail(frames) \in Seq(Frame)
<1>1. frames \in Seq(Frame) /\ Tail(frames) \in Seq(Frame)
      /\ Len(Tail(frames)) = Len(frames) - 1 /\ Len(frames) \in Nat \ {0}
  BY HeadTailProperties, LenProperties, EmptySeq DEF PollTypes
<1>2. frames' = <<f>> \o Tail(frames)
  BY DEF SetTop
<1>3. Len(<<f>> \o Tail(frames)) = Len(frames) /\ <<f>> \o Tail(frames) # <<>>
      /\ Head(<<f>> \o Tail(frames)) = f /\ Tail(<<f>> \o Tail(frames)) = Tail(frames)
  BY <1>1
<1> QED
  BY <1>1, <1>2, <1>3 DEF Top


-----------------------------------------------------------------------------
(* One loop.                                                                *)

\* Every step keeps flag, task and poll together: only the loop's own poll
\* lowers the flag, and it does so as its task ends.
LEMMA StepOneLoop ==
    ASSUME OnlyTheLoopPolls, IInv, OneLoop, [Next]_vars
    PROVE  OneLoop'
<1> USE DEF entryVars, refVars, stateVars, taskVars, tokVars, ghostVars
<1>0. LoopTypes /\ PollTypes /\ FlagTypes
  BY DEF IInv, TypeOK
<1>1. ASSUME UNCHANGED <<running, task, driverNotify, frames, exited>>
      PROVE  OneLoop'
  BY <1>1 DEF OneLoop, LiveTasks, Top
<1>2. ASSUME ~exited, ~running, running' = TRUE, exited' = exited, frames' = frames,
             NEW until \in Int, SpawnLoop(until)
      PROVE  OneLoop'
  <2>1. LiveTasks = {}
    BY <1>2 DEF OneLoop
  <2>2. frames = <<>>
    BY <1>2, <2>1 DEF OneLoop, LiveTasks
  <2>3. PICK t \in Tasks : /\ LiveTasks' = {t} /\ task'[t] = "ready"
                           /\ \A u \in Tasks : u # t => task'[u] = "none"
    BY <1>0, <1>2, <2>1, SpawnLive
  <2>4. driverNotify'
    BY <1>0, <1>2, <2>1, SpawnLive
  <2> QED
    BY <1>2, <2>2, <2>3, <2>4 DEF OneLoop, Top
<1>3. ASSUME ~exited, frames # <<>>, NEW f \in Frame, SetTop(f),
             f.owner = Top.owner, f.caller = Top.caller,
             UNCHANGED <<running, task, driverNotify, exited>>
      PROVE  OneLoop'
  <2>1. frames' # <<>> /\ Top' = f /\ Len(frames') = Len(frames)
    BY <1>0, <1>3, TopSet
  <2> QED
    BY <1>3, <2>1 DEF OneLoop, LiveTasks
<1>4. CASE \E k \in Kinds, delay \in Delays : SetTimer(k, delay)
  <2>1. PICK k \in Kinds, delay \in Delays : SetTimer(k, delay)
    BY <1>4
  <2>2. DeadlineOf(k, delay) \in Int
    BY <2>1, TimersAssumption DEF IInv, TypeOK, EntryTypes, DeadlineOf
  <2>3. ~exited /\ exited' = exited /\ frames' = frames /\ ArmLoop(DeadlineOf(k, delay))
    BY <2>1 DEF SetTimer, JSRunning
  <2>4. CASE running
    BY <1>1, <2>3, <2>4 DEF ArmLoop
  <2>5. CASE ~running
    BY <1>2, <2>2, <2>3, <2>5 DEF ArmLoop
  <2> QED
    BY <2>4, <2>5
<1>5. CASE \E i \in Ids : ClearTimer(i) \/ RefTimer(i) \/ UnrefTimer(i) \/ DropHandle(i)
  BY <1>1, <1>5 DEF ClearTimer, RefTimer, UnrefTimer, DropHandle
<1>6. CASE \E h \in Handles : RefHandle(h) \/ UnrefHandle(h)
  BY <1>1, <1>6 DEF RefHandle, UnrefHandle
<1>7. ASSUME NEW t \in Tasks, WakeLoop(t) PROVE OneLoop'
  <2>1. PICK dTok, lowest : BeginPoll("loop", t, <<>>, dTok, lowest)
    BY <1>7 DEF WakeLoop
  <2>2. ~exited /\ frames = <<>> /\ Waiting(t) /\ task' = [task EXCEPT ![t] = "polling"]
    BY <1>7 DEF WakeLoop, Waiting
  <2>3. PICK f : /\ f.owner = t /\ f.caller = "loop" /\ frames' = <<f>>
    <3>1. PICK s : frames' = <<[caller |-> "loop", owner |-> t, rest |-> s,
                      hasItems |-> Remaining # {}, cur |-> 0,
                      phase |-> IF s = <<>> THEN "next" ELSE "jobs"]>> \o frames
      BY <2>1 DEF BeginPoll
    <3> DEFINE g == [caller |-> "loop", owner |-> t, rest |-> s,
                      hasItems |-> Remaining # {}, cur |-> 0,
                      phase |-> IF s = <<>> THEN "next" ELSE "jobs"]
    <3>2. g.owner = t /\ g.caller = "loop"
      OBVIOUS
    <3>3. frames' = <<g>> \o <<>>
      BY <2>2, <3>1
    <3> HIDE DEF g
    <3>4. frames' = <<g>>
      BY <3>3
    <3> QED
      BY <3>2, <3>4
  <2>4. frames' # <<>> /\ Len(frames') = 1 /\ Top' = f
    BY <2>3 DEF Top
  <2>5. running' = running /\ driverNotify' = driverNotify
    BY <2>1 DEF BeginPoll
  <2>6. t \in LiveTasks /\ \A u \in Tasks : u # t => task[u] = "none"
    BY <2>2 DEF OneLoop, LiveTasks, Waiting
  <2>7. task'[t] = "polling" /\ \A u \in Tasks : u # t => task'[u] = "none"
    BY <1>0, <2>2, <2>6 DEF LoopTypes
  <2>8. LiveTasks' = {t}
    BY <2>7 DEF LiveTasks
  <2>9. running /\ driverNotify
    BY <2>2, <2>6 DEF OneLoop
  <2> QED
    BY <2>3, <2>4, <2>5, <2>7, <2>8, <2>9 DEF OneLoop
<1>8. ASSUME NEW t \in Tasks, Park(t) PROVE OneLoop'
  <2>1. LiveTasks' = LiveTasks
    BY <1>0, <1>8 DEF Park, LiveTasks, LoopTypes
  <2> QED
    BY <1>0, <1>8, <2>1 DEF Park, OneLoop, Top, LoopTypes
<1>9. CASE StartCallback
  <2>1. frames # <<>> /\ Top.rest # <<>> /\ ~exited
        /\ UNCHANGED <<running, task, driverNotify, exited>>
        /\ SetTop([Top EXCEPT !.rest = Tail(@), !.cur = Head(Top.rest).id, !.phase = "call"])
    BY <1>9 DEF StartCallback
  <2>2. Top \in Frame /\ Tail(Top.rest) \in Seq(Call) /\ Head(Top.rest).id \in Ids
    BY <1>0, <2>1, TopType, NextCallType
  <2> DEFINE f == [Top EXCEPT !.rest = Tail(Top.rest), !.cur = Head(Top.rest).id, !.phase = "call"]
  <2>3. f \in Frame
    BY <2>2, FrameUpdate
  <2>4. f.owner = Top.owner /\ f.caller = Top.caller /\ SetTop(f)
    BY <2>1, <2>2 DEF Frame
  <2> HIDE DEF f
  <2> QED
    BY <1>3, <2>1, <2>3, <2>4
<1>10. CASE EndCallback
  <2> DEFINE f == [Top EXCEPT !.phase = "micro"]
  <2>1. frames # <<>> /\ ~exited /\ UNCHANGED <<running, task, driverNotify, exited>> /\ SetTop(f)
    BY <1>10 DEF EndCallback
  <2>2. Top \in Frame
    BY <1>0, <2>1, TopType
  <2>3. f \in Frame /\ f.owner = Top.owner /\ f.caller = Top.caller
    BY <2>2, FrameUpdate DEF Frame
  <2> HIDE DEF f
  <2> QED
    BY <1>3, <2>1, <2>3
<1>11. CASE FinishItem
  <2> DEFINE f == [Top EXCEPT !.cur = 0, !.phase = "next"]
  <2>1. frames # <<>> /\ ~exited /\ UNCHANGED <<running, task, driverNotify, exited>> /\ SetTop(f)
    BY <1>11 DEF FinishItem
  <2>2. Top \in Frame
    BY <1>0, <2>1, TopType
  <2>3. f \in Frame /\ f.owner = Top.owner /\ f.caller = Top.caller
    BY <2>2, FrameUpdate DEF Frame
  <2> HIDE DEF f
  <2> QED
    BY <1>3, <2>1, <2>3
<1>12. CASE ThrowCallback
  BY <1>12 DEF ThrowCallback, OneLoop
<1>13. CASE EndPoll
  <2> DEFINE t == Top.owner
  <2>1. /\ ~exited /\ frames # <<>> /\ exited' = exited /\ driverNotify' = driverNotify
        /\ frames' = Tail(frames)
    BY <1>13 DEF EndPoll
  <2>2. Len(frames) = 1 /\ Top.caller = "loop" /\ t \in Tasks /\ task[t] = "polling"
    BY <2>1 DEF OneLoop
  <2>3. frames' = <<>>
    BY <1>0, <2>1, <2>2, HeadTailProperties, LenProperties, EmptySeq DEF PollTypes
  <2>4. task' = [task EXCEPT ![t] = IF running' THEN "ready" ELSE "none"]
        /\ running' \in BOOLEAN
    BY <1>13, <2>2 DEF EndPoll
  <2>5. t \in LiveTasks /\ running /\ driverNotify
    BY <2>1, <2>2 DEF OneLoop, LiveTasks
  <2>6. \A u \in Tasks : u # t => task[u] = "none"
    BY <2>1, <2>5 DEF OneLoop, LiveTasks
  <2> HIDE DEF t
  <2>7. task'[t] = (IF running' THEN "ready" ELSE "none")
        /\ \A u \in Tasks : u # t => task'[u] = "none"
    BY <1>0, <2>2, <2>4, <2>6 DEF LoopTypes
  <2>8. LiveTasks' = IF running' THEN {t} ELSE {}
    BY <2>2, <2>7 DEF LiveTasks
  <2> QED
    BY <2>1, <2>2, <2>3, <2>4, <2>5, <2>7, <2>8 DEF OneLoop
<1>14. CASE Resume
  <2>1. ~exited /\ exited' = exited /\ frames' = frames /\ ~running
        /\ running' = TRUE /\ SpawnLoop(stateDeadline)
    BY <1>14 DEF Resume, ResumeIfIdle
  <2> QED
    BY <1>0, <1>2, <2>1 DEF LoopTypes
<1>15. CASE NaturalExit
  BY <1>15 DEF NaturalExit, OneLoop
<1>16. CASE Tick
  BY <1>1, <1>16 DEF Tick
<1>17. CASE UNCHANGED vars
  BY <1>1, <1>17 DEF vars
<1> QED
  BY <1>4, <1>5, <1>6, <1>7, <1>8, <1>9, <1>10, <1>11, <1>12, <1>13, <1>14, <1>15,
     <1>16, <1>17, LoopSteps

-----------------------------------------------------------------------------
(* The list.                                                                *)

\* What a poll leaves in the list: the entries with a callback to come, at a
\* deadline that has not passed.
LEMMA PollKeeps ==
    ASSUME EntryTypes, Listed
    PROVE  /\ Remaining = callback \ OneShots /\ Remaining \subseteq Ids
           /\ NewDeadline \in [Ids -> Int]
           /\ \A i \in Remaining : NewDeadline[i] >= now
<1>1. callback \ OneShots \subseteq Remaining
  BY DEF Listed, OneShots, Remaining, Rearmed, Firing
<1>2. Remaining \subseteq callback \ OneShots
  BY DEF Listed, OneShots, Remaining, Rearmed, Firing, Due
<1>3. NewDeadline \in [Ids -> Int]
  BY DEF EntryTypes, NewDeadline
<1>4. ASSUME NEW i \in Remaining PROVE NewDeadline[i] >= now
  <2>1. i \in Ids /\ i \in timers /\ interval[i] \in Nat /\ now \in Nat /\ deadline[i] \in Int
    BY DEF EntryTypes, Remaining
  <2>2. CASE i \in Rearmed
    BY <2>1, <2>2 DEF NewDeadline
  <2>3. CASE i \notin Rearmed
    BY <2>1, <2>3 DEF NewDeadline, Remaining, Due
  <2> QED
    BY <2>2, <2>3
<1>5. Remaining \subseteq Ids
  BY DEF EntryTypes, Remaining
<1> QED
  BY <1>1, <1>2, <1>3, <1>4, <1>5

\* Every step keeps the list in order: a clear leaves a due entry behind, and
\* the next poll takes every due entry without a callback away.
LEMMA StepListed ==
    ASSUME OnlyTheLoopPolls, IInv, Listed, [Next]_vars
    PROVE  Listed'
<1> USE DEF entryVars, refVars, stateVars, taskVars, tokVars, ghostVars
<1>0. EntryTypes /\ TimersAssumption
  BY TimersAssumption DEF IInv, TypeOK
<1>1. ASSUME UNCHANGED <<now, nextId, timers, callback, deadline, pendingDestroy, unrefd>>,
             referenced \subseteq referenced' \/ unrefd # {}
      PROVE  Listed'
  BY <1>1 DEF Listed
<1>2. CASE \E k \in Kinds, delay \in Delays : SetTimer(k, delay)
  <2>1. PICK k \in Kinds, delay \in Delays : SetTimer(k, delay)
    BY <1>2
  <2> DEFINE i == nextId
  <2>2. /\ timers' = timers \cup {i} /\ callback' = callback \cup {i}
        /\ referenced' = referenced \cup {i} /\ nextId' = nextId + 1
        /\ deadline' = [deadline EXCEPT ![i] = DeadlineOf(k, delay)]
        /\ UNCHANGED <<now, pendingDestroy, unrefd>>
    BY <2>1 DEF SetTimer
  <2>3. nextId \in Nat /\ nextId >= 1
    BY <1>0 DEF EntryTypes
  <2>4. i \notin timers /\ i \notin pendingDestroy
    BY <2>3 DEF Listed
  <2>5. \A j \in timers' \ callback' : j \in timers \ callback /\ deadline'[j] = deadline[j]
    BY <1>0, <2>2, <2>4 DEF EntryTypes
  <2>6. timers' \subseteq 1 .. nextId' - 1 /\ pendingDestroy' \subseteq 1 .. nextId' - 1
    BY <2>2, <2>3 DEF Listed
  <2>7. callback' \subseteq timers' /\ callback' \cap pendingDestroy' = {}
        /\ (unrefd' = {} => callback' \subseteq referenced')
    BY <2>2, <2>4 DEF Listed
  <2>8. \A j \in timers' \ callback' : deadline'[j] < now'
    BY <2>2, <2>5 DEF Listed
  <2> QED
    BY <2>2, <2>6, <2>7, <2>8 DEF Listed
<1>3. ASSUME NEW i \in Ids, ClearTimer(i) PROVE Listed'
  <2>1. CASE i \notin timers
    BY <1>1, <1>3, <2>1 DEF ClearTimer, Found
  <2>2. CASE i \in timers
    <3>1. /\ callback' = callback \ {i} /\ referenced' = referenced \ {i}
          /\ deadline' = [deadline EXCEPT ![i] = now - ClearLead]
          /\ pendingDestroy' \subseteq pendingDestroy \cup {i}
          /\ UNCHANGED <<now, nextId, timers, unrefd>>
      BY <1>3, <2>2 DEF ClearTimer, Found
    <3>2. \A j \in timers : deadline'[j] = IF j = i THEN now - ClearLead ELSE deadline[j]
      BY <1>0, <3>1 DEF EntryTypes
    <3>3. now - ClearLead < now
      BY <1>0, TimersAssumption DEF EntryTypes
    <3>4. \A j \in timers' \ callback' : deadline'[j] < now'
      BY <3>1, <3>2, <3>3 DEF Listed
    <3> QED
      BY <2>2, <3>1, <3>4 DEF Listed
  <2> QED
    BY <2>1, <2>2
<1>4. CASE \E i \in Ids : RefTimer(i)
  <2>1. PICK i \in Ids : RefTimer(i)
    BY <1>4
  <2>2. referenced \subseteq referenced'
    BY <2>1 DEF RefTimer
  <2> QED
    BY <1>1, <2>1, <2>2 DEF RefTimer
<1>5. ASSUME NEW i \in Ids, UnrefTimer(i) PROVE Listed'
  BY <1>5 DEF UnrefTimer, Listed
<1>6. CASE \E i \in Ids : DropHandle(i)
  BY <1>1, <1>6 DEF DropHandle
<1>7. CASE \E h \in Handles : RefHandle(h) \/ UnrefHandle(h)
  BY <1>1, <1>7 DEF RefHandle, UnrefHandle
<1>8. ASSUME NEW t \in Tasks, WakeLoop(t) PROVE Listed'
  <2>1. PICK dTok, lowest : BeginPoll("loop", t, <<>>, dTok, lowest)
    BY <1>8 DEF WakeLoop
  <2>2. /\ timers' = Remaining /\ callback' = callback \ OneShots
        /\ referenced' = referenced \ OneShots
        /\ UNCHANGED <<now, nextId, pendingDestroy, unrefd>>
    BY <2>1 DEF BeginPoll
  <2>3. timers' = callback' /\ timers' \subseteq timers
    BY <1>0, <2>2, PollKeeps DEF Remaining
  <2> QED
    BY <2>2, <2>3 DEF Listed
<1>9. CASE \E t \in Tasks : Park(t)
  BY <1>1, <1>9 DEF Park
<1>10. CASE StartCallback \/ EndCallback \/ ThrowCallback \/ EndPoll
  BY <1>1, <1>10 DEF StartCallback, EndCallback, ThrowCallback, EndPoll
<1>11. CASE FinishItem
  <2>0. UNCHANGED <<now, nextId, callback, deadline, pendingDestroy, referenced, unrefd>>
    BY <1>11 DEF FinishItem
  <2>1. /\ timers' \subseteq timers
        /\ \A j \in timers : j \in timers' \/ j \in pendingDestroy
    <3>1. CASE Top.cur \notin timers \/ Top.cur \in pendingDestroy
      BY <1>11, <3>1 DEF FinishItem
    <3>2. CASE ~(Top.cur \notin timers \/ Top.cur \in pendingDestroy)
      BY <1>11, <3>2 DEF FinishItem
    <3> QED
      BY <3>1, <3>2
  <2>2. callback' \subseteq timers'
    BY <2>0, <2>1 DEF Listed
  <2> QED
    BY <2>0, <2>1, <2>2 DEF Listed
<1>12. CASE Resume
  BY <1>1, <1>12 DEF Resume
<1>13. CASE NaturalExit
  <2>1. /\ timers' = {} /\ callback' = callback \ timers
        /\ UNCHANGED <<now, nextId, pendingDestroy, referenced, unrefd>>
    BY <1>13 DEF NaturalExit, DiscardAllTimers
  <2> QED
    BY <2>1 DEF Listed
<1>14. CASE Tick
  <2>1. now' = now + 1 /\ now < MaxTime /\ now \in Nat /\ MaxTime \in Nat
        /\ UNCHANGED <<nextId, timers, callback, deadline, pendingDestroy, referenced, unrefd>>
    BY <1>0, <1>14, TimersAssumption DEF Tick, EntryTypes
  <2>2. \A i \in timers : deadline[i] \in Int
    BY <1>0 DEF EntryTypes
  <2> QED
    BY <2>1, <2>2 DEF Listed
<1>15. CASE UNCHANGED vars
  BY <1>1, <1>15 DEF vars
<1> QED
  BY <1>2, <1>3, <1>4, <1>5, <1>6, <1>7, <1>8, <1>9, <1>10, <1>11, <1>12, <1>13,
     <1>14, <1>15, LoopSteps

-----------------------------------------------------------------------------
(* The wake-ups.                                                            *)

\* Giving references back either leaves some, or wakes the loop, or there
\* were none.
LEMMA ReleaseWakes ==
    ASSUME NEW n \in Nat, n = refs, NEW k \in Nat, NEW m \in Nat, driverNotify
    PROVE  /\ Saturating(n, k) > 0 \/ n = 0 \/ DecrementedTok(k, m) > 0
           /\ m > 0 => DecrementedTok(k, m) > 0
<1>1. NotifyOne(m) > 0
  BY NotifyType
<1> QED
  BY <1>1 DEF Saturating, DecrementedTok, WokenDrivers

\* Every step that takes a waiting task its last reason leaves a notification.
LEMMA StepReleased ==
    ASSUME OnlyTheLoopPolls, IInv, OneLoop, Released, [Next]_vars
    PROVE  Released'
<1> USE DEF entryVars, refVars, stateVars, taskVars, tokVars, ghostVars
<1>0. LoopTypes /\ EntryTypes /\ RefTypes
  BY DEF IInv, TypeOK
<1>k. /\ KeepsTimersAlive <=>
            timers \cap callback # {} /\ (refs > 0 \/ timers \cap callback \cap referenced # {})
      /\ KeepsTimersAlive' <=>
            timers' \cap callback' # {} /\ (refs' > 0 \/ timers' \cap callback' \cap referenced' # {})
  BY DEF OnlyTheLoopPolls, KeepsTimersAlive, HasInflight
<1>1. ASSUME task' = task, exited' = exited, timers' = timers,
             \/ timerTok' > 0 \/ driverTok' > 0
             \/ /\ KeepsTimersAlive => KeepsTimersAlive'
                /\ timerTok > 0 => timerTok' > 0
                /\ driverTok > 0 => driverTok' > 0
      PROVE  Released'
  <2> HIDE DEF KeepsTimersAlive
  <2> QED
    BY <1>1 DEF Released, Waiting
<1>2. ASSUME ~exited, frames # <<>>, task' = task
      PROVE  Released'
  <2>1. \A t \in Tasks : ~Waiting(t)
    BY <1>2 DEF OneLoop, Waiting, LiveTasks
  <2> QED
    BY <1>2, <2>1 DEF Released, Waiting
<1>3. ASSUME NEW k \in Nat, refs' = Saturating(refs, k), driverTok' = DecrementedTok(k, driverTok),
             UNCHANGED <<timers, callback, referenced, timerTok, task, exited>>
      PROVE  Released'
  <2>1. CASE exited \/ ~driverNotify
    <3>1. exited \/ \A t \in Tasks : ~Waiting(t)
      BY <2>1 DEF OneLoop, LiveTasks, Waiting
    <3> QED
      BY <1>3, <3>1 DEF Released, Waiting
  <2>2. CASE driverNotify
    <3>1. refs \in Nat /\ driverTok \in Nat
      BY <1>0 DEF RefTypes, LoopTypes
    <3>2. /\ refs' > 0 \/ refs = 0 \/ driverTok' > 0
          /\ driverTok > 0 => driverTok' > 0
      BY <1>3, <2>2, <3>1, ReleaseWakes
    <3>3. driverTok' > 0 \/ (KeepsTimersAlive => KeepsTimersAlive')
      BY <1>3, <1>k, <3>1, <3>2
    <3> QED
      BY <1>1, <1>3, <3>2, <3>3
  <2> QED
    BY <2>1, <2>2
<1>4. CASE \E k \in Kinds, delay \in Delays : SetTimer(k, delay)
  <2>1. timers' = timers \cup {nextId} /\ callback' = callback \cup {nextId}
        /\ referenced' = referenced \cup {nextId}
    BY <1>4 DEF SetTimer
  <2>2. KeepsTimersAlive' /\ timers' # {}
    BY <1>k, <2>1
  <2> QED
    BY <2>2 DEF Released
<1>5. ASSUME NEW i \in Ids, ClearTimer(i) PROVE Released'
  <2>1. task' = task /\ exited' = exited /\ timers' = timers
    BY <1>5 DEF ClearTimer
  <2>2. CASE i \in timers
    <3>1. timerTok' > 0
      BY <1>0, <1>5, <2>2, NotifyType DEF ClearTimer, Found, LoopTypes
    <3> QED
      BY <1>1, <2>1, <3>1
  <2>3. CASE i \notin timers
    <3>1. UNCHANGED <<callback, referenced, refs, timerTok, driverTok>>
      BY <1>5, <2>3 DEF ClearTimer, Found
    <3>2. KeepsTimersAlive => KeepsTimersAlive'
      BY <1>k, <2>1, <3>1
    <3> QED
      BY <1>1, <2>1, <3>1, <3>2
  <2> QED
    BY <2>2, <2>3
<1>6. ASSUME NEW i \in Ids, RefTimer(i) PROVE Released'
  <2>1. UNCHANGED <<task, exited, timers, callback, timerTok, driverTok>>
        /\ referenced \subseteq referenced' /\ (refs' = refs \/ refs' = refs + 1)
    BY <1>6 DEF RefTimer
  <2>2. refs \in Nat
    BY <1>0 DEF RefTypes
  <2>3. KeepsTimersAlive => KeepsTimersAlive'
    BY <1>k, <2>1, <2>2
  <2> QED
    BY <1>1, <2>1, <2>3
<1>7. ASSUME NEW i \in Ids, UnrefTimer(i) \/ DropHandle(i) PROVE Released'
  <2>1. UNCHANGED <<task, exited, timers, callback>> /\ UnreferenceAll({i})
    BY <1>7 DEF UnrefTimer, DropHandle
  <2>2. CASE i \in timers
    <3>1. timerTok' > 0
      BY <1>0, <1>7, <2>2, NotifyType DEF UnrefTimer, DropHandle, LoopTypes
    <3> QED
      BY <1>1, <2>1, <3>1
  <2>3. CASE i \notin timers
    <3>1. UNCHANGED <<referenced, timerTok>>
      BY <1>7, <2>3 DEF UnrefTimer, DropHandle
    <3>2. Cardinality(loopRef \cap {i}) \in Nat
      BY <1>0, FiniteConstants, loopRef \cap {i} \in SUBSET Ids DEF RefTypes
    <3> QED
      BY <1>3, <2>1, <3>1, <3>2 DEF UnreferenceAll
  <2> QED
    BY <2>2, <2>3
<1>8. ASSUME NEW h \in Handles, RefHandle(h) PROVE Released'
  <2>1. UNCHANGED <<task, exited, timers, callback, referenced, timerTok, driverTok>>
        /\ (refs' = refs \/ refs' = refs + 1)
    BY <1>8 DEF RefHandle
  <2>2. refs \in Nat
    BY <1>0 DEF RefTypes
  <2>3. KeepsTimersAlive => KeepsTimersAlive'
    BY <1>k, <2>1, <2>2
  <2> QED
    BY <1>1, <2>1, <2>3
<1>9. ASSUME NEW h \in Handles, UnrefHandle(h) PROVE Released'
  <2> DEFINE k == IF h \in heldHandles THEN 1 ELSE 0
  <2>1. refs' = Saturating(refs, k) /\ driverTok' = DecrementedTok(k, driverTok)
        /\ UNCHANGED <<timers, callback, referenced, timerTok, task, exited>>
    BY <1>9 DEF UnrefHandle
  <2>2. k \in Nat
    OBVIOUS
  <2> HIDE DEF k
  <2> QED
    BY <1>3, <2>1, <2>2
<1>10. ASSUME NEW t \in Tasks, WakeLoop(t) PROVE Released'
  <2>1. ~exited /\ Waiting(t) /\ task' = [task EXCEPT ![t] = "polling"]
    BY <1>10 DEF WakeLoop, Waiting
  <2>2. \A u \in Tasks : u # t => task[u] = "none"
    BY <2>1 DEF OneLoop, LiveTasks, Waiting
  <2>3. \A u \in Tasks : task'[u] \in {"none", "polling"}
    BY <1>0, <2>1, <2>2 DEF LoopTypes
  <2> QED
    BY <2>3 DEF Released, Waiting
<1>11. ASSUME NEW t \in Tasks, Park(t) PROVE Released'
  <2>1. UNCHANGED <<timers, callback, referenced, refs, timerTok, driverTok, exited>>
    BY <1>11 DEF Park
  <2>2. \A u \in Tasks : Waiting(u)' => Waiting(u)
    BY <1>0, <1>11 DEF Park, Waiting, LoopTypes
  <2>3. KeepsTimersAlive => KeepsTimersAlive'
    BY <1>k, <2>1
  <2> QED
    BY <2>1, <2>2, <2>3 DEF Released
<1>12. CASE StartCallback \/ EndCallback \/ FinishItem
  BY <1>2, <1>12 DEF StartCallback, EndCallback, FinishItem
<1>13. CASE ThrowCallback
  BY <1>13 DEF ThrowCallback, OneLoop, Released
<1>14. CASE EndPoll
  <2>1. /\ ~exited /\ frames # <<>> /\ UNCHANGED <<timers, callback, referenced, refs>>
    BY <1>14 DEF EndPoll
  <2>2. Top.caller = "loop" /\ Top.owner \in Tasks
    BY <2>1 DEF OneLoop
  <2>3. running' = (KeepsTimersAlive /\ Top.hasItems)
        /\ task' = [task EXCEPT ![Top.owner] = IF running' THEN "ready" ELSE "none"]
    BY <1>14, <2>2 DEF EndPoll
  <2>4. \A t \in Tasks : ~Waiting(t)
    BY <2>1 DEF OneLoop, Waiting, LiveTasks
  <2>5. ASSUME NEW t \in Tasks, Waiting(t)' PROVE KeepsTimersAlive
    <3>1. t = Top.owner
      BY <1>0, <2>2, <2>3, <2>4, <2>5 DEF Waiting, LoopTypes
    <3>2. running'
      BY <1>0, <2>2, <2>3, <2>5, <3>1 DEF Waiting, LoopTypes
    <3> QED
      BY <2>3, <3>2
  <2>6. KeepsTimersAlive => KeepsTimersAlive' /\ timers' # {}
    BY <1>k, <2>1
  <2> QED
    BY <2>5, <2>6 DEF Released
<1>15. CASE Resume
  <2>1. KeepsTimersAlive /\ UNCHANGED <<timers, callback, referenced, refs>>
    BY <1>15 DEF Resume
  <2>2. KeepsTimersAlive' /\ timers' # {}
    BY <1>k, <2>1
  <2> QED
    BY <2>2 DEF Released
<1>16. CASE NaturalExit
  BY <1>16 DEF NaturalExit, Released
<1>17. CASE Tick \/ UNCHANGED vars
  <2>1. UNCHANGED <<timers, callback, referenced, refs, timerTok, driverTok, exited, task>>
    BY <1>17 DEF Tick, vars
  <2>2. KeepsTimersAlive => KeepsTimersAlive'
    BY <1>k, <2>1
  <2> QED
    BY <1>1, <2>1, <2>2
<1> QED
  BY <1>4, <1>5, <1>6, <1>7, <1>8, <1>9, <1>10, <1>11, <1>12, <1>13, <1>14, <1>15,
     <1>16, <1>17, LoopSteps

-----------------------------------------------------------------------------
(* The sleep.                                                               *)

\* Every step leaves a notification or keeps every timer covered.
LEMMA StepCovered ==
    ASSUME OnlyTheLoopPolls, LInv, [Next]_vars
    PROVE  Covered'
<1> USE DEF entryVars, refVars, stateVars, taskVars, tokVars, ghostVars
<1>0. /\ LoopTypes /\ EntryTypes /\ PollTypes /\ IInv
      /\ OneLoop /\ Listed /\ Released /\ Covered
  BY DEF LInv, IInv, TypeOK
<1>a. /\ now \in Nat /\ MaxTime \in Nat /\ MinSleep \in Nat \ {0} /\ stateDeadline \in Int
      /\ timerTok \in Nat /\ Far \in Nat /\ MaxTime <= Far /\ now <= MaxTime
      /\ \A i \in Ids : deadline[i] \in Int
      /\ callback \subseteq Ids
      /\ \A t \in Tasks : sleepUntil[t] \in Int
  BY <1>0, TimersAssumption DEF LoopTypes, EntryTypes, Listed
<1>1. ASSUME exited' = exited, task' = task, callback' = callback, deadline' = deadline,
             sleepUntil' = sleepUntil, stateDeadline' = stateDeadline, timerTok' = timerTok,
             unrefd' = unrefd,
             frames' = frames \/ (frames # <<>> /\ frames' # <<>> /\ Top.hasItems = Top'.hasItems)
      PROVE  Covered'
  <2>1. LiveTasks' = LiveTasks
    BY <1>1 DEF LiveTasks
  <2>2. frames' # <<>> => frames # <<>> /\ Top'.hasItems = Top.hasItems
    BY <1>1 DEF Top
  <2> QED
    BY <1>0, <1>1, <2>1, <2>2 DEF Covered
<1>2. ASSUME timerTok' > 0 \/ unrefd' # {} \/ exited' PROVE Covered'
  BY <1>2 DEF Covered
<1>3. ASSUME NEW k \in Kinds, NEW delay \in Delays, SetTimer(k, delay) PROVE Covered'
  <2> DEFINE i == nextId
             d == DeadlineOf(k, delay)
  <2>1. /\ i \in Ids /\ ~exited /\ exited' = exited /\ unrefd' = unrefd /\ frames' = frames
        /\ callback' = callback \cup {i} /\ deadline' = [deadline EXCEPT ![i] = d]
        /\ ArmLoop(d)
    BY <1>0, <1>3, TimersAssumption DEF SetTimer, JSRunning, EntryTypes, Ids
  <2>2. d \in Int /\ d < MaxTime
    BY <1>a, <1>3, TimersAssumption DEF SetTimer, DeadlineOf
  <2>3. i \notin callback
    BY <1>0 DEF Listed, EntryTypes
  <2>4. deadline'[i] = d /\ \A j \in callback : deadline'[j] = deadline[j]
    BY <1>0, <2>1, <2>3 DEF EntryTypes
  <2> HIDE DEF d, i
  <2>5. SUFFICES ASSUME unrefd = {}, timerTok' = 0 PROVE Covered'
    BY <1>2, <2>1 DEF Covered
  <2>6. CASE running
    <3>1. ~(d < stateDeadline) /\ UNCHANGED <<stateDeadline, timerTok, task, sleepUntil>>
      BY <1>a, <2>1, <2>5, <2>6, NotifyType DEF ArmLoop
    <3>2. LiveTasks' = LiveTasks /\ Top' = Top
      BY <2>1, <3>1 DEF LiveTasks, Top
    <3>3. stateDeadline <= d
      BY <1>a, <2>2, <3>1
    <3>4. LiveTasks # {} /\ ~(MaxTime <= stateDeadline)
      BY <1>0, <1>a, <2>1, <2>2, <2>6, <3>3 DEF OneLoop
    <3>5. /\ \A t \in LiveTasks, j \in callback : sleepUntil[t] <= deadline[j] + MinSleep
          /\ \A t \in LiveTasks : sleepUntil[t] <= stateDeadline
          /\ frames # <<>> => Top.hasItems
      BY <1>0, <2>1, <2>5, <3>1, <3>4 DEF Covered
    <3>6. \A t \in LiveTasks : t \in Tasks
      BY DEF LiveTasks
    <3>7. \A t \in LiveTasks : sleepUntil[t] <= d + MinSleep
      BY <1>a, <2>2, <3>3, <3>5, <3>6
    <3>8. \A t \in LiveTasks, j \in callback' : sleepUntil[t] <= deadline'[j] + MinSleep
      BY <2>1, <2>4, <3>5, <3>7
    <3> QED
      BY <2>1, <3>1, <3>2, <3>4, <3>5, <3>8 DEF Covered
  <2>7. CASE ~running
    <3>1. SpawnLoop(d) /\ UNCHANGED <<stateDeadline, timerTok>>
      BY <2>1, <2>7 DEF ArmLoop
    <3>2. LiveTasks = {} /\ frames = <<>>
      BY <1>0, <2>1, <2>7 DEF OneLoop, LiveTasks
    <3>3. PICK t \in Tasks : LiveTasks' = {t} /\ sleepUntil'[t] = d
      BY <1>0, <2>2, <3>1, <3>2, SpawnLive
    <3>4. callback = {} /\ MaxTime <= stateDeadline
      BY <1>0, <2>1, <2>5, <3>1, <3>2 DEF Covered
    <3>5. sleepUntil'[t] <= d + MinSleep /\ sleepUntil'[t] <= stateDeadline'
      BY <1>a, <2>2, <3>1, <3>3, <3>4
    <3> QED
      BY <2>1, <2>4, <3>2, <3>3, <3>4, <3>5 DEF Covered
  <2> QED
    BY <2>6, <2>7
<1>4. ASSUME NEW i \in Ids, ClearTimer(i) PROVE Covered'
  <2>1. CASE i \in timers
    <3>1. timerTok' > 0
      BY <1>a, <1>4, <2>1, NotifyType DEF ClearTimer, Found
    <3> QED
      BY <1>2, <3>1
  <2>2. CASE i \notin timers
    BY <1>1, <1>4, <2>2 DEF ClearTimer, Found
  <2> QED
    BY <2>1, <2>2
<1>5. CASE \E i \in Ids : RefTimer(i) \/ DropHandle(i)
  BY <1>1, <1>5 DEF RefTimer, DropHandle
<1>6. CASE \E i \in Ids : UnrefTimer(i)
  BY <1>2, <1>6 DEF UnrefTimer
<1>7. CASE \E h \in Handles : RefHandle(h) \/ UnrefHandle(h)
  BY <1>1, <1>7 DEF RefHandle, UnrefHandle
<1>8. ASSUME NEW t \in Tasks, WakeLoop(t) PROVE Covered'
  <2>1. PICK branch \in {"timer", "sleep", "driver"}, lowest \in LeftDeadlines :
           /\ BeginPoll("loop", t, <<>>,
                Clip(IF branch = "driver" THEN driverTok - 1 ELSE driverTok, Waiters \ {t}), lowest)
           /\ sleepUntil' = IF timers # {} THEN [sleepUntil EXCEPT ![t] = SleepFor(lowest)]
                                           ELSE sleepUntil
    BY <1>8 DEF WakeLoop
  <2>2. ~exited /\ frames = <<>> /\ Waiting(t) /\ task' = [task EXCEPT ![t] = "polling"]
    BY <1>8 DEF WakeLoop, Waiting
  <2>3. timers # {}
    BY <1>0, <2>2 DEF Released
  <2> DEFINE w == SleepFor(lowest)
  <2>4. /\ stateDeadline' = w /\ callback' = callback \ OneShots
        /\ deadline' = NewDeadline /\ IsLowest(lowest)
    BY <2>1, <2>3 DEF BeginPoll
  <2>5. sleepUntil'[t] = w
    BY <1>0, <2>1, <2>3 DEF LoopTypes
  <2>6. LiveTasks' = {t}
    <3>1. \A u \in Tasks : u # t => task[u] = "none"
      BY <1>0, <2>2 DEF OneLoop, LiveTasks, Waiting
    <3>2. task'[t] = "polling" /\ \A u \in Tasks : u # t => task'[u] = "none"
      BY <1>0, <2>2, <3>1 DEF LoopTypes
    <3> QED
      BY <3>2 DEF LiveTasks
  <2>7. /\ Remaining = callback' /\ Remaining \subseteq Ids
        /\ NewDeadline \in [Ids -> Int]
        /\ \A i \in Remaining : NewDeadline[i] >= now
    BY <1>0, <2>4, PollKeeps
  <2>8. lowest \in Int /\ lowest <= Far /\ \A i \in Remaining : lowest <= NewDeadline[i]
    <3>1. Far \in LeftDeadlines /\ \A i \in Remaining : NewDeadline[i] \in LeftDeadlines
      BY DEF LeftDeadlines
    <3>2. lowest \in Int
      BY <1>a, <2>7 DEF LeftDeadlines
    <3> QED
      BY <2>4, <3>1, <3>2 DEF IsLowest
  <2>9. w \in Int /\ w >= lowest /\ (w = lowest \/ w = now + MinSleep)
    BY <1>a, <2>8 DEF SleepFor
  <2>10. Remaining = {} => lowest = Far
    BY DEF LeftDeadlines
  <2>11. PICK s : frames' = <<[caller |-> "loop", owner |-> t, rest |-> s,
                      hasItems |-> Remaining # {}, cur |-> 0,
                      phase |-> IF s = <<>> THEN "next" ELSE "jobs"]>> \o frames
    BY <2>1 DEF BeginPoll
  <2> DEFINE g == [caller |-> "loop", owner |-> t, rest |-> s,
                   hasItems |-> Remaining # {}, cur |-> 0,
                   phase |-> IF s = <<>> THEN "next" ELSE "jobs"]
  <2>12. g.hasItems <=> Remaining # {}
    OBVIOUS
  <2>13. frames' = <<g>> \o <<>>
    BY <2>2, <2>11
  <2> HIDE DEF g, w
  <2>14. frames' = <<g>> /\ Top' = g
    BY <2>13 DEF Top
  <2>15. \A i \in callback' : sleepUntil'[t] <= deadline'[i] + MinSleep
    BY <1>a, <2>4, <2>5, <2>7, <2>8, <2>9
  <2>16. Remaining = {} => MaxTime <= w
    BY <1>a, <2>8, <2>9, <2>10
  <2>17. sleepUntil'[t] <= stateDeadline'
    BY <2>4, <2>5, <2>9
  <2> QED
    BY <2>4, <2>6, <2>7, <2>12, <2>14, <2>15, <2>16, <2>17 DEF Covered
<1>9. ASSUME NEW t \in Tasks, Park(t) PROVE Covered'
  <2>1. LiveTasks' = LiveTasks
    BY <1>0, <1>9 DEF Park, LiveTasks, LoopTypes
  <2>2. UNCHANGED <<exited, unrefd, timerTok, callback, deadline, sleepUntil, stateDeadline, frames>>
    BY <1>9 DEF Park
  <2> QED
    BY <1>0, <2>1, <2>2 DEF Covered, Top
<1>10. ASSUME ~exited, frames # <<>>, NEW f \in Frame, SetTop(f), f.hasItems = Top.hasItems,
              UNCHANGED <<exited, task, callback, deadline, sleepUntil, stateDeadline,
                          timerTok, unrefd>>
       PROVE  Covered'
  <2>1. frames' # <<>> /\ Top' = f
    BY <1>0, <1>10, TopSet
  <2> QED
    BY <1>1, <1>10, <2>1
<1>11. CASE StartCallback
  <2>1. frames # <<>> /\ Top.rest # <<>> /\ ~exited
        /\ UNCHANGED <<exited, task, callback, deadline, sleepUntil, stateDeadline,
                       timerTok, unrefd>>
        /\ SetTop([Top EXCEPT !.rest = Tail(@), !.cur = Head(Top.rest).id, !.phase = "call"])
    BY <1>11 DEF StartCallback
  <2>2. Top \in Frame /\ Tail(Top.rest) \in Seq(Call) /\ Head(Top.rest).id \in Ids
    BY <1>0, <2>1, TopType, NextCallType
  <2> DEFINE f == [Top EXCEPT !.rest = Tail(Top.rest), !.cur = Head(Top.rest).id, !.phase = "call"]
  <2>3. f \in Frame
    BY <2>2, FrameUpdate
  <2>4. f.hasItems = Top.hasItems /\ SetTop(f)
    BY <2>1, <2>2 DEF Frame
  <2> HIDE DEF f
  <2> QED
    BY <1>10, <2>1, <2>3, <2>4
<1>12. CASE EndCallback
  <2> DEFINE f == [Top EXCEPT !.phase = "micro"]
  <2>1. frames # <<>> /\ ~exited /\ SetTop(f)
        /\ UNCHANGED <<exited, task, callback, deadline, sleepUntil, stateDeadline,
                       timerTok, unrefd>>
    BY <1>12 DEF EndCallback
  <2>2. Top \in Frame
    BY <1>0, <2>1, TopType
  <2>3. f \in Frame /\ f.hasItems = Top.hasItems
    BY <2>2, FrameUpdate DEF Frame
  <2> HIDE DEF f
  <2> QED
    BY <1>10, <2>1, <2>3
<1>13. CASE FinishItem
  <2> DEFINE f == [Top EXCEPT !.cur = 0, !.phase = "next"]
  <2>1. frames # <<>> /\ ~exited /\ SetTop(f)
        /\ UNCHANGED <<exited, task, callback, deadline, sleepUntil, stateDeadline,
                       timerTok, unrefd>>
    BY <1>13 DEF FinishItem
  <2>2. Top \in Frame
    BY <1>0, <2>1, TopType
  <2>3. f \in Frame /\ f.hasItems = Top.hasItems
    BY <2>2, FrameUpdate DEF Frame
  <2> HIDE DEF f
  <2> QED
    BY <1>10, <2>1, <2>3
<1>14. CASE ThrowCallback
  BY <1>0, <1>2, <1>14 DEF ThrowCallback, OneLoop
<1>15. CASE EndPoll
  <2> DEFINE t == Top.owner
  <2>1. /\ ~exited /\ frames # <<>> /\ frames' = Tail(frames)
        /\ UNCHANGED <<exited, unrefd, timerTok, callback, deadline, sleepUntil, stateDeadline>>
        /\ running' = (KeepsTimersAlive /\ Top.hasItems)
    BY <1>15 DEF EndPoll
  <2>2. Len(frames) = 1 /\ Top.caller = "loop" /\ t \in Tasks /\ task[t] = "polling"
    BY <1>0, <2>1 DEF OneLoop
  <2>3. frames' = <<>>
    BY <1>0, <2>1, <2>2, HeadTailProperties, LenProperties, EmptySeq DEF PollTypes
  <2>4. task' = [task EXCEPT ![t] = IF running' THEN "ready" ELSE "none"]
    BY <1>15, <2>2 DEF EndPoll
  <2>5. t \in LiveTasks /\ \A u \in Tasks : u # t => task[u] = "none"
    BY <1>0, <2>1, <2>2 DEF OneLoop, LiveTasks
  <2> HIDE DEF t
  <2>6. task'[t] = (IF running' THEN "ready" ELSE "none")
        /\ \A u \in Tasks : u # t => task'[u] = "none"
    BY <1>0, <2>2, <2>4, <2>5 DEF LoopTypes
  <2>7. LiveTasks' \subseteq LiveTasks /\ (running' => LiveTasks' # {})
    BY <2>2, <2>5, <2>6 DEF LiveTasks
  <2>8. SUFFICES ASSUME unrefd = {}, timerTok = 0 PROVE Covered'
    BY <2>1 DEF Covered
  <2>9. ~running' => callback = {} /\ MaxTime <= stateDeadline
    <3>1. CASE ~Top.hasItems
      BY <1>0, <2>1, <2>8, <3>1 DEF Covered
    <3>2. CASE Top.hasItems
      <4>1. callback # {}
        BY <1>0, <2>1, <2>8, <3>2 DEF Covered
      <4>2. KeepsTimersAlive
        BY <1>0, <2>8, <4>1 DEF KeepsTimersAlive, Listed
      <4> QED
        BY <2>1, <3>2, <4>2
    <3> QED
      BY <3>1, <3>2
  <2> QED
    BY <1>0, <2>1, <2>3, <2>7, <2>8, <2>9 DEF Covered
<1>16. CASE Resume
  <2>1. ~exited /\ ~running /\ KeepsTimersAlive /\ UNCHANGED <<timerTok, unrefd>>
    BY <1>16 DEF Resume
  <2>2. LiveTasks = {} /\ callback # {}
    BY <1>0, <2>1 DEF OneLoop, KeepsTimersAlive
  <2> QED
    BY <1>0, <1>2, <1>a, <2>1, <2>2 DEF Covered
<1>17. CASE NaturalExit
  BY <1>2, <1>17 DEF NaturalExit
<1>18. CASE Tick \/ UNCHANGED vars
  BY <1>1, <1>18 DEF Tick, vars
<1> QED
  BY <1>3, <1>4, <1>5, <1>6, <1>7, <1>8, <1>9, <1>11, <1>12, <1>13, <1>14, <1>15,
     <1>16, <1>17, <1>18, LoopSteps

-----------------------------------------------------------------------------
\* LInv is inductive when only the loop polls.
LEMMA LoopInvariant ==
    ASSUME OnlyTheLoopPolls
    PROVE  Spec => []LInv
<1>1. Init => LInv
  BY InitLInv
<1>2. LInv /\ [Next]_vars => LInv'
  BY StepIInv, StepOneLoop, StepListed, StepReleased, StepCovered DEF LInv
<1> QED
  BY <1>1, <1>2, PTL DEF Spec

\* When only the loop polls, whatever JavaScript does inside and outside of its
\* callbacks, the running flag is up exactly while one timer-loop task exists.
THEOREM OneLoopHolds ==
    ASSUME OnlyTheLoopPolls
    PROVE  Spec => []RunningMeansOneLoop
<1>1. LInv => RunningMeansOneLoop
  BY DEF LInv, OneLoop, RunningMeansOneLoop
<1> QED
  BY <1>1, LoopInvariant, PTL

\* When only the loop polls, a parked task that nothing keeps any more, through
\* any order of clear, unref, drop and the last unreference, has a wake-up on
\* its way.
THEOREM ParkedLoopIsReleased ==
    ASSUME OnlyTheLoopPolls
    PROVE  Spec => []ParkedLoopReleased
<1>1. LInv => ParkedLoopReleased
  BY DEF LInv, Released, Waiting, ParkedLoopReleased
<1> QED
  BY <1>1, LoopInvariant, PTL

\* When only the loop polls and no timer was unref'd, the parked loop sleeps
\* past no timer's deadline by more than MIN_SLEEP, for any delays and any
\* number of timers.
THEOREM SleepCoversHolds ==
    ASSUME OnlyTheLoopPolls
    PROVE  Spec => []SleepCovers
<1>1. LInv => SleepCovers
  <2> SUFFICES ASSUME LInv, unrefd = {}, NEW t \in Tasks, NEW i \in Ids,
                      task[t] = "parked", timerTok = 0, ~exited, i \in callback
               PROVE  sleepUntil[t] <= deadline[i] + MinSleep
    BY DEF SleepCovers, LoopNeverOversleeps
  <2>1. t \in LiveTasks
    BY DEF LiveTasks
  <2> QED
    BY <2>1 DEF LInv, Covered
<1> QED
  BY <1>1, LoopInvariant, PTL

------------------------------------------------------------------------------
(* A one-shot callback is called at most once, whoever polls: the loop, an *)
(* HTTP pump that keeps the rest of its call_vec between ticks, imports    *)
(* nested in callbacks, in any number and to any depth.                    *)

\* A call_vec holds a call of timer i.
Has(s, i) == \E a \in DOMAIN s : s[a].id = i

OneShot(k, i) == k[i] # "Interval"

\* Of the call_vecs s and u, when k are the kinds of the timers, n is the next
\* id, c the timers with a callback and e the calls made: s holds no one-shot
\* twice; s and u share none; and a one-shot in s was not called yet and
\* cannot be collected again.
Once(k, s) == \A a, b \in DOMAIN s : s[a].id = s[b].id /\ OneShot(k, s[a].id) => a = b
Apart(k, s, u) == \A i \in Ids : OneShot(k, i) => ~(Has(s, i) /\ Has(u, i))
Fresh(k, n, c, e, s) ==
    \A i \in Ids : Has(s, i) => i < n /\ (OneShot(k, i) => e[i] = 0 /\ i \notin c)

\* All the call_vecs: those of the polls in progress, fr, and of the pumps, pv.
AllOnce(k, n, c, e, fr, pv) ==
    /\ \A f \in DOMAIN fr : Once(k, fr[f].rest) /\ Fresh(k, n, c, e, fr[f].rest)
    /\ \A r \in Requests : Once(k, pv[r]) /\ Fresh(k, n, c, e, pv[r])
    /\ \A f, g \in DOMAIN fr : f # g => Apart(k, fr[f].rest, fr[g].rest)
    /\ \A q, r \in Requests : q # r => Apart(k, pv[q], pv[r])
    /\ \A f \in DOMAIN fr, r \in Requests : Apart(k, fr[f].rest, pv[r])

Queues == AllOnce(kind, nextId, callback, fires, frames, pumpVec)

\* A one-shot that still has its callback was not called.
Unfired ==
    /\ callback \subseteq 1 .. nextId - 1 /\ repeating \subseteq 1 .. nextId - 1
    /\ \A i \in repeating : ~OneShot(kind, i)
    /\ \A i \in Ids : i >= nextId \/ (i \in callback /\ OneShot(kind, i)) => fires[i] = 0

FInv == IInv /\ Queues /\ Unfired /\ FiresAtMostOnce

\* No timer was created or called yet, and there is no call_vec.
LEMMA InitFInv == Init => FInv
<1> SUFFICES ASSUME Init PROVE FInv
  OBVIOUS
<1>1. IInv
  BY InitIInv
<1>2. Queues
  BY DEF Init, Queues, AllOnce, Once, Fresh, Apart, Has
<1>3. Unfired /\ FiresAtMostOnce
  BY DEF Init, Unfired, FiresAtMostOnce
<1> QED
  BY <1>1, <1>2, <1>3 DEF FInv

\* The items of a call_vec are calls of timers.
LEMMA CallIds ==
    ASSUME NEW s \in Seq(Call), NEW a \in DOMAIN s
    PROVE  s[a] \in Call /\ s[a].id \in Ids
<1>1. s \in [1 .. Len(s) -> Call] /\ DOMAIN s = 1 .. Len(s)
  BY LenProperties
<1>2. s[a] \in Call
  BY <1>1
<1> QED
  BY <1>2 DEF Call

\* What a step does to the timers when it calls none: ids are allocated in
\* order, an allocated timer keeps its kind and gets no callback back.
Calm(k, n, c, l, m, d) ==
    /\ n \in Nat /\ m \in Nat /\ n <= m
    /\ \A i \in Ids : i < n => l[i] = k[i] /\ (i \in d => i \in c)

\* Then what was true of a call_vec stays true.
LEMMA CalmKeeps ==
    ASSUME NEW k, NEW n, NEW c, NEW l, NEW m, NEW d, NEW e, Calm(k, n, c, l, m, d),
           NEW s \in Seq(Call), Fresh(k, n, c, e, s)
    PROVE  /\ Fresh(l, m, d, e, s)
           /\ Once(k, s) => Once(l, s)
           /\ \A u : Apart(k, s, u) => Apart(l, s, u) /\ Apart(l, u, s)
<1>1. \A i \in Ids : i \in Nat
  BY TimersAssumption DEF Ids
<1>2. \A a \in DOMAIN s : s[a].id \in Ids
  BY CallIds
<1>3. \A i \in Ids : Has(s, i) => /\ i < n /\ i < m /\ l[i] = k[i]
                                  /\ (i \in d => i \in c)
  BY <1>1 DEF Fresh, Calm
<1>4. \A i \in Ids : Has(s, i) => (OneShot(l, i) <=> OneShot(k, i))
  BY <1>3 DEF OneShot
<1>5. Fresh(l, m, d, e, s)
  BY <1>3, <1>4 DEF Fresh
<1>6. Once(k, s) => Once(l, s)
  <2> SUFFICES ASSUME Once(k, s), NEW a \in DOMAIN s, NEW b \in DOMAIN s,
                      s[a].id = s[b].id, OneShot(l, s[a].id)
               PROVE  a = b
    BY DEF Once
  <2>1. OneShot(k, s[a].id)
    BY <1>2, <1>4 DEF Has
  <2> QED
    BY <2>1 DEF Once
<1>7. \A u : Apart(k, s, u) => Apart(l, s, u) /\ Apart(l, u, s)
  BY <1>4 DEF Apart
<1> QED
  BY <1>5, <1>6, <1>7

\* An empty call_vec satisfies everything.
LEMMA EmptyVec ==
    /\ <<>> \in Seq(Call)
    /\ \A k, n, c, e : Once(k, <<>>) /\ Fresh(k, n, c, e, <<>>)
    /\ \A k, u : Apart(k, <<>>, u) /\ Apart(k, u, <<>>)
<1>1. \A i : ~Has(<<>>, i)
  BY DEF Has
<1>2. <<>> \in Seq(Call)
  BY EmptySeq
<1>3. \A k : Once(k, <<>>)
  BY DEF Once
<1> QED
  BY <1>1, <1>2, <1>3 DEF Fresh, Apart

\* The call_vec of a poll: what the list yields and what the caller still had.
LEMMA SortedOnce ==
    ASSUME EntryTypes, Unfired, NEW left \in Seq(Call),
           Once(kind, left), Fresh(kind, nextId, callback, fires, left),
           NEW s \in SortedCalls(CallItems \cup ItemsOf(left))
    PROVE  /\ s \in Seq(Call) /\ Once(kind, s)
           /\ \A i \in Ids : Has(s, i) => i \in Firing \/ Has(left, i)
<1> DEFINE items == CallItems \cup ItemsOf(left)
           n == Cardinality(items)
<1>1. s \in Seq(Call)
  BY SortedCallsType
<1>2. s \in [1 .. n -> items] /\ \A x \in items : \E a \in 1 .. n : s[a] = x
  BY DEF SortedCalls
<1>3. IsFiniteSet(items)
  <2>1. DOMAIN s = 1 .. Len(s) /\ Len(s) \in Nat /\ DOMAIN s = 1 .. n
    BY <1>1, <1>2, LenProperties
  <2>2. s \in [1 .. Len(s) -> items] /\ \A x \in items : \E a \in 1 .. Len(s) : s[a] = x
    BY <1>2, <2>1
  <2>3. s \in Surjection(1 .. Len(s), items)
    BY <2>2, Fun_IsSurj
  <2>4. IsFiniteSet(1 .. Len(s))
    BY <2>1, FS_Interval
  <2> QED
    BY <2>3, <2>4, FS_Surjection
<1>4. n \in Nat /\ IsFiniteSet(1 .. n) /\ Cardinality(1 .. n) = n
  <2>1. n \in Nat
    BY <1>3, FS_CardinalityType
  <2> QED
    BY <2>1, FS_Interval
<1>5. \A a, b \in 1 .. n : s[a] = s[b] => a = b
  <2>1. s \in Surjection(1 .. n, items)
    BY <1>2, Fun_IsSurj
  <2>2. s \in Injection(1 .. n, items)
    BY <1>4, <2>1, FS_SurjSameCardinalityImpliesInj
  <2> QED
    BY <2>2, Fun_InjectionProperties
<1>6. ASSUME NEW x \in items, NEW y \in items, x.id = y.id, OneShot(kind, x.id)
      PROVE  x = y
  <2>1. ASSUME NEW z \in CallItems PROVE z.id \in callback /\ z = [key |-> NewDeadline[z.id], id |-> z.id]
    BY <2>1 DEF CallItems, Firing
  <2>2. ASSUME NEW z \in ItemsOf(left)
        PROVE  z.id \in Ids /\ Has(left, z.id) /\ \E a \in DOMAIN left : left[a] = z
    BY CallIds DEF ItemsOf, Has
  <2>3. \A z \in ItemsOf(left) : OneShot(kind, z.id) => z.id \notin callback
    BY <2>2 DEF Fresh
  <2>4. CASE x \in CallItems /\ y \in CallItems
    BY <1>6, <2>1, <2>4
  <2>5. CASE x \in ItemsOf(left) /\ y \in ItemsOf(left)
    BY <1>6, <2>2, <2>5 DEF Once
  <2>6. CASE (x \in CallItems /\ y \in ItemsOf(left)) \/ (x \in ItemsOf(left) /\ y \in CallItems)
    BY <1>6, <2>1, <2>3, <2>6
  <2> QED
    BY <2>4, <2>5, <2>6
<1>7. Once(kind, s)
  BY <1>2, <1>5, <1>6 DEF Once
<1>8. ASSUME NEW i \in Ids, Has(s, i) PROVE i \in Firing \/ Has(left, i)
  <2>1. PICK a \in 1 .. n : s[a].id = i /\ s[a] \in items
    BY <1>2, <1>8 DEF Has
  <2> QED
    BY <2>1 DEF CallItems, ItemsOf, Has
<1> QED
  BY <1>1, <1>7, <1>8

\* Every poll and every pump has a call_vec.
LEMMA VecTypes ==
    ASSUME PollTypes
    PROVE  /\ \A f \in DOMAIN frames : frames[f] \in Frame /\ frames[f].rest \in Seq(Call)
           /\ \A r \in Requests : pumpVec[r] \in Seq(Call)
<1>1. frames \in [1 .. Len(frames) -> Frame] /\ DOMAIN frames = 1 .. Len(frames)
  BY LenProperties DEF PollTypes
<1>2. \A f \in DOMAIN frames : frames[f] \in Frame
  BY <1>1
<1> QED
  BY <1>2 DEF Frame, PollTypes

\* The stack of polls: one more, one changed, one less.
LEMMA Pushed ==
    ASSUME PollTypes, NEW g \in Frame, frames' = <<g>> \o frames
    PROVE  /\ frames'[1] = g
           /\ \A f \in DOMAIN frames' : f # 1 =>
                 f - 1 \in DOMAIN frames /\ frames'[f] = frames[f - 1]
<1>1. frames \in Seq(Frame) /\ Len(frames) \in Nat /\ DOMAIN frames = 1 .. Len(frames)
  BY LenProperties DEF PollTypes
<1>2. <<g>> \in Seq(Frame) /\ Len(<<g>>) = 1 /\ <<g>>[1] = g
  OBVIOUS
<1>3. /\ Len(<<g>> \o frames) = 1 + Len(frames)
      /\ \A i \in 1 .. (1 + Len(frames)) :
            (<<g>> \o frames)[i] = IF i <= 1 THEN <<g>>[i] ELSE frames[i - 1]
      /\ <<g>> \o frames \in Seq(Frame)
  BY <1>1, <1>2, ConcatProperties
<1>4. DOMAIN (<<g>> \o frames) = 1 .. (1 + Len(frames))
  BY <1>3, LenProperties
<1> HIDE DEF PollTypes
<1> QED
  BY <1>1, <1>2, <1>3, <1>4

\* The innermost poll ends: the others move one place up.
LEMMA Popped ==
    ASSUME PollTypes, frames # <<>>, frames' = Tail(frames)
    PROVE  /\ 1 \in DOMAIN frames /\ frames[1] = Top
           /\ \A f \in DOMAIN frames' :
                 f + 1 \in DOMAIN frames /\ f + 1 # 1 /\ frames'[f] = frames[f + 1]
<1>1. frames \in Seq(Frame) /\ Len(frames) \in Nat /\ DOMAIN frames = 1 .. Len(frames)
  BY LenProperties DEF PollTypes
<1>2. /\ Head(frames) = frames[1] /\ Tail(frames) \in Seq(Frame)
      /\ Len(Tail(frames)) = Len(frames) - 1 /\ Len(frames) # 0
      /\ \A i \in 1 .. Len(Tail(frames)) : Tail(frames)[i] = frames[i + 1]
  BY <1>1, HeadTailProperties, EmptySeq
<1>3. DOMAIN Tail(frames) = 1 .. Len(Tail(frames))
  BY <1>2, LenProperties
<1> QED
  BY <1>1, <1>2, <1>3 DEF Top

\* The innermost poll changes, the others stay in place.
LEMMA Changed ==
    ASSUME PollTypes, frames # <<>>, NEW g \in Frame, SetTop(g)
    PROVE  /\ 1 \in DOMAIN frames /\ frames[1] = Top
           /\ frames'[1] = g
           /\ \A f \in DOMAIN frames' : f # 1 => f \in DOMAIN frames /\ frames'[f] = frames[f]
<1>1. frames \in Seq(Frame) /\ Len(frames) \in Nat /\ DOMAIN frames = 1 .. Len(frames)
  BY LenProperties DEF PollTypes
<1>2. /\ Head(frames) = frames[1] /\ Tail(frames) \in Seq(Frame)
      /\ Len(Tail(frames)) = Len(frames) - 1 /\ Len(frames) # 0
      /\ \A i \in 1 .. Len(Tail(frames)) : Tail(frames)[i] = frames[i + 1]
  BY <1>1, HeadTailProperties, EmptySeq
<1>3. <<g>> \in Seq(Frame) /\ Len(<<g>>) = 1 /\ <<g>>[1] = g
  OBVIOUS
<1>4. /\ Len(<<g>> \o Tail(frames)) = 1 + Len(Tail(frames))
      /\ \A i \in 1 .. (1 + Len(Tail(frames))) :
            (<<g>> \o Tail(frames))[i] = IF i <= 1 THEN <<g>>[i] ELSE Tail(frames)[i - 1]
      /\ <<g>> \o Tail(frames) \in Seq(Frame)
  BY <1>2, <1>3, ConcatProperties
<1>5. DOMAIN (<<g>> \o Tail(frames)) = 1 .. Len(frames)
  BY <1>1, <1>2, <1>4, LenProperties
<1>6. \A i \in 1 .. Len(frames) : i # 1 => (<<g>> \o Tail(frames))[i] = frames[i]
  BY <1>1, <1>2, <1>4
<1>7. (<<g>> \o Tail(frames))[1] = g
  BY <1>1, <1>2, <1>3, <1>4
<1> QED
  BY <1>1, <1>2, <1>5, <1>6, <1>7 DEF Top, SetTop

-----------------------------------------------------------------------------
\* Call_vecs are only kept, dropped and handed over: v[f] is where the poll f
\* was before, and the pump o may have got the call_vec of the innermost poll.
HandedBy(v, o, fr, pv, fr2, pv2) ==
    /\ \A f \in DOMAIN fr2 : v[f] \in DOMAIN fr /\ fr2[f].rest = fr[v[f]].rest
    /\ \A f, g \in DOMAIN fr2 : v[f] = v[g] => f = g
    /\ \A r \in Requests :
          \/ pv2[r] = pv[r] \/ pv2[r] = <<>>
          \/ /\ r = o /\ 1 \in DOMAIN fr /\ pv2[r] = fr[1].rest
             /\ \A f \in DOMAIN fr2 : v[f] # 1

Handed(fr, pv, fr2, pv2) == \E v, o : HandedBy(v, o, fr, pv, fr2, pv2)

\* A step that calls none and copies no call_vec keeps them all apart.
LEMMA CalmQueues ==
    ASSUME NEW k, NEW n, NEW c, NEW l, NEW m, NEW d, NEW e, Calm(k, n, c, l, m, d),
           NEW fr, NEW pv, NEW fr2, NEW pv2, Handed(fr, pv, fr2, pv2),
           AllOnce(k, n, c, e, fr, pv),
           \A f \in DOMAIN fr : fr[f].rest \in Seq(Call),
           \A r \in Requests : pv[r] \in Seq(Call)
    PROVE  AllOnce(l, m, d, e, fr2, pv2)
<1>0. PICK v, o : HandedBy(v, o, fr, pv, fr2, pv2)
  BY DEF Handed
<1>1. \A f \in DOMAIN fr : Once(l, fr[f].rest) /\ Fresh(l, m, d, e, fr[f].rest)
  BY CalmKeeps DEF AllOnce
<1>2. \A r \in Requests : Once(l, pv[r]) /\ Fresh(l, m, d, e, pv[r])
  BY CalmKeeps DEF AllOnce
<1>3. \A f, g \in DOMAIN fr : f # g => Apart(l, fr[f].rest, fr[g].rest)
  BY CalmKeeps DEF AllOnce
<1>4. \A q, r \in Requests : q # r => Apart(l, pv[q], pv[r])
  BY CalmKeeps DEF AllOnce
<1>5. \A f \in DOMAIN fr, r \in Requests :
         Apart(l, fr[f].rest, pv[r]) /\ Apart(l, pv[r], fr[f].rest)
  BY CalmKeeps DEF AllOnce
<1>6. \A f \in DOMAIN fr2 : Once(l, fr2[f].rest) /\ Fresh(l, m, d, e, fr2[f].rest)
  BY <1>0, <1>1 DEF HandedBy
<1>7. \A r \in Requests : Once(l, pv2[r]) /\ Fresh(l, m, d, e, pv2[r])
  BY <1>0, <1>1, <1>2, EmptyVec DEF HandedBy
<1>8. \A f, g \in DOMAIN fr2 : f # g => Apart(l, fr2[f].rest, fr2[g].rest)
  BY <1>0, <1>3 DEF HandedBy
<1>9. \A q, r \in Requests : q # r => Apart(l, pv2[q], pv2[r])
  BY <1>0, <1>4, <1>5, EmptyVec DEF HandedBy
<1>10. \A f \in DOMAIN fr2, r \in Requests : Apart(l, fr2[f].rest, pv2[r])
  BY <1>0, <1>3, <1>5, EmptyVec DEF HandedBy
<1> QED
  BY <1>6, <1>7, <1>8, <1>9, <1>10 DEF AllOnce

\* A poll begins: its call_vec s takes over what the caller had left, and the
\* one-shots the list gives up, `new`.
PushesTo(k, n, c, e, l, m, d, fr, pv, fr2, pv2, s, left, new) ==
    /\ \A f \in DOMAIN fr : fr[f].rest \in Seq(Call)
    /\ \A r \in Requests : pv[r] \in Seq(Call)
    /\ \A f \in DOMAIN fr2 : \/ f = 1 /\ fr2[f].rest = s
                             \/ f # 1 /\ f - 1 \in DOMAIN fr /\ fr2[f].rest = fr[f - 1].rest
    /\ DOMAIN fr2 \subseteq Nat
    /\ \A r \in Requests : pv2[r] = <<>> \/ (pv2[r] = pv[r] /\ Apart(k, left, pv[r]))
    /\ \A f \in DOMAIN fr : Apart(k, left, fr[f].rest)
    /\ left \in Seq(Call) /\ Fresh(k, n, c, e, left)
    /\ Once(l, s)
    /\ \A i \in Ids : Has(s, i) => i \in new \/ Has(left, i)
    /\ \A i \in new : i \in c /\ i < m /\ (OneShot(l, i) => e[i] = 0 /\ i \notin d)
    /\ \A i \in c : i < n

\* Then the new call_vec is apart from all the others too.
LEMMA PushQueues ==
    ASSUME NEW k, NEW n, NEW c, NEW l, NEW m, NEW d, NEW e, Calm(k, n, c, l, m, d),
           NEW fr, NEW pv, NEW fr2, NEW pv2, NEW s, NEW left, NEW new,
           AllOnce(k, n, c, e, fr, pv),
           PushesTo(k, n, c, e, l, m, d, fr, pv, fr2, pv2, s, left, new)
    PROVE  AllOnce(l, m, d, e, fr2, pv2)
<1> USE DEF PushesTo
<1>1. \A f \in DOMAIN fr : Once(l, fr[f].rest) /\ Fresh(l, m, d, e, fr[f].rest)
  BY CalmKeeps DEF AllOnce
<1>2. \A r \in Requests : Once(l, pv[r]) /\ Fresh(l, m, d, e, pv[r])
  BY CalmKeeps DEF AllOnce
<1>3. \A f, g \in DOMAIN fr : f # g => Apart(l, fr[f].rest, fr[g].rest)
  BY CalmKeeps DEF AllOnce
<1>4. \A q, r \in Requests : q # r => Apart(l, pv[q], pv[r])
  BY CalmKeeps DEF AllOnce
<1>5. \A f \in DOMAIN fr, r \in Requests : Apart(l, fr[f].rest, pv[r])
  BY CalmKeeps DEF AllOnce
<1>6. Fresh(l, m, d, e, left)
  BY CalmKeeps
<1>7. Fresh(l, m, d, e, s)
  BY <1>6 DEF Fresh
<1>8. \A u : Fresh(k, n, c, e, u) /\ Apart(l, left, u) => Apart(l, s, u) /\ Apart(l, u, s)
  <2>1. ASSUME NEW i \in new, i \in Ids, OneShot(l, i), NEW u, Fresh(k, n, c, e, u)
        PROVE  ~Has(u, i)
    BY <2>1 DEF Fresh, Calm, OneShot
  <2> QED
    BY <2>1 DEF Apart
<1>9. \A f \in DOMAIN fr : Apart(l, s, fr[f].rest) /\ Apart(l, fr[f].rest, s)
  <2>1. \A f \in DOMAIN fr : Apart(l, left, fr[f].rest)
    BY CalmKeeps
  <2> QED
    BY <1>8, <2>1 DEF AllOnce
<1>10. \A r \in Requests : Apart(l, s, pv2[r])
  <2>1. \A r \in Requests : Apart(k, left, pv[r]) => Apart(l, left, pv[r])
    BY CalmKeeps
  <2>2. \A r \in Requests : Apart(k, left, pv[r]) => Apart(l, s, pv[r])
    BY <1>8, <2>1 DEF AllOnce
  <2> QED
    BY <2>2, EmptyVec
<1>11. \A f \in DOMAIN fr2 : Once(l, fr2[f].rest) /\ Fresh(l, m, d, e, fr2[f].rest)
  BY <1>1, <1>7
<1>12. \A r \in Requests : Once(l, pv2[r]) /\ Fresh(l, m, d, e, pv2[r])
  BY <1>2, EmptyVec
<1>13. ASSUME NEW f \in DOMAIN fr2, NEW g \in DOMAIN fr2, f # g
       PROVE  Apart(l, fr2[f].rest, fr2[g].rest)
  <2>1. CASE f # 1 /\ g # 1
    <3>1. f - 1 # g - 1
      BY <1>13
    <3> QED
      BY <1>3, <2>1, <3>1
  <2>2. CASE f = 1
    BY <1>9, <1>13, <2>2
  <2>3. CASE g = 1
    BY <1>9, <1>13, <2>3
  <2> QED
    BY <2>1, <2>2, <2>3
<1>14. \A q, r \in Requests : q # r => Apart(l, pv2[q], pv2[r])
  BY <1>4, EmptyVec
<1>15. \A f \in DOMAIN fr2, r \in Requests : Apart(l, fr2[f].rest, pv2[r])
  BY <1>5, <1>10, EmptyVec
<1> QED
  BY <1>11, <1>12, <1>13, <1>14, <1>15 DEF AllOnce

-----------------------------------------------------------------------------
\* The first half of poll_timers, whoever calls it and whatever it had left.
LEMMA BeginPollQueues ==
    ASSUME FInv,
           NEW caller \in {"loop", "pump", "import"},
           NEW owner \in Tasks \cup Requests \cup {0},
           NEW left \in Seq(Call), NEW dTok, NEW lowest,
           BeginPoll(caller, owner, left, dTok, lowest),
           Once(kind, left), Fresh(kind, nextId, callback, fires, left),
           \A f \in DOMAIN frames : Apart(kind, left, frames[f].rest),
           \A r \in Requests :
              pumpVec'[r] = <<>> \/ (pumpVec'[r] = pumpVec[r] /\ Apart(kind, left, pumpVec[r]))
    PROVE  Queues' /\ Unfired' /\ FiresAtMostOnce'
<1>1. /\ EntryTypes /\ PollTypes /\ HookTypes /\ Queues /\ Unfired /\ FiresAtMostOnce
      /\ nextId \in Nat
  BY DEF FInv, IInv, TypeOK, EntryTypes
<1>2. /\ callback' = callback \ OneShots
      /\ kind' = kind /\ nextId' = nextId /\ repeating' = repeating /\ fires' = fires
  BY DEF BeginPoll, ghostVars
<1>3. PICK s \in SortedCalls(CallItems \cup ItemsOf(left)) :
         frames' = <<[caller |-> caller, owner |-> owner, rest |-> s,
                      hasItems |-> Remaining # {}, cur |-> 0,
                      phase |-> IF s = <<>> THEN "next" ELSE "jobs"]>> \o frames
  BY DEF BeginPoll
<1>4. /\ s \in Seq(Call) /\ Once(kind, s)
      /\ \A i \in Ids : Has(s, i) => i \in Firing \/ Has(left, i)
  BY <1>1, SortedOnce
<1> DEFINE g == [caller |-> caller, owner |-> owner, rest |-> s,
                 hasItems |-> Remaining # {}, cur |-> 0,
                 phase |-> IF s = <<>> THEN "next" ELSE "jobs"]
<1>5. g \in Frame /\ g.rest = s
  BY <1>4, TimersAssumption DEF Frame
<1> HIDE DEF g
<1>6. frames' = <<g>> \o frames
  BY <1>3 DEF g
<1>7. \A f \in DOMAIN frames' : \/ f = 1 /\ frames'[f].rest = s
                                \/ f # 1 /\ f - 1 \in DOMAIN frames /\ frames'[f].rest = frames[f - 1].rest
  BY <1>1, <1>5, <1>6, Pushed
<1>8. DOMAIN frames' \subseteq Nat
  <2>1. frames' \in Seq(Frame)
    BY <1>1, <1>5, <1>6, ConcatProperties DEF PollTypes
  <2> QED
    BY <2>1, LenProperties
<1>9. Calm(kind, nextId, callback, kind', nextId', callback')
  BY <1>1, <1>2 DEF Calm
<1>10. \A i \in Firing : /\ i \in callback /\ i < nextId'
                         /\ OneShot(kind', i) => fires[i] = 0 /\ i \notin callback'
  <2>1. \A i \in callback : i < nextId /\ i \in Ids /\ (OneShot(kind, i) => fires[i] = 0)
    BY <1>1 DEF Unfired, EntryTypes
  <2>2. \A i \in Firing : OneShot(kind, i) => i \in OneShots
    BY <1>1 DEF OneShots, Unfired
  <2>3. Firing \subseteq callback
    BY DEF Firing
  <2> QED
    BY <1>2, <2>1, <2>2, <2>3
<1>11. \A i \in callback : i < nextId
  BY <1>1 DEF Unfired
<1>12. Queues'
  <2>1. AllOnce(kind, nextId, callback, fires, frames, pumpVec)
    BY <1>1 DEF Queues
  <2>2. /\ \A f \in DOMAIN frames : frames[f].rest \in Seq(Call)
        /\ \A r \in Requests : pumpVec[r] \in Seq(Call)
    BY <1>1, VecTypes
  <2>3. Once(kind', s)
    BY <1>2, <1>4
  <2>4. AllOnce(kind', nextId', callback', fires, frames', pumpVec')
    <3>1. PushesTo(kind, nextId, callback, fires, kind', nextId', callback',
                   frames, pumpVec, frames', pumpVec', s, left, Firing)
      BY <1>4, <1>7, <1>8, <1>10, <1>11, <2>2, <2>3 DEF PushesTo
    <3> QED
      BY <1>9, <2>1, <3>1, PushQueues
  <2> QED
    BY <1>2, <2>4 DEF Queues
<1>13. Unfired' /\ FiresAtMostOnce'
  BY <1>1, <1>2 DEF Unfired, FiresAtMostOnce
<1> QED
  BY <1>12, <1>13

\* A step that calls nothing, and keeps, drops or hands over call_vecs.
LEMMA CalmFInv ==
    ASSUME FInv,
           nextId' \in Nat, nextId <= nextId', fires' = fires,
           \A i \in Ids : i < nextId =>
               kind'[i] = kind[i] /\ (i \in callback' => i \in callback),
           callback' \subseteq 1 .. nextId' - 1, repeating' \subseteq 1 .. nextId' - 1,
           \A i \in repeating' : ~OneShot(kind', i),
           Handed(frames, pumpVec, frames', pumpVec')
    PROVE  Queues' /\ Unfired' /\ FiresAtMostOnce'
<1>1. /\ EntryTypes /\ PollTypes /\ HookTypes /\ Queues /\ Unfired /\ FiresAtMostOnce
      /\ nextId \in Nat /\ \A i \in Ids : i \in Nat
  BY TimersAssumption DEF FInv, IInv, TypeOK, EntryTypes, Ids
<1>2. Queues'
  <2>1. AllOnce(kind, nextId, callback, fires, frames, pumpVec)
    BY <1>1 DEF Queues
  <2>2. /\ \A f \in DOMAIN frames : frames[f].rest \in Seq(Call)
        /\ \A r \in Requests : pumpVec[r] \in Seq(Call)
    BY <1>1, VecTypes
  <2>3. Calm(kind, nextId, callback, kind', nextId', callback')
    BY <1>1 DEF Calm
  <2>4. AllOnce(kind', nextId', callback', fires, frames', pumpVec')
    BY <2>1, <2>2, <2>3, CalmQueues
  <2> QED
    BY <2>4 DEF Queues
<1>3. \A i \in Ids : \/ i >= nextId /\ fires'[i] = 0
                     \/ /\ i < nextId /\ fires'[i] = fires[i]
                        /\ OneShot(kind', i) <=> OneShot(kind, i)
  BY <1>1 DEF Unfired, OneShot
<1>4. \A i \in Ids : i >= nextId' \/ (i \in callback' /\ OneShot(kind', i)) => fires'[i] = 0
  BY <1>1, <1>3 DEF Unfired
<1>5. \A i \in Ids : OneShot(kind', i) => fires'[i] <= 1
  BY <1>1, <1>3 DEF FiresAtMostOnce, OneShot
<1> QED
  BY <1>2, <1>4, <1>5 DEF Unfired, FiresAtMostOnce, OneShot

\* The three ways call_vecs change hands without a call.
LEMMA KeptHanded ==
    ASSUME NEW fr, NEW pv, NEW fr2, NEW pv2,
           \A f \in DOMAIN fr2 : f \in DOMAIN fr /\ fr2[f].rest = fr[f].rest,
           \A r \in Requests : pv2[r] = pv[r] \/ pv2[r] = <<>>
    PROVE  Handed(fr, pv, fr2, pv2)
<1> DEFINE v == [f \in DOMAIN fr2 |-> f]
<1>1. \A f \in DOMAIN fr2 : v[f] = f
  OBVIOUS
<1> HIDE DEF v
<1>2. HandedBy(v, 0, fr, pv, fr2, pv2)
  BY <1>1 DEF HandedBy
<1> QED
  BY <1>2 DEF Handed

PopsTo(fr, pv, fr2, pv2, o) ==
    /\ DOMAIN fr2 \subseteq Int /\ 1 \in DOMAIN fr
    /\ \A f \in DOMAIN fr2 : f + 1 \in DOMAIN fr /\ f + 1 # 1 /\ fr2[f] = fr[f + 1]
    /\ \A r \in Requests : pv2[r] = pv[r] \/ (r = o /\ pv2[r] = fr[1].rest)

\* A poll that ends drops its call_vec or leaves it to its pump.
LEMMA PoppedHanded ==
    ASSUME NEW fr, NEW pv, NEW fr2, NEW pv2, NEW o,
           PopsTo(fr, pv, fr2, pv2, o)
    PROVE  Handed(fr, pv, fr2, pv2)
<1> USE DEF PopsTo
<1> DEFINE v == [f \in DOMAIN fr2 |-> f + 1]
<1>1. \A f \in DOMAIN fr2 : v[f] = f + 1
  OBVIOUS
<1> HIDE DEF v
<1>2. \A f, g \in DOMAIN fr2 : v[f] = v[g] => f = g
  BY <1>1
<1>3. HandedBy(v, o, fr, pv, fr2, pv2)
  BY <1>1, <1>2 DEF HandedBy
<1> QED
  BY <1>3 DEF Handed

\* A step that creates no timer either.
LEMMA StillFInv ==
    ASSUME FInv, nextId' = nextId, kind' = kind, fires' = fires,
           callback' \subseteq callback, repeating' \subseteq repeating,
           Handed(frames, pumpVec, frames', pumpVec')
    PROVE  Queues' /\ Unfired' /\ FiresAtMostOnce'
<1>1. nextId \in Nat /\ Unfired
  BY DEF FInv, IInv, TypeOK, EntryTypes
<1>2. /\ callback' \subseteq 1 .. nextId' - 1 /\ repeating' \subseteq 1 .. nextId' - 1
      /\ \A i \in repeating' : ~OneShot(kind', i)
  BY <1>1 DEF Unfired
<1>3. /\ nextId' \in Nat /\ nextId <= nextId'
      /\ \A i \in Ids : i < nextId =>
               kind'[i] = kind[i] /\ (i \in callback' => i \in callback)
  BY <1>1
<1> QED
  BY <1>2, <1>3, CalmFInv

\* A new timer has an id that no call_vec holds.
LEMMA NewTimerFInv ==
    ASSUME FInv, NEW k \in Kinds, NEW delay \in Delays, SetTimer(k, delay)
    PROVE  Queues' /\ Unfired' /\ FiresAtMostOnce'
<1>1. /\ nextId \in Nat /\ nextId \in Ids /\ Unfired /\ kind \in [Ids -> Providers]
      /\ callback \subseteq Ids /\ repeating \subseteq Ids
  BY TimersAssumption DEF FInv, IInv, TypeOK, EntryTypes, SetTimer, Ids
<1>2. /\ nextId' = nextId + 1 /\ kind' = [kind EXCEPT ![nextId] = k]
      /\ callback' = callback \cup {nextId}
      /\ repeating' = IF k = "Interval" THEN repeating \cup {nextId} ELSE repeating
      /\ fires' = fires /\ frames' = frames /\ pumpVec' = pumpVec
  BY DEF SetTimer
<1>3. Handed(frames, pumpVec, frames', pumpVec')
  BY <1>2, KeptHanded
<1>4. nextId' \in Nat /\ nextId <= nextId'
  BY <1>1, <1>2
<1>5. \A i \in Ids : i < nextId =>
               kind'[i] = kind[i] /\ (i \in callback' => i \in callback)
  BY <1>1, <1>2 DEF Ids
<1>6. callback' \subseteq 1 .. nextId' - 1 /\ repeating' \subseteq 1 .. nextId' - 1
  BY <1>1, <1>2 DEF Unfired, Ids
<1>7. \A i \in repeating' : ~OneShot(kind', i)
  <2>1. /\ \A i \in Ids : i # nextId => kind'[i] = kind[i]
        /\ kind'[nextId] = k
    BY <1>1, <1>2
  <2>2. ASSUME NEW i \in repeating', i # nextId PROVE ~OneShot(kind', i)
    BY <1>1, <1>2, <2>1, <2>2 DEF Unfired, OneShot
  <2>3. nextId \in repeating' => k = "Interval" \/ nextId \in repeating
    BY <1>2
  <2>4. nextId \notin repeating
    BY <1>1 DEF Unfired
  <2> QED
    BY <2>1, <2>2, <2>3, <2>4 DEF OneShot
<1> QED
  BY <1>2, <1>3, <1>4, <1>5, <1>6, <1>7, CalmFInv

\* The call itself: what the call_vec was about to call is one-shot only if it
\* is in no other place.
LEMMA CallFInv ==
    ASSUME FInv, StartCallback
    PROVE  Queues' /\ Unfired' /\ FiresAtMostOnce'
<1>1. /\ EntryTypes /\ PollTypes /\ HookTypes /\ Queues /\ Unfired /\ FiresAtMostOnce
      /\ nextId \in Nat /\ \A i \in Ids : i \in Nat
  BY TimersAssumption DEF FInv, IInv, TypeOK, EntryTypes, Ids
<1>2. frames # <<>> /\ Top.rest # <<>>
  BY DEF StartCallback
<1> DEFINE i == Head(Top.rest).id
           g == [Top EXCEPT !.rest = Tail(@), !.cur = i, !.phase = "call"]
<1>3. /\ Top \in Frame /\ Top.rest \in Seq(Call)
  BY <1>1, <1>2, TopType
<1>4. i \in Ids /\ Tail(Top.rest) \in Seq(Call)
  BY <1>2, <1>3, NextCallType
<1>5. /\ SetTop(g)
      /\ fires' = [fires EXCEPT ![i] = IF kind[i] = "Interval" THEN 1 ELSE @ + 1]
      /\ kind' = kind /\ nextId' = nextId /\ callback' = callback
      /\ repeating' = repeating /\ pumpVec' = pumpVec
  BY DEF StartCallback, entryVars
<1>6. g \in Frame /\ g.rest = Tail(Top.rest)
  <2>1. g = [Top EXCEPT !.rest = Tail(Top.rest), !.cur = i, !.phase = "call"]
    BY <1>3 DEF Frame
  <2> QED
    BY <1>3, <1>4, <2>1, FrameUpdate DEF Frame
<1> HIDE DEF g
<1>7. /\ 1 \in DOMAIN frames /\ frames[1] = Top
      /\ frames'[1] = g
      /\ \A f \in DOMAIN frames' : f # 1 => f \in DOMAIN frames /\ frames'[f] = frames[f]
  BY <1>1, <1>2, <1>5, <1>6, Changed
<1>8. /\ 1 \in DOMAIN Top.rest /\ Top.rest[1].id = i
      /\ \A a \in DOMAIN Tail(Top.rest) :
            a + 1 \in DOMAIN Top.rest /\ a \in Nat /\ a + 1 # 1
            /\ Tail(Top.rest)[a] = Top.rest[a + 1]
  <2>1. Len(Top.rest) \in Nat /\ DOMAIN Top.rest = 1 .. Len(Top.rest) /\ Len(Top.rest) # 0
    BY <1>2, <1>3, LenProperties, EmptySeq
  <2>2. /\ Head(Top.rest) = Top.rest[1]
        /\ Len(Tail(Top.rest)) = Len(Top.rest) - 1
        /\ \A a \in 1 .. Len(Tail(Top.rest)) : Tail(Top.rest)[a] = Top.rest[a + 1]
    BY <1>2, <1>3, HeadTailProperties
  <2>3. DOMAIN Tail(Top.rest) = 1 .. Len(Tail(Top.rest))
    BY <1>4, LenProperties
  <2> QED
    BY <2>1, <2>2, <2>3
<1>9. /\ \A j : Has(Tail(Top.rest), j) => Has(Top.rest, j)
      /\ Has(Top.rest, i)
  BY <1>8 DEF Has
<1>10. /\ Once(kind, Top.rest) /\ Fresh(kind, nextId, callback, fires, Top.rest)
       /\ \A f \in DOMAIN frames : f # 1 => Apart(kind, Top.rest, frames[f].rest)
                                            /\ Apart(kind, frames[f].rest, Top.rest)
       /\ \A r \in Requests : Apart(kind, Top.rest, pumpVec[r])
  BY <1>1, <1>7 DEF Queues, AllOnce
<1>11. OneShot(kind, i) => /\ ~Has(Tail(Top.rest), i)
                           /\ \A f \in DOMAIN frames : f # 1 => ~Has(frames[f].rest, i)
                           /\ \A r \in Requests : ~Has(pumpVec[r], i)
  <2>1. OneShot(kind, i) => ~Has(Tail(Top.rest), i)
    BY <1>8, <1>10 DEF Has, Once
  <2> QED
    BY <1>4, <1>9, <1>10, <2>1 DEF Apart
<1>12. i < nextId /\ (OneShot(kind, i) => fires[i] = 0 /\ i \notin callback)
  BY <1>4, <1>9, <1>10 DEF Fresh
<1> HIDE DEF i
<1>13. \A j \in Ids : /\ j # i => fires'[j] = fires[j]
                      /\ j = i /\ OneShot(kind, j) => fires'[j] = 1
  BY <1>1, <1>4, <1>5, <1>12 DEF HookTypes, OneShot
<1>14. \A s : Fresh(kind, nextId, callback, fires, s) /\ (OneShot(kind, i) => ~Has(s, i))
                => Fresh(kind, nextId, callback, fires', s)
  BY <1>13 DEF Fresh
<1> DEFINE t == Tail(Top.rest)
<1>15. /\ Once(kind, t) /\ Fresh(kind, nextId, callback, fires', t)
       /\ \A f \in DOMAIN frames : f # 1 => Apart(kind, t, frames[f].rest)
                                            /\ Apart(kind, frames[f].rest, t)
       /\ \A r \in Requests : Apart(kind, t, pumpVec[r])
  <2>1. Once(kind, t)
    <3> SUFFICES ASSUME NEW a \in DOMAIN t, NEW b \in DOMAIN t,
                        t[a].id = t[b].id, OneShot(kind, t[a].id)
                 PROVE  a = b
      BY DEF Once
    <3>1. a + 1 = b + 1
      BY <1>8, <1>10 DEF Once
    <3> QED
      BY <1>8, <3>1
  <2>2. Fresh(kind, nextId, callback, fires, t)
    BY <1>9, <1>10 DEF Fresh
  <2>3. Fresh(kind, nextId, callback, fires', t)
    BY <2>2, <1>11, <1>14
  <2> QED
    BY <2>1, <2>3, <1>9, <1>10 DEF Apart
<1> HIDE DEF t
<1>16. \A f \in DOMAIN frames' : \/ f = 1 /\ frames'[f].rest = t
                                 \/ f # 1 /\ f \in DOMAIN frames /\ frames'[f].rest = frames[f].rest
  BY <1>6, <1>7 DEF t
<1>17. Queues'
  <2>1. \A f \in DOMAIN frames : f # 1 => /\ Once(kind, frames[f].rest)
                                          /\ Fresh(kind, nextId, callback, fires', frames[f].rest)
    BY <1>1, <1>11, <1>14 DEF Queues, AllOnce
  <2>2. \A r \in Requests : Once(kind, pumpVec[r]) /\ Fresh(kind, nextId, callback, fires', pumpVec[r])
    BY <1>1, <1>11, <1>14 DEF Queues, AllOnce
  <2>3. /\ \A f, h \in DOMAIN frames : f # h => Apart(kind, frames[f].rest, frames[h].rest)
        /\ \A q, r \in Requests : q # r => Apart(kind, pumpVec[q], pumpVec[r])
        /\ \A f \in DOMAIN frames, r \in Requests : Apart(kind, frames[f].rest, pumpVec[r])
    BY <1>1 DEF Queues, AllOnce
  <2>4. \A f \in DOMAIN frames' :
           Once(kind, frames'[f].rest) /\ Fresh(kind, nextId, callback, fires', frames'[f].rest)
    BY <1>15, <1>16, <2>1
  <2>5. \A f, h \in DOMAIN frames' : f # h => Apart(kind, frames'[f].rest, frames'[h].rest)
    BY <1>15, <1>16, <2>3
  <2>6. \A f \in DOMAIN frames', r \in Requests : Apart(kind, frames'[f].rest, pumpVec[r])
    BY <1>15, <1>16, <2>3
  <2>7. AllOnce(kind, nextId, callback, fires', frames', pumpVec)
    BY <2>2, <2>3, <2>4, <2>5, <2>6 DEF AllOnce
  <2> QED
    BY <1>5, <2>7 DEF Queues
<1>18. Unfired'
  <2>1. \A j \in Ids : j >= nextId \/ (j \in callback /\ OneShot(kind, j)) => fires'[j] = 0
    BY <1>1, <1>12, <1>13 DEF Unfired
  <2> QED
    BY <1>1, <1>5, <2>1 DEF Unfired
<1>19. FiresAtMostOnce'
  <2>1. \A j \in Ids : OneShot(kind, j) => fires'[j] <= 1
    BY <1>1, <1>13 DEF FiresAtMostOnce, OneShot
  <2> QED
    BY <1>5, <2>1 DEF FiresAtMostOnce, OneShot
<1> QED
  BY <1>17, <1>18, <1>19

-----------------------------------------------------------------------------
\* Every step keeps the call_vecs apart and the calls counted.
LEMMA StepFInv == FInv /\ [Next]_vars => FInv'
<1> SUFFICES ASSUME FInv, [Next]_vars PROVE Queues' /\ Unfired' /\ FiresAtMostOnce'
  BY StepIInv DEF FInv
<1> DEFINE Kept == Queues' /\ Unfired' /\ FiresAtMostOnce'
<1> USE DEF entryVars, refVars, stateVars, taskVars, tokVars, ghostVars
<1>a. /\ EntryTypes /\ PollTypes /\ Queues /\ frames \in Seq(Frame)
      /\ pumpVec \in [Requests -> Seq(Call)]
  BY DEF FInv, IInv, TypeOK, PollTypes
<1>b. ASSUME nextId' = nextId, kind' = kind, fires' = fires,
             callback' \subseteq callback, repeating' \subseteq repeating,
             frames' = frames,
             \A r \in Requests : pumpVec'[r] = pumpVec[r] \/ pumpVec'[r] = <<>>
      PROVE  Kept
  <2>1. Handed(frames, pumpVec, frames', pumpVec')
    BY <1>b, KeptHanded
  <2> QED
    BY <1>b, <2>1, StillFInv
<1>c. ASSUME nextId' = nextId, kind' = kind, fires' = fires,
             callback' = callback, repeating' = repeating, pumpVec' = pumpVec,
             frames # <<>>, NEW g \in Frame, SetTop(g), g.rest = Top.rest
      PROVE  Kept
  <2>1. /\ 1 \in DOMAIN frames /\ frames[1] = Top /\ frames'[1] = g
        /\ \A f \in DOMAIN frames' : f # 1 => f \in DOMAIN frames /\ frames'[f] = frames[f]
    BY <1>a, <1>c, Changed
  <2>2. \A f \in DOMAIN frames' : f \in DOMAIN frames /\ frames'[f].rest = frames[f].rest
    BY <1>c, <2>1
  <2>3. Handed(frames, pumpVec, frames', pumpVec')
    BY <1>c, <2>2, KeptHanded
  <2> QED
    BY <1>c, <2>3, StillFInv
<1>d. ASSUME nextId' = nextId, kind' = kind, fires' = fires,
             callback' = callback, repeating' = repeating,
             frames # <<>>, frames' = Tail(frames), NEW o,
             \A r \in Requests : pumpVec'[r] = pumpVec[r] \/ (r = o /\ pumpVec'[r] = Top.rest)
      PROVE  Kept
  <2>1. /\ 1 \in DOMAIN frames /\ frames[1] = Top
        /\ \A f \in DOMAIN frames' :
              f + 1 \in DOMAIN frames /\ f + 1 # 1 /\ frames'[f] = frames[f + 1]
    BY <1>a, <1>d, Popped
  <2>2. DOMAIN frames' \subseteq Int
    BY <1>a, <1>d, HeadTailProperties, LenProperties
  <2>a. \A r \in Requests :
           pumpVec'[r] = pumpVec[r] \/ (r = o /\ pumpVec'[r] = frames[1].rest)
    BY <1>d, <2>1
  <2>3. Handed(frames, pumpVec, frames', pumpVec')
    <3>1. PopsTo(frames, pumpVec, frames', pumpVec', o)
      BY <2>1, <2>2, <2>a DEF PopsTo
    <3> QED
      BY <3>1, PoppedHanded
  <2> QED
    BY <1>d, <2>3, StillFInv
<1>e. ASSUME NEW caller \in {"loop", "pump", "import"},
             NEW owner \in Tasks \cup Requests \cup {0},
             NEW dTok, NEW lowest,
             BeginPoll(caller, owner, <<>>, dTok, lowest), pumpVec' = pumpVec
      PROVE  Kept
  <2>1. /\ <<>> \in Seq(Call) /\ Once(kind, <<>>) /\ Fresh(kind, nextId, callback, fires, <<>>)
        /\ \A f \in DOMAIN frames : Apart(kind, <<>>, frames[f].rest)
        /\ \A r \in Requests :
              pumpVec'[r] = <<>> \/ (pumpVec'[r] = pumpVec[r] /\ Apart(kind, <<>>, pumpVec[r]))
    BY <1>e, EmptyVec
  <2> QED
    BY <1>e, <2>1, BeginPollQueues
<1>1. ASSUME NEW k \in Kinds, NEW delay \in Delays, SetTimer(k, delay) PROVE Kept
  BY <1>1, NewTimerFInv
<1>2. ASSUME NEW i \in Ids, ClearTimer(i) PROVE Kept
  BY <1>2, <1>b DEF ClearTimer
<1>3. ASSUME NEW i \in Ids, RefTimer(i) PROVE Kept
  BY <1>3, <1>b DEF RefTimer
<1>4. ASSUME NEW i \in Ids, UnrefTimer(i) PROVE Kept
  BY <1>4, <1>b DEF UnrefTimer
<1>5. ASSUME NEW i \in Ids, DropHandle(i) PROVE Kept
  BY <1>5, <1>b DEF DropHandle
<1>6. ASSUME NEW h \in Handles, RefHandle(h) PROVE Kept
  BY <1>6, <1>b DEF RefHandle
<1>7. ASSUME NEW h \in Handles, UnrefHandle(h) PROVE Kept
  BY <1>7, <1>b DEF UnrefHandle
<1>8. ASSUME NEW t \in Tasks, WakeLoop(t) PROVE Kept
  <2>1. PICK dTok, lowest : BeginPoll("loop", t, <<>>, dTok, lowest) /\ pumpVec' = pumpVec
    BY <1>8 DEF WakeLoop
  <2> QED
    BY <1>e, <2>1
<1>9. ASSUME NEW t \in Tasks, Park(t) PROVE Kept
  BY <1>9, <1>b DEF Park
<1>10. ASSUME NEW r \in Requests, PumpTick(r) PROVE Kept
  <2>1. PICK lowest : BeginPoll("pump", r, pumpVec[r], driverTok, lowest)
    BY <1>10 DEF PumpTick
  <2>2. \A q \in Requests : pumpVec'[q] = IF q = r THEN <<>> ELSE pumpVec[q]
    BY <1>10, <1>a DEF PumpTick
  <2>3. /\ pumpVec[r] \in Seq(Call)
        /\ Once(kind, pumpVec[r]) /\ Fresh(kind, nextId, callback, fires, pumpVec[r])
        /\ \A f \in DOMAIN frames : Apart(kind, pumpVec[r], frames[f].rest)
        /\ \A q \in Requests : q # r => Apart(kind, pumpVec[r], pumpVec[q])
    BY <1>a DEF Queues, AllOnce, Apart
  <2>4. \A q \in Requests :
           pumpVec'[q] = <<>> \/ (pumpVec'[q] = pumpVec[q] /\ Apart(kind, pumpVec[r], pumpVec[q]))
    BY <2>2, <2>3
  <2> QED
    BY <2>1, <2>3, <2>4, BeginPollQueues
<1>11. ASSUME NEW r \in Requests, BeginRequest(r) PROVE Kept
  BY <1>11, <1>b DEF BeginRequest
<1>12. ASSUME NEW r \in Requests, Dispatch(r) PROVE Kept
  BY <1>12, <1>b DEF Dispatch
<1>13. ASSUME NEW r \in Requests, EndRequest(r) PROVE Kept
  <2>1. \A q \in Requests : pumpVec'[q] = pumpVec[q] \/ pumpVec'[q] = <<>>
    BY <1>13, <1>a DEF EndRequest
  <2> QED
    BY <1>13, <1>b, <2>1 DEF EndRequest
<1>14. ASSUME NEW r \in Requests, AbandonRequest(r) PROVE Kept
  <2>1. \A q \in Requests : pumpVec'[q] = pumpVec[q] \/ pumpVec'[q] = <<>>
    BY <1>14, <1>a DEF AbandonRequest
  <2> QED
    BY <1>14, <1>b, <2>1 DEF AbandonRequest
<1>15. ASSUME ImportPoll PROVE Kept
  <2>1. PICK lowest : BeginPoll("import", 0, <<>>, driverTok, lowest) /\ pumpVec' = pumpVec
    BY <1>15 DEF ImportPoll
  <2> QED
    BY <1>e, <2>1
<1>16. ASSUME StartCallback PROVE Kept
  BY <1>16, CallFInv
<1>17. ASSUME EndCallback PROVE Kept
  <2> DEFINE g == [Top EXCEPT !.phase = "micro"]
  <2>1. frames # <<>> /\ Top \in Frame
    BY <1>17, <1>a, TopType DEF EndCallback
  <2>2. g \in Frame /\ g.rest = Top.rest
    BY <2>1, FrameUpdate DEF Frame
  <2>3. SetTop(g)
    BY <1>17 DEF EndCallback
  <2> HIDE DEF g
  <2> QED
    BY <1>17, <1>c, <2>1, <2>2, <2>3 DEF EndCallback
<1>18. ASSUME FinishItem PROVE Kept
  <2> DEFINE g == [Top EXCEPT !.cur = 0, !.phase = "next"]
  <2>1. frames # <<>> /\ Top \in Frame
    BY <1>18, <1>a, TopType DEF FinishItem
  <2>2. g \in Frame /\ g.rest = Top.rest
    BY <2>1, FrameUpdate DEF Frame
  <2>3. /\ SetTop(g) /\ nextId' = nextId /\ kind' = kind /\ fires' = fires
        /\ callback' = callback /\ repeating' = repeating /\ pumpVec' = pumpVec
    BY <1>18 DEF FinishItem
  <2> HIDE DEF g
  <2> QED
    BY <1>c, <2>1, <2>2, <2>3
<1>19. ASSUME ThrowCallback PROVE Kept
  <2>1. \A r \in Requests :
           pumpVec'[r] = pumpVec[r] \/ (r = Top.owner /\ pumpVec'[r] = Top.rest)
    BY <1>19, <1>a DEF ThrowCallback
  <2>2. /\ nextId' = nextId /\ kind' = kind /\ fires' = fires
        /\ callback' = callback /\ repeating' = repeating
        /\ frames # <<>> /\ frames' = Tail(frames)
    BY <1>19 DEF ThrowCallback
  <2> DEFINE o == Top.owner
  <2>3. \A r \in Requests :
           pumpVec'[r] = pumpVec[r] \/ (r = o /\ pumpVec'[r] = Top.rest)
    BY <2>1
  <2> HIDE DEF o
  <2> QED
    BY <1>d, <2>2, <2>3
<1>20. ASSUME EndPoll PROVE Kept
  <2>1. /\ nextId' = nextId /\ kind' = kind /\ fires' = fires
        /\ callback' = callback /\ repeating' = repeating /\ pumpVec' = pumpVec
        /\ frames # <<>> /\ frames' = Tail(frames)
    BY <1>20 DEF EndPoll
  <2> QED
    BY <1>d, <2>1
<1>21. ASSUME Resume PROVE Kept
  BY <1>21, <1>b DEF Resume
<1>22. ASSUME NaturalExit PROVE Kept
  BY <1>22, <1>b DEF NaturalExit, DiscardAllTimers
<1>23. ASSUME Tick PROVE Kept
  BY <1>23, <1>b DEF Tick
<1>24. ASSUME UNCHANGED vars PROVE Kept
  BY <1>24, <1>b DEF vars
<1> QED
  BY <1>1, <1>2, <1>3, <1>4, <1>5, <1>6, <1>7, <1>8, <1>9, <1>10, <1>11, <1>12, <1>13, <1>14, <1>15, <1>16, <1>17, <1>18, <1>19, <1>20, <1>21, <1>22, <1>23, <1>24 DEF Next, Stopped


\* A setTimeout or setImmediate callback is called at most once, whoever polls
\* the timers, however polls nest and whenever the timer is cleared
\* (poll_timers takes the callback out of the entry as it collects the call,
\* and a call_vec is never copied).
THEOREM FiresOnceHolds == Spec => []FiresAtMostOnce
<1>1. Init => FInv
  BY InitFInv
<1>2. FInv /\ [Next]_vars => FInv'
  BY StepFInv
<1>3. FInv => FiresAtMostOnce
  BY DEF FInv
<1> QED
  BY <1>1, <1>2, <1>3, PTL DEF Spec

------------------------------------------------------------------------------
(* The order of what a program sees of its timers when only the loop polls *)
(* them: the async-hook events of a timer, and immediates before timeouts. *)
(* Under a nested poll the first is false: the inner poll resets           *)
(* executing_hook_id while the outer callback still runs.                  *)

\* Where a timer is tells the last hook event it had.  A one-shot that can
\* still be called had only init; one that is called is out of the list, so
\* that no clear can find it; and executing_hook_id names the timer whose
\* callback runs, so that a clear of it is recognised.
Hooked ==
    /\ \A i \in Ids : i >= nextId => hook[i] = "none"
    /\ \A i \in Ids : OneShot(kind, i) =>
          /\ i \in timers => hook[i] \in {"init", "destroy"}
          /\ i \in callback => hook[i] = "init"
    /\ \A i \in Ids : hook[i] = "before" =>
          frames # <<>> /\ Top.phase = "call" /\ Top.cur = i
    /\ frames # <<>> =>
          /\ \A i \in Ids : OneShot(kind, i) =>
                /\ Has(Top.rest, i) => hook[i] = "init" /\ i \notin timers
                /\ Top.cur = i => i \notin timers
          /\ Top.cur < nextId
          /\ Top.phase \in {"call", "micro"} => Top.cur \in Ids /\ executing = Top.cur
          /\ Top.phase = "call" => hook[Top.cur] = "before"
          /\ Top.phase = "micro" /\ OneShot(kind, Top.cur) => hook[Top.cur] = "after"

\* A call_vec when k are the kinds of the timers, n is the next id, b their
\* births, m the time and c the timers with a callback.  It is sorted; the key
\* of an immediate lies before its creation, that of a timeout does not, and it
\* has passed; and an immediate still in the list is younger than each timeout.
VecOrder(k, n, b, m, c, s) ==
    /\ \A a, d \in DOMAIN s : a < d => s[a].key <= s[d].key
    /\ \A a \in DOMAIN s :
          /\ s[a].id < n
          /\ k[s[a].id] = "Timeout" => b[s[a].id] <= s[a].key /\ s[a].key < m
          /\ k[s[a].id] = "Immediate" => s[a].key < b[s[a].id]
    /\ \A a \in DOMAIN s, j \in c :
          k[s[a].id] = "Timeout" /\ k[j] = "Immediate" => b[s[a].id] < b[j]

\* The deadlines in the list relate to the births in the same way, and an
\* immediate that was neither cleared nor called is still to be called.
Ordered ==
    /\ \A i \in Ids : i < nextId => born[i] <= now
    /\ \A i \in callback : /\ kind[i] = "Timeout" => born[i] <= deadline[i]
                           /\ kind[i] = "Immediate" => deadline[i] < born[i]
    /\ frames # <<>> => VecOrder(kind, nextId, born, now, callback, Top.rest)
    /\ ~exited => \A j \in Ids :
          j < nextId /\ kind[j] = "Immediate" /\ j \notin cleared /\ fires[j] = 0 =>
              j \in callback \/ (frames # <<>> /\ Has(Top.rest, j))

OInv == LInv /\ FInv /\ Hooked /\ Ordered

\* A runtime starts with no timer, no event and no poll.
LEMMA InitOInv == Init => OInv
<1> SUFFICES ASSUME Init PROVE OInv
  OBVIOUS
<1>1. LInv /\ FInv
  BY InitLInv, InitFInv
<1>2. Hooked
  BY DEF Init, Hooked
<1>3. Ordered
  BY DEF Init, Ordered, Ids
<1> QED
  BY <1>1, <1>2, <1>3 DEF OInv

\* The loop begins a poll when no other is in progress.
LEMMA WakePoll ==
    ASSUME OInv, NEW t \in Tasks, WakeLoop(t)
    PROVE  /\ ~exited /\ frames = <<>> /\ frames' # <<>> /\ exited' = exited
           /\ Top'.cur = 0 /\ Top'.phase \in {"jobs", "next"}
           /\ Top'.rest \in Seq(Call) /\ Top'.rest \in SortedCalls(CallItems)
           /\ \A i \in Ids : Has(Top'.rest, i) => i \in Firing
           /\ timers' = Remaining /\ callback' = callback \ OneShots
           /\ deadline' = NewDeadline
           /\ UNCHANGED <<now, nextId, kind, hook, born, cleared, fires>>
<1> USE DEF entryVars, refVars, stateVars, taskVars, tokVars, ghostVars
<1>1. PICK dTok, lowest : BeginPoll("loop", t, <<>>, dTok, lowest)
  BY DEF WakeLoop
<1>2. ~exited /\ frames = <<>>
  BY DEF WakeLoop
<1>3. PICK s \in SortedCalls(CallItems \cup ItemsOf(<<>>)) :
         frames' = <<[caller |-> "loop", owner |-> t, rest |-> s,
                      hasItems |-> Remaining # {}, cur |-> 0,
                      phase |-> IF s = <<>> THEN "next" ELSE "jobs"]>> \o frames
  BY <1>1 DEF BeginPoll
<1> DEFINE g == [caller |-> "loop", owner |-> t, rest |-> s,
                 hasItems |-> Remaining # {}, cur |-> 0,
                 phase |-> IF s = <<>> THEN "next" ELSE "jobs"]
<1>4. g.cur = 0 /\ g.rest = s /\ g.phase \in {"jobs", "next"}
  OBVIOUS
<1>5. frames' = <<g>> \o <<>>
  BY <1>2, <1>3
<1> HIDE DEF g
<1>6. frames' # <<>> /\ Top' = g
  BY <1>5 DEF Top
<1>7. CallItems \cup ItemsOf(<<>>) = CallItems
  BY DEF ItemsOf
<1>8. /\ s \in Seq(Call)
      /\ \A i \in Ids : Has(s, i) => i \in Firing \/ Has(<<>>, i)
  <2>1. EntryTypes /\ Unfired
    BY DEF OInv, FInv, IInv, TypeOK
  <2> QED
    BY <2>1, EmptyVec, SortedOnce
<1>9. \A i : ~Has(<<>>, i)
  BY DEF Has
<1>10. /\ timers' = Remaining /\ callback' = callback \ OneShots
       /\ deadline' = NewDeadline /\ exited' = exited
       /\ UNCHANGED <<now, nextId, kind, hook, born, cleared, fires>>
  BY <1>1 DEF BeginPoll
<1> QED
  BY <1>2, <1>3, <1>4, <1>6, <1>7, <1>8, <1>9, <1>10

\* A one-shot with a callback that is due goes into the call_vec.
LEMMA OneShotsOf ==
    ASSUME Unfired
    PROVE  \A i \in Firing : OneShot(kind, i) => i \in OneShots
BY DEF Unfired, OneShots

\* The poll of the loop ends: there is no other.
LEMMA LastPoll ==
    ASSUME OInv, ~exited, frames # <<>>
    PROVE  Tail(frames) = <<>>
<1>1. Len(frames) = 1 /\ frames \in Seq(Frame)
  BY DEF OInv, LInv, IInv, TypeOK, PollTypes, OneLoop
<1>2. Tail(frames) \in Seq(Frame) /\ Len(Tail(frames)) = Len(frames) - 1
  BY <1>1, HeadTailProperties
<1>3. Len(Tail(frames)) = 0
  BY <1>1, <1>2
<1> QED
  BY <1>2, <1>3, EmptySeq

\* The call that the poll makes next.
LEMMA CallBegins ==
    ASSUME OInv, StartCallback
    PROVE  LET i == Head(Top.rest).id IN
           /\ ~exited /\ frames # <<>> /\ frames' # <<>> /\ exited' = exited
           /\ i \in Ids /\ i < nextId /\ Has(Top.rest, i)
           /\ 1 \in DOMAIN Top.rest /\ Top.rest[1].id = i
           /\ OneShot(kind, i) => ~Has(Tail(Top.rest), i) /\ fires[i] = 0 /\ i \notin callback
           /\ Top'.rest = Tail(Top.rest) /\ Top'.cur = i /\ Top'.phase = "call"
           /\ Top.rest \in Seq(Call) /\ Tail(Top.rest) \in Seq(Call)
           /\ \A a \in DOMAIN Tail(Top.rest) :
                 /\ a \in Nat /\ a + 1 \in DOMAIN Top.rest
                 /\ Tail(Top.rest)[a] = Top.rest[a + 1]
           /\ \A j : Has(Tail(Top.rest), j) => Has(Top.rest, j)
           /\ \A j : Has(Top.rest, j) => j = i \/ Has(Tail(Top.rest), j)
<1> DEFINE i == Head(Top.rest).id
           g == [Top EXCEPT !.rest = Tail(@), !.cur = i, !.phase = "call"]
<1>1. PollTypes /\ Queues
  BY DEF OInv, FInv, IInv, TypeOK
<1>2. ~exited /\ exited' = exited /\ frames # <<>> /\ Top.rest # <<>> /\ SetTop(g)
  BY DEF StartCallback
<1>3. Top \in Frame /\ Top.rest \in Seq(Call)
  BY <1>1, <1>2, TopType
<1>4. i \in Ids /\ Tail(Top.rest) \in Seq(Call)
  BY <1>2, <1>3, NextCallType
<1>5. g \in Frame /\ g.rest = Tail(Top.rest) /\ g.cur = i /\ g.phase = "call"
  <2>1. g = [Top EXCEPT !.rest = Tail(Top.rest), !.cur = i, !.phase = "call"]
    BY <1>3 DEF Frame
  <2> QED
    BY <1>3, <1>4, <2>1, FrameUpdate DEF Frame
<1> HIDE DEF g
<1>6. frames' # <<>> /\ Top' = g
  BY <1>1, <1>2, <1>5, TopSet
<1>7. Len(Top.rest) \in Nat /\ DOMAIN Top.rest = 1 .. Len(Top.rest) /\ Len(Top.rest) # 0
  BY <1>2, <1>3, LenProperties, EmptySeq
<1>8. /\ Head(Top.rest) = Top.rest[1]
      /\ Len(Tail(Top.rest)) = Len(Top.rest) - 1
      /\ \A a \in 1 .. Len(Tail(Top.rest)) : Tail(Top.rest)[a] = Top.rest[a + 1]
      /\ DOMAIN Tail(Top.rest) = 1 .. Len(Tail(Top.rest))
  BY <1>2, <1>3, <1>4, HeadTailProperties, LenProperties
<1>9. /\ 1 \in DOMAIN Top.rest /\ Top.rest[1].id = i
      /\ \A a \in DOMAIN Tail(Top.rest) :
            a \in Nat /\ a + 1 # 1 /\ a + 1 \in DOMAIN Top.rest /\ Tail(Top.rest)[a] = Top.rest[a + 1]
  BY <1>7, <1>8
<1>10. /\ \A j : Has(Tail(Top.rest), j) => Has(Top.rest, j)
       /\ Has(Top.rest, i)
  BY <1>9 DEF Has
<1>11. ASSUME NEW j, Has(Top.rest, j) PROVE j = i \/ Has(Tail(Top.rest), j)
  <2>1. PICK b \in DOMAIN Top.rest : Top.rest[b].id = j
    BY <1>11 DEF Has
  <2>2. CASE b = 1
    BY <1>9, <2>1, <2>2
  <2>3. CASE b # 1
    <3>1. b - 1 \in DOMAIN Tail(Top.rest) /\ (b - 1) + 1 = b
      BY <1>7, <1>8, <2>3
    <3>2. Tail(Top.rest)[b - 1] = Top.rest[b]
      BY <1>9, <3>1
    <3> QED
      BY <2>1, <3>1, <3>2 DEF Has
  <2> QED
    BY <2>2, <2>3
<1>12. 1 \in DOMAIN frames /\ frames[1] = Top
  BY <1>1, <1>2, HeadTailProperties, LenProperties, EmptySeq DEF PollTypes, Top
<1>13. Once(kind, Top.rest) /\ Fresh(kind, nextId, callback, fires, Top.rest)
  BY <1>1, <1>12 DEF Queues, AllOnce
<1>14. OneShot(kind, i) => ~Has(Tail(Top.rest), i)
  BY <1>9, <1>13 DEF Has, Once
<1>15. i < nextId /\ (OneShot(kind, i) => fires[i] = 0 /\ i \notin callback)
  BY <1>4, <1>10, <1>13 DEF Fresh
<1> HIDE DEF i
<1> QED
  BY <1>2, <1>3, <1>4, <1>5, <1>6, <1>9, <1>10, <1>11, <1>14, <1>15 DEF i

-----------------------------------------------------------------------------
(* The hook events.                                                         *)

\* What HookOrder says of a step.
HookStep ==
    \A i \in Ids :
        hook'[i] # hook[i] =>
            /\ <<hook[i], hook'[i]>> # <<"before", "destroy">>
            /\ kind[i] # "Interval" =>
                 <<hook[i], hook'[i]>> \in
                   {<<"none", "init">>, <<"init", "before">>, <<"init", "destroy">>,
                    <<"before", "after">>, <<"after", "destroy">>}

\* Every step of a runtime whose loop alone polls keeps Hooked, and emits the
\* events in order.
LEMMA StepHooked ==
    ASSUME OnlyTheLoopPolls, OInv, [Next]_vars
    PROVE  Hooked' /\ HookStep
<1> USE DEF entryVars, refVars, stateVars, taskVars, tokVars, ghostVars
<1> DEFINE Good == Hooked' /\ HookStep
<1>0. /\ EntryTypes /\ PollTypes /\ HookTypes /\ Unfired /\ Hooked /\ nextId \in Nat /\ 0 < nextId
      /\ Listed /\ \A i \in Ids : i \in Nat /\ i # 0
  BY TimersAssumption DEF OInv, LInv, FInv, IInv, TypeOK, EntryTypes, Ids
<1>1. ASSUME UNCHANGED <<nextId, kind, timers, callback, hook, frames, executing>>
      PROVE  Good
  <2>1. Top' = Top
    BY <1>1 DEF Top
  <2> QED
    BY <1>0, <1>1, <2>1 DEF Hooked, HookStep
<1>2. ASSUME NEW k \in Kinds, NEW delay \in Delays, SetTimer(k, delay) PROVE Good
  <2>1. /\ nextId' = nextId + 1 /\ kind' = [kind EXCEPT ![nextId] = k]
        /\ hook' = [hook EXCEPT ![nextId] = "init"] /\ timers' = timers \cup {nextId}
        /\ callback' = callback \cup {nextId} /\ frames' = frames /\ executing' = executing
    BY <1>2 DEF SetTimer
  <2>a. nextId \in Ids
    BY <1>0, <1>2, TimersAssumption DEF SetTimer, Ids
  <2>2. Top' = Top
    BY <2>1 DEF Top
  <2>3. \A i \in Ids : IF i = nextId THEN hook'[i] = "init" /\ hook[i] = "none"
                       ELSE hook'[i] = hook[i] /\ (OneShot(kind', i) <=> OneShot(kind, i))
    BY <1>0, <2>1, <2>a DEF Hooked, HookTypes, EntryTypes, OneShot
  <2>4. frames # <<>> => ~Has(Top.rest, nextId)
    <3> SUFFICES ASSUME frames # <<>> PROVE ~Has(Top.rest, nextId)
      OBVIOUS
    <3>1. 1 \in DOMAIN frames /\ frames[1] = Top
      BY <1>0, HeadTailProperties, LenProperties, EmptySeq DEF PollTypes, Top
    <3>2. Fresh(kind, nextId, callback, fires, Top.rest)
      BY <3>1 DEF OInv, FInv, Queues, AllOnce
    <3> QED
      BY <1>0, <2>1, <2>a, <3>2 DEF Fresh
  <2>5. frames # <<>> => Top.cur # nextId
    BY <1>0 DEF Hooked
  <2>6. HookStep
    BY <2>1, <2>3 DEF HookStep
  <2>7. Hooked'
    <3>1. \A i \in Ids : i >= nextId' => hook'[i] = "none"
      BY <1>0, <2>1, <2>3 DEF Hooked
    <3>2. \A i \in Ids : OneShot(kind', i) =>
             /\ i \in timers' => hook'[i] \in {"init", "destroy"}
             /\ i \in callback' => hook'[i] = "init"
      BY <1>0, <2>1, <2>3 DEF Hooked
    <3>3. \A i \in Ids : hook'[i] = "before" =>
             frames' # <<>> /\ Top'.phase = "call" /\ Top'.cur = i
      BY <1>0, <2>1, <2>2, <2>3 DEF Hooked
    <3>4. frames' # <<>> =>
             \A i \in Ids : OneShot(kind', i) =>
                   /\ Has(Top'.rest, i) => hook'[i] = "init" /\ i \notin timers'
                   /\ Top'.cur = i => i \notin timers'
      BY <1>0, <2>1, <2>2, <2>3, <2>4, <2>5 DEF Hooked
    <3>5. frames' # <<>> =>
             /\ Top'.cur < nextId'
             /\ Top'.phase \in {"call", "micro"} => Top'.cur \in Ids /\ executing' = Top'.cur
             /\ Top'.phase = "call" => hook'[Top'.cur] = "before"
             /\ Top'.phase = "micro" /\ OneShot(kind', Top'.cur) => hook'[Top'.cur] = "after"
      <4>1. frames # <<>> => Top.cur < nextId + 1
        <5>1. frames # <<>> => Top.cur \in Nat /\ Top.cur < nextId
          BY <1>0, TopType DEF Hooked
        <5> QED
          BY <1>0, <5>1
      <4> QED
        BY <1>0, <2>1, <2>2, <2>3, <2>5, <4>1 DEF Hooked
    <3> QED
      BY <3>1, <3>2, <3>3, <3>4, <3>5 DEF Hooked
  <2> QED
    BY <2>6, <2>7
<1>3. ASSUME NEW i \in Ids, ClearTimer(i) PROVE Good
  <2>1. /\ nextId' = nextId /\ kind' = kind /\ timers' = timers /\ callback' \subseteq callback
        /\ frames' = frames /\ executing' = executing
        /\ hook' = hook \/ (/\ i \in timers /\ executing # i /\ i \notin callback'
                            /\ hook' = [hook EXCEPT ![i] = "destroy"])
    BY <1>3 DEF ClearTimer, Found, SelfClear
  <2>2. Top' = Top
    BY <2>1 DEF Top
  <2>3. CASE hook' = hook
    BY <1>0, <2>1, <2>2, <2>3 DEF Hooked, HookStep
  <2>4. CASE /\ i \in timers /\ executing # i /\ i \notin callback'
             /\ hook' = [hook EXCEPT ![i] = "destroy"]
    <3>1. hook[i] # "before" /\ (OneShot(kind, i) => hook[i] \in {"init", "destroy"})
      BY <1>0, <2>4 DEF Hooked
    <3>2. \A j \in Ids : IF j = i THEN hook'[j] = "destroy" ELSE hook'[j] = hook[j]
      BY <1>0, <2>4 DEF HookTypes
    <3>3. HookStep
      BY <3>1, <3>2 DEF HookStep, OneShot
    <3>4. frames # <<>> => /\ Top.phase = "call" => Top.cur # i
                           /\ Top.phase = "micro" => Top.cur # i
      BY <1>0, <2>4 DEF Hooked
    <3>5. frames # <<>> /\ Top.phase \in {"call", "micro"} => Top.cur \in Ids /\ Top.cur # i
      BY <1>0, <3>4 DEF Hooked
    <3>6. Hooked'
      <4>1. /\ \A j \in Ids : j >= nextId' => hook'[j] = "none"
            /\ \A j \in Ids : OneShot(kind', j) =>
                  /\ j \in timers' => hook'[j] \in {"init", "destroy"}
                  /\ j \in callback' => hook'[j] = "init"
            /\ \A j \in Ids : hook'[j] = "before" =>
                  frames' # <<>> /\ Top'.phase = "call" /\ Top'.cur = j
        BY <1>0, <2>1, <2>2, <2>4, <3>2 DEF Hooked, Listed
      <4>2. frames' # <<>> =>
               \A j \in Ids : OneShot(kind', j) =>
                   /\ Has(Top'.rest, j) => hook'[j] = "init" /\ j \notin timers'
                   /\ Top'.cur = j => j \notin timers'
        BY <1>0, <2>1, <2>2, <2>4, <3>2 DEF Hooked
      <4>3. frames' # <<>> =>
               /\ Top'.cur < nextId'
               /\ Top'.phase \in {"call", "micro"} => Top'.cur \in Ids /\ executing' = Top'.cur
               /\ Top'.phase = "call" => hook'[Top'.cur] = "before"
               /\ Top'.phase = "micro" /\ OneShot(kind', Top'.cur) => hook'[Top'.cur] = "after"
        BY <1>0, <2>1, <2>2, <3>2, <3>5 DEF Hooked
      <4> QED
        BY <4>1, <4>2, <4>3 DEF Hooked
    <3> QED
      BY <3>3, <3>6
  <2> QED
    BY <2>1, <2>3, <2>4
<1>4. CASE \E i \in Ids : RefTimer(i) \/ UnrefTimer(i) \/ DropHandle(i)
  BY <1>1, <1>4 DEF RefTimer, UnrefTimer, DropHandle
<1>5. CASE \E h \in Handles : RefHandle(h) \/ UnrefHandle(h)
  BY <1>1, <1>5 DEF RefHandle, UnrefHandle
<1>6. ASSUME NEW t \in Tasks, WakeLoop(t) PROVE Good
  <2>1. /\ frames = <<>> /\ frames' # <<>>
        /\ Top'.cur = 0 /\ Top'.phase \in {"jobs", "next"}
        /\ \A i \in Ids : Has(Top'.rest, i) => i \in Firing
        /\ timers' = Remaining /\ callback' = callback \ OneShots
        /\ UNCHANGED <<nextId, kind, hook>>
    BY <1>6, WakePoll
  <2>2. \A i \in Ids : OneShot(kind, i) /\ i \in Firing => i \in callback /\ i \notin Remaining
    BY <1>0, OneShotsOf DEF Firing, Remaining, Rearmed, OneShots
  <2>3. Remaining \subseteq timers
    BY DEF Remaining
  <2> QED
    BY <1>0, <2>1, <2>2, <2>3 DEF Hooked, HookStep
<1>7. CASE \E t \in Tasks : Park(t)
  BY <1>1, <1>7 DEF Park
<1>8. CASE StartCallback
  <2> DEFINE i == Head(Top.rest).id
  <2>1. /\ frames # <<>> /\ frames' # <<>> /\ i \in Ids /\ i < nextId /\ Has(Top.rest, i)
        /\ OneShot(kind, i) => ~Has(Tail(Top.rest), i) /\ i \notin callback
        /\ Top'.rest = Tail(Top.rest) /\ Top'.cur = i /\ Top'.phase = "call"
        /\ \A j : Has(Tail(Top.rest), j) => Has(Top.rest, j)
    BY <1>8, CallBegins
  <2>2. /\ nextId' = nextId /\ kind' = kind /\ timers' = timers /\ callback' = callback
        /\ executing' = i /\ hook' = [hook EXCEPT ![i] = "before"]
        /\ Top.phase \in {"jobs", "next"}
    BY <1>8 DEF StartCallback
  <2> HIDE DEF i
  <2>3. \A j \in Ids : IF j = i THEN hook'[j] = "before" ELSE hook'[j] = hook[j]
    BY <1>0, <2>1, <2>2 DEF HookTypes
  <2>4. \A j \in Ids : hook[j] # "before"
    BY <1>0, <2>2 DEF Hooked
  <2>5. OneShot(kind, i) => hook[i] = "init" /\ i \notin timers
    BY <1>0, <2>1 DEF Hooked
  <2>6. HookStep
    BY <2>3, <2>4, <2>5 DEF HookStep, OneShot
  <2>7. Hooked'
    BY <1>0, <2>1, <2>2, <2>3, <2>4, <2>5 DEF Hooked
  <2> QED
    BY <2>6, <2>7
<1>9. CASE EndCallback
  <2> DEFINE f == [Top EXCEPT !.phase = "micro"]
             i == Top.cur
  <2>1. frames # <<>> /\ SetTop(f) /\ Top.phase = "call" /\ hook' = [hook EXCEPT ![i] = "after"]
        /\ UNCHANGED <<nextId, kind, timers, callback, executing>>
    BY <1>9 DEF EndCallback
  <2>2. Top \in Frame
    BY <1>0, <2>1, TopType
  <2>3. f \in Frame /\ f.rest = Top.rest /\ f.cur = i /\ f.phase = "micro"
    BY <2>2, FrameUpdate DEF Frame
  <2> HIDE DEF f
  <2>4. frames' # <<>> /\ Top' = f
    BY <1>0, <2>1, <2>3, TopSet
  <2>5. i \in Ids /\ i < nextId /\ executing = i /\ hook[i] = "before"
        /\ \A j \in Ids : hook[j] = "before" => j = i
    BY <1>0, <2>1 DEF Hooked
  <2>6. OneShot(kind, i) => ~Has(Top.rest, i) /\ i \notin callback /\ i \notin timers
    BY <1>0, <2>1, <2>5 DEF Hooked
  <2> HIDE DEF i
  <2>7. \A j \in Ids : IF j = i THEN hook'[j] = "after" ELSE hook'[j] = hook[j]
    BY <1>0, <2>1, <2>5 DEF HookTypes
  <2>8. HookStep
    BY <2>5, <2>7 DEF HookStep
  <2>9. Hooked'
    BY <1>0, <2>1, <2>3, <2>4, <2>5, <2>6, <2>7 DEF Hooked, i
  <2> QED
    BY <2>8, <2>9
<1>10. CASE FinishItem
  <2> DEFINE f == [Top EXCEPT !.cur = 0, !.phase = "next"]
             i == Top.cur
  <2>1. frames # <<>> /\ SetTop(f) /\ Top.phase = "micro"
        /\ UNCHANGED <<nextId, kind, callback>>
        /\ \/ hook' = [hook EXCEPT ![i] = "destroy"] /\ timers' = timers \ {i}
           \/ hook' = hook /\ timers' = timers
    BY <1>10 DEF FinishItem
  <2>2. Top \in Frame
    BY <1>0, <2>1, TopType
  <2>3. f \in Frame /\ f.rest = Top.rest /\ f.cur = 0 /\ f.phase = "next"
    BY <2>2, FrameUpdate DEF Frame
  <2> HIDE DEF f
  <2>4. frames' # <<>> /\ Top' = f
    BY <1>0, <2>1, <2>3, TopSet
  <2>5. i \in Ids /\ i < nextId /\ \A j \in Ids : hook[j] # "before"
    BY <1>0, <2>1 DEF Hooked
  <2>6. OneShot(kind, i) => /\ hook[i] = "after"
                            /\ ~Has(Top.rest, i) /\ i \notin callback /\ i \notin timers
    BY <1>0, <2>1, <2>5 DEF Hooked
  <2> HIDE DEF i
  <2>7. CASE hook' = hook /\ timers' = timers
    BY <1>0, <2>1, <2>3, <2>4, <2>5, <2>7 DEF Hooked, HookStep
  <2>8. CASE hook' = [hook EXCEPT ![i] = "destroy"] /\ timers' = timers \ {i}
    <3>1. \A j \in Ids : IF j = i THEN hook'[j] = "destroy" ELSE hook'[j] = hook[j]
      BY <1>0, <2>5, <2>8 DEF HookTypes
    <3>2. HookStep
      BY <2>5, <2>6, <3>1 DEF HookStep, OneShot
    <3>3. Hooked'
      BY <1>0, <2>1, <2>3, <2>4, <2>5, <2>6, <2>8, <3>1 DEF Hooked
    <3> QED
      BY <3>2, <3>3
  <2> QED
    BY <2>1, <2>7, <2>8
<1>11. CASE ThrowCallback
  <2> DEFINE i == Top.cur
  <2>1. ~exited /\ frames # <<>> /\ frames' = Tail(frames) /\ Top.phase = "call"
        /\ hook' = [hook EXCEPT ![i] = "after"]
        /\ UNCHANGED <<nextId, kind, timers, callback>>
    BY <1>11 DEF ThrowCallback
  <2>2. frames' = <<>>
    BY <2>1, LastPoll
  <2>3. i \in Ids /\ i < nextId /\ hook[i] = "before"
        /\ \A j \in Ids : hook[j] = "before" => j = i
    BY <1>0, <2>1 DEF Hooked
  <2>4. OneShot(kind, i) => i \notin callback /\ i \notin timers
    BY <1>0, <2>1, <2>3 DEF Hooked
  <2> HIDE DEF i
  <2>5. \A j \in Ids : IF j = i THEN hook'[j] = "after" ELSE hook'[j] = hook[j]
    BY <1>0, <2>1, <2>3 DEF HookTypes
  <2>6. HookStep
    BY <2>3, <2>5 DEF HookStep
  <2>7. Hooked'
    BY <1>0, <2>1, <2>2, <2>3, <2>4, <2>5 DEF Hooked
  <2> QED
    BY <2>6, <2>7
<1>12. CASE EndPoll
  <2>1. ~exited /\ frames # <<>> /\ frames' = Tail(frames) /\ Top.phase = "next"
        /\ UNCHANGED <<nextId, kind, timers, callback, hook>>
    BY <1>12 DEF EndPoll
  <2>2. frames' = <<>>
    BY <2>1, LastPoll
  <2> QED
    BY <1>0, <2>1, <2>2 DEF Hooked, HookStep
<1>13. CASE Resume
  BY <1>1, <1>13 DEF Resume
<1>14. CASE NaturalExit
  <2>1. /\ frames = <<>> /\ frames' = frames /\ timers' = {} /\ callback' \subseteq callback
        /\ UNCHANGED <<nextId, kind>>
        /\ hook' = [i \in Ids |-> IF i \in timers \cap callback THEN "destroy" ELSE hook[i]]
    BY <1>14 DEF NaturalExit, DiscardAllTimers
  <2>2. \A i \in callback' : i \notin timers
    BY <1>14 DEF NaturalExit, DiscardAllTimers
  <2>3. \A i \in Ids : IF i \in timers /\ i \in callback THEN hook'[i] = "destroy"
                       ELSE hook'[i] = hook[i]
    BY <2>1
  <2>4. \A i \in Ids : i \in callback => i < nextId /\ (OneShot(kind, i) => hook[i] = "init")
    BY <1>0 DEF Hooked, Unfired
  <2>5. \A i \in Ids : hook[i] # "before"
    BY <1>0, <2>1 DEF Hooked
  <2>6. HookStep
    BY <2>3, <2>4, <2>5 DEF HookStep, OneShot
  <2>7. Hooked'
    BY <1>0, <2>1, <2>2, <2>3, <2>4, <2>5 DEF Hooked
  <2> QED
    BY <2>6, <2>7
<1>15. CASE Tick
  BY <1>1, <1>15 DEF Tick
<1>16. CASE UNCHANGED vars
  BY <1>1, <1>16 DEF vars
<1> QED
  BY <1>2, <1>3, <1>4, <1>5, <1>6, <1>7, <1>8, <1>9, <1>10, <1>11, <1>12, <1>13,
     <1>14, <1>15, <1>16, LoopSteps

-----------------------------------------------------------------------------
(* Immediates before timeouts.                                              *)

\* What ImmediateFirst says of a step.
FirstStep ==
    \A i, j \in Ids :
        (/\ fires'[i] # fires[i] /\ kind[i] = "Timeout"
         /\ j < nextId /\ kind[j] = "Immediate" /\ j \notin cleared
         /\ born[j] <= born[i])
        => fires[j] > 0

\* The list and the call_vec of a poll that begins.
LEMMA PollOrder ==
    ASSUME OInv, NEW s \in SortedCalls(CallItems), s \in Seq(Call)
    PROVE  /\ VecOrder(kind, nextId, born, now, callback \ OneShots, s)
           /\ \A i \in Firing : Has(s, i)
           /\ \A i \in callback \ OneShots : /\ kind[i] # "Immediate"
                                             /\ kind[i] = "Timeout" => NewDeadline[i] = deadline[i]
<1>1. /\ EntryTypes /\ HookTypes /\ Unfired /\ Listed /\ Ordered /\ nextId \in Nat
      /\ \A i \in Ids : i \in Nat
  BY TimersAssumption DEF OInv, LInv, FInv, IInv, TypeOK, EntryTypes, Ids
<1>2. \A i \in repeating : kind[i] = "Interval"
  BY <1>1 DEF Unfired, OneShot
<1>3. \A i \in callback : kind[i] = "Immediate" => i \in OneShots
  <2> SUFFICES ASSUME NEW i \in callback, kind[i] = "Immediate" PROVE i \in OneShots
    OBVIOUS
  <2>1. i \in Ids /\ i \in timers /\ i < nextId /\ deadline[i] \in Int /\ born[i] \in Nat /\ now \in Nat
    BY <1>1 DEF EntryTypes, HookTypes, Listed, Unfired
  <2>2. deadline[i] < born[i] /\ born[i] <= now
    BY <1>1, <2>1 DEF Ordered
  <2>3. deadline[i] < now
    BY <2>1, <2>2
  <2>4. i \notin repeating
    BY <1>2
  <2> QED
    BY <2>1, <2>3, <2>4 DEF OneShots, Firing, Due
<1>4. \A i \in Ids : kind[i] # "Interval" => NewDeadline[i] = deadline[i]
  BY <1>2 DEF NewDeadline, Rearmed
<1>5. /\ \A a \in DOMAIN s : s[a] \in CallItems
      /\ \A x \in CallItems : \E a \in DOMAIN s : s[a] = x
      /\ \A a, b \in DOMAIN s : a < b => s[a].key <= s[b].key
  BY DEF SortedCalls
<1>6. Firing \subseteq callback /\ Firing \subseteq Ids /\ \A i \in Firing : deadline[i] < now
  BY <1>1 DEF Firing, Due, EntryTypes
<1>7. \A x \in CallItems : x.id \in Firing /\ x.key = NewDeadline[x.id]
  BY DEF CallItems
<1>8. \A i \in Firing : Has(s, i)
  <2> SUFFICES ASSUME NEW i \in Firing PROVE Has(s, i)
    OBVIOUS
  <2>1. [key |-> NewDeadline[i], id |-> i] \in CallItems
    BY DEF CallItems
  <2>2. PICK a \in DOMAIN s : s[a] = [key |-> NewDeadline[i], id |-> i]
    BY <1>5, <2>1
  <2>3. s[a].id = i
    BY <2>2
  <2> QED
    BY <2>3 DEF Has
<1>9. ASSUME NEW a \in DOMAIN s
      PROVE  /\ s[a].id < nextId
             /\ kind[s[a].id] = "Timeout" => born[s[a].id] <= s[a].key /\ s[a].key < now
             /\ kind[s[a].id] = "Immediate" => s[a].key < born[s[a].id]
  <2>1. s[a].id \in Firing /\ s[a].key = NewDeadline[s[a].id]
    BY <1>5, <1>7
  <2>2. s[a].id \in callback /\ s[a].id \in Ids /\ deadline[s[a].id] < now
    BY <1>6, <2>1
  <2>3. s[a].id < nextId
    BY <1>1, <2>2 DEF Unfired
  <2>4. kind[s[a].id] # "Interval" => s[a].key = deadline[s[a].id]
    BY <1>4, <2>1, <2>2
  <2> QED
    BY <1>1, <2>2, <2>3, <2>4 DEF Ordered
<1>10. VecOrder(kind, nextId, born, now, callback \ OneShots, s)
  BY <1>3, <1>5, <1>9 DEF VecOrder
<1>11. \A i \in callback \ OneShots : /\ kind[i] # "Immediate"
                                      /\ kind[i] = "Timeout" => NewDeadline[i] = deadline[i]
  BY <1>1, <1>3, <1>4 DEF EntryTypes
<1> QED
  BY <1>8, <1>10, <1>11

\* Time passes, timers are created and callbacks go.
Ages(k, n, b, m, c, k2, n2, b2, m2, c2) ==
    /\ n \in Nat /\ n2 \in Nat /\ m \in Nat /\ m2 \in Nat /\ n <= n2 /\ m <= m2
    /\ b \in [Ids -> Nat] /\ b2 \in [Ids -> Nat]
    /\ \A i \in Ids : i < n => k2[i] = k[i] /\ b2[i] = b[i]
    /\ \A j \in c2 : (j \in c /\ j \in Ids /\ j < n) \/ b2[j] = m

\* A call_vec stays in order.
LEMMA VecKeeps ==
    ASSUME NEW k, NEW n, NEW b, NEW m, NEW c, NEW k2, NEW n2, NEW b2, NEW m2, NEW c2,
           NEW s \in Seq(Call), VecOrder(k, n, b, m, c, s),
           Ages(k, n, b, m, c, k2, n2, b2, m2, c2)
    PROVE  VecOrder(k2, n2, b2, m2, c2, s)
<1> USE DEF Ages
<1>1. \A a \in DOMAIN s : s[a].id \in Ids /\ s[a].id \in Nat /\ s[a].key \in Int
  <2>1. \A a \in DOMAIN s : s[a] \in Call /\ s[a].id \in Ids
    BY CallIds
  <2>2. \A a \in DOMAIN s : s[a].key \in Int
    BY <2>1 DEF Call
  <2>3. \A i \in Ids : i \in Nat
    BY TimersAssumption DEF Ids
  <2> QED
    BY <2>1, <2>2, <2>3
<1>2. \A a \in DOMAIN s : /\ s[a].id < n /\ s[a].id < n2
                          /\ k2[s[a].id] = k[s[a].id] /\ b2[s[a].id] = b[s[a].id]
  BY <1>1 DEF VecOrder
<1>3. ASSUME NEW a \in DOMAIN s
      PROVE  /\ k2[s[a].id] = "Timeout" => b2[s[a].id] <= s[a].key /\ s[a].key < m2
             /\ k2[s[a].id] = "Immediate" => s[a].key < b2[s[a].id]
  <2>1. /\ k[s[a].id] = "Timeout" => b[s[a].id] <= s[a].key /\ s[a].key < m
        /\ k[s[a].id] = "Immediate" => s[a].key < b[s[a].id]
    BY DEF VecOrder
  <2>2. s[a].key \in Int /\ m \in Nat /\ m2 \in Nat /\ m <= m2
    BY <1>1
  <2>3. s[a].key < m => s[a].key < m2
    BY <2>2
  <2> QED
    BY <1>2, <2>1, <2>3
<1>4. ASSUME NEW a \in DOMAIN s, NEW j \in c2,
             k2[s[a].id] = "Timeout", k2[j] = "Immediate"
      PROVE  b2[s[a].id] < b2[j]
  <2>1. b2[s[a].id] = b[s[a].id] /\ b[s[a].id] <= s[a].key /\ s[a].key < m /\ b[s[a].id] \in Nat
    BY <1>1, <1>2, <1>4 DEF VecOrder
  <2>2. CASE j \in c /\ j \in Ids /\ j < n
    BY <1>2, <1>4, <2>1, <2>2 DEF VecOrder
  <2>3. CASE b2[j] = m
    BY <1>1, <2>1, <2>3
  <2> QED
    BY <2>2, <2>3
<1> QED
  BY <1>2, <1>3, <1>4 DEF VecOrder

\* Every step of a runtime whose loop alone polls keeps Ordered, and starts no
\* timeout before an immediate that is as old.
LEMMA StepOrdered ==
    ASSUME OnlyTheLoopPolls, OInv, [Next]_vars
    PROVE  Ordered' /\ FirstStep
<1> USE DEF entryVars, refVars, stateVars, taskVars, tokVars, ghostVars
<1> DEFINE Good == Ordered' /\ FirstStep
<1>0. /\ EntryTypes /\ PollTypes /\ HookTypes /\ Unfired /\ Ordered /\ OneLoop
      /\ nextId \in Nat /\ now \in Nat /\ born \in [Ids -> Nat] /\ fires \in [Ids -> Nat]
      /\ callback \subseteq Ids /\ \A i \in callback : i < nextId
      /\ \A i \in Ids : i \in Nat
  <2>1. EntryTypes /\ PollTypes /\ HookTypes /\ Unfired /\ Ordered /\ OneLoop
    BY DEF OInv, LInv, FInv, IInv, TypeOK
  <2>2. nextId \in Nat /\ \A i \in Ids : i \in Nat
    BY <2>1, TimersAssumption DEF EntryTypes, Ids
  <2>3. \A i \in callback : i < nextId
    BY <2>1, <2>2 DEF Unfired
  <2>4. now \in Nat /\ callback \subseteq Ids
    BY <2>1 DEF EntryTypes
  <2>5. born \in [Ids -> Nat] /\ fires \in [Ids -> Nat]
    BY <2>1 DEF HookTypes
  <2> QED
    BY <2>1, <2>2, <2>3, <2>4, <2>5
<1>a. frames # <<>> => Top.rest \in Seq(Call)
  BY <1>0, TopType
\* No call is made, and the call_vec stays.
<1>1. ASSUME nextId' = nextId, kind' = kind, born' = born, fires' = fires,
             now' \in Nat, now <= now', callback' \subseteq callback,
             \A i \in callback' : deadline'[i] = deadline[i],
             \A j \in Ids : j \in callback => j \in callback' \/ j \in cleared',
             cleared \subseteq cleared', exited' = exited,
             frames' = <<>> <=> frames = <<>>, frames # <<>> => Top'.rest = Top.rest
      PROVE  Good
  <2>1. frames # <<>> => VecOrder(kind, nextId, born, now', callback', Top.rest)
    <3>1. \A j \in callback' : j \in callback /\ j \in Ids /\ j < nextId
      BY <1>0, <1>1
    <3>2. \A i \in Ids : i < nextId => kind[i] = kind[i] /\ born[i] = born[i]
      OBVIOUS
    <3>3. frames # <<>> => VecOrder(kind, nextId, born, now, callback, Top.rest)
      BY <1>0 DEF Ordered
    <3>4. Ages(kind, nextId, born, now, callback, kind, nextId, born, now', callback')
      BY <1>0, <1>1, <3>1, <3>2 DEF Ages
    <3> QED
      BY <1>a, <3>3, <3>4, VecKeeps
  <2>2. \A i \in Ids : i < nextId' => born'[i] <= now'
    BY <1>0, <1>1 DEF Ordered
  <2>3. \A i \in callback' : /\ kind'[i] = "Timeout" => born'[i] <= deadline'[i]
                             /\ kind'[i] = "Immediate" => deadline'[i] < born'[i]
    BY <1>0, <1>1 DEF Ordered
  <2>4. frames' # <<>> => VecOrder(kind', nextId', born', now', callback', Top'.rest)
    BY <1>1, <2>1
  <2>5. ~exited' => \A j \in Ids :
          j < nextId' /\ kind'[j] = "Immediate" /\ j \notin cleared' /\ fires'[j] = 0 =>
              j \in callback' \/ (frames' # <<>> /\ Has(Top'.rest, j))
    BY <1>0, <1>1 DEF Ordered
  <2>6. FirstStep
    BY <1>1 DEF FirstStep
  <2> QED
    BY <2>2, <2>3, <2>4, <2>5, <2>6 DEF Ordered
<1>b. ASSUME UNCHANGED <<nextId, kind, born, fires, callback, deadline, cleared, frames, exited>>,
             now' = now \/ now' = now + 1
      PROVE  Good
  <2>1. Top' = Top /\ now' \in Nat /\ now <= now'
    BY <1>0, <1>b DEF Top
  <2> QED
    BY <1>1, <1>b, <2>1
<1>2. ASSUME NEW k \in Kinds, NEW delay \in Delays, SetTimer(k, delay) PROVE Good
  <2>1. /\ nextId' = nextId + 1 /\ kind' = [kind EXCEPT ![nextId] = k]
        /\ born' = [born EXCEPT ![nextId] = now]
        /\ deadline' = [deadline EXCEPT ![nextId] = DeadlineOf(k, delay)]
        /\ callback' = callback \cup {nextId} /\ frames' = frames
        /\ now' = now /\ cleared' = cleared /\ fires' = fires /\ exited' = exited
    BY <1>2 DEF SetTimer
  <2>2. nextId \in Ids
    BY <1>0, <1>2, TimersAssumption DEF SetTimer, EntryTypes, Ids
  <2>3. Top' = Top
    BY <2>1 DEF Top
  <2>4. /\ \A i \in Ids : i # nextId => kind'[i] = kind[i] /\ born'[i] = born[i] /\ deadline'[i] = deadline[i]
        /\ kind'[nextId] = k /\ born'[nextId] = now /\ deadline'[nextId] = DeadlineOf(k, delay)
        /\ born' \in [Ids -> Nat]
    BY <1>0, <2>1, <2>2 DEF EntryTypes
  <2>5. /\ k = "Timeout" => now <= DeadlineOf(k, delay)
        /\ k = "Immediate" => DeadlineOf(k, delay) < now
    BY <1>0, TimersAssumption DEF DeadlineOf
  <2>6. \A i \in Ids : i < nextId' => born'[i] <= now'
    BY <1>0, <2>1, <2>4 DEF Ordered
  <2>7. \A i \in callback' : /\ kind'[i] = "Timeout" => born'[i] <= deadline'[i]
                             /\ kind'[i] = "Immediate" => deadline'[i] < born'[i]
    BY <1>0, <2>1, <2>4, <2>5 DEF Ordered
  <2>8. frames' # <<>> => VecOrder(kind', nextId', born', now', callback', Top'.rest)
    <3>1. \A j \in callback' : (j \in callback /\ j \in Ids /\ j < nextId) \/ born'[j] = now
      BY <1>0, <2>1, <2>4
    <3>2. \A i \in Ids : i < nextId => kind'[i] = kind[i] /\ born'[i] = born[i]
      BY <1>0, <2>4
    <3>3. frames # <<>> => VecOrder(kind, nextId, born, now, callback, Top.rest)
      BY <1>0 DEF Ordered
    <3>4. nextId' \in Nat /\ nextId <= nextId' /\ now <= now'
      BY <1>0, <2>1
    <3>5. Ages(kind, nextId, born, now, callback, kind', nextId', born', now', callback')
      BY <1>0, <2>1, <2>4, <3>1, <3>2, <3>4 DEF Ages
    <3>6. frames # <<>> => VecOrder(kind', nextId', born', now', callback', Top.rest)
      BY <1>a, <3>3, <3>5, VecKeeps
    <3> QED
      BY <2>1, <2>3, <3>6
  <2>9. ~exited' => \A j \in Ids :
          j < nextId' /\ kind'[j] = "Immediate" /\ j \notin cleared' /\ fires'[j] = 0 =>
              j \in callback' \/ (frames' # <<>> /\ Has(Top'.rest, j))
    BY <1>0, <2>1, <2>3, <2>4 DEF Ordered
  <2>10. FirstStep
    BY <2>1 DEF FirstStep
  <2> QED
    BY <2>6, <2>7, <2>8, <2>9, <2>10 DEF Ordered
<1>3. ASSUME NEW i \in Ids, ClearTimer(i) PROVE Good
  <2>1. /\ nextId' = nextId /\ kind' = kind /\ born' = born /\ fires' = fires /\ now' = now
        /\ exited' = exited /\ frames' = frames /\ cleared' = cleared \cup {i}
        /\ \/ callback' = callback /\ deadline' = deadline
           \/ callback' = callback \ {i} /\ deadline' = [deadline EXCEPT ![i] = now - ClearLead]
    BY <1>3 DEF ClearTimer
  <2>2. /\ callback' \subseteq callback
        /\ \A j \in callback' : deadline'[j] = deadline[j]
        /\ \A j \in Ids : j \in callback => j \in callback' \/ j \in cleared'
    BY <1>0, <2>1 DEF EntryTypes
  <2>3. Top' = Top /\ now' \in Nat /\ now <= now'
    BY <1>0, <2>1 DEF Top
  <2> QED
    BY <1>1, <2>1, <2>2, <2>3
<1>4. CASE \E i \in Ids : RefTimer(i) \/ UnrefTimer(i) \/ DropHandle(i)
  BY <1>b, <1>4 DEF RefTimer, UnrefTimer, DropHandle
<1>5. CASE \E h \in Handles : RefHandle(h) \/ UnrefHandle(h)
  BY <1>b, <1>5 DEF RefHandle, UnrefHandle
<1>6. ASSUME NEW t \in Tasks, WakeLoop(t) PROVE Good
  <2>1. /\ frames = <<>> /\ frames' # <<>> /\ exited' = exited /\ ~exited
        /\ Top'.rest \in Seq(Call) /\ Top'.rest \in SortedCalls(CallItems)
        /\ callback' = callback \ OneShots /\ deadline' = NewDeadline
        /\ UNCHANGED <<now, nextId, kind, born, cleared, fires>>
    BY <1>6, WakePoll
  <2>2. /\ VecOrder(kind, nextId, born, now, callback \ OneShots, Top'.rest)
        /\ \A i \in Firing : Has(Top'.rest, i)
        /\ \A i \in callback \ OneShots : /\ kind[i] # "Immediate"
                                          /\ kind[i] = "Timeout" => NewDeadline[i] = deadline[i]
    BY <2>1, PollOrder
  <2>3. OneShots \subseteq Firing
    BY DEF OneShots
  <2>4. ~exited' => \A j \in Ids :
          j < nextId' /\ kind'[j] = "Immediate" /\ j \notin cleared' /\ fires'[j] = 0 =>
              j \in callback' \/ (frames' # <<>> /\ Has(Top'.rest, j))
    BY <1>0, <2>1, <2>2, <2>3 DEF Ordered
  <2>5. \A i \in callback' : /\ kind'[i] = "Timeout" => born'[i] <= deadline'[i]
                             /\ kind'[i] = "Immediate" => deadline'[i] < born'[i]
    BY <1>0, <2>1, <2>2 DEF Ordered
  <2>6. frames' # <<>> => VecOrder(kind', nextId', born', now', callback', Top'.rest)
    BY <2>1, <2>2
  <2>7. \A i \in Ids : i < nextId' => born'[i] <= now'
    BY <1>0, <2>1 DEF Ordered
  <2>8. FirstStep
    BY <2>1 DEF FirstStep
  <2> QED
    BY <2>4, <2>5, <2>6, <2>7, <2>8 DEF Ordered
<1>7. CASE \E t \in Tasks : Park(t)
  BY <1>b, <1>7 DEF Park
<1>8. CASE StartCallback
  <2> DEFINE i == Head(Top.rest).id
             s == Top.rest
             u == Tail(Top.rest)
  <2>1. /\ ~exited /\ frames # <<>> /\ frames' # <<>> /\ exited' = exited
        /\ i \in Ids /\ i < nextId
        /\ 1 \in DOMAIN s /\ s[1].id = i
        /\ Top'.rest = u /\ s \in Seq(Call) /\ u \in Seq(Call)
        /\ \A a \in DOMAIN u : a \in Nat /\ a + 1 \in DOMAIN s /\ u[a] = s[a + 1]
        /\ \A j : Has(s, j) => j = i \/ Has(u, j)
    BY <1>8, CallBegins
  <2>2. /\ UNCHANGED <<nextId, kind, born, callback, deadline, cleared, now>>
        /\ fires' = [fires EXCEPT ![i] = IF kind[i] = "Interval" THEN 1 ELSE @ + 1]
    BY <1>8 DEF StartCallback
  <2>3. VecOrder(kind, nextId, born, now, callback, s)
    BY <1>0, <2>1 DEF Ordered
  <2>4. ~exited => \A j \in Ids :
          j < nextId /\ kind[j] = "Immediate" /\ j \notin cleared /\ fires[j] = 0 =>
              j \in callback \/ Has(s, j)
    BY <1>0, <2>1 DEF Ordered
  <2> HIDE DEF s, u, i
  <2>5. \A j \in Ids : IF j = i THEN fires'[j] # 0 ELSE fires'[j] = fires[j]
    BY <1>0, <2>1, <2>2
  <2>6. DOMAIN s \subseteq Nat /\ \A a \in DOMAIN s : s[a].key \in Int /\ a >= 1
    <3>1. DOMAIN s = 1 .. Len(s) /\ Len(s) \in Nat
      BY <2>1, LenProperties
    <3>2. \A a \in DOMAIN s : s[a] \in Call
      BY <2>1, CallIds
    <3> QED
      BY <3>1, <3>2 DEF Call
  <2>7. FirstStep
    <3> SUFFICES ASSUME NEW j \in Ids, kind[i] = "Timeout", j < nextId, kind[j] = "Immediate",
                        j \notin cleared, born[j] <= born[i], fires[j] = 0
                 PROVE  FALSE
      BY <1>0, <2>5 DEF FirstStep
    <3>1. born[i] \in Nat /\ born[j] \in Nat /\ born[i] <= s[1].key
      BY <1>0, <2>1, <2>3 DEF VecOrder
    <3>2. j \in callback \/ Has(s, j)
      BY <2>1, <2>4
    <3>3. CASE j \in callback
      BY <2>1, <2>3, <3>1, <3>3 DEF VecOrder
    <3>4. CASE Has(s, j)
      <4>1. PICK b \in DOMAIN s : s[b].id = j
        BY <3>4 DEF Has
      <4>2. s[b].key < born[j]
        BY <2>3, <4>1 DEF VecOrder
      <4>3. s[1].key <= s[b].key
        BY <2>1, <2>3, <2>6 DEF VecOrder
      <4> QED
        BY <2>1, <2>6, <3>1, <4>2, <4>3
    <3> QED
      BY <3>2, <3>3, <3>4
  <2>8. VecOrder(kind, nextId, born, now, callback, u)
    <3>1. \A a, d \in DOMAIN u : a < d => u[a].key <= u[d].key
      <4> SUFFICES ASSUME NEW a \in DOMAIN u, NEW d \in DOMAIN u, a < d
                   PROVE  u[a].key <= u[d].key
        OBVIOUS
      <4>1. a + 1 \in DOMAIN s /\ d + 1 \in DOMAIN s /\ a + 1 < d + 1
        BY <2>1
      <4>2. s[a + 1].key <= s[d + 1].key
        BY <2>3, <4>1 DEF VecOrder
      <4> QED
        BY <2>1, <4>2
    <3>2. \A a \in DOMAIN u : \E d \in DOMAIN s : u[a] = s[d]
      BY <2>1
    <3> QED
      BY <2>3, <3>1, <3>2 DEF VecOrder
  <2>9. \A j \in Ids :
          j < nextId /\ kind[j] = "Immediate" /\ j \notin cleared /\ fires'[j] = 0 =>
              j \in callback \/ Has(u, j)
    BY <2>1, <2>4, <2>5
  <2>10. Ordered'
    BY <1>0, <2>1, <2>2, <2>8, <2>9 DEF Ordered
  <2> QED
    BY <2>7, <2>10
<1>9. CASE EndCallback
  <2> DEFINE f == [Top EXCEPT !.phase = "micro"]
  <2>1. /\ frames # <<>> /\ SetTop(f)
        /\ UNCHANGED <<nextId, kind, born, fires, callback, deadline, cleared, now, exited>>
    BY <1>9 DEF EndCallback
  <2>2. Top \in Frame
    BY <1>0, <2>1, TopType
  <2>3. f \in Frame /\ f.rest = Top.rest
    BY <2>2, FrameUpdate DEF Frame
  <2> HIDE DEF f
  <2>4. frames' # <<>> /\ Top' = f
    BY <1>0, <2>1, <2>3, TopSet
  <2> QED
    BY <1>0, <1>1, <2>1, <2>3, <2>4
<1>10. CASE FinishItem
  <2> DEFINE f == [Top EXCEPT !.cur = 0, !.phase = "next"]
  <2>1. /\ frames # <<>> /\ SetTop(f)
        /\ UNCHANGED <<nextId, kind, born, fires, callback, deadline, cleared, now, exited>>
    BY <1>10 DEF FinishItem
  <2>2. Top \in Frame
    BY <1>0, <2>1, TopType
  <2>3. f \in Frame /\ f.rest = Top.rest
    BY <2>2, FrameUpdate DEF Frame
  <2> HIDE DEF f
  <2>4. frames' # <<>> /\ Top' = f
    BY <1>0, <2>1, <2>3, TopSet
  <2> QED
    BY <1>0, <1>1, <2>1, <2>3, <2>4
<1>11. CASE ThrowCallback
  <2>1. /\ ~exited /\ frames # <<>> /\ frames' = Tail(frames) /\ exited' = (Top.caller = "loop")
        /\ UNCHANGED <<nextId, kind, born, fires, callback, deadline, cleared, now>>
    BY <1>11 DEF ThrowCallback
  <2>2. frames' = <<>> /\ exited'
    BY <1>0, <2>1, LastPoll DEF OneLoop
  <2> QED
    BY <1>0, <2>1, <2>2 DEF Ordered, FirstStep
<1>12. CASE EndPoll
  <2>1. /\ ~exited /\ frames # <<>> /\ frames' = Tail(frames) /\ Top.rest = <<>>
        /\ UNCHANGED <<nextId, kind, born, fires, callback, deadline, cleared, now, exited>>
    BY <1>12 DEF EndPoll
  <2>2. frames' = <<>>
    BY <2>1, LastPoll
  <2>3. \A j : ~Has(Top.rest, j)
    BY <2>1 DEF Has
  <2> QED
    BY <1>0, <2>1, <2>2, <2>3 DEF Ordered, FirstStep
<1>13. CASE Resume
  BY <1>b, <1>13 DEF Resume
<1>14. CASE NaturalExit
  <2>1. /\ frames = <<>> /\ frames' = frames /\ exited' /\ callback' \subseteq callback
        /\ UNCHANGED <<nextId, kind, born, fires, deadline, cleared, now>>
    BY <1>14 DEF NaturalExit, DiscardAllTimers
  <2> QED
    BY <1>0, <2>1 DEF Ordered, FirstStep
<1>15. CASE Tick
  BY <1>b, <1>15 DEF Tick
<1>16. CASE UNCHANGED vars
  BY <1>b, <1>16 DEF vars
<1> QED
  BY <1>2, <1>3, <1>4, <1>5, <1>6, <1>7, <1>8, <1>9, <1>10, <1>11, <1>12, <1>13,
     <1>14, <1>15, <1>16, LoopSteps

-----------------------------------------------------------------------------
\* OInv is inductive when only the loop polls.
LEMMA StepOInv ==
    ASSUME OnlyTheLoopPolls, OInv, [Next]_vars
    PROVE  OInv'
<1>1. LInv'
  BY StepIInv, StepOneLoop, StepListed, StepReleased, StepCovered DEF LInv, OInv
<1> QED
  BY <1>1, StepFInv, StepHooked, StepOrdered DEF OInv

\* It holds throughout.
LEMMA OrderInvariant ==
    ASSUME OnlyTheLoopPolls
    PROVE  Spec => []OInv
<1>1. Init => OInv
  BY InitOInv
<1>2. OInv /\ [Next]_vars => OInv'
  BY StepOInv
<1> QED
  BY <1>1, <1>2, PTL DEF Spec

\* When only the loop polls, the async-hook events of a timer come in Node's
\* order, whatever its own callback, other callbacks, their microtasks and an
\* exit do to it: no one-shot starts after its destroy, and no timer is
\* destroyed between before and after, because clear_timeout_interval leaves
\* the destroy of the executing timer to poll_timers.
THEOREM HookOrderHolds ==
    ASSUME OnlyTheLoopPolls
    PROVE  Spec => HookOrder
<1>1. OInv /\ [Next]_vars => [HookStep]_vars
  BY StepHooked
<1>2. [][HookStep]_vars => HookOrder
  BY DEF HookOrder, HookStep
<1> QED
  BY <1>1, <1>2, OrderInvariant, PTL DEF Spec

\* When only the loop polls, no timeout's callback starts while an immediate
\* queued no later waits: the lead that set_timeout_interval gives an immediate
\* puts it before every timeout in the sort, and a timeout is collected only
\* after its deadline, so that an immediate queued meanwhile is younger.
THEOREM ImmediateFirstHolds ==
    ASSUME OnlyTheLoopPolls
    PROVE  Spec => ImmediateFirst
<1>1. OInv /\ [Next]_vars => [FirstStep]_vars
  BY StepOrdered
<1>2. [][FirstStep]_vars => ImmediateFirst
  BY DEF ImmediateFirst, FirstStep
<1> QED
  BY <1>1, <1>2, OrderInvariant, PTL DEF Spec
-----------------------------------------------------------------------------
(* Timers implements TimerQueue when only the loop polls.                   *)

\* A call_vec when k are the kinds of the timers, b their births, v their
\* delays, c the timers with a callback and d their deadlines: a timeout's key
\* is the instant it is due, and no timeout still in the list is due earlier.
VecDue(k, b, v, c, d, s) ==
    /\ \A a \in DOMAIN s : k[s[a].id] = "Timeout" => s[a].key = b[s[a].id] + v[s[a].id]
    /\ \A a \in DOMAIN s, j \in c :
          k[s[a].id] = "Timeout" /\ k[j] = "Timeout" => s[a].key <= d[j]

\* The deadline of a timeout with a callback is the instant it is due.
Aligned ==
    /\ \A i \in callback : kind[i] = "Timeout" => deadline[i] = born[i] + interval[i]
    /\ frames # <<>> => VecDue(kind, born, interval, callback, deadline, Top.rest)

QInv == OInv /\ Aligned

\* The ids of the calls in the call_vecs of the polls fr.
IdsIn(fr) == {i \in Ids : \E f \in DOMAIN fr : Has(fr[f].rest, i)}

\* Without pumps, those are all the calls collected.
LEMMA CollectedIs ==
    ASSUME OnlyTheLoopPolls
    PROVE  Collected = IdsIn(frames) /\ Collected' = IdsIn(frames')
BY DEF OnlyTheLoopPolls, Collected, IdsIn, Has

\* One poll is in progress, or none.
LEMMA IdsInOne ==
    ASSUME NEW fr \in Seq(Frame)
    PROVE  /\ fr = <<>> => IdsIn(fr) = {}
           /\ Len(fr) = 1 => IdsIn(fr) = {i \in Ids : Has(Head(fr).rest, i)}
<1>1. fr = <<>> => IdsIn(fr) = {}
  BY DEF IdsIn
<1>2. ASSUME Len(fr) = 1
      PROVE  IdsIn(fr) = {i \in Ids : Has(Head(fr).rest, i)}
  <2>1. DOMAIN fr = 1 .. Len(fr)
    BY LenProperties
  <2>2. DOMAIN fr = {1}
    BY <1>2, <2>1
  <2>3. Head(fr) = fr[1]
    BY <1>2
  <2> QED
    BY <2>2, <2>3 DEF IdsIn
<1> QED
  BY <1>1, <1>2

\* What the loop has collected, before and after a step.
LEMMA CollectedNow ==
    ASSUME OnlyTheLoopPolls, OInv, OInv'
    PROVE  /\ frames = <<>> => Collected = {}
           /\ frames' = <<>> => Collected' = {}
           /\ ~exited /\ frames # <<>> => Collected = {i \in Ids : Has(Top.rest, i)}
           /\ ~exited' /\ frames' # <<>> => Collected' = {i \in Ids : Has(Top'.rest, i)}
<1>1. frames \in Seq(Frame) /\ frames' \in Seq(Frame)
  BY DEF OInv, LInv, IInv, TypeOK, PollTypes
<1>2. /\ ~exited /\ frames # <<>> => Len(frames) = 1
      /\ ~exited' /\ frames' # <<>> => Len(frames') = 1
  BY DEF OInv, LInv, OneLoop
<1>3. Collected = IdsIn(frames) /\ Collected' = IdsIn(frames')
  BY CollectedIs
<1>4. /\ frames = <<>> => IdsIn(frames) = {}
      /\ frames' = <<>> => IdsIn(frames') = {}
  BY <1>1, IdsInOne
<1>5. ~exited /\ frames # <<>> => IdsIn(frames) = {i \in Ids : Has(Top.rest, i)}
  BY <1>1, <1>2, IdsInOne DEF Top
<1>6. ~exited' /\ frames' # <<>> => IdsIn(frames') = {i \in Ids : Has(Top'.rest, i)}
  BY <1>1, <1>2, IdsInOne DEF Top
<1> QED
  BY <1>3, <1>4, <1>5, <1>6

\* The timeouts that wait, before and after a step.
Waits == Made \cap (callback \cup Collected)

\* A step that creates and calls no timeout gives some up, or none.
LEMMA GivesUp ==
    ASSUME Made' = Made, DueAt' = DueAt, Called' = Called, now' = now, Waits' \subseteq Waits
    PROVE  TQ!Next
BY DEF TQ!Next, TQ!GiveUp, Waits

\* A step that leaves births, delays and calls alone and collects only timers
\* with a callback.
LEMMA QuietStep ==
    ASSUME UNCHANGED <<now, nextId, kind, born, interval, fires>>,
           callback' \subseteq callback, Collected' \subseteq callback \cup Collected
    PROVE  TQ!Next
<1>1. Made' = Made
  BY DEF Made
<1>2. DueAt' = DueAt /\ Called' = Called
  BY <1>1 DEF DueAt, Called
<1>3. Waits' \subseteq Waits
  BY <1>1 DEF Waits
<1> QED
  BY <1>1, <1>2, <1>3, GivesUp

\* No timer exists yet.
LEMMA InitQueue == Init => Aligned /\ TQ!Init
<1> SUFFICES ASSUME Init PROVE Aligned /\ TQ!Init
  OBVIOUS
<1>1. Made = {}
  BY DEF Init, Made, Ids
<1>2. Aligned
  BY DEF Init, Aligned
<1>3. TQ!Init
  BY <1>1 DEF Init, DueAt, Called, TQ!Init
<1> QED
  BY <1>2, <1>3

\* The call_vec and the deadlines that the program's own steps leave.
LEMMA DueKeeps ==
    ASSUME OInv, Aligned, UNCHANGED <<kind, born, interval>>,
           callback' \subseteq callback, \A i \in callback' : deadline'[i] = deadline[i],
           frames' # <<>> => frames # <<>> /\ Top'.rest = Top.rest
    PROVE  Aligned'
<1>1. \A i \in callback' : kind'[i] = "Timeout" => deadline'[i] = born'[i] + interval'[i]
  BY DEF Aligned
<1>2. frames' # <<>> => VecDue(kind', born', interval', callback', deadline', Top'.rest)
  <2> SUFFICES ASSUME frames' # <<>>
               PROVE  VecDue(kind', born', interval', callback', deadline', Top'.rest)
    OBVIOUS
  <2>1. VecDue(kind, born, interval, callback, deadline, Top.rest)
    BY DEF Aligned
  <2> QED
    BY <2>1 DEF VecDue
<1> QED
  BY <1>1, <1>2 DEF Aligned

\* The call_vec of a poll that begins: what it leaves in the list is due later.
LEMMA PollDue ==
    ASSUME OInv, Aligned, NEW s \in SortedCalls(CallItems)
    PROVE  VecDue(kind, born, interval, callback \ OneShots, NewDeadline, s)
<1>1. /\ EntryTypes /\ Unfired /\ Listed
  BY DEF OInv, LInv, FInv, IInv, TypeOK
<1>2. \A i \in Ids : kind[i] # "Interval" => NewDeadline[i] = deadline[i] /\ i \notin repeating
  BY <1>1 DEF NewDeadline, Rearmed, Unfired, OneShot
<1>3. \A a \in DOMAIN s : s[a].id \in Firing /\ s[a].key = NewDeadline[s[a].id]
  BY DEF SortedCalls, CallItems
<1>4. Firing \subseteq callback /\ callback \subseteq Ids /\ callback \subseteq timers
  BY <1>1 DEF Firing, EntryTypes, Listed
<1>5. ASSUME NEW a \in DOMAIN s, kind[s[a].id] = "Timeout"
      PROVE  /\ s[a].key = born[s[a].id] + interval[s[a].id]
             /\ \A j \in callback \ OneShots : kind[j] = "Timeout" => s[a].key <= NewDeadline[j]
  <2>1. /\ s[a].id \in callback /\ s[a].id \in Ids
        /\ s[a].key = deadline[s[a].id] /\ deadline[s[a].id] < now
        /\ deadline[s[a].id] \in Int /\ now \in Int
    BY <1>1, <1>2, <1>3, <1>4, <1>5 DEF Firing, Due, EntryTypes
  <2>2. ASSUME NEW j \in callback \ OneShots, kind[j] = "Timeout"
        PROVE  s[a].key <= NewDeadline[j]
    <3>1. j \in Ids /\ j \in timers /\ j \notin repeating /\ NewDeadline[j] = deadline[j]
      BY <1>2, <1>4, <2>2
    <3>2. j \notin Due
      BY <2>2, <3>1 DEF OneShots, Firing
    <3>3. ~(deadline[j] < now) /\ deadline[j] \in Int
      BY <1>1, <3>1, <3>2 DEF Due, EntryTypes
    <3> QED
      BY <2>1, <3>1, <3>3
  <2> QED
    BY <1>5, <2>1, <2>2 DEF Aligned
<1> QED
  BY <1>5 DEF VecDue

\* Only setTimeout adds a timeout.
LEMMA CreateStep ==
    ASSUME OnlyTheLoopPolls, QInv, OInv', NEW k \in Kinds, NEW delay \in Delays, SetTimer(k, delay)
    PROVE  Aligned' /\ TQ!Next
<1> USE DEF entryVars, refVars, stateVars, taskVars, tokVars, ghostVars
<1>1. /\ nextId' = nextId + 1 /\ kind' = [kind EXCEPT ![nextId] = k]
      /\ born' = [born EXCEPT ![nextId] = now]
      /\ deadline' = [deadline EXCEPT ![nextId] = DeadlineOf(k, delay)]
      /\ interval' = [interval EXCEPT ![nextId] = delay]
      /\ callback' = callback \cup {nextId} /\ frames' = frames
      /\ now' = now /\ fires' = fires /\ exited' = exited /\ ~exited
  BY DEF SetTimer, JSRunning
<1>2. /\ EntryTypes /\ HookTypes /\ Unfired /\ Ordered /\ Aligned /\ PollTypes
      /\ \A i \in Ids : i \in Nat
  BY TimersAssumption DEF QInv, OInv, LInv, FInv, IInv, TypeOK, Ids
<1>3. nextId \in Ids /\ nextId \in Nat /\ now \in Nat /\ delay \in Nat
  BY <1>2, TimersAssumption DEF SetTimer, EntryTypes, Ids
<1>4. /\ \A i \in Ids : i # nextId => /\ kind'[i] = kind[i] /\ born'[i] = born[i]
                                      /\ interval'[i] = interval[i] /\ deadline'[i] = deadline[i]
      /\ kind'[nextId] = k /\ born'[nextId] = now /\ interval'[nextId] = delay
      /\ deadline'[nextId] = DeadlineOf(k, delay) /\ fires[nextId] = 0
  BY <1>1, <1>2, <1>3 DEF EntryTypes, HookTypes, Unfired
<1>5. callback \subseteq Ids /\ nextId \notin callback
  BY <1>2, <1>3 DEF EntryTypes, Unfired
<1>6. k = "Timeout" => DeadlineOf(k, delay) = now + delay
  BY DEF DeadlineOf
<1>7. Aligned'
  <2>1. \A i \in callback' : kind'[i] = "Timeout" => deadline'[i] = born'[i] + interval'[i]
    BY <1>1, <1>2, <1>4, <1>5, <1>6 DEF Aligned
  <2>2. ASSUME frames # <<>>
        PROVE  VecDue(kind', born', interval', callback', deadline', Top.rest)
    <3> DEFINE s == Top.rest
    <3>1. VecDue(kind, born, interval, callback, deadline, s) /\ s \in Seq(Call)
      BY <1>2, <2>2, TopType DEF Aligned
    <3>2. VecOrder(kind, nextId, born, now, callback, s)
      BY <1>2, <2>2 DEF Ordered
    <3> HIDE DEF s
    <3>3. \A a \in DOMAIN s : s[a] \in Call /\ s[a].id \in Ids
      BY <3>1, CallIds
    <3>4. \A a \in DOMAIN s : /\ s[a].id # nextId /\ s[a].key \in Int
                              /\ kind[s[a].id] = "Timeout" => s[a].key < now
      BY <1>3, <3>2, <3>3 DEF VecOrder, Call
    <3>5. \A a \in DOMAIN s : /\ kind'[s[a].id] = kind[s[a].id] /\ born'[s[a].id] = born[s[a].id]
                              /\ interval'[s[a].id] = interval[s[a].id]
      BY <1>4, <3>3, <3>4
    <3>6. \A a \in DOMAIN s, j \in callback' :
             kind'[s[a].id] = "Timeout" /\ kind'[j] = "Timeout" => s[a].key <= deadline'[j]
      <4> SUFFICES ASSUME NEW a \in DOMAIN s, NEW j \in callback',
                          kind'[s[a].id] = "Timeout", kind'[j] = "Timeout"
                   PROVE  s[a].key <= deadline'[j]
        OBVIOUS
      <4>1. CASE j = nextId
        BY <1>3, <1>4, <1>6, <3>4, <3>5, <4>1
      <4>2. CASE j # nextId
        BY <1>1, <1>4, <1>5, <3>1, <3>5, <4>2 DEF VecDue
      <4> QED
        BY <4>1, <4>2
    <3>7. \A a \in DOMAIN s : kind'[s[a].id] = "Timeout" =>
             s[a].key = born'[s[a].id] + interval'[s[a].id]
      BY <3>1, <3>5 DEF VecDue
    <3> QED
      BY <3>6, <3>7 DEF VecDue, s
  <2>3. Top' = Top
    BY <1>1 DEF Top
  <2> QED
    BY <1>1, <2>1, <2>2, <2>3 DEF Aligned
<1>8. Collected' = Collected /\ nextId \notin Made
  <2>1. Collected' = Collected
    BY <1>1, CollectedIs DEF IdsIn
  <2> QED
    BY <1>3, <2>1 DEF Made
<1>a. \A i \in Ids : i \in Made' <=> i \in Made \/ (i = nextId /\ k = "Timeout")
  <2>1. \A i \in Ids : i < nextId' <=> i < nextId \/ i = nextId
    BY <1>1, <1>2, <1>3
  <2>2. \A i \in Ids : i \in Made' <=> i < nextId' /\ kind'[i] = "Timeout"
    BY DEF Made
  <2>3. \A i \in Ids : i \in Made <=> i < nextId /\ kind[i] = "Timeout"
    BY DEF Made
  <2>4. \A i \in Ids : i # nextId => kind'[i] = kind[i]
    BY <1>4
  <2>5. kind'[nextId] = k
    BY <1>4
  <2> QED
    BY <1>8, <2>1, <2>2, <2>3, <2>4, <2>5
<1>b. Made \subseteq Ids /\ Made' \subseteq Ids
  BY DEF Made
<1>9. CASE k = "Timeout"
  <2>1. Made' = Made \cup {nextId}
    BY <1>3, <1>9, <1>a, <1>b
  <2>2. DueAt' = [DueAt EXCEPT ![nextId] = now + delay]
    <3>1. \A i \in Ids : DueAt'[i] = IF i = nextId THEN now + delay ELSE DueAt[i]
      BY <1>4, <1>8, <2>1 DEF DueAt
    <3>2. DOMAIN DueAt = Ids /\ DOMAIN DueAt' = Ids
      BY DEF DueAt
    <3>3. DueAt' = [i \in Ids |-> DueAt'[i]]
      BY DEF DueAt
    <3>4. DueAt = [i \in Ids |-> DueAt[i]]
      BY DEF DueAt
    <3> QED
      BY <1>3, <3>1, <3>2, <3>3, <3>4
  <2>3. Called' = Called
    BY <1>1, <1>4, <2>1 DEF Called
  <2>4. Waits' = Waits \cup {nextId}
    BY <1>1, <1>8, <2>1 DEF Waits
  <2>5. TQ!Create(nextId, delay)
    BY <1>1, <1>8, <2>1, <2>2, <2>3, <2>4 DEF TQ!Create, Waits
  <2> QED
    BY <1>3, <1>7, <2>5 DEF TQ!Next
<1>10. CASE k # "Timeout"
  <2>1. Made' = Made
    BY <1>10, <1>a, <1>b
  <2>2. DueAt' = DueAt
    BY <1>4, <1>8, <2>1 DEF DueAt
  <2>3. Called' = Called /\ Waits' \subseteq Waits
    BY <1>1, <1>8, <2>1 DEF Called, Waits
  <2> QED
    BY <1>1, <1>7, <2>1, <2>2, <2>3, GivesUp
<1> QED
  BY <1>9, <1>10

\* The poll calls the timeout that is due first.
LEMMA CallStep ==
    ASSUME OnlyTheLoopPolls, QInv, OInv', StartCallback
    PROVE  Aligned' /\ TQ!Next
<1> USE DEF entryVars, refVars, stateVars, taskVars, tokVars, ghostVars
<1> DEFINE i == Head(Top.rest).id
           s == Top.rest
           u == Tail(Top.rest)
<1>1. /\ ~exited /\ frames # <<>> /\ frames' # <<>> /\ exited' = exited
      /\ i \in Ids /\ i < nextId /\ Has(s, i)
      /\ 1 \in DOMAIN s /\ s[1].id = i
      /\ OneShot(kind, i) => ~Has(u, i) /\ fires[i] = 0 /\ i \notin callback
      /\ Top'.rest = u /\ s \in Seq(Call) /\ u \in Seq(Call)
      /\ \A a \in DOMAIN u : a \in Nat /\ a + 1 \in DOMAIN s /\ u[a] = s[a + 1]
      /\ \A j : Has(u, j) => Has(s, j)
      /\ \A j : Has(s, j) => j = i \/ Has(u, j)
  BY CallBegins DEF QInv
<1>2. /\ UNCHANGED <<nextId, kind, born, interval, callback, deadline, now>>
      /\ fires' = [fires EXCEPT ![i] = IF kind[i] = "Interval" THEN 1 ELSE @ + 1]
  BY DEF StartCallback
<1>3. EntryTypes /\ HookTypes /\ Ordered /\ Aligned
  BY DEF QInv, OInv, LInv, FInv, IInv, TypeOK
<1>4. /\ VecDue(kind, born, interval, callback, deadline, s)
      /\ VecOrder(kind, nextId, born, now, callback, s)
  BY <1>1, <1>3 DEF Aligned, Ordered
<1>5. Collected = {j \in Ids : Has(s, j)} /\ Collected' = {j \in Ids : Has(u, j)}
  BY <1>1, CollectedNow DEF QInv
<1> HIDE DEF s, u, i
<1>6. Aligned'
  <2>1. \A a \in DOMAIN u : \E d \in DOMAIN s : u[a] = s[d]
    BY <1>1
  <2>2. VecDue(kind, born, interval, callback, deadline, u)
    BY <1>4, <2>1 DEF VecDue
  <2> QED
    BY <1>1, <1>2, <1>3, <2>2 DEF Aligned
<1>7. \A j \in Ids : j # i => fires'[j] = fires[j]
  BY <1>1, <1>2, <1>3 DEF HookTypes
<1>8. Made' = Made
  BY <1>2 DEF Made
<1>9. DueAt' = DueAt
  BY <1>2, <1>8 DEF DueAt
<1>10. CASE kind[i] # "Timeout"
  <2>1. i \notin Made
    BY <1>10 DEF Made
  <2>2. Called' = Called
    BY <1>7, <1>8, <2>1 DEF Called, Made
  <2>3. Waits' \subseteq Waits
    BY <1>1, <1>2, <1>5, <1>8 DEF Waits
  <2> QED
    BY <1>2, <1>6, <1>8, <1>9, <2>2, <2>3, GivesUp
<1>11. CASE kind[i] = "Timeout"
  <2>1. i \in Made /\ ~Has(u, i) /\ i \notin callback /\ fires[i] = 0 /\ fires'[i] > 0
    BY <1>1, <1>2, <1>3, <1>11 DEF Made, OneShot, HookTypes
  <2>2. Waits' = Waits \ {i} /\ i \in Waits
    BY <1>1, <1>2, <1>5, <1>8, <2>1 DEF Waits
  <2>3. Called' = Called \cup {i}
    BY <1>1, <1>7, <1>8, <2>1 DEF Called, Made
  <2>4. DueAt[i] = s[1].key /\ s[1].key < now
    BY <1>1, <1>4, <1>11, <2>1 DEF DueAt, VecDue, VecOrder
  <2>5. \A j \in Waits : DueAt[i] <= DueAt[j]
    <3> SUFFICES ASSUME NEW j \in Waits PROVE s[1].key <= DueAt[j]
      BY <2>4
    <3>1. j \in Made /\ j \in Ids /\ kind[j] = "Timeout" /\ DueAt[j] = born[j] + interval[j]
      BY DEF Waits, Made, DueAt
    <3>2. CASE j \in callback
      <4>1. s[1].key <= deadline[j]
        BY <1>1, <1>4, <1>11, <3>1, <3>2 DEF VecDue
      <4> QED
        BY <1>3, <3>1, <3>2, <4>1 DEF Aligned
    <3>3. CASE Has(s, j)
      <4>1. PICK b \in DOMAIN s : s[b].id = j
        BY <3>3 DEF Has
      <4>2. s[b].key = DueAt[j]
        BY <1>4, <3>1, <4>1 DEF VecDue
      <4>3. b \in Nat /\ b >= 1 /\ s[b].key \in Int
        <5>1. DOMAIN s = 1 .. Len(s) /\ Len(s) \in Nat
          BY <1>1, LenProperties
        <5>2. s[b] \in Call
          BY <1>1, <4>1, CallIds
        <5> QED
          BY <4>1, <5>1, <5>2 DEF Call
      <4>4. CASE b = 1
        BY <4>2, <4>3, <4>4
      <4>5. CASE b # 1
        <5>1. 1 < b
          BY <4>3, <4>5
        <5>2. s[1].key <= s[b].key
          BY <1>1, <1>4, <4>1, <5>1 DEF VecOrder
        <5> QED
          BY <4>2, <5>2
      <4> QED
        BY <4>4, <4>5
    <3> QED
      BY <1>5, <3>2, <3>3 DEF Waits
  <2>6. TQ!CallBack(i)
    BY <1>2, <1>8, <1>9, <2>2, <2>3, <2>4, <2>5 DEF TQ!CallBack, Waits
  <2> QED
    BY <1>1, <1>6, <2>6 DEF TQ!Next
<1> QED
  BY <1>10, <1>11

\* Every step of a runtime whose loop alone polls keeps Aligned, and is a step
\* of the queue.
LEMMA StepQueue ==
    ASSUME OnlyTheLoopPolls, QInv, [Next]_vars
    PROVE  Aligned' /\ [TQ!Next]_(TQ!queueVars)
<1> USE DEF entryVars, refVars, stateVars, taskVars, tokVars, ghostVars
<1> DEFINE Good == Aligned' /\ [TQ!Next]_(TQ!queueVars)
<1>0. OInv /\ OInv' /\ Aligned /\ EntryTypes /\ PollTypes
  BY StepOInv DEF QInv, OInv, LInv, IInv, TypeOK
\* Nothing is collected or called, and the call_vec stays or goes.
<1>1. ASSUME UNCHANGED <<now, nextId, kind, born, interval, fires>>,
             callback' \subseteq callback, \A i \in callback' : deadline'[i] = deadline[i],
             frames' # <<>> => frames # <<>> /\ ~exited /\ ~exited' /\ Top'.rest = Top.rest
      PROVE  Good
  <2>1. Aligned'
    BY <1>0, <1>1, DueKeeps
  <2>2. Collected' \subseteq callback \cup Collected
    BY <1>0, <1>1, CollectedNow
  <2> QED
    BY <1>1, <2>1, <2>2, QuietStep
\* Neither does anything change that the queue is about.
<1>b. ASSUME UNCHANGED <<now, nextId, kind, born, interval, fires, callback, deadline, frames>>
      PROVE  Good
  <2>1. Top' = Top /\ callback' \subseteq callback
    BY <1>b DEF Top
  <2>2. Aligned'
    BY <1>0, <1>b, <2>1, DueKeeps
  <2>3. Collected' = Collected
    BY <1>b, CollectedIs DEF IdsIn
  <2> QED
    BY <1>b, <2>1, <2>2, <2>3, QuietStep
<1>2. ASSUME NEW k \in Kinds, NEW delay \in Delays, SetTimer(k, delay) PROVE Good
  BY <1>0, <1>2, CreateStep
<1>3. ASSUME NEW i \in Ids, ClearTimer(i) PROVE Good
  <2>1. /\ UNCHANGED <<now, nextId, kind, born, interval, fires, exited, frames>> /\ ~exited
        /\ \/ callback' = callback /\ deadline' = deadline
           \/ callback' = callback \ {i} /\ deadline' = [deadline EXCEPT ![i] = now - ClearLead]
    BY <1>3 DEF ClearTimer, JSRunning
  <2>2. callback' \subseteq callback /\ \A j \in callback' : deadline'[j] = deadline[j]
    BY <1>0, <2>1 DEF EntryTypes
  <2>3. Top' = Top
    BY <2>1 DEF Top
  <2> QED
    BY <1>1, <2>1, <2>2, <2>3
<1>4. CASE \E i \in Ids : RefTimer(i) \/ UnrefTimer(i) \/ DropHandle(i)
  BY <1>b, <1>4 DEF RefTimer, UnrefTimer, DropHandle
<1>5. CASE \E h \in Handles : RefHandle(h) \/ UnrefHandle(h)
  BY <1>b, <1>5 DEF RefHandle, UnrefHandle
<1>6. ASSUME NEW t \in Tasks, WakeLoop(t) PROVE Good
  <2>1. /\ frames = <<>> /\ frames' # <<>> /\ exited' = exited /\ ~exited
        /\ Top'.rest \in SortedCalls(CallItems)
        /\ \A i \in Ids : Has(Top'.rest, i) => i \in Firing
        /\ callback' = callback \ OneShots /\ deadline' = NewDeadline
        /\ UNCHANGED <<now, nextId, kind, born, fires>>
    BY <1>0, <1>6, WakePoll
  <2>2. interval' = interval
    BY <1>6 DEF WakeLoop, BeginPoll
  <2>3. VecDue(kind, born, interval, callback \ OneShots, NewDeadline, Top'.rest)
    BY <1>0, <2>1, PollDue
  <2>4. \A i \in callback \ OneShots : kind[i] = "Timeout" => NewDeadline[i] = deadline[i]
    <3>1. Unfired
      BY <1>0 DEF OInv, FInv
    <3> QED
      BY <1>0, <3>1 DEF NewDeadline, Rearmed, Unfired, OneShot, EntryTypes
  <2>5. Aligned'
    BY <1>0, <2>1, <2>2, <2>3, <2>4 DEF Aligned
  <2>6. Collected' \subseteq callback \cup Collected
    BY <1>0, <2>1, CollectedNow DEF Firing
  <2> QED
    BY <2>1, <2>2, <2>5, <2>6, QuietStep
<1>7. CASE \E t \in Tasks : Park(t)
  BY <1>b, <1>7 DEF Park
<1>8. CASE StartCallback
  BY <1>0, <1>8, CallStep
<1>9. CASE EndCallback
  <2> DEFINE f == [Top EXCEPT !.phase = "micro"]
  <2>1. /\ frames # <<>> /\ SetTop(f) /\ ~exited
        /\ UNCHANGED <<now, nextId, kind, born, interval, fires, callback, deadline, exited>>
    BY <1>9 DEF EndCallback
  <2>2. Top \in Frame
    BY <1>0, <2>1, TopType
  <2>3. f \in Frame /\ f.rest = Top.rest
    BY <2>2, FrameUpdate DEF Frame
  <2> HIDE DEF f
  <2>4. frames' # <<>> /\ Top' = f
    BY <1>0, <2>1, <2>3, TopSet
  <2> QED
    BY <1>1, <2>1, <2>3, <2>4
<1>10. CASE FinishItem
  <2> DEFINE f == [Top EXCEPT !.cur = 0, !.phase = "next"]
  <2>1. /\ frames # <<>> /\ SetTop(f) /\ ~exited
        /\ UNCHANGED <<now, nextId, kind, born, interval, fires, callback, deadline, exited>>
    BY <1>10 DEF FinishItem
  <2>2. Top \in Frame
    BY <1>0, <2>1, TopType
  <2>3. f \in Frame /\ f.rest = Top.rest
    BY <2>2, FrameUpdate DEF Frame
  <2> HIDE DEF f
  <2>4. frames' # <<>> /\ Top' = f
    BY <1>0, <2>1, <2>3, TopSet
  <2> QED
    BY <1>1, <2>1, <2>3, <2>4
<1>11. CASE ThrowCallback \/ EndPoll
  <2>1. /\ ~exited /\ frames # <<>> /\ frames' = Tail(frames)
        /\ UNCHANGED <<now, nextId, kind, born, interval, fires, callback, deadline>>
    BY <1>11 DEF ThrowCallback, EndPoll
  <2>2. frames' = <<>>
    BY <1>0, <2>1, LastPoll
  <2> QED
    BY <1>1, <2>1, <2>2
<1>12. CASE Resume
  BY <1>b, <1>12 DEF Resume
<1>13. CASE NaturalExit
  <2>1. /\ frames = <<>> /\ frames' = frames /\ callback' \subseteq callback
        /\ UNCHANGED <<now, nextId, kind, born, interval, fires, deadline>>
    BY <1>13 DEF NaturalExit, DiscardAllTimers
  <2> QED
    BY <1>1, <2>1
<1>14. CASE Tick
  <2>1. /\ now' = now + 1
        /\ UNCHANGED <<nextId, kind, born, interval, fires, callback, deadline, frames>>
    BY <1>14 DEF Tick
  <2>2. Top' = Top
    BY <2>1 DEF Top
  <2>3. Aligned'
    BY <1>0, <2>1, <2>2, DueKeeps
  <2>4. Collected' = Collected
    BY <2>1, CollectedIs DEF IdsIn
  <2>5. Made' = Made
    BY <2>1 DEF Made
  <2>6. DueAt' = DueAt /\ Called' = Called
    BY <2>1, <2>5 DEF DueAt, Called
  <2> QED
    BY <2>1, <2>3, <2>4, <2>5, <2>6 DEF TQ!Next, TQ!Pass
<1>15. CASE UNCHANGED vars
  BY <1>b, <1>15 DEF vars
<1> QED
  BY <1>2, <1>3, <1>4, <1>5, <1>6, <1>7, <1>8, <1>9, <1>10, <1>11, <1>12, <1>13,
     <1>14, <1>15, LoopSteps

\* When only the loop polls, Timers implements TimerQueue: a timeout is called
\* at most once, only after its delay, and before every timeout due later, for
\* any number of timers.  The deadlines in the list and the keys in the
\* call_vec are the instants the timeouts are due, and a poll leaves in the list
\* only what is due after everything it took.
THEOREM RefinesTimerQueue ==
    ASSUME OnlyTheLoopPolls
    PROVE  Spec => ImplementsTimerQueue
<1>1. Init => Aligned /\ TQ!Init
  BY InitQueue
<1>2. OInv /\ Aligned /\ [Next]_vars => Aligned' /\ [TQ!Next]_(TQ!queueVars)
  BY StepQueue DEF QInv
<1> QED
  BY <1>1, <1>2, OrderInvariant, PTL DEF Spec, ImplementsTimerQueue, TQ!Spec
==============================================================================
