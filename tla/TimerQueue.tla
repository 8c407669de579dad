----------------------------- MODULE TimerQueue -----------------------------
(***************************************************************************)
(* What setTimeout promises a program whose timers only the timer loop     *)
(* polls: a callback is called at most once, not before its delay has      *)
(* passed, and never ahead of a timeout that was due earlier.  Until then  *)
(* it can be given up (clearTimeout, the end of the process).  Timers      *)
(* implements it with a list, a vector of collected calls and a sort.      *)
(***************************************************************************)
EXTENDS Integers

CONSTANTS
    Timeouts,  \* the timeouts a program may create
    Delays     \* the delays it may ask for

VARIABLES
    clock,    \* the time
    made,     \* the timeouts created so far
    due,      \* when each of them is due
    waiting,  \* those that may still be called
    called    \* those that were called

queueVars == <<clock, made, due, waiting, called>>

Init ==
    /\ clock = 0 /\ made = {} /\ due = [i \in Timeouts |-> 0]
    /\ waiting = {} /\ called = {}

Pass == clock' = clock + 1 /\ UNCHANGED <<made, due, waiting, called>>

Create(i, delay) ==
    /\ i \notin made
    /\ made' = made \cup {i} /\ waiting' = waiting \cup {i}
    /\ due' = [due EXCEPT ![i] = clock + delay]
    /\ UNCHANGED <<clock, called>>

CallBack(i) ==
    /\ i \in waiting /\ due[i] < clock
    /\ \A j \in waiting : due[i] <= due[j]
    /\ waiting' = waiting \ {i} /\ called' = called \cup {i}
    /\ UNCHANGED <<clock, made, due>>

\* One step of the JS thread can give up several (the exit, a throw).
GiveUp == waiting' \subseteq waiting /\ UNCHANGED <<clock, made, due, called>>

Next ==
    \/ Pass \/ GiveUp
    \/ \E i \in Timeouts : CallBack(i) \/ \E delay \in Delays : Create(i, delay)

Spec == Init /\ [][Next]_queueVars
=============================================================================
