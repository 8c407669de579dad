-------------------------- MODULE TimersRefinement --------------------------
(* Timers implements TimerQueue: a timeout waits while its entry has its    *)
(* callback, and from its collection by a poll until the poll comes to it.  *)
EXTENDS Timers

Made == {i \in Ids : i < nextId /\ kind[i] = "Timeout"}

DueAt == [i \in Ids |-> IF i \in Made THEN born[i] + interval[i] ELSE 0]

\* The calls collected by the polls in progress and kept by the pumps.
Collected ==
    {i \in Ids : \/ \E f \in DOMAIN frames : \E a \in DOMAIN frames[f].rest :
                        frames[f].rest[a].id = i
                 \/ \E r \in Requests : \E a \in DOMAIN pumpVec[r] :
                        pumpVec[r][a].id = i}

Called == {i \in Made : fires[i] > 0}

TQ == INSTANCE TimerQueue WITH
        Timeouts <- Ids, clock <- now, made <- Made, due <- DueAt,
        waiting <- Made \cap (callback \cup Collected), called <- Called

\* With the loop as the only poller, timeouts are called once, after their
\* delay and in the order in which they were due, though poll_timers takes
\* whole batches, callbacks create and clear timers between the calls of a
\* batch, and a repeating timer is sorted among them by its next deadline.
ImplementsTimerQueue == TQ!Spec
=============================================================================
