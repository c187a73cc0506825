-------------------------- MODULE TimeReleaseQueue --------------------------
(***************************************************************************)
(* What clockwork::time_release_priority_queue<T> promises, with every     *)
(* operation one atomic step: an element is enqueued with a release time  *)
(* (its "priority"); a removal takes an element whose release time has     *)
(* passed and that has the smallest release time of all queued elements;  *)
(* shutdown stops further enqueues; drain empties the queue.              *)
(***************************************************************************)
EXTENDS Naturals

CONSTANTS Items,    \* the elements (T* pointers) that may be enqueued
          MaxTime   \* the last instant of util::now() the model reaches

VARIABLES queue,    \* the set of queued [elem, prio] containers
          alive,    \* FALSE once shutdown() has been called
          now       \* util::now()

vars == <<queue, alive, now>>

Container == [elem : Items, prio : 0..MaxTime]

Released(x) == x.prio <= now

IsTop(x) == \A y \in queue : x.prio <= y.prio

Init == queue = {} /\ alive = TRUE /\ now = 0

Put == \E x \in Container :
         /\ alive
         /\ x.elem \notin {y.elem : y \in queue}
         /\ queue' = queue \cup {x}
         /\ UNCHANGED <<alive, now>>

Take == \E x \in queue :
          /\ Released(x) /\ IsTop(x)
          /\ queue' = queue \ {x}
          /\ UNCHANGED <<alive, now>>

Drain == queue' = {} /\ UNCHANGED <<alive, now>>

Shutdown == alive' = FALSE /\ UNCHANGED <<queue, now>>

Tick == now < MaxTime /\ now' = now + 1 /\ UNCHANGED <<queue, alive>>

Next == Put \/ Take \/ Drain \/ Shutdown \/ Tick

Spec == Init /\ [][Next]_vars
=============================================================================
