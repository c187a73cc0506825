--------------------------- MODULE TimeReleasePQ ---------------------------
(***************************************************************************)
(* clockwork::time_release_priority_queue<T> (src/clockwork/priority_queue.h)*)
(* with its threads interleaved.                                           *)
(*                                                                         *)
(* Every section between in_use.test_and_set() and in_use.clear() is one   *)
(* atomic step: the spin lock makes those sections mutually exclusive.     *)
(* What the code reads OUTSIDE the lock is a step of its own: the value    *)
(* enqueue() returns, the `while (alive)` test of dequeue(), and the two   *)
(* spin-waits of dequeue() on `version` and on util::now().                *)
(***************************************************************************)
EXTENDS Naturals, FiniteSets

CONSTANTS Producers,  \* threads calling enqueue()
          Consumers,  \* threads calling dequeue() or try_dequeue()
          Items,      \* the T* elements; each is enqueued at most once
          MaxTime,    \* the last instant of util::now() the model reaches
          NULL        \* nullptr

ASSUME Producers \cap Consumers = {} /\ MaxTime \in Nat

VARIABLES queue,      \* the std::priority_queue: a set of [elem, prio]
          alive,      \* std::atomic_bool alive
          version,    \* std::atomic_uint64_t version
          now,        \* util::now()
          pc,         \* where each thread is in its current call
          seen,       \* dequeue(): local version_seen
          nextElig,   \* dequeue(): local next_eligible
          used,       \* elements already handed to an enqueue() call
          pending,    \* enqueue(): the element of a producer's call
          accepted    \* enqueue(): whether its locked section pushed it

vars == <<queue, alive, version, now, pc, seen, nextElig, used, pending,
          accepted>>

Threads == Producers \cup Consumers

Container == [elem : Items, prio : 0..MaxTime]

\* the containers std::priority_queue<..., std::greater<container>> may
\* return from top(): one of least priority (order among ties unspecified)
Top == {x \in queue : \A y \in queue : x.prio <= y.prio}

Eligible(x) == x.prio <= now

Init ==
  /\ queue = {}
  /\ alive = TRUE
  /\ version = 0
  /\ now = 0
  /\ pc = [t \in Threads |-> "idle"]
  /\ seen = [c \in Consumers |-> 0]
  /\ nextElig = [c \in Consumers |-> 0]
  /\ used = {}
  /\ pending = [p \in Producers |-> NULL]
  /\ accepted = [p \in Producers |-> FALSE]

----------------------------------------------------------------------------
(* enqueue(element, priority): the locked section, then `return alive`.    *)

EnqueueNoVersionBump(p, e, prio) ==
  /\ pc[p] = "idle" /\ e \notin used
  /\ used' = used \cup {e}
  /\ queue' = IF alive THEN queue \cup {[elem |-> e, prio |-> prio]} ELSE queue
  /\ accepted' = [accepted EXCEPT ![p] = alive]
  /\ pc' = [pc EXCEPT ![p] = "enq_ret"]
  /\ pending' = [pending EXCEPT ![p] = e]
  /\ UNCHANGED <<alive, version, now, seen, nextElig>>

EnqueueLocked(p, e, prio) ==
  /\ pc[p] = "idle" /\ e \notin used
  /\ used' = used \cup {e}
  /\ queue' = IF alive THEN queue \cup {[elem |-> e, prio |-> prio]} ELSE queue
  /\ version' = IF alive THEN version + 1 ELSE version
  /\ accepted' = [accepted EXCEPT ![p] = alive]
  /\ pc' = [pc EXCEPT ![p] = "enq_ret"]
  /\ pending' = [pending EXCEPT ![p] = e]
  /\ UNCHANGED <<alive, now, seen, nextElig>>

\* `return alive;` runs after in_use.clear(): it reads alive afresh. The
\* value returned is EnqueueResult(p) in the step that leaves "enq_ret".
EnqueueResult == alive

EnqueueReturn(p) ==
  /\ pc[p] = "enq_ret"
  /\ pc' = [pc EXCEPT ![p] = "idle"]
  /\ pending' = [pending EXCEPT ![p] = NULL]
  /\ accepted' = [accepted EXCEPT ![p] = FALSE]
  /\ UNCHANGED <<queue, alive, version, now, seen, nextElig, used>>

----------------------------------------------------------------------------
(* try_dequeue(element): one locked section; returns false, or true with   *)
(* the top element removed.                                                *)

TryDequeueIgnoringRelease(c) ==
  /\ pc[c] = "idle"
  /\ alive /\ queue # {}
  /\ \E x \in Top : queue' = queue \ {x}
  /\ UNCHANGED <<alive, version, now, pc, seen, nextElig, used, pending, accepted>>

TryDequeue(c) ==
  /\ pc[c] = "idle"
  /\ alive /\ queue # {}
  /\ \E x \in Top : Eligible(x) /\ queue' = queue \ {x}
  /\ UNCHANGED <<alive, version, now, pc, seen, nextElig, used, pending, accepted>>

----------------------------------------------------------------------------
(* dequeue(): `while (alive)` around a locked section and two spin-waits.  *)
(* The locals version_seen and next_eligible are reset when dead.          *)

DequeueCall(c) ==
  /\ pc[c] = "idle"
  /\ pc' = [pc EXCEPT ![c] = "deq_check"]
  /\ UNCHANGED <<queue, alive, version, now, seen, nextElig, used, pending, accepted>>

DequeueCheckIgnoringAlive(c) ==
  /\ pc[c] = "deq_check"
  /\ pc' = [pc EXCEPT ![c] = "deq_locked"]
  /\ UNCHANGED <<queue, alive, version, now, seen, nextElig, used, pending, accepted>>

\* the loop test, read without the lock; when it fails: return nullptr
DequeueCheck(c) ==
  /\ pc[c] = "deq_check"
  /\ pc' = [pc EXCEPT ![c] = IF alive THEN "deq_locked" ELSE "idle"]
  /\ UNCHANGED <<queue, alive, version, now, seen, nextElig, used, pending, accepted>>

DequeueLockedBumpingVersion(c) ==
  /\ pc[c] = "deq_locked"
  /\ \/ /\ queue = {}
        /\ seen' = [seen EXCEPT ![c] = version]
        /\ pc' = [pc EXCEPT ![c] = "spin_empty"]
        /\ UNCHANGED <<queue, nextElig, version>>
     \/ \E x \in Top :
          /\ ~Eligible(x)
          /\ nextElig' = [nextElig EXCEPT ![c] = x.prio]
          /\ seen' = [seen EXCEPT ![c] = version]
          /\ pc' = [pc EXCEPT ![c] = "spin_wait"]
          /\ UNCHANGED <<queue, version>>
     \/ \E x \in Top :
          /\ Eligible(x)
          /\ queue' = queue \ {x}
          /\ version' = version + 1
          /\ pc' = [pc EXCEPT ![c] = "idle"]
          /\ UNCHANGED <<seen, nextElig>>
  /\ UNCHANGED <<alive, now, used, pending, accepted>>

DequeueLocked(c) ==
  /\ pc[c] = "deq_locked"
  /\ \/ /\ queue = {}
        /\ seen' = [seen EXCEPT ![c] = version]
        /\ pc' = [pc EXCEPT ![c] = "spin_empty"]
        /\ UNCHANGED <<queue, nextElig>>
     \/ \E x \in Top :
          /\ ~Eligible(x)
          /\ nextElig' = [nextElig EXCEPT ![c] = x.prio]
          /\ seen' = [seen EXCEPT ![c] = version]
          /\ pc' = [pc EXCEPT ![c] = "spin_wait"]
          /\ UNCHANGED queue
     \/ \E x \in Top :
          /\ Eligible(x)
          /\ queue' = queue \ {x}
          /\ pc' = [pc EXCEPT ![c] = "idle"]
          /\ UNCHANGED <<seen, nextElig>>
  /\ UNCHANGED <<alive, version, now, used, pending, accepted>>

\* the condition under which each spin-wait loop stops spinning
SpinEmptyDone(c) == ~alive \/ version # seen[c]

SpinWaitDoneOnVersionOnly(c) == ~alive \/ version # seen[c]

SpinWaitDone(c) == ~alive \/ version # seen[c] \/ nextElig[c] <= now

SpinExit(c) ==
  \/ pc[c] = "spin_empty" /\ SpinEmptyDone(c)
  \/ pc[c] = "spin_wait" /\ SpinWaitDone(c)

Spin(c) ==
  /\ SpinExit(c)
  /\ pc' = [pc EXCEPT ![c] = "deq_check"]
  /\ seen' = [seen EXCEPT ![c] = 0]
  /\ nextElig' = [nextElig EXCEPT ![c] = 0]
  /\ UNCHANGED <<queue, alive, version, now, used, pending, accepted>>

----------------------------------------------------------------------------
(* drain() and shutdown(): one locked section each.                        *)

Drain ==
  /\ queue' = {}
  /\ UNCHANGED <<alive, version, now, pc, seen, nextElig, used, pending, accepted>>

\* repeated calls only bump version again; the model stops at the first
Shutdown ==
  /\ alive
  /\ alive' = FALSE
  /\ version' = version + 1
  /\ UNCHANGED <<queue, now, pc, seen, nextElig, used, pending, accepted>>

Tick ==
  /\ now < MaxTime
  /\ now' = now + 1
  /\ UNCHANGED <<queue, alive, version, pc, seen, nextElig, used, pending, accepted>>

----------------------------------------------------------------------------
DequeueSteps(c) == DequeueCheck(c) \/ DequeueLocked(c) \/ Spin(c)

Next ==
  \/ \E p \in Producers, e \in Items, prio \in 0..MaxTime :
       EnqueueLocked(p, e, prio)
  \/ \E p \in Producers : EnqueueReturn(p)
  \/ \E c \in Consumers : TryDequeue(c) \/ DequeueCall(c) \/ DequeueSteps(c)
  \/ Drain \/ Shutdown \/ Tick

\* Time passes, and a thread inside enqueue() or dequeue() keeps running;
\* whether a thread calls the queue at all, or shuts it down, is up to the
\* caller and carries no fairness.
Fairness ==
  /\ WF_vars(Tick)
  /\ \A c \in Consumers : WF_vars(DequeueSteps(c))
  /\ \A p \in Producers : WF_vars(EnqueueReturn(p))

Spec == Init /\ [][Next]_vars /\ Fairness

----------------------------------------------------------------------------
TypeOK ==
  /\ queue \subseteq Container
  /\ alive \in BOOLEAN
  /\ version \in 0..(Cardinality(Items) + 1)
  /\ now \in 0..MaxTime
  /\ \A p \in Producers :
       /\ pc[p] \in {"idle", "enq_ret"}
       /\ pending[p] \in Items \cup {NULL}
       /\ accepted[p] \in BOOLEAN
  /\ \A c \in Consumers :
       pc[c] \in {"idle", "deq_check", "deq_locked", "spin_empty", "spin_wait"}
  /\ used \subseteq Items

EligibleQueued == \E x \in queue : Eligible(x)

\* No lost wake-up in dequeue(): a consumer spinning outside the lock on its
\* snapshot of `version` (and of the top's release time) is free to leave
\* the spin whenever an element it could take is in the queue. Breaking it
\* takes an enqueue() (or the clock) between the consumer's locked section
\* and its spin test.
NoMissedWakeup ==
  \A c \in Consumers :
    pc[c] \in {"spin_empty", "spin_wait"} /\ EligibleQueued => SpinExit(c)

\* Every enqueue/dequeue/drain/shutdown of the threads, seen on the shared
\* queue, is a step of the atomic queue: in particular an element leaves by
\* a dequeue only once released and only if no queued element is released
\* earlier.
Abstract == INSTANCE TimeReleaseQueue
RefinesTimeReleaseQueue == Abstract!Spec

\* A consumer blocked in dequeue() while a released element is queued does
\* not stay blocked: it returns, or the element is gone (taken or drained).
BlockedDequeueReturns ==
  \A c \in Consumers :
    (pc[c] \in {"deq_check", "deq_locked", "spin_empty", "spin_wait"}
       /\ EligibleQueued)
      ~> (pc[c] = "idle" \/ ~EligibleQueued)

\* shutdown() releases every thread blocked in dequeue(): once the queue is
\* dead, a consumer inside dequeue() returns (nullptr or an element), even
\* if it was spinning on a snapshot taken before the shutdown.
ShutdownReleasesDequeue ==
  \A c \in Consumers :
    (~alive /\ pc[c] \in {"deq_check", "deq_locked", "spin_empty", "spin_wait"})
      ~> pc[c] = "idle"

\* enqueue() returns true exactly when its locked section put the element
\* in the queue: a caller that sees false must be free to dispose of it.
EnqueueReportsAcceptance ==
  [][\A p \in Producers :
       EnqueueReturn(p) => (EnqueueResult <=> accepted[p])]_vars
=============================================================================
