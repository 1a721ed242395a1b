----------------------------- MODULE EventQueue -----------------------------
(***************************************************************************)
(* The bounded event queue of crates/vmi-events: a mutex, a condition      *)
(* variable and a deadline per call, together with the cancellable wrapper *)
(* of crates/vmi-driver-api through which callers wait.                    *)
(*                                                                         *)
(* One action is one critical section of the mutex, one wakeup of the      *)
(* condition variable, or a passage of time.  Waiting releases the mutex,  *)
(* so a consumer that is woken competes for it with new consumers.         *)
(* Events are numbered in the order in which push accepts them.            *)
(***************************************************************************)
EXTENDS Naturals, Sequences, FiniteSets

CONSTANTS Consumers, Capacity,
          MaxEvents,     \* bound on the number of accepted events
          NoEvent

ASSUME QueueAssumption ==
  /\ IsFiniteSet(Consumers)
  /\ Capacity \in Nat \ {0}
  /\ MaxEvents \in Nat
  /\ NoEvent \notin Nat

VARIABLES
  events,      \* State::events
  closed,      \* State::closed
  pc,          \* per consumer: "idle", "run", "wait", "timedout" or "return"
  deadline,    \* "none" (beyond Instant's range), "future" or "past"
  result,      \* the event popped by the call in progress, or NoEvent
  cancellable, \* the call came through next_event_cancellable
  cancelled,   \* the CancellationToken
  accepted,    \* history: number of events push has accepted
  got,         \* history: the events each consumer was given
  discarded    \* history: popped events that a cancelled call threw away

vars == <<events, closed, pc, deadline, result, cancellable, cancelled,
          accepted, got, discarded>>

Waiting == {c \in Consumers : pc[c] = "wait"}
Runnable == {c \in Consumers : pc[c] \in {"run", "timedout"}}

Init ==
  /\ events = <<>>
  /\ closed = FALSE
  /\ pc = [c \in Consumers |-> "idle"]
  /\ deadline = [c \in Consumers |-> "none"]
  /\ result = [c \in Consumers |-> NoEvent]
  /\ cancellable = [c \in Consumers |-> FALSE]
  /\ cancelled = FALSE
  /\ accepted = 0
  /\ got = [c \in Consumers |-> {}]
  /\ discarded = {}

\* Condvar::notify_one: one waiter, if there is any, becomes runnable.
NotifyOne ==
  IF Waiting = {} THEN UNCHANGED pc
  ELSE \E c \in Waiting : pc' = [pc EXCEPT ![c] = "run"]

NotifyAll ==
  pc' = [c \in Consumers |-> IF pc[c] = "wait" THEN "run" ELSE pc[c]]

\* Mutant: push does not notify.
PushWithoutNotify ==
  /\ ~closed
  /\ Len(events) # Capacity
  /\ accepted < MaxEvents
  /\ accepted' = accepted + 1
  /\ events' = Append(events, accepted + 1)
  /\ UNCHANGED <<pc, closed, deadline, result, cancellable, cancelled, got, discarded>>

\* push; on a closed or full queue it fails and changes nothing.
Push ==
  /\ ~closed
  /\ Len(events) # Capacity
  /\ accepted < MaxEvents
  /\ accepted' = accepted + 1
  /\ events' = Append(events, accepted + 1)
  /\ NotifyOne
  /\ UNCHANGED <<closed, deadline, result, cancellable, cancelled, got, discarded>>

\* Mutant: close wakes a single waiter.
CloseNotifiesOne ==
  /\ closed' = TRUE
  /\ NotifyOne
  /\ UNCHANGED <<events, deadline, result, cancellable, cancelled, accepted, got, discarded>>

Close ==
  /\ closed' = TRUE
  /\ NotifyAll
  /\ UNCHANGED <<events, deadline, result, cancellable, cancelled, accepted, got, discarded>>

\* next_event, or next_event_cancellable past its first check of the token, up
\* to the lock.  A zero timeout has a deadline that is already past, one beyond
\* Instant's range has none.
Enter(c, d, byToken) ==
  /\ pc[c] = "idle"
  /\ byToken => ~cancelled
  /\ pc' = [pc EXCEPT ![c] = "run"]
  /\ deadline' = [deadline EXCEPT ![c] = d]
  /\ cancellable' = [cancellable EXCEPT ![c] = byToken]
  /\ UNCHANGED <<events, closed, result, cancelled, accepted, got, discarded>>

DeadlinePasses(c) ==
  /\ deadline[c] = "future"
  /\ deadline' = [deadline EXCEPT ![c] = "past"]
  /\ UNCHANGED <<events, closed, pc, result, cancellable, cancelled, accepted, got, discarded>>

\* Mutant: the youngest event is popped.
IterationPopsBack(c) ==
  \/ /\ events # <<>>
     /\ pc' = [pc EXCEPT ![c] = "return"]
     /\ result' = [result EXCEPT ![c] = events[Len(events)]]
     /\ events' = SubSeq(events, 1, Len(events) - 1)
  \/ /\ events = <<>>
     /\ UNCHANGED <<events, result>>
     /\ pc' = [pc EXCEPT ![c] =
          IF closed \/ deadline[c] = "past" THEN "return" ELSE "wait"]

\* One turn of the loop, with the mutex held: the oldest event, or nothing if
\* the queue is closed or the deadline is past, or back to sleep.
Iteration(c) ==
  \/ /\ events # <<>>
     /\ pc' = [pc EXCEPT ![c] = "return"]
     /\ result' = [result EXCEPT ![c] = Head(events)]
     /\ events' = Tail(events)
  \/ /\ events = <<>>
     /\ UNCHANGED <<events, result>>
     /\ pc' = [pc EXCEPT ![c] =
          IF closed \/ deadline[c] = "past" THEN "return" ELSE "wait"]

Run(c) ==
  /\ pc[c] = "run"
  /\ Iteration(c)
  /\ UNCHANGED <<closed, deadline, cancellable, cancelled, accepted, got, discarded>>

\* Mutant: every wakeup starts the timeout afresh.
SpuriousWakeupRestartsTimeout(c) ==
  /\ pc[c] = "wait"
  /\ pc' = [pc EXCEPT ![c] = "run"]
  /\ deadline' = [deadline EXCEPT ![c] = IF @ = "none" THEN "none" ELSE "future"]
  /\ UNCHANGED <<events, closed, result, cancellable, cancelled, accepted, got, discarded>>

\* wait_timeout returns without a notification.
SpuriousWakeup(c) ==
  /\ pc[c] = "wait"
  /\ pc' = [pc EXCEPT ![c] = "run"]
  /\ UNCHANGED <<events, closed, deadline, result, cancellable, cancelled, accepted, got, discarded>>

\* The wait times out: at the deadline, or after a wait slice without one.
TimeoutWakeup(c) ==
  /\ pc[c] = "wait"
  /\ deadline[c] # "future"
  /\ pc' = [pc EXCEPT ![c] = "timedout"]
  /\ UNCHANGED <<events, closed, deadline, result, cancellable, cancelled, accepted, got, discarded>>

\* Mutant: a timed-out wait returns nothing without looking at the queue.
AfterTimeoutIgnoresQueue(c) ==
  /\ pc[c] = "timedout"
  /\ IF deadline[c] # "none"
     THEN /\ pc' = [pc EXCEPT ![c] = "return"]
          /\ UNCHANGED <<events, result>>
     ELSE Iteration(c)
  /\ UNCHANGED <<closed, deadline, cancellable, cancelled, accepted, got, discarded>>

\* The critical section after a timed-out wait: nothing, unless an event came
\* in before the mutex was reacquired or there is no deadline.
AfterTimeout(c) ==
  /\ pc[c] = "timedout"
  /\ IF events = <<>> /\ deadline[c] # "none"
     THEN /\ pc' = [pc EXCEPT ![c] = "return"]
          /\ UNCHANGED <<events, result>>
     ELSE Iteration(c)
  /\ UNCHANGED <<closed, deadline, cancellable, cancelled, accepted, got, discarded>>

\* The call returns.  next_event_cancellable checks its token again first, and
\* a token cancelled meanwhile makes it drop the event it holds.
Finish(c) ==
  /\ pc[c] = "return"
  /\ pc' = [pc EXCEPT ![c] = "idle"]
  /\ result' = [result EXCEPT ![c] = NoEvent]
  /\ deadline' = [deadline EXCEPT ![c] = "none"]
  /\ cancellable' = [cancellable EXCEPT ![c] = FALSE]
  /\ IF result[c] = NoEvent THEN UNCHANGED <<got, discarded>>
     ELSE IF cancellable[c] /\ cancelled
     THEN /\ discarded' = discarded \cup {result[c]}
          /\ UNCHANGED got
     ELSE /\ got' = [got EXCEPT ![c] = @ \cup {result[c]}]
          /\ UNCHANGED discarded
  /\ UNCHANGED <<events, closed, cancelled, accepted>>

Cancel ==
  /\ cancelled' = TRUE
  /\ UNCHANGED <<events, closed, pc, deadline, result, cancellable, accepted, got, discarded>>

Call(c) == Run(c) \/ AfterTimeout(c) \/ Finish(c)

Next ==
  \/ Push
  \/ Close
  \/ Cancel
  \/ \E c \in Consumers :
       \/ \E d \in {"none", "future", "past"}, byToken \in BOOLEAN : Enter(c, d, byToken)
       \/ DeadlinePasses(c)
       \/ SpuriousWakeup(c)
       \/ TimeoutWakeup(c)
       \/ Call(c)

Spec == Init /\ [][Next]_vars

\* A consumer that can run is scheduled and gets the mutex; time passes, and a
\* wait whose deadline is past is woken.
Fairness ==
  \A c \in Consumers :
    /\ WF_vars(Call(c))
    /\ WF_vars(DeadlinePasses(c))
    /\ WF_vars(deadline[c] = "past" /\ TimeoutWakeup(c))

FairSpec == Spec /\ Fairness

-----------------------------------------------------------------------------
(* Properties.                                                             *)

\* Every variable has its type: what consumers were given are events.
TypeOK ==
  /\ events \in Seq(Nat)
  /\ closed \in BOOLEAN
  /\ pc \in [Consumers -> {"idle", "run", "wait", "timedout", "return"}]
  /\ deadline \in [Consumers -> {"none", "future", "past"}]
  /\ result \in [Consumers -> Nat \cup {NoEvent}]
  /\ cancellable \in [Consumers -> BOOLEAN]
  /\ cancelled \in BOOLEAN
  /\ accepted \in Nat
  /\ got \in [Consumers -> SUBSET Nat]
  /\ discarded \in SUBSET Nat

\* No wakeup is lost: while a consumer sleeps, every queued event has a
\* consumer of its own that is awake and on its way to the mutex, whatever
\* events were stolen and whatever waits timed out between push's notify_one
\* and the notified consumer's turn.
NoLostWakeup == Waiting # {} => Len(events) <= Cardinality(Runnable)

\* Nobody sleeps in a closed queue.
ClosedWakesAll == closed => Waiting = {}

\* The queue holds the most recently accepted events in the order of their
\* acceptance, and never more than the capacity.
QueueInOrder ==
  /\ Len(events) <= Capacity
  /\ Len(events) <= accepted
  /\ \A i \in 1..Len(events) : events[i] = accepted - Len(events) + i

\* The abstract channel, seen through the state of the queue: a call is a
\* pending request until its result is decided.
RequestState ==
  [c \in Consumers |-> IF pc[c] = "idle" THEN "idle"
                       ELSE IF pc[c] = "return" THEN "answered" ELSE "pending"]
HasDeadline == [c \in Consumers |-> deadline[c] # "none"]

Channel ==
  INSTANCE EventChannel WITH
    queue <- events, request <- RequestState, bounded <- HasDeadline, answer <- result

\* The queue implements the channel: first in first out, nothing returned while
\* an event is queued, and every request that stays answerable is answered.
ImplementsChannel == Channel!Channel

\* A call with a representable deadline returns, however often it is woken in
\* vain and however often its event is stolen.
BoundedCallReturns ==
  \A c \in Consumers :
    (pc[c] # "idle" /\ deadline[c] # "none") ~> pc[c] = "idle"

\* Closing the queue ends every call, also those without a deadline.
CloseEndsCalls ==
  \A c \in Consumers : (closed /\ pc[c] # "idle") ~> pc[c] = "idle"

=============================================================================
