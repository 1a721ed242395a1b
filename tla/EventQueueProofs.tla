-------------------------- MODULE EventQueueProofs --------------------------
(***************************************************************************)
(* Proofs about EventQueue, for any finite set of consumers, any capacity  *)
(* and any number of events: no wakeup is lost, events stay in order, and  *)
(* every step of the queue is a step of the abstract channel or a stutter. *)
(***************************************************************************)
EXTENDS EventQueue, FiniteSetTheorems, SequenceTheorems, TLAPS

USE QueueAssumption

\* The initial states are well typed.
LEMMA TypeInit == Init => TypeOK
<1> SUFFICES ASSUME Init PROVE TypeOK
  OBVIOUS
<1>1. events \in Seq(Nat)
  BY DEF Init
<1>2. got \in [Consumers -> SUBSET Nat] /\ discarded \in SUBSET Nat
  BY DEF Init
<1>3. /\ closed \in BOOLEAN /\ cancelled \in BOOLEAN
      /\ cancellable \in [Consumers -> BOOLEAN]
  BY Zenon DEF Init
<1> QED
  BY <1>1, <1>2, <1>3 DEF Init, TypeOK

\* The oldest event and the rest of a non-empty queue.
LEMMA QueueParts ==
  ASSUME TypeOK, events # <<>>
  PROVE  /\ Head(events) = events[1] /\ Head(events) \in Nat
         /\ Tail(events) \in Seq(Nat)
         /\ Len(events) \in Nat /\ Len(events) > 0
         /\ Len(Tail(events)) = Len(events) - 1
         /\ \A i \in 1..Len(Tail(events)) : Tail(events)[i] = events[i + 1]
BY HeadTailProperties DEF TypeOK

\* What one turn of the loop may do.
LEMMA IterationCases ==
  ASSUME TypeOK, NEW c \in Consumers, Iteration(c)
  PROVE  \/ /\ events # <<>>
            /\ pc' = [pc EXCEPT ![c] = "return"]
            /\ result' = [result EXCEPT ![c] = Head(events)]
            /\ events' = Tail(events)
         \/ /\ events = <<>> /\ events' = events /\ result' = result
            /\ closed \/ deadline[c] = "past"
            /\ pc' = [pc EXCEPT ![c] = "return"]
         \/ /\ events = <<>> /\ events' = events /\ result' = result
            /\ ~closed
            /\ pc' = [pc EXCEPT ![c] = "wait"]
BY DEF Iteration

\* Every step of the queue keeps the types.
LEMMA TypeNext == TypeOK /\ [Next]_vars => TypeOK'
<1> SUFFICES ASSUME TypeOK, [Next]_vars PROVE TypeOK'
  OBVIOUS
<1>1. CASE Push
  <2>1. events' \in Seq(Nat) /\ accepted' \in Nat
    BY <1>1 DEF Push, TypeOK
  <2>2. pc' \in [Consumers -> {"idle", "run", "wait", "timedout", "return"}]
    BY <1>1 DEF Push, NotifyOne, TypeOK, Waiting
  <2> QED
    BY <1>1, <2>1, <2>2 DEF Push, TypeOK
<1>2. CASE Close
  BY <1>2 DEF Close, NotifyAll, TypeOK
<1>3. CASE Cancel
  BY <1>3 DEF Cancel, TypeOK
<1>4. ASSUME NEW c \in Consumers, NEW d \in {"none", "future", "past"},
             NEW byToken \in BOOLEAN, Enter(c, d, byToken)
      PROVE  TypeOK'
  BY <1>4 DEF Enter, TypeOK
<1>5. ASSUME NEW c \in Consumers,
             DeadlinePasses(c) \/ SpuriousWakeup(c) \/ TimeoutWakeup(c)
      PROVE  TypeOK'
  BY <1>5 DEF DeadlinePasses, SpuriousWakeup, TimeoutWakeup, TypeOK
<1>6. ASSUME NEW c \in Consumers, Run(c) \/ AfterTimeout(c) PROVE TypeOK'
  <2>1. UNCHANGED <<closed, deadline, cancellable, cancelled, accepted, got, discarded>>
    BY <1>6 DEF Run, AfterTimeout
  <2>2. CASE Iteration(c)
    <3>1. CASE events # <<>> /\ pc' = [pc EXCEPT ![c] = "return"]
               /\ result' = [result EXCEPT ![c] = Head(events)] /\ events' = Tail(events)
      BY <2>1, <3>1, QueueParts DEF TypeOK
    <3>2. CASE events' = events /\ result' = result
               /\ \E s \in {"return", "wait"} : pc' = [pc EXCEPT ![c] = s]
      BY <2>1, <3>2 DEF TypeOK
    <3> QED
      BY <2>2, <3>1, <3>2, IterationCases
  <2>3. CASE pc' = [pc EXCEPT ![c] = "return"] /\ UNCHANGED <<events, result>>
    BY <2>1, <2>3 DEF TypeOK
  <2> QED
    BY <1>6, <2>2, <2>3 DEF Run, AfterTimeout
<1>7. ASSUME NEW c \in Consumers, Finish(c) PROVE TypeOK'
  <2>1. got' \in [Consumers -> SUBSET Nat] /\ discarded' \in SUBSET Nat
    <3>1. CASE result[c] = NoEvent
      BY <1>7, <3>1 DEF Finish, TypeOK
    <3>2. CASE result[c] # NoEvent
      <4>1. result[c] \in Nat
        BY <3>2 DEF TypeOK
      <4>2. \/ discarded' = discarded \cup {result[c]} /\ got' = got
            \/ got' = [got EXCEPT ![c] = got[c] \cup {result[c]}] /\ discarded' = discarded
        BY <1>7, <3>2 DEF Finish
      <4> DEFINE given == got[c] \cup {result[c]}
      <4>3. given \in SUBSET Nat /\ discarded \cup {result[c]} \in SUBSET Nat
        BY <4>1 DEF TypeOK
      <4>4. got' = got \/ got' = [got EXCEPT ![c] = given]
        BY <4>2
      <4> HIDE DEF given
      <4>5. got \in [Consumers -> SUBSET Nat]
        BY DEF TypeOK
      <4>6. got' \in [Consumers -> SUBSET Nat]
        BY <4>3, <4>4, <4>5
      <4> QED
        BY <4>2, <4>3, <4>6 DEF TypeOK
    <3> QED
      BY <3>1, <3>2
  <2> QED
    BY <1>7, <2>1 DEF Finish, TypeOK
<1>8. CASE UNCHANGED vars
  BY <1>8 DEF vars, TypeOK
<1> QED
  BY <1>1, <1>2, <1>3, <1>4, <1>5, <1>6, <1>7, <1>8 DEF Next, Call

\* Every reachable state of the queue is well typed.
THEOREM QueueTypeCorrect == Spec => []TypeOK
BY TypeInit, TypeNext, PTL DEF Spec

-----------------------------------------------------------------------------
(* No lost wakeup.                                                           *)

WakeupInv == NoLostWakeup /\ ClosedWakesAll

\* The awake consumers are a finite set, and their number changes by one when
\* one wakes up or leaves.
LEMMA RunnableFinite == IsFiniteSet(Runnable) /\ Cardinality(Runnable) \in Nat
BY FS_Subset, FS_CardinalityType DEF Runnable

\* After a step, too, the awake consumers are finitely many.
LEMMA RunnableFinitePrimed == IsFiniteSet(Runnable') /\ Cardinality(Runnable') \in Nat
BY FS_Subset, FS_CardinalityType DEF Runnable

\* A consumer that wakes adds one to the awake ones.
LEMMA RunnableGrows ==
  ASSUME TypeOK, NEW c \in Consumers, c \notin Runnable, Runnable' = Runnable \cup {c}
  PROVE  Cardinality(Runnable') = Cardinality(Runnable) + 1
BY RunnableFinite, FS_AddElement

\* A consumer that stops being awake takes one from them.
LEMMA RunnableShrinks ==
  ASSUME TypeOK, NEW c \in Runnable, Runnable' = Runnable \ {c}
  PROVE  Cardinality(Runnable') = Cardinality(Runnable) - 1
BY RunnableFinite, FS_RemoveElement

\* Every step keeps an awake consumer for each event, and nobody asleep when closed.
LEMMA WakeupNext == TypeOK /\ WakeupInv /\ [Next]_vars => WakeupInv'
<1> SUFFICES ASSUME TypeOK, WakeupInv, [Next]_vars PROVE WakeupInv'
  OBVIOUS
<1> USE DEF WakeupInv, NoLostWakeup, ClosedWakesAll
<1>0. Len(events) \in Nat
  BY DEF TypeOK
<1>1. CASE Push
  <2>1. Len(events') = Len(events) + 1 /\ ~closed'
    BY <1>1 DEF Push, TypeOK
  <2>2. CASE Waiting = {}
    BY <1>1, <2>1, <2>2 DEF Push, NotifyOne, Waiting
  <2>3. CASE Waiting # {}
    <3>1. PICK c \in Waiting : pc' = [pc EXCEPT ![c] = "run"]
      BY <1>1, <2>3 DEF Push, NotifyOne
    <3>2. c \in Consumers /\ c \notin Runnable /\ Runnable' = Runnable \cup {c}
      BY <3>1 DEF Waiting, Runnable, TypeOK
    <3>3. Cardinality(Runnable') = Cardinality(Runnable) + 1
      BY <3>2, RunnableGrows
    <3> QED
      BY <1>0, <2>1, <2>3, <3>3, RunnableFinite
  <2> QED
    BY <2>2, <2>3
<1>2. CASE Close
  BY <1>2 DEF Close, NotifyAll, Waiting
<1>3. CASE Cancel
  BY <1>3 DEF Cancel, Waiting, Runnable
<1>4. ASSUME NEW c \in Consumers, pc[c] \in {"idle", "wait"}, closed' = closed, events' = events,
             pc' = [pc EXCEPT ![c] = "run"] \/ pc' = [pc EXCEPT ![c] = "timedout"]
      PROVE  WakeupInv'
  <2>1. c \notin Runnable /\ Runnable' = Runnable \cup {c} /\ Waiting' \subseteq Waiting
    BY <1>4 DEF Waiting, Runnable, TypeOK
  <2>2. Cardinality(Runnable') = Cardinality(Runnable) + 1
    BY <2>1, RunnableGrows
  <2> QED
    BY <1>0, <1>4, <2>1, <2>2, RunnableFinite
<1>5. ASSUME NEW c \in Consumers, NEW d \in {"none", "future", "past"},
             NEW byToken \in BOOLEAN, Enter(c, d, byToken)
      PROVE  WakeupInv'
  BY <1>4, <1>5 DEF Enter
<1>6. ASSUME NEW c \in Consumers, SpuriousWakeup(c) \/ TimeoutWakeup(c) PROVE WakeupInv'
  BY <1>4, <1>6 DEF SpuriousWakeup, TimeoutWakeup
<1>7. ASSUME NEW c \in Consumers, DeadlinePasses(c) PROVE WakeupInv'
  BY <1>7 DEF DeadlinePasses, Waiting, Runnable
<1>8. ASSUME NEW c \in Consumers, Run(c) \/ AfterTimeout(c) PROVE WakeupInv'
  <2>1. closed' = closed /\ c \in Runnable
    BY <1>8 DEF Run, AfterTimeout, Runnable
  <2>2. ASSUME pc' = [pc EXCEPT ![c] = "return"]
        PROVE  Waiting' = Waiting /\ Cardinality(Runnable') = Cardinality(Runnable) - 1
    <3>1. Waiting' = Waiting /\ Runnable' = Runnable \ {c}
      BY <2>1, <2>2 DEF Waiting, Runnable, TypeOK
    <3> QED
      BY <2>1, <3>1, RunnableShrinks
  <2>3. CASE events # <<>> /\ pc' = [pc EXCEPT ![c] = "return"] /\ events' = Tail(events)
    BY <1>0, <2>1, <2>2, <2>3, QueueParts, RunnableFinite
  <2>4. CASE events = <<>> /\ events' = events /\ pc' = [pc EXCEPT ![c] = "return"]
    <3>1. Len(events') = 0 /\ Cardinality(Runnable') \in Nat
      BY <2>4, RunnableFinitePrimed
    <3> QED
      BY <2>1, <2>2, <2>4, <3>1
  <2>5. CASE events = <<>> /\ events' = events /\ ~closed
    <3>1. Len(events') = 0 /\ Cardinality(Runnable') \in Nat
      BY <2>5, RunnableFinitePrimed
    <3> QED
      BY <2>1, <2>5, <3>1
  <2> QED
    BY <1>8, <2>3, <2>4, <2>5, IterationCases DEF Run, AfterTimeout
<1>9. ASSUME NEW c \in Consumers, Finish(c) PROVE WakeupInv'
  <2>1. Waiting' = Waiting /\ Runnable' = Runnable
    BY <1>9 DEF Finish, Waiting, Runnable, TypeOK
  <2> QED
    BY <1>9, <2>1 DEF Finish
<1>10. CASE UNCHANGED vars
  BY <1>10 DEF vars, Waiting, Runnable
<1> QED
  BY <1>1, <1>2, <1>3, <1>5, <1>6, <1>7, <1>8, <1>9, <1>10 DEF Next, Call

\* No wakeup of push is lost, and close leaves nobody asleep.
THEOREM QueueNoLostWakeup == Spec => [](NoLostWakeup /\ ClosedWakesAll)
<1>1. Init => WakeupInv
  BY FS_EmptySet DEF Init, WakeupInv, NoLostWakeup, ClosedWakesAll, Waiting
<1>2. WakeupInv => NoLostWakeup /\ ClosedWakesAll
  BY DEF WakeupInv
<1> QED
  BY <1>1, <1>2, TypeInit, TypeNext, WakeupNext, PTL DEF Spec

-----------------------------------------------------------------------------
(* The order of the queue.                                                   *)

\* Every step keeps the queue in the order of acceptance.
LEMMA OrderNext == TypeOK /\ QueueInOrder /\ [Next]_vars => QueueInOrder'
<1> SUFFICES ASSUME TypeOK, QueueInOrder, [Next]_vars PROVE QueueInOrder'
  OBVIOUS
<1>0. Len(events) \in Nat /\ accepted \in Nat /\ events \in Seq(Nat)
  BY DEF TypeOK
<1>1. CASE Push
  <2>1. accepted' = accepted + 1 /\ events' = Append(events, accepted + 1) /\ Len(events) < Capacity
    BY <1>0, <1>1 DEF Push, QueueInOrder
  <2>2. /\ Len(events') = Len(events) + 1
        /\ \A i \in 1..Len(events) : events'[i] = events[i]
        /\ events'[Len(events) + 1] = accepted + 1
    BY <1>0, <2>1, AppendProperties
  <2>3. ASSUME NEW i \in 1..Len(events') PROVE events'[i] = accepted' - Len(events') + i
    <3>1. CASE i = Len(events) + 1
      BY <1>0, <2>1, <2>2, <3>1
    <3>2. CASE i \in 1..Len(events)
      BY <1>0, <2>1, <2>2, <3>2 DEF QueueInOrder
    <3> QED
      BY <1>0, <2>2, <3>1, <3>2
  <2>4. Len(events') <= Capacity /\ Len(events') <= accepted'
    BY <1>0, <2>1, <2>2 DEF QueueInOrder
  <2> QED
    BY <2>3, <2>4 DEF QueueInOrder
<1>2. CASE UNCHANGED <<events, accepted>>
  BY <1>2 DEF QueueInOrder
<1>3. ASSUME NEW c \in Consumers, Iteration(c), accepted' = accepted PROVE QueueInOrder'
  <2>1. CASE events # <<>> /\ events' = Tail(events)
    <3>1. ASSUME NEW i \in 1..Len(events') PROVE events'[i] = accepted' - Len(events') + i
      <4>1. i + 1 \in 1..Len(events) /\ events'[i] = events[i + 1]
        BY <1>0, <2>1, QueueParts
      <4> QED
        BY <1>0, <1>3, <2>1, <4>1, QueueParts DEF QueueInOrder
    <3>2. Len(events') <= Capacity /\ Len(events') <= accepted'
      BY <1>0, <1>3, <2>1, QueueParts DEF QueueInOrder
    <3> QED
      BY <3>1, <3>2 DEF QueueInOrder
  <2>2. CASE events' = events
    BY <1>3, <2>2 DEF QueueInOrder
  <2> QED
    BY <1>3, <2>1, <2>2, IterationCases
<1> QED
  BY <1>1, <1>2, <1>3
  DEF Next, Call, vars, Close, Cancel, Enter, DeadlinePasses, SpuriousWakeup,
      TimeoutWakeup, Run, AfterTimeout, Finish

\* The queue holds the youngest accepted events in order, within its capacity.
THEOREM QueueOrder == Spec => []QueueInOrder
<1>1. Init => QueueInOrder
  BY DEF Init, QueueInOrder
<1> QED
  BY <1>1, TypeInit, TypeNext, OrderNext, PTL DEF Spec

-----------------------------------------------------------------------------
(* Refinement: every step is a step of the abstract channel or leaves the    *)
(* abstract state unchanged.                                                 *)

\* A change of one consumer's place is a change of its abstract request.
LEMMA RequestStep ==
  ASSUME TypeOK, NEW c \in Consumers, NEW s, pc' = [pc EXCEPT ![c] = s]
  PROVE  RequestState' = [RequestState EXCEPT ![c] =
           IF s = "idle" THEN "idle" ELSE IF s = "return" THEN "answered" ELSE "pending"]
BY DEF RequestState, TypeOK

\* The state of a request in the channel, from where its consumer is.
LEMMA RequestOf ==
  ASSUME NEW c \in Consumers
  PROVE  /\ pc[c] = "idle" => RequestState[c] = "idle"
         /\ pc[c] = "return" => RequestState[c] = "answered"
         /\ pc[c] \in {"run", "wait", "timedout"} => RequestState[c] = "pending"
         /\ HasDeadline[c] = (deadline[c] # "none")
BY DEF RequestState, HasDeadline

\* Going between the places that are all one pending request is a stutter.
LEMMA PendingStutter ==
  ASSUME TypeOK, NEW c \in Consumers, pc[c] \in {"run", "wait", "timedout"},
         NEW s \in {"run", "wait", "timedout"}, pc' = [pc EXCEPT ![c] = s]
  PROVE  RequestState' = RequestState
BY DEF RequestState, TypeOK

\* One turn of the wait loop is a step of the channel or a stutter.
LEMMA IterationRefines ==
  ASSUME TypeOK, NEW c \in Consumers, pc[c] \in {"run", "timedout"}, Iteration(c),
         UNCHANGED <<closed, deadline, accepted>>
  PROVE  [Channel!Next]_(Channel!vars)
<1>0. HasDeadline' = HasDeadline /\ RequestState[c] = "pending"
  BY RequestOf DEF HasDeadline
<1>1. CASE events # <<>> /\ pc' = [pc EXCEPT ![c] = "return"]
           /\ result' = [result EXCEPT ![c] = Head(events)] /\ events' = Tail(events)
  <2>1. RequestState' = [RequestState EXCEPT ![c] = "answered"]
    BY <1>1, RequestStep
  <2>2. Channel!Deliver(c)
    BY <1>0, <1>1, <2>1 DEF Channel!Deliver
  <2> QED
    BY <2>2 DEF Channel!Next
<1>2. CASE events = <<>> /\ events' = events /\ result' = result
           /\ (closed \/ deadline[c] = "past") /\ pc' = [pc EXCEPT ![c] = "return"]
  <2>1. RequestState' = [RequestState EXCEPT ![c] = "answered"]
    BY <1>2, RequestStep
  <2>2. closed \/ HasDeadline[c]
    BY <1>2, RequestOf
  <2>3. Channel!GiveUp(c)
    BY <1>0, <1>2, <2>1, <2>2 DEF Channel!GiveUp
  <2> QED
    BY <2>3 DEF Channel!Next
<1>3. CASE events' = events /\ result' = result /\ pc' = [pc EXCEPT ![c] = "wait"]
  <2>1. RequestState' = RequestState
    BY <1>3, PendingStutter
  <2> QED
    BY <1>0, <1>3, <2>1 DEF Channel!vars
<1> QED
  BY <1>1, <1>2, <1>3, IterationCases

\* Every step of the queue is a step of the channel or a stutter.
LEMMA ChannelStep ==
  TypeOK /\ QueueInOrder /\ [Next]_vars => [Channel!Next]_(Channel!vars)
<1> SUFFICES ASSUME TypeOK, QueueInOrder, [Next]_vars PROVE [Channel!Next]_(Channel!vars)
  OBVIOUS
<1>1. CASE Push
  <2>1. Len(events) < Capacity
    BY <1>1 DEF Push, QueueInOrder, TypeOK
  <2>2. HasDeadline' = HasDeadline
    BY <1>1 DEF Push, HasDeadline
  <2>3. RequestState' = RequestState
    <3>1. CASE Waiting = {}
      BY <1>1, <3>1 DEF Push, NotifyOne, RequestState
    <3>2. CASE Waiting # {}
      BY <1>1, <3>2, PendingStutter DEF Push, NotifyOne, Waiting
    <3> QED
      BY <3>1, <3>2
  <2>4. Channel!Publish
    BY <1>1, <2>1, <2>2, <2>3 DEF Push, Channel!Publish
  <2> QED
    BY <2>4 DEF Channel!Next
<1>2. CASE Close
  <2>1. RequestState' = RequestState /\ HasDeadline' = HasDeadline
    BY <1>2 DEF Close, NotifyAll, RequestState, HasDeadline
  <2>2. Channel!Shut
    BY <1>2, <2>1 DEF Close, Channel!Shut
  <2> QED
    BY <2>2 DEF Channel!Next
<1>3. CASE Cancel
  BY <1>3 DEF Cancel, Channel!vars, RequestState, HasDeadline
<1>4. ASSUME NEW c \in Consumers, NEW d \in {"none", "future", "past"},
             NEW byToken \in BOOLEAN, Enter(c, d, byToken)
      PROVE  [Channel!Next]_(Channel!vars)
  <2>0. pc' = [pc EXCEPT ![c] = "run"] /\ pc[c] = "idle"
    BY <1>4 DEF Enter
  <2>1. RequestState' = [RequestState EXCEPT ![c] = "pending"] /\ RequestState[c] = "idle"
    BY <2>0 DEF RequestState, TypeOK
  <2>2. HasDeadline' = [HasDeadline EXCEPT ![c] = (d # "none")]
    BY <1>4 DEF Enter, HasDeadline, TypeOK
  <2>3. Channel!Ask(c)
    BY <1>4, <2>1, <2>2 DEF Enter, Channel!Ask
  <2> QED
    BY <2>3 DEF Channel!Next
<1>5. ASSUME NEW c \in Consumers, DeadlinePasses(c) PROVE [Channel!Next]_(Channel!vars)
  <2>1. HasDeadline' = HasDeadline /\ RequestState' = RequestState
    BY <1>5 DEF DeadlinePasses, HasDeadline, RequestState, TypeOK
  <2> QED
    BY <1>5, <2>1 DEF DeadlinePasses, Channel!vars
<1>6. ASSUME NEW c \in Consumers, SpuriousWakeup(c) \/ TimeoutWakeup(c)
      PROVE  [Channel!Next]_(Channel!vars)
  <2>1. HasDeadline' = HasDeadline /\ RequestState' = RequestState
    BY <1>6, PendingStutter DEF SpuriousWakeup, TimeoutWakeup, HasDeadline
  <2> QED
    BY <1>6, <2>1 DEF SpuriousWakeup, TimeoutWakeup, Channel!vars
<1>7. ASSUME NEW c \in Consumers, Run(c) PROVE [Channel!Next]_(Channel!vars)
  BY <1>7, IterationRefines DEF Run
<1>8. ASSUME NEW c \in Consumers, AfterTimeout(c) PROVE [Channel!Next]_(Channel!vars)
  <2>1. CASE events = <<>> /\ deadline[c] # "none"
    <3>1. RequestState' = [RequestState EXCEPT ![c] = "answered"] /\ RequestState[c] = "pending"
      BY <1>8, <2>1, RequestStep, RequestOf DEF AfterTimeout
    <3>2. HasDeadline[c] /\ HasDeadline' = HasDeadline
      BY <1>8, <2>1 DEF AfterTimeout, HasDeadline
    <3>3. Channel!GiveUp(c)
      BY <1>8, <2>1, <3>1, <3>2 DEF AfterTimeout, Channel!GiveUp
    <3> QED
      BY <3>3 DEF Channel!Next
  <2>2. CASE ~(events = <<>> /\ deadline[c] # "none")
    BY <1>8, <2>2, IterationRefines DEF AfterTimeout
  <2> QED
    BY <2>1, <2>2
<1>9. ASSUME NEW c \in Consumers, Finish(c) PROVE [Channel!Next]_(Channel!vars)
  <2>0. pc' = [pc EXCEPT ![c] = "idle"] /\ pc[c] = "return"
    BY <1>9 DEF Finish
  <2>1. RequestState' = [RequestState EXCEPT ![c] = "idle"] /\ RequestState[c] = "answered"
    BY <2>0, RequestStep, RequestOf
  <2>2. HasDeadline' = [HasDeadline EXCEPT ![c] = FALSE]
    BY <1>9 DEF Finish, HasDeadline, TypeOK
  <2>3. Channel!Leave(c)
    BY <1>9, <2>1, <2>2 DEF Finish, Channel!Leave
  <2> QED
    BY <2>3 DEF Channel!Next
<1>10. CASE UNCHANGED vars
  BY <1>10 DEF vars, Channel!vars, RequestState, HasDeadline
<1> QED
  BY <1>1, <1>2, <1>3, <1>4, <1>5, <1>6, <1>7, <1>8, <1>9, <1>10 DEF Next, Call

\* The queue's safety part of the refinement: it behaves as a bounded first-in
\* first-out channel whose requests end empty-handed only on an empty channel.
THEOREM QueueImplementsChannel == Spec => Channel!Safety
<1>1. Init => Channel!Init
  BY DEF Init, Channel!Init, RequestState, HasDeadline
<1>2. Init => QueueInOrder
  BY DEF Init, QueueInOrder
<1> QED
  BY <1>1, <1>2, TypeInit, TypeNext, OrderNext, ChannelStep, PTL DEF Spec, Channel!Safety

=============================================================================
