---------------------------- MODULE EventChannel ----------------------------
(***************************************************************************)
(* What a provider's event facet promises (the EventAccess trait and the   *)
(* push and close of the portable queue): a bounded first-in first-out     *)
(* channel.  A consumer's request ends with the oldest event, or with      *)
(* nothing once the channel is empty and either closed or the request had  *)
(* a deadline.  How consumers sleep and wake is left to EventQueue.        *)
(***************************************************************************)
EXTENDS Naturals, Sequences

CONSTANTS Consumers, Capacity, MaxEvents, NoEvent

VARIABLES queue,    \* accepted events, oldest first
          closed,
          accepted, \* number of events accepted so far; events are numbered
          request,  \* "idle", "pending" or "answered", per consumer
          bounded,  \* the pending request has a deadline
          answer    \* the event a request was answered with, or NoEvent

vars == <<queue, closed, accepted, request, bounded, answer>>

Init ==
  /\ queue = <<>>
  /\ closed = FALSE
  /\ accepted = 0
  /\ request = [c \in Consumers |-> "idle"]
  /\ bounded = [c \in Consumers |-> FALSE]
  /\ answer = [c \in Consumers |-> NoEvent]

Publish ==
  /\ ~closed
  /\ Len(queue) < Capacity
  /\ accepted < MaxEvents
  /\ accepted' = accepted + 1
  /\ queue' = Append(queue, accepted + 1)
  /\ UNCHANGED <<closed, request, bounded, answer>>

Shut ==
  /\ closed' = TRUE
  /\ UNCHANGED <<queue, accepted, request, bounded, answer>>

Ask(c) ==
  /\ request[c] = "idle"
  /\ request' = [request EXCEPT ![c] = "pending"]
  /\ \E b \in BOOLEAN : bounded' = [bounded EXCEPT ![c] = b]
  /\ UNCHANGED <<queue, closed, accepted, answer>>

Deliver(c) ==
  /\ request[c] = "pending"
  /\ queue # <<>>
  /\ request' = [request EXCEPT ![c] = "answered"]
  /\ answer' = [answer EXCEPT ![c] = Head(queue)]
  /\ queue' = Tail(queue)
  /\ UNCHANGED <<closed, accepted, bounded>>

GiveUp(c) ==
  /\ request[c] = "pending"
  /\ queue = <<>>
  /\ closed \/ bounded[c]
  /\ request' = [request EXCEPT ![c] = "answered"]
  /\ UNCHANGED <<queue, closed, accepted, bounded, answer>>

Leave(c) ==
  /\ request[c] = "answered"
  /\ request' = [request EXCEPT ![c] = "idle"]
  /\ answer' = [answer EXCEPT ![c] = NoEvent]
  /\ bounded' = [bounded EXCEPT ![c] = FALSE]
  /\ UNCHANGED <<queue, closed, accepted>>

Next ==
  \/ Publish
  \/ Shut
  \/ \E c \in Consumers : Ask(c) \/ Deliver(c) \/ GiveUp(c) \/ Leave(c)

Safety == Init /\ [][Next]_vars

\* A request that can be answered from some point on is answered.
Answers == \A c \in Consumers : WF_vars(Deliver(c) \/ GiveUp(c))

Channel == Safety /\ Answers

=============================================================================
