------------------------------ MODULE QmpClient ------------------------------
(***************************************************************************)
(* The QMP side of crates/vmi-driver-qemu.  A command is sent with a fresh *)
(* id; its reply, among asynchronous events and replies to commands that   *)
(* timed out before, comes back over a line-framed socket.  A line may     *)
(* arrive in pieces, and a read that times out drops the piece it holds.   *)
(*                                                                         *)
(* The session keeps the client in a mutex, so the calls of its threads    *)
(* follow each other in any order.  A call is one acquisition of that      *)
(* mutex: a command (execute, and each chunk of read_into), a register     *)
(* read (cpu, then info registers) or next_event.  The monitor is          *)
(* external: it answers commands in order, at any time, and "cpu" selects  *)
(* the vCPU that "info registers" reports.  The initial state is the one   *)
(* that a successful initialize leaves, its first id spent on              *)
(* qmp_capabilities.                                                       *)
(***************************************************************************)
EXTENDS Naturals, Sequences, FiniteSets

CONSTANTS Vcpus,
          None,
          LastId,      \* u64::MAX in the code
          Capacity,    \* EVENT_QUEUE_CAPACITY
          MaxEvents,   \* bound on the events the monitor emits
          SocketSize   \* pieces the connection holds before the monitor waits

ASSUME QmpAssumption ==
  /\ LastId \in Nat \ {0, 1}
  /\ Capacity \in Nat \ {0}
  /\ MaxEvents \in Nat
  /\ SocketSize \in Nat \ {0}
  /\ None \notin Nat \cup Vcpus

VARIABLES
  nextId,     \* QmpClient::next_id
  events,     \* QmpClient::events
  call,       \* the call that holds the mutex
  phase,      \* where it is: between commands, in its loop, in read_json
  deadline,   \* the deadline of the loop
  timer,      \* the socket timeout of the wait in progress
  line,       \* the message of which read_json holds the first piece
  wire,       \* the pieces on their way from the monitor
  half,       \* the message of which the monitor has sent the first piece
  open,       \* the monitor has not closed the connection
  inbox,      \* the commands the monitor has not executed
  parser,     \* of the monitor: "broken" when it holds a piece of a command
  cpu,        \* the vCPU selected in the monitor
  sent,       \* commands sent so far
  emitted,    \* events emitted so far
  delivered,  \* the events returned to callers, in order
  lost,       \* the events dropped by the client
  alarms,     \* calls that failed for a full queue or an undecodable line
  last        \* the answer that the last call returned

client == <<nextId, events, call, phase, deadline, timer, line>>
history == <<delivered, lost, alarms, last>>
server == <<half, open, inbox, parser, cpu, emitted>>
vars == <<client, history, server, wire, sent>>

NoCall == [op |-> "none", vcpu |-> None, stage |-> "none", id |-> None, request |-> None,
           refused |-> FALSE]
Nothing == [op |-> "none", vcpu |-> None, request |-> None, answered |-> None,
            registers |-> None, refused |-> FALSE]

Init ==
  /\ nextId = 2
  /\ events = <<>>
  /\ call = NoCall
  /\ phase = "ready"
  /\ deadline = "none"
  /\ timer = "off"
  /\ line = None
  /\ wire = <<>>
  /\ half = None
  /\ open = TRUE
  /\ inbox = <<>>
  /\ parser = "ready"
  /\ cpu = None
  /\ sent = 1
  /\ emitted = 0
  /\ delivered = <<>>
  /\ lost = {}
  /\ alarms = 0
  /\ last = Nothing

-----------------------------------------------------------------------------
(* How a call ends: the mutex is released and its locals are gone.         *)

Release ==
  /\ call' = NoCall
  /\ phase' = "ready"
  /\ deadline' = "none"
  /\ timer' = "off"
  /\ line' = None

\* An error, a timeout, no event, or an event, which delivered records.
Return == Release /\ last' = Nothing

\* The answer in message m.
ReturnAnswer(m) ==
  /\ Release
  /\ last' = [op |-> call.op, vcpu |-> call.vcpu, request |-> call.request,
              answered |-> m.request, registers |-> m.registers, refused |-> call.refused]

\* The event that goes with an incomplete line, if it is one.
LostWithLine == IF line # None /\ line.kind = "event" THEN {line.event} ELSE {}

-----------------------------------------------------------------------------
(* Sending.                                                                *)

\* The call with which a caller gets the mutex.
Lock(op, v) == [NoCall EXCEPT !.op = op, !.vcpu = v,
                              !.stage = IF op = "registers" THEN "cpu" ELSE "only"]

\* Mutant: the id space wraps around.
NextIdWraps(id) == IF id = LastId THEN 2 ELSE id + 1

\* take_request_id: past the last id the space stays exhausted.
NextId(id) == IF id = LastId THEN None ELSE id + 1

\* The command that call c sends.
Request(c) == [id |-> nextId, stage |-> c.stage, vcpu |-> c.vcpu, request |-> sent + 1]

\* The monitor's inbox once command x has arrived.  A command that comes behind a
\* piece of another one is not understood; the error it is answered with has no
\* id, so that execute passes over it like over a late answer.
Arrives(x) == IF open /\ parser = "ready" THEN Append(inbox, x) ELSE inbox

\* x is written; the monitor may find the end of an earlier piece in it.
Written(x) ==
  /\ inbox' = Arrives(x)
  /\ parser' \in {parser, "ready"}

\* The write fails or times out: nothing has arrived, or a piece that the next
\* command will continue, or all of x but its newline, which the monitor does
\* not wait for.
NotWritten(x) ==
  \/ inbox' = inbox /\ UNCHANGED parser
  \/ open /\ inbox' = inbox /\ parser' = "broken"
  \/ inbox' = Arrives(x) /\ UNCHANGED parser

\* The first half of execute, for call c: a fresh id, and the command is
\* written or the call fails.  The client's timeout is one that Instant can
\* represent.
Submit(c) ==
  /\ \/ /\ nextId = None
        /\ Return
        /\ UNCHANGED <<nextId, inbox, parser, sent>>
     \/ /\ nextId # None
        /\ nextId' = NextId(nextId)
        /\ sent' = sent + 1
        /\ \/ /\ Written(Request(c))
              /\ call' = [c EXCEPT !.id = nextId, !.request = sent + 1]
              /\ deadline' = "future"
              /\ phase' = "loop"
              /\ last' = Nothing
              /\ UNCHANGED <<timer, line>>
           \/ /\ NotWritten(Request(c))
              /\ Return
  /\ UNCHANGED <<events, wire, half, open, cpu, emitted, delivered, lost, alarms>>

\* A caller's command, or the first command of its register read.
Command(op, v) == call = NoCall /\ Submit(Lock(op, v))

\* The second command of a register read, with the mutex still held.
InfoRegisters == call # NoCall /\ phase = "ready" /\ Submit(call)

\* next_event up to its loop: a queued event first; nothing when the timeout is
\* zero ("past"); "none" is a deadline that Instant cannot represent.
NextEvent(d) ==
  /\ call = NoCall
  /\ \/ /\ events # <<>>
        /\ delivered' = Append(delivered, Head(events))
        /\ events' = Tail(events)
        /\ Return
     \/ /\ events = <<>> /\ d = "past"
        /\ Return
        /\ UNCHANGED <<events, delivered>>
     \/ /\ events = <<>> /\ d # "past"
        /\ deadline' = d
        /\ call' = Lock("event", None)
        /\ phase' = "loop"
        /\ last' = Nothing
        /\ UNCHANGED <<timer, line, events, delivered>>
  /\ UNCHANGED <<nextId, wire, server, sent, lost, alarms>>

-----------------------------------------------------------------------------
(* Receiving.                                                              *)

\* The head of the loop: give up when the deadline is past, else arm the
\* socket timeout with the time that remains and enter read_json.
LoopTop ==
  /\ phase = "loop"
  /\ IF deadline = "past"
     THEN Return
     ELSE /\ phase' = "read"
          /\ timer' = "running"
          /\ UNCHANGED <<call, deadline, line, last>>
  /\ UNCHANGED <<nextId, events, wire, server, sent, delivered, lost, alarms>>

\* Back to the head of the loop.
Continue ==
  /\ phase' = "loop"
  /\ timer' = "off"
  /\ line' = None
  /\ UNCHANGED <<call, deadline, last>>

\* Mutant: a full queue silently drops the event.
EnqueueDrops(n) ==
  /\ events' = IF Len(events) = Capacity THEN events ELSE Append(events, n)
  /\ lost' = IF Len(events) = Capacity THEN lost \cup {n} ELSE lost
  /\ Continue
  /\ UNCHANGED alarms

\* enqueue_event, called by execute: a full queue fails the command.
Enqueue(n) ==
  \/ /\ Len(events) = Capacity
     /\ lost' = lost \cup {n}
     /\ alarms' = alarms + 1
     /\ Return
     /\ UNCHANGED events
  \/ /\ Len(events) # Capacity
     /\ events' = Append(events, n)
     /\ Continue
     /\ UNCHANGED <<lost, alarms>>

\* A reply is told from the replies to earlier commands by its id.
Matches(m) == m.id = call.id

\* Mutant: a register read ignores that "cpu" failed.
AnsweredIgnoresSelection(m) ==
  IF call.stage = "cpu"
  THEN /\ call' = [call EXCEPT !.stage = "info", !.id = None, !.request = None,
                               !.refused = m.refused]
       /\ phase' = "ready"
       /\ deadline' = "none"
       /\ timer' = "off"
       /\ line' = None
       /\ UNCHANGED last
  ELSE IF m.ok THEN ReturnAnswer(m) ELSE Return

\* The reply to the current command.  After "cpu" a register read goes on to
\* "info registers" with the mutex held; the text of the reply to "cpu" is not
\* read, so that a refused selection goes unnoticed.
Answered(m) ==
  IF m.ok /\ call.stage = "cpu"
  THEN /\ call' = [call EXCEPT !.stage = "info", !.id = None, !.request = None,
                               !.refused = m.refused]
       /\ phase' = "ready"
       /\ deadline' = "none"
       /\ timer' = "off"
       /\ line' = None
       /\ UNCHANGED last
  ELSE IF m.ok THEN ReturnAnswer(m) ELSE Return

\* What the loops of execute and next_event make of a complete message.
Dispatch(m) ==
  \/ /\ m.kind = "event" /\ call.op = "event"
     /\ delivered' = Append(delivered, m.event)
     /\ Return
     /\ UNCHANGED <<events, lost, alarms>>
  \/ /\ m.kind = "event" /\ call.op # "event"
     /\ Enqueue(m.event)
     /\ UNCHANGED delivered
  \/ /\ m.kind = "reply" /\ call.op # "event" /\ Matches(m)
     /\ Answered(m)
     /\ UNCHANGED <<events, delivered, lost, alarms>>
  \/ /\ m.kind = "reply" /\ (call.op # "event" => ~Matches(m))
     /\ Continue
     /\ UNCHANGED <<events, delivered, lost, alarms>>

\* The rest of a line whose beginning went with an earlier call is not JSON.
Undecodable ==
  /\ alarms' = alarms + 1
  /\ Return
  /\ UNCHANGED <<events, delivered, lost>>

\* A turn of read_json's loop: fill_buf returns a piece.  An incomplete line
\* makes it wait again, with the socket timeout starting anew.
Fill ==
  /\ phase = "read" /\ wire # <<>>
  /\ wire' = Tail(wire)
  /\ \/ /\ Head(wire).part = "front"
        /\ line' = Head(wire).msg
        /\ timer' = "running"
        /\ UNCHANGED <<events, call, phase, deadline, history>>
     \/ /\ Head(wire).part = "whole" \/ (Head(wire).part = "back" /\ line # None)
        /\ Dispatch(Head(wire).msg)
     \/ /\ Head(wire).part = "back" /\ line = None
        /\ Undecodable
  /\ UNCHANGED <<nextId, server, sent>>

\* Mutant: a command whose read timed out goes on waiting.
ReadTimeoutWaitsAgain ==
  /\ phase = "read" /\ timer = "expired"
  /\ lost' = lost \cup LostWithLine
  /\ timer' = "running"
  /\ line' = None
  /\ UNCHANGED <<nextId, events, call, phase, deadline, delivered, alarms, last, server, wire,
                 sent>>

\* fill_buf times out.  Without a deadline next_event waits again; an
\* incomplete line is gone either way.
ReadTimeout ==
  /\ phase = "read" /\ timer = "expired"
  /\ lost' = lost \cup LostWithLine
  /\ IF call.op = "event" /\ deadline = "none"
     THEN Continue
     ELSE Return
  /\ UNCHANGED <<nextId, events, delivered, alarms, server, wire, sent>>

\* The line would exceed QMP_MESSAGE_CAPACITY.  What read_json holds of it is
\* gone, and the piece that is too much stays on the connection.
LineTooLong ==
  /\ phase = "read" /\ line # None /\ wire # <<>>
  /\ lost' = lost \cup LostWithLine
  /\ Return
  /\ UNCHANGED <<nextId, events, delivered, alarms, server, wire, sent>>

\* End of file: the connection is closed, and the call fails.
EndOfFile ==
  /\ phase = "read" /\ wire = <<>> /\ ~open
  /\ lost' = lost \cup LostWithLine
  /\ Return
  /\ UNCHANGED <<nextId, events, delivered, alarms, server, wire, sent>>

\* The deadline passes; the first wait of a read_json ends with it.
DeadlinePasses ==
  /\ deadline = "future"
  /\ deadline' = "past"
  /\ timer' = IF phase = "read" /\ line = None THEN "expired" ELSE timer
  /\ UNCHANGED <<nextId, events, call, phase, line, history, server, wire, sent>>

\* The socket timeout of another wait ends: one for the rest of a line, or a
\* wait slice of next_event.
SliceExpires ==
  /\ timer = "running"
  /\ line # None \/ call.op = "event"
  /\ timer' = "expired"
  /\ UNCHANGED <<nextId, events, call, phase, deadline, line, history, server, wire, sent>>

-----------------------------------------------------------------------------
(* The monitor.                                                            *)

\* A message is sent, as a whole or a first piece.
Send(m) ==
  /\ Len(wire) < SocketSize
  /\ \/ /\ wire' = Append(wire, [part |-> "whole", msg |-> m])
        /\ UNCHANGED half
     \/ /\ wire' = Append(wire, [part |-> "front", msg |-> m])
        /\ half' = m

SendRest ==
  /\ half # None /\ Len(wire) < SocketSize
  /\ wire' = Append(wire, [part |-> "back", msg |-> half])
  /\ half' = None
  /\ UNCHANGED <<client, history, open, inbox, parser, cpu, emitted, sent>>

\* The oldest command is executed and answered: with an error, or with a text,
\* which may say that the monitor refused to do it.  In the text of another
\* command than "cpu" that is an error too: nothing is found in it.
Execute(ok, refused) ==
  /\ open /\ half = None /\ inbox # <<>>
  /\ refused => ok /\ Head(inbox).stage = "cpu"
  /\ inbox' = Tail(inbox)
  /\ cpu' = IF ok /\ ~refused /\ Head(inbox).stage = "cpu" THEN Head(inbox).vcpu ELSE cpu
  /\ Send([kind |-> "reply", id |-> Head(inbox).id, ok |-> ok, refused |-> refused,
           request |-> Head(inbox).request,
           registers |-> IF Head(inbox).stage = "info" THEN cpu ELSE None])
  /\ UNCHANGED <<client, history, open, parser, emitted, sent>>

Emit ==
  /\ open /\ half = None /\ emitted < MaxEvents
  /\ emitted' = emitted + 1
  /\ Send([kind |-> "event", event |-> emitted + 1])
  /\ UNCHANGED <<client, history, open, inbox, parser, cpu, sent>>

\* The monitor is gone, and with it what it had not executed or sent.
Disconnect ==
  /\ open
  /\ open' = FALSE
  /\ half' = None
  /\ inbox' = <<>>
  /\ parser' = "ready"
  /\ cpu' = None
  /\ UNCHANGED <<client, history, emitted, wire, sent>>

Client ==
  \/ InfoRegisters
  \/ LoopTop
  \/ Fill
  \/ ReadTimeout
  \/ LineTooLong
  \/ EndOfFile

Next ==
  \/ Command("command", None)
  \/ \E v \in Vcpus : Command("registers", v)
  \/ \E d \in {"past", "future", "none"} : NextEvent(d)
  \/ Client
  \/ DeadlinePasses
  \/ SliceExpires
  \/ SendRest \/ (\E ok, refused \in BOOLEAN : Execute(ok, refused)) \/ Emit \/ Disconnect

Spec == Init /\ [][Next]_vars

\* The thread in the call runs, and time passes.
FairSpec ==
  /\ Spec
  /\ WF_vars(Client)
  /\ WF_vars(DeadlinePasses)
  /\ WF_vars(SliceExpires)

-----------------------------------------------------------------------------
(* Properties.                                                             *)

Message ==
  [kind : {"event"}, event : Nat] \cup
  [kind : {"reply"}, id : Nat, ok : BOOLEAN, refused : BOOLEAN, request : Nat,
   registers : Vcpus \cup {None}]

ASSUME NoneAssumption == None \notin Message

\* Every variable has its type, also when the request ids run out.
TypeOK ==
  /\ nextId \in 0..LastId \cup {None}
  /\ events \in Seq(Nat)
  /\ call \in [op : {"none", "command", "registers", "event"}, vcpu : Vcpus \cup {None},
               stage : {"none", "only", "cpu", "info"}, id : Nat \cup {None},
               request : Nat \cup {None}, refused : BOOLEAN]
  /\ phase \in {"ready", "loop", "read"}
  /\ deadline \in {"none", "future", "past"}
  /\ timer \in {"off", "running", "expired"}
  /\ line \in Message \cup {None}
  /\ wire \in Seq([part : {"whole", "front", "back"}, msg : Message])
  /\ half \in Message \cup {None}
  /\ open \in BOOLEAN
  /\ inbox \in Seq([id : Nat, stage : {"only", "cpu", "info"}, vcpu : Vcpus \cup {None},
                    request : Nat])
  /\ parser \in {"ready", "broken"}
  /\ cpu \in Vcpus \cup {None}
  /\ sent \in Nat /\ emitted \in Nat /\ alarms \in Nat
  /\ delivered \in Seq(Nat)
  /\ lost \in SUBSET Nat
  /\ last \in [op : {"none", "command", "registers"}, vcpu : Vcpus \cup {None},
               request : Nat \cup {None}, answered : Nat \cup {None},
               registers : Vcpus \cup {None}, refused : BOOLEAN]

\* A command that succeeds returns the monitor's answer to that very command,
\* whatever answers to commands that timed out are still under way and however
\* lines and commands were torn.
AnswersOwnRequest ==
  last # Nothing => last.answered = last.request

\* A register read that succeeds reports the vCPU it asked for, whatever vCPUs
\* earlier calls selected, also in commands the monitor executed late, unless the
\* monitor refused the selection in the text of its reply.
RegistersOfVcpu ==
  last.op = "registers" /\ ~last.refused => last.registers = last.vcpu

\* The pieces on the wire with which an event begins, and their events.
Fresh == {i \in 1..Len(wire) : wire[i].part # "back" /\ wire[i].msg.kind = "event"}
OnWire == {wire[i].msg.event : i \in Fresh}

\* Second pieces of which the first was dropped: on the wire, and to be sent.
Orphans ==
  {i \in 1..Len(wire) : /\ wire[i].part = "back"
                        /\ IF i = 1 THEN line = None ELSE wire[i - 1].part # "front"}
HalfOrphan ==
  /\ half # None
  /\ IF wire = <<>> THEN line = None ELSE wire[Len(wire)].part # "front"

\* Lines of which only the second piece will be read.
Torn == Cardinality(Orphans) + (IF HalfOrphan THEN 1 ELSE 0)

\* The events the client has taken off the connection, in order.
Kept == delivered \o events
KeptEvents == {Kept[i] : i \in 1..Len(Kept)}

\* Those delivered, then those queued, then the one of the incomplete line, then
\* those on the wire.
EventsInOrder ==
  /\ \A i, j \in 1..Len(Kept) : i < j => Kept[i] < Kept[j]
  /\ \A n \in KeptEvents, m \in LostWithLine \cup OnWire : n < m
  /\ \A n \in LostWithLine, m \in OnWire : n < m
  /\ \A i, j \in Fresh : i < j => wire[i].msg.event < wire[j].msg.event

\* Events reach the callers in the order the monitor emitted them, each at most
\* once, and one that is neither delivered nor on its way was dropped.  None is
\* dropped in silence: each has made a call fail, or will make the next one fail
\* that reads the rest of its line.
EventsAccounted ==
  /\ EventsInOrder
  /\ (KeptEvents \cup LostWithLine \cup OnWire) \cap lost = {}
  /\ KeptEvents \cup LostWithLine \cup OnWire \cup lost = 1..emitted
  /\ open => Cardinality(lost) <= alarms + Torn

\* A command returns.
CommandReturns == call.op \in {"command", "registers"} ~> call = NoCall

=============================================================================
