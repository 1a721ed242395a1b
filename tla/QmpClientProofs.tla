--------------------------- MODULE QmpClientProofs ---------------------------
(***************************************************************************)
(* Proofs about QmpClient, for any number of vCPUs, of request ids and of  *)
(* pieces in the connection.  The monitor executes commands in the order   *)
(* in which they were sent, so a reply under way was given before every    *)
(* command that still waits; with it a register read knows, once it has    *)
(* the reply to its "cpu", that no selection of an earlier call is left to *)
(* be executed before its "info registers".                                *)
(*                                                                         *)
(* The second part follows the events.  Lines are framed: the second piece *)
(* of a line follows the first, so dropping a first piece makes exactly    *)
(* one orphan, whose arrival fails a call.                                 *)
(***************************************************************************)
EXTENDS QmpClient, FiniteSetTheorems, FunctionTheorems, SequenceTheorems, TLAPS

\* The commands that wait at the monitor, the replies on their way to the client.
Waiting == {inbox[i] : i \in 1..Len(inbox)}
Replies ==
  {m \in {half} \cup {wire[i].msg : i \in 1..Len(wire)} : m # None /\ m.kind = "reply"}

\* Where a call can be: it lacks an id only before its first command, before
\* "info registers", and in next_event.
CallState ==
  /\ call.op = "registers" <=> call.stage \in {"cpu", "info"}
  /\ call.op = "none" => call = NoCall
  /\ call = NoCall => phase = "ready"
  /\ call # NoCall /\ phase = "ready" => call.stage = "info" /\ call.id = None
  /\ phase # "ready" /\ call.op # "event" => call.id # None

\* Ids count the commands: a command and its reply carry its number, the current
\* one is the last, and what waits was sent after what was answered.
Numbering ==
  /\ nextId # None => nextId = sent + 1
  /\ call.id # None => call.id = sent /\ call.request = sent
  /\ \A c \in Waiting : c.id = c.request /\ c.id <= sent
  /\ \A m \in Replies : m.id = m.request /\ m.id <= sent
  /\ \A m \in Replies, c \in Waiting : m.id < c.id
  /\ \A i, j \in 1..Len(inbox) : i < j => inbox[i].id < inbox[j].id

\* What the current call knows of the monitor's selection.
Selection ==
  /\ open \/ inbox = <<>>
  /\ \A c \in Waiting : c.id = call.id => c.stage = call.stage /\ c.vcpu = call.vcpu
  /\ call.stage = "info" =>
       /\ \A c \in Waiting : c.id = call.id
       /\ ~call.refused => cpu = call.vcpu \/ ~open
  /\ \A m \in Replies : m.id = call.id =>
       /\ call.stage = "cpu" /\ m.ok /\ ~m.refused => cpu = call.vcpu \/ ~open
       /\ call.stage = "info" /\ ~call.refused => m.registers = call.vcpu

Answers == AnswersOwnRequest /\ RegistersOfVcpu

QmpInv == TypeOK /\ CallState /\ Numbering /\ Selection /\ Answers

-----------------------------------------------------------------------------
(* Types.                                                                  *)

Calls == [op : {"none", "command", "registers", "event"}, vcpu : Vcpus \cup {None},
          stage : {"none", "only", "cpu", "info"}, id : Nat \cup {None},
          request : Nat \cup {None}, refused : BOOLEAN]
Pieces == [part : {"whole", "front", "back"}, msg : Message]
Commands == [id : Nat, stage : {"only", "cpu", "info"}, vcpu : Vcpus \cup {None}, request : Nat]
Results == [op : {"none", "command", "registers"}, vcpu : Vcpus \cup {None},
            request : Nat \cup {None}, answered : Nat \cup {None},
            registers : Vcpus \cup {None}, refused : BOOLEAN]

\* The types of the client's variables, and of the others.
ClientTypes ==
  /\ nextId \in 0..LastId \cup {None}
  /\ events \in Seq(Nat)
  /\ call \in Calls
  /\ phase \in {"ready", "loop", "read"}
  /\ deadline \in {"none", "future", "past"}
  /\ timer \in {"off", "running", "expired"}
  /\ line \in Message \cup {None}
  /\ sent \in Nat /\ alarms \in Nat
  /\ delivered \in Seq(Nat)
  /\ lost \in SUBSET Nat
  /\ last \in Results

MonitorTypes ==
  /\ wire \in Seq(Pieces)
  /\ half \in Message \cup {None}
  /\ inbox \in Seq(Commands)
  /\ parser \in {"ready", "broken"}
  /\ cpu \in Vcpus \cup {None}
  /\ emitted \in Nat

\* The parts make up the type invariant.
LEMMA TypeParts ==
  /\ TypeOK <=> ClientTypes /\ MonitorTypes /\ open \in BOOLEAN
  /\ TypeOK' <=> ClientTypes' /\ MonitorTypes' /\ open' \in BOOLEAN
BY Zenon DEF TypeOK, ClientTypes, MonitorTypes, Calls, Pieces, Commands, Results

\* The call and the result of a client that does nothing.
LEMMA IdleTypes ==
  /\ NoCall \in Calls /\ NoCall.op = "none" /\ NoCall.stage = "none" /\ NoCall.id = None
  /\ Nothing \in Results /\ Nothing.op = "none" /\ NoCall.vcpu = None
BY DEF NoCall, Nothing, Calls, Results

\* The call with which a caller gets the mutex.
LEMMA LockTypes ==
  ASSUME NEW op \in {"command", "registers", "event"}, NEW v \in Vcpus \cup {None}
  PROVE  /\ Lock(op, v) \in Calls
         /\ Lock(op, v).op = op /\ Lock(op, v).vcpu = v /\ Lock(op, v).id = None
         /\ op = "registers" => Lock(op, v).stage = "cpu"
         /\ op # "registers" => Lock(op, v).stage = "only"
         /\ Lock(op, v) # NoCall
<1>1. PICK g : g = (IF op = "registers" THEN "cpu" ELSE "only")
  OBVIOUS
<1>2. Lock(op, v) = [NoCall EXCEPT !.op = op, !.vcpu = v, !.stage = g]
  BY <1>1 DEF Lock
<1>3. PICK c \in Calls : c = NoCall
  BY IdleTypes
<1>4. Lock(op, v) = [op |-> op, vcpu |-> v, stage |-> g, id |-> c.id, request |-> c.request,
                     refused |-> c.refused]
  BY <1>2, <1>3 DEF Calls
<1>5. c.id = None /\ c.request = None /\ c.refused = FALSE
  BY <1>3 DEF NoCall
<1>6. QED
  BY <1>1, <1>4, <1>5, IdleTypes DEF Calls

\* A call that has sent a command.
LEMMA SentTypes ==
  ASSUME NEW c \in Calls, NEW n \in Nat
  PROVE  /\ [c EXCEPT !.id = n, !.request = n] \in Calls
         /\ [c EXCEPT !.id = n, !.request = n].op = c.op
         /\ [c EXCEPT !.id = n, !.request = n].vcpu = c.vcpu
         /\ [c EXCEPT !.id = n, !.request = n].stage = c.stage
         /\ [c EXCEPT !.id = n, !.request = n].refused = c.refused
         /\ [c EXCEPT !.id = n, !.request = n].id = n
         /\ [c EXCEPT !.id = n, !.request = n].request = n
BY DEF Calls

\* Sequences as sets of their elements.
LEMMA SequenceSets ==
  ASSUME NEW S, NEW q \in Seq(S), NEW x \in S
  PROVE  /\ Append(q, x) \in Seq(S)
         /\ {Append(q, x)[i] : i \in 1..Len(Append(q, x))} = {q[i] : i \in 1..Len(q)} \cup {x}
         /\ q # <<>> =>
              /\ Tail(q) \in Seq(S) /\ Head(q) \in S
              /\ Len(Tail(q)) = Len(q) - 1
              /\ \A i \in 1..Len(Tail(q)) : Tail(q)[i] = q[i + 1]
              /\ Head(q) = q[1] /\ 1 \in 1..Len(q)
<1>1. /\ Append(q, x) \in Seq(S) /\ Len(Append(q, x)) = Len(q) + 1
      /\ \A i \in 1..Len(q) : Append(q, x)[i] = q[i]
      /\ Append(q, x)[Len(q) + 1] = x
  BY AppendProperties
<1>2. {Append(q, x)[i] : i \in 1..Len(Append(q, x))} = {q[i] : i \in 1..Len(q)} \cup {x}
  BY <1>1
<1>3. QED
  BY <1>1, <1>2, HeadTailProperties

\* What waits and what is on its way has its type.
LEMMA ElementTypes ==
  ASSUME TypeOK
  PROVE  /\ \A c \in Waiting : c \in Commands /\ c.id \in Nat /\ c.id # None
         /\ \A m \in Replies : m \in Message /\ m.id \in Nat /\ m.id # None /\ m.request \in Nat
<1>1. wire \in Seq(Pieces) /\ inbox \in Seq(Commands) /\ half \in Message \cup {None}
  BY TypeParts DEF MonitorTypes
<1>2. \A c \in Waiting : c \in Commands
  BY <1>1 DEF Waiting
<1>3. \A i \in 1..Len(wire) : wire[i].msg \in Message
  <2>1. \A i \in 1..Len(wire) : wire[i] \in Pieces
    BY <1>1
  <2>2. \A p \in Pieces : p.msg \in Message
    BY DEF Pieces
  <2>3. QED
    BY <2>1, <2>2
<1>4. \A m \in Replies : m \in Message /\ m.kind = "reply"
  BY <1>1, <1>3 DEF Replies
<1>5. \A m \in Message : m.kind = "reply" => m.id \in Nat /\ m.request \in Nat
  BY DEF Message
<1>6. QED
  BY <1>2, <1>4, <1>5, QmpAssumption DEF Commands

-----------------------------------------------------------------------------
(* The client.                                                             *)

\* A step of the client that sends nothing knows no more than before, if the
\* call goes on as it was, ends, or waits for an event.
LEMMA QuietKeeps ==
  ASSUME TypeOK, Numbering, Selection, UNCHANGED <<nextId, inbox, sent, open, cpu>>,
         Replies' \subseteq Replies,
         call' = call \/ (call'.id = None /\ call'.stage \notin {"cpu", "info"})
  PROVE  Numbering' /\ Selection'
<1>1. Waiting' = Waiting
  BY DEF Waiting
<1>2. Numbering'
  BY <1>1 DEF Numbering
<1>3. Selection'
  <2>1. CASE call' = call
    BY <1>1, <2>1 DEF Selection
  <2>2. CASE call'.id = None /\ call'.stage \notin {"cpu", "info"}
    BY <1>1, <2>2, ElementTypes DEF Selection
  <2>3. QED
    BY <2>1, <2>2
<1>4. QED
  BY <1>2, <1>3

\* A piece is taken from the connection.
LEMMA PieceTaken ==
  ASSUME TypeOK, wire # <<>>, wire' = Tail(wire), UNCHANGED half
  PROVE  /\ wire' \in Seq(Pieces) /\ Replies' \subseteq Replies
         /\ Head(wire) \in Pieces /\ Head(wire).msg \in Message
         /\ Head(wire).msg.kind = "reply" => Head(wire).msg \in Replies
<1>1. wire \in Seq(Pieces)
  BY TypeParts DEF MonitorTypes
<1>2. Head(wire) \in Pieces
  BY <1>1, SequenceSets
<1>3. /\ wire' \in Seq(Pieces)
      /\ Len(wire') = Len(wire) - 1 /\ Head(wire) = wire[1] /\ 1 \in 1..Len(wire)
      /\ \A i \in 1..Len(wire') : wire'[i] = wire[i + 1]
  BY <1>1, <1>2, SequenceSets
<1>4. \A i \in 1..Len(wire') : i + 1 \in 1..Len(wire) /\ wire'[i].msg = wire[i + 1].msg
  BY <1>1, <1>3
<1>5. Replies' \subseteq Replies
  BY <1>4 DEF Replies
<1>6. Head(wire).msg \in Message
  BY <1>2 DEF Pieces
<1>7. Head(wire).msg.kind = "reply" => Head(wire).msg \in Replies
  BY <1>3, <1>6, NoneAssumption DEF Replies
<1>8. QED
  BY <1>2, <1>3, <1>5, <1>6, <1>7

\* The variables of the monitor that a step of the client leaves alone.
Remote == <<half, open, inbox, parser, cpu, emitted, wire>>

\* A call that ends without an answer.
LEMMA ReturnKeeps ==
  ASSUME QmpInv, Return
  PROVE  /\ CallState' /\ Answers'
         /\ call' \in Calls /\ phase' \in {"ready", "loop", "read"}
         /\ deadline' \in {"none", "future", "past"} /\ timer' \in {"off", "running", "expired"}
         /\ line' \in Message \cup {None} /\ last' \in Results
         /\ call'.id = None /\ call'.stage \notin {"cpu", "info"}
<1>1. /\ call' = NoCall /\ phase' = "ready" /\ deadline' = "none" /\ timer' = "off"
      /\ line' = None /\ last' = Nothing
  BY DEF Return, Release
<1>2. CallState'
  BY <1>1, IdleTypes DEF CallState
<1>3. Answers'
  BY <1>1, IdleTypes DEF Answers, AnswersOwnRequest, RegistersOfVcpu
<1>4. QED
  BY <1>1, <1>2, <1>3, IdleTypes

\* A call that goes back to the head of its loop.
LEMMA ContinueKeeps ==
  ASSUME QmpInv, phase = "read", Continue
  PROVE  /\ CallState' /\ Answers'
         /\ call' \in Calls /\ phase' \in {"ready", "loop", "read"}
         /\ deadline' \in {"none", "future", "past"} /\ timer' \in {"off", "running", "expired"}
         /\ line' \in Message \cup {None} /\ last' \in Results
         /\ call' = call
<1>1. /\ UNCHANGED <<call, deadline, last>> /\ phase' = "loop" /\ timer' = "off" /\ line' = None
  BY DEF Continue
<1>2. ClientTypes
  BY TypeParts DEF QmpInv
<1>3. CallState'
  BY <1>1 DEF QmpInv, CallState
<1>4. Answers'
  BY <1>1 DEF QmpInv, Answers, AnswersOwnRequest, RegistersOfVcpu
<1>5. QED
  BY <1>1, <1>2, <1>3, <1>4 DEF ClientTypes

\* The head of the loop.
LEMMA LoopTopKeeps == QmpInv /\ LoopTop => QmpInv'
<1> SUFFICES ASSUME QmpInv, LoopTop PROVE QmpInv'
  OBVIOUS
<1>0. TypeOK /\ CallState /\ Numbering /\ Selection /\ Answers /\ ClientTypes
  BY TypeParts DEF QmpInv
<1>1. UNCHANGED <<nextId, events, Remote, sent, delivered, lost, alarms>> /\ phase = "loop"
  BY DEF LoopTop, server, Remote
<1>2. Replies' = Replies
  BY <1>1 DEF Replies, Remote
<1>3. /\ CallState' /\ Answers'
      /\ call' \in Calls /\ phase' \in {"ready", "loop", "read"}
      /\ deadline' \in {"none", "future", "past"} /\ timer' \in {"off", "running", "expired"}
      /\ line' \in Message \cup {None} /\ last' \in Results
      /\ call' = call \/ (call'.id = None /\ call'.stage \notin {"cpu", "info"})
  <2>1. CASE deadline = "past"
    <3>1. Return
      BY <2>1 DEF LoopTop
    <3>2. QED
      BY <3>1, ReturnKeeps
  <2>2. CASE deadline # "past"
    <3>1. phase' = "read" /\ timer' = "running" /\ UNCHANGED <<call, deadline, line, last>>
      BY <2>2 DEF LoopTop
    <3>2. CallState'
      BY <1>0, <1>1, <3>1 DEF CallState
    <3>3. Answers'
      BY <1>0, <3>1 DEF Answers, AnswersOwnRequest, RegistersOfVcpu
    <3>4. QED
      BY <1>0, <3>1, <3>2, <3>3 DEF ClientTypes
  <2>3. QED
    BY <2>1, <2>2
<1>4. TypeOK'
  <2>1. ClientTypes'
    BY <1>0, <1>1, <1>3 DEF ClientTypes
  <2>2. MonitorTypes' /\ open' \in BOOLEAN
    BY <1>0, <1>1, TypeParts DEF MonitorTypes, Remote
  <2>3. QED
    BY <2>1, <2>2, TypeParts
<1>5. Numbering' /\ Selection'
  BY <1>0, <1>1, <1>2, <1>3, QuietKeeps DEF Remote
<1>6. QED
  BY <1>3, <1>4, <1>5 DEF QmpInv

\* A wait that ends without a piece: at its timeout, for a line that is too long, or
\* at the end of the stream.
LEMMA WaitEndsKeeps == QmpInv /\ (ReadTimeout \/ LineTooLong \/ EndOfFile) => QmpInv'
<1> SUFFICES ASSUME QmpInv, ReadTimeout \/ LineTooLong \/ EndOfFile PROVE QmpInv'
  OBVIOUS
<1>0. TypeOK /\ CallState /\ Numbering /\ Selection /\ Answers /\ ClientTypes
  BY TypeParts DEF QmpInv
<1>1. /\ UNCHANGED <<nextId, events, Remote, sent, delivered, alarms>> /\ phase = "read"
      /\ lost' = lost \cup LostWithLine /\ (Return \/ Continue)
  BY DEF ReadTimeout, LineTooLong, EndOfFile, server, Remote
<1>2. Replies' = Replies
  BY <1>1 DEF Replies, Remote
<1>3. /\ CallState' /\ Answers'
      /\ call' \in Calls /\ phase' \in {"ready", "loop", "read"}
      /\ deadline' \in {"none", "future", "past"} /\ timer' \in {"off", "running", "expired"}
      /\ line' \in Message \cup {None} /\ last' \in Results
      /\ call' = call \/ (call'.id = None /\ call'.stage \notin {"cpu", "info"})
  BY <1>1, ReturnKeeps, ContinueKeeps
<1>4. TypeOK'
  <2>0. LostWithLine \subseteq Nat
    BY <1>0 DEF ClientTypes, LostWithLine, Message
  <2>1. ClientTypes'
    BY <1>0, <1>1, <1>3, <2>0 DEF ClientTypes
  <2>2. MonitorTypes' /\ open' \in BOOLEAN
    BY <1>0, <1>1, TypeParts DEF MonitorTypes, Remote
  <2>3. QED
    BY <2>1, <2>2, TypeParts
<1>5. Numbering' /\ Selection'
  BY <1>0, <1>1, <1>2, <1>3, QuietKeeps DEF Remote
<1>6. QED
  BY <1>3, <1>4, <1>5 DEF QmpInv

\* Time passes.
LEMMA TimeKeeps == QmpInv /\ (DeadlinePasses \/ SliceExpires) => QmpInv'
<1> SUFFICES ASSUME QmpInv, DeadlinePasses \/ SliceExpires PROVE QmpInv'
  OBVIOUS
<1>0. TypeOK /\ CallState /\ Numbering /\ Selection /\ Answers /\ ClientTypes
  BY TypeParts DEF QmpInv
<1>1. /\ UNCHANGED <<nextId, events, Remote, sent, delivered, lost, alarms, call, phase, line, last>>
      /\ deadline' \in {"none", "future", "past"} /\ timer' \in {"off", "running", "expired"}
  BY <1>0 DEF DeadlinePasses, SliceExpires, server, history, Remote, ClientTypes
<1>2. Replies' = Replies
  BY <1>1 DEF Replies, Remote
<1>3. CallState' /\ Answers'
  BY <1>0, <1>1 DEF CallState, Answers, AnswersOwnRequest, RegistersOfVcpu
<1>4. TypeOK'
  <2>1. ClientTypes'
    BY <1>0, <1>1 DEF ClientTypes
  <2>2. MonitorTypes' /\ open' \in BOOLEAN
    BY <1>0, <1>1, TypeParts DEF MonitorTypes, Remote
  <2>3. QED
    BY <2>1, <2>2, TypeParts
<1>5. Numbering' /\ Selection'
  BY <1>0, <1>1, <1>2, QuietKeeps DEF Remote
<1>6. QED
  BY <1>3, <1>4, <1>5 DEF QmpInv

\* next_event up to its loop.
LEMMA NextEventKeeps ==
  ASSUME NEW d \in {"past", "future", "none"}
  PROVE  QmpInv /\ NextEvent(d) => QmpInv'
<1> SUFFICES ASSUME QmpInv, NextEvent(d) PROVE QmpInv'
  OBVIOUS
<1>0. TypeOK /\ CallState /\ Numbering /\ Selection /\ Answers /\ ClientTypes
  BY TypeParts DEF QmpInv
<1>1. UNCHANGED <<nextId, Remote, sent, lost, alarms>>
  BY DEF NextEvent, server, Remote
<1>2. Replies' = Replies
  BY <1>1 DEF Replies, Remote
<1>3. /\ CallState' /\ Answers'
      /\ call' \in Calls /\ phase' \in {"ready", "loop", "read"}
      /\ deadline' \in {"none", "future", "past"} /\ timer' \in {"off", "running", "expired"}
      /\ line' \in Message \cup {None} /\ last' \in Results
      /\ call'.id = None /\ call'.stage \notin {"cpu", "info"}
  <2>1. CASE Return
    BY <2>1, ReturnKeeps
  <2>2. CASE /\ deadline' = d /\ call' = Lock("event", None) /\ phase' = "loop" /\ last' = Nothing
             /\ UNCHANGED <<timer, line>>
    <3>1. CallState'
      BY <2>2, LockTypes DEF CallState
    <3>2. Answers'
      BY <2>2, IdleTypes DEF Answers, AnswersOwnRequest, RegistersOfVcpu
    <3>3. QED
      BY <1>0, <2>2, <3>1, <3>2, LockTypes, IdleTypes DEF ClientTypes
  <2>3. QED
    BY <2>1, <2>2 DEF NextEvent
<1>4. TypeOK'
  <2>0. events' \in Seq(Nat) /\ delivered' \in Seq(Nat)
    <3>1. CASE UNCHANGED <<events, delivered>>
      BY <1>0, <3>1 DEF ClientTypes
    <3>2. CASE events # <<>> /\ delivered' = Append(delivered, Head(events)) /\ events' = Tail(events)
      <4>1. Head(events) \in Nat /\ Tail(events) \in Seq(Nat)
        BY <1>0, <3>2 DEF ClientTypes
      <4>2. QED
        BY <1>0, <3>2, <4>1, SequenceSets DEF ClientTypes
    <3>3. QED
      BY <3>1, <3>2 DEF NextEvent
  <2>1. ClientTypes'
    BY <1>0, <1>1, <1>3, <2>0 DEF ClientTypes
  <2>2. MonitorTypes' /\ open' \in BOOLEAN
    BY <1>0, <1>1, TypeParts DEF MonitorTypes, Remote
  <2>3. QED
    BY <2>1, <2>2, TypeParts
<1>5. Numbering' /\ Selection'
  BY <1>0, <1>1, <1>2, <1>3, QuietKeeps DEF Remote
<1>6. QED
  BY <1>3, <1>4, <1>5 DEF QmpInv

\* The reply to "cpu" arrives: it was the last command sent, so nothing waits at
\* the monitor, and the vCPU stays selected unless the monitor refused it.
LEMMA SelectedKeeps ==
  ASSUME QmpInv, NEW m \in Replies, Matches(m), m.ok, call.stage = "cpu",
         UNCHANGED <<nextId, inbox, sent, open, cpu, last>>, Replies' \subseteq Replies,
         Answered(m)
  PROVE  /\ CallState' /\ Answers' /\ Numbering' /\ Selection'
         /\ call' \in Calls /\ phase' \in {"ready", "loop", "read"}
         /\ deadline' \in {"none", "future", "past"} /\ timer' \in {"off", "running", "expired"}
         /\ line' \in Message \cup {None} /\ last' \in Results
<1>0. TypeOK /\ CallState /\ Numbering /\ Selection /\ Answers /\ ClientTypes
  BY TypeParts DEF QmpInv
<1>1. /\ call' = [call EXCEPT !.stage = "info", !.id = None, !.request = None, !.refused = m.refused]
      /\ phase' = "ready" /\ deadline' = "none" /\ timer' = "off" /\ line' = None
  BY DEF Answered
<1>2. m.refused \in BOOLEAN /\ call \in Calls
  <2>1. m \in Message /\ m.kind = "reply"
    BY <1>0, ElementTypes DEF Replies
  <2>2. \A x \in Message : x.kind = "reply" => x.refused \in BOOLEAN
    BY DEF Message
  <2>3. QED
    BY <1>0, <2>1, <2>2 DEF ClientTypes
<1>3. /\ call' \in Calls /\ call'.op = call.op /\ call'.vcpu = call.vcpu
      /\ call'.stage = "info" /\ call'.id = None /\ call'.refused = m.refused
  <2>0. PICK c \in Calls, r \in BOOLEAN : c = call /\ r = m.refused
    BY <1>2
  <2>1. PICK d : c = call /\ r = m.refused /\ d = call'
    BY <2>0
  <2>2. d = [c EXCEPT !.stage = "info", !.id = None, !.request = None, !.refused = r]
    BY <1>1, <2>1
  <2>3. /\ d \in Calls /\ d.op = c.op /\ d.vcpu = c.vcpu
        /\ d.stage = "info" /\ d.id = None /\ d.refused = r
    <3>1. d = [op |-> c.op, vcpu |-> c.vcpu, stage |-> "info", id |-> None, request |-> None,
               refused |-> r]
      BY <2>2 DEF Calls
    <3>2. QED
      BY <3>1 DEF Calls
  <2>4. QED
    BY <2>1, <2>3
<1>4. CallState'
  BY <1>0, <1>1, <1>3, IdleTypes DEF CallState
<1>5. Answers'
  BY <1>0 DEF Answers, AnswersOwnRequest, RegistersOfVcpu
<1>6. Waiting = {} /\ Waiting' = {}
  <2>1. m.id = sent
    BY <1>0, ElementTypes DEF Matches, Numbering
  <2>2. Waiting = {}
    BY <1>0, <2>1, ElementTypes DEF Numbering, ClientTypes
  <2>3. QED
    BY <2>2 DEF Waiting
<1>7. Numbering'
  <2>1. \A i, j \in 1..Len(inbox') : i < j => inbox'[i].id < inbox'[j].id
    BY <1>0 DEF Numbering
  <2>2. QED
    BY <1>0, <1>3, <1>6, <2>1 DEF Numbering
<1>8. Selection'
  <2>1. ~m.refused => cpu = call.vcpu \/ ~open
    BY <1>0 DEF Selection, Matches
  <2>2. \A x \in Replies' : x.id # call'.id
    BY <1>0, <1>3, ElementTypes
  <2>3. QED
    BY <1>0, <1>3, <1>6, <2>1, <2>2 DEF Selection
<1>9. QED
  BY <1>0, <1>1, <1>3, <1>4, <1>5, <1>7, <1>8 DEF ClientTypes

\* The answer of a call goes to its caller: it is the one to its own command, and
\* registers are those of its vCPU.
LEMMA AnswerKeeps ==
  ASSUME QmpInv, NEW m \in Replies, Matches(m), call.stage # "cpu", call.op # "event",
         phase = "read", ReturnAnswer(m)
  PROVE  /\ CallState' /\ Answers'
         /\ call' \in Calls /\ phase' \in {"ready", "loop", "read"}
         /\ deadline' \in {"none", "future", "past"} /\ timer' \in {"off", "running", "expired"}
         /\ line' \in Message \cup {None} /\ last' \in Results
         /\ call'.id = None /\ call'.stage \notin {"cpu", "info"}
<1>0. TypeOK /\ CallState /\ Numbering /\ Selection /\ Answers /\ ClientTypes
  BY TypeParts DEF QmpInv
<1>1. /\ call' = NoCall /\ phase' = "ready" /\ deadline' = "none" /\ timer' = "off" /\ line' = None
      /\ last' = [op |-> call.op, vcpu |-> call.vcpu, request |-> call.request,
                  answered |-> m.request, registers |-> m.registers, refused |-> call.refused]
  BY DEF ReturnAnswer, Release
<1>2. CallState'
  BY <1>1, IdleTypes DEF CallState
<1>3. m.id = m.request /\ call.id # None /\ call.id = sent /\ call.request = sent /\ m.id = call.id
  BY <1>0, ElementTypes DEF Numbering, Matches
<1>4. last'.answered = last'.request
  BY <1>1, <1>3
<1>5. last'.op = "registers" /\ ~last'.refused => last'.registers = last'.vcpu
  <2>1. last'.op = call.op /\ last'.refused = call.refused /\ last'.registers = m.registers
        /\ last'.vcpu = call.vcpu
    BY <1>1
  <2>2. call.op = "registers" => call.stage = "info"
    BY <1>0 DEF CallState
  <2>3. QED
    BY <1>0, <1>3, <2>1, <2>2 DEF Selection
<1>6. Answers'
  BY <1>4, <1>5 DEF Answers, AnswersOwnRequest, RegistersOfVcpu
<1>7. last' \in Results
  <2>1. m \in Message /\ m.kind = "reply"
    BY <1>0, ElementTypes DEF Replies
  <2>2. \A x \in Message : x.kind = "reply" => x.request \in Nat /\ x.registers \in Vcpus \cup {None}
    BY DEF Message
  <2>3. call \in Calls
    BY <1>0 DEF ClientTypes
  <2>4. QED
    BY <1>1, <2>1, <2>2, <2>3 DEF Calls, Results
<1>8. QED
  BY <1>1, <1>2, <1>6, <1>7, IdleTypes

\* A piece arrives.
LEMMA FillKeeps == QmpInv /\ Fill => QmpInv'
<1> SUFFICES ASSUME QmpInv, Fill PROVE QmpInv'
  OBVIOUS
<1>0. TypeOK /\ CallState /\ Numbering /\ Selection /\ Answers /\ ClientTypes
  BY TypeParts DEF QmpInv
<1>1. /\ phase = "read" /\ wire # <<>> /\ wire' = Tail(wire)
      /\ UNCHANGED <<nextId, half, open, inbox, parser, cpu, emitted, sent>>
  BY DEF Fill, server
<1> DEFINE m == Head(wire).msg
<1>2. /\ wire' \in Seq(Pieces) /\ Replies' \subseteq Replies /\ m \in Message
      /\ m.kind = "reply" => m \in Replies
  BY <1>0, <1>1, PieceTaken
<1>3. m.kind = "event" => m.event \in Nat
  <2>1. \A x \in Message : x.kind = "event" => x.event \in Nat
    BY DEF Message
  <2>2. QED
    BY <1>2, <2>1
<1>4. \/ /\ line' = m /\ timer' = "running"
         /\ UNCHANGED <<events, call, phase, deadline, delivered, lost, alarms, last>>
      \/ Dispatch(m)
      \/ Undecodable
  BY DEF Fill, history
<1> HIDE DEF m
<1>5. events' \in Seq(Nat) /\ delivered' \in Seq(Nat) /\ lost' \in SUBSET Nat /\ alarms' \in Nat
  <2>1. CASE UNCHANGED <<events, delivered, lost>> /\ alarms' \in {alarms, alarms + 1}
    BY <1>0, <2>1 DEF ClientTypes
  <2>2. CASE /\ m.kind = "event" /\ delivered' = Append(delivered, m.event)
             /\ UNCHANGED <<events, lost, alarms>>
    BY <1>0, <1>3, <2>2, SequenceSets DEF ClientTypes
  <2>3. CASE m.kind = "event" /\ Enqueue(m.event) /\ UNCHANGED delivered
    <3>1. CASE lost' = lost \cup {m.event} /\ alarms' = alarms + 1 /\ UNCHANGED events
      <4>1. {m.event} \subseteq Nat
        BY <1>3, <2>3
      <4>2. /\ events \in Seq(Nat) /\ delivered \in Seq(Nat) /\ lost \subseteq Nat
            /\ alarms \in Nat
        BY <1>0 DEF ClientTypes
      <4>3. lost' \in SUBSET Nat
        BY <3>1, <4>1, <4>2
      <4>4. QED
        BY <2>3, <3>1, <4>2, <4>3
    <3>2. CASE events' = Append(events, m.event) /\ UNCHANGED <<lost, alarms>>
      BY <1>0, <1>3, <2>3, <3>2, SequenceSets DEF ClientTypes
    <3>3. QED
      BY <2>3, <3>1, <3>2 DEF Enqueue
  <2>4. QED
    BY <1>4, <2>1, <2>2, <2>3 DEF Dispatch, Undecodable
<1>6. /\ CallState' /\ Answers' /\ Numbering' /\ Selection'
      /\ call' \in Calls /\ phase' \in {"ready", "loop", "read"}
      /\ deadline' \in {"none", "future", "past"} /\ timer' \in {"off", "running", "expired"}
      /\ line' \in Message \cup {None} /\ last' \in Results
  <2>1. CASE Return
    <3>1. Numbering' /\ Selection'
      BY <1>0, <1>1, <1>2, <2>1, ReturnKeeps, QuietKeeps
    <3>2. QED
      BY <2>1, <3>1, ReturnKeeps
  <2>2. CASE Continue
    <3>1. Numbering' /\ Selection'
      BY <1>0, <1>1, <1>2, <2>2, ContinueKeeps, QuietKeeps
    <3>2. QED
      BY <1>1, <2>2, <3>1, ContinueKeeps
  <2>3. CASE line' = m /\ timer' = "running" /\ UNCHANGED <<call, phase, deadline, last>>
    <3>1. Numbering' /\ Selection'
      BY <1>0, <1>1, <1>2, <2>3, QuietKeeps
    <3>2. CallState' /\ Answers'
      BY <1>0, <2>3 DEF CallState, Answers, AnswersOwnRequest, RegistersOfVcpu
    <3>3. QED
      BY <1>0, <1>2, <2>3, <3>1, <3>2 DEF ClientTypes
  <2>4. CASE m \in Replies /\ call.op # "event" /\ Matches(m) /\ Answered(m)
    <3>1. CASE m.ok /\ call.stage = "cpu"
      <4>1. UNCHANGED last
        BY <2>4, <3>1 DEF Answered
      <4>2. QED
        BY <1>1, <1>2, <2>4, <3>1, <4>1, SelectedKeeps
    <3>2. CASE m.ok /\ call.stage # "cpu"
      <4>1. ReturnAnswer(m)
        BY <2>4, <3>2 DEF Answered
      <4>2. /\ call'.id = None /\ call'.stage \notin {"cpu", "info"}
            /\ CallState' /\ Answers'
            /\ call' \in Calls /\ phase' \in {"ready", "loop", "read"}
            /\ deadline' \in {"none", "future", "past"} /\ timer' \in {"off", "running", "expired"}
            /\ line' \in Message \cup {None} /\ last' \in Results
        BY <1>1, <2>4, <3>2, <4>1, AnswerKeeps
      <4>3. Numbering' /\ Selection'
        BY <1>0, <1>1, <1>2, <4>2, QuietKeeps
      <4>4. QED
        BY <4>2, <4>3
    <3>3. CASE ~m.ok
      BY <2>1, <2>4, <3>3 DEF Answered
    <3>4. QED
      BY <3>1, <3>2, <3>3
  <2>5. QED
    BY <1>2, <1>4, <2>1, <2>2, <2>3, <2>4 DEF Dispatch, Enqueue, Undecodable
<1>7. TypeOK'
  <2>1. ClientTypes'
    BY <1>0, <1>1, <1>5, <1>6 DEF ClientTypes
  <2>2. MonitorTypes' /\ open' \in BOOLEAN
    BY <1>0, <1>1, <1>2, TypeParts DEF MonitorTypes
  <2>3. QED
    BY <2>1, <2>2, TypeParts
<1>8. QED
  BY <1>6, <1>7 DEF QmpInv

\* The command with the next number arrives at the monitor, or does not: if it
\* does, it waits behind all that were sent before.
LEMMA CommandAdded ==
  ASSUME TypeOK, Numbering, Selection, NEW x \in Commands, x.id = sent + 1, x.request = sent + 1,
         sent' = sent + 1, UNCHANGED <<wire, half>>,
         inbox' = inbox \/ (open /\ inbox' = Append(inbox, x))
  PROVE  /\ sent \in Nat /\ sent' \in Nat /\ Replies' = Replies
         /\ inbox' \in Seq(Commands) /\ Waiting' \subseteq Waiting \cup {x}
         /\ open \/ inbox' = <<>>
         /\ \A i, j \in 1..Len(inbox') : i < j => inbox'[i].id < inbox'[j].id
         /\ \A y \in Waiting' : y.id = y.request /\ y.id <= sent'
         /\ \A m \in Replies' : m.id = m.request /\ m.id <= sent' /\ \A y \in Waiting' : m.id < y.id
<1>0. ClientTypes /\ MonitorTypes
  BY TypeParts
<1>1. sent \in Nat /\ sent' \in Nat /\ inbox \in Seq(Commands)
  BY <1>0 DEF ClientTypes, MonitorTypes
<1>2. Replies' = Replies
  BY DEF Replies
<1>3. inbox' \in Seq(Commands) /\ Waiting' \subseteq Waiting \cup {x} /\ (open \/ inbox' = <<>>)
  <2>1. CASE inbox' = inbox
    BY <1>1, <2>1 DEF Waiting, Selection
  <2>2. CASE open /\ inbox' = Append(inbox, x)
    BY <1>1, <2>2, SequenceSets DEF Waiting
  <2>3. QED
    BY <2>1, <2>2
<1>4. \A i, j \in 1..Len(inbox') : i < j => inbox'[i].id < inbox'[j].id
  <2>1. CASE inbox' = inbox
    BY <2>1 DEF Numbering
  <2>2. CASE inbox' = Append(inbox, x)
    <3>1. /\ Len(inbox') = Len(inbox) + 1 /\ inbox'[Len(inbox) + 1] = x
          /\ \A i \in 1..Len(inbox) : inbox'[i] = inbox[i]
      BY <1>1, <2>2, AppendProperties
    <3>2. \A i \in 1..Len(inbox) : inbox[i].id \in Nat /\ inbox[i].id <= sent
      BY ElementTypes DEF Numbering, Waiting
    <3>3. PICK n \in Nat : n = Len(inbox)
      BY <1>1
    <3>4. \A i, j \in 1..n : i < j => inbox[i].id < inbox[j].id
      BY <3>3 DEF Numbering
    <3>5. \A i \in 1..n : inbox[i].id < x.id
      BY <1>1, <3>2, <3>3
    <3>6. ASSUME NEW i \in 1..n + 1, NEW j \in 1..n + 1, i < j PROVE inbox'[i].id < inbox'[j].id
      <4>1. i \in 1..n /\ inbox'[i] = inbox[i]
        BY <3>1, <3>3, <3>6
      <4>2. CASE j = n + 1
        BY <3>1, <3>3, <3>5, <4>1, <4>2
      <4>3. CASE j # n + 1
        <5>1. j \in 1..n /\ inbox'[j] = inbox[j]
          BY <3>1, <3>3, <3>6, <4>3
        <5>2. QED
          BY <3>4, <3>6, <4>1, <5>1
      <4>4. QED
        BY <4>2, <4>3
    <3>7. QED
      BY <3>1, <3>3, <3>6
  <2>3. QED
    BY <2>1, <2>2
<1>5. \A y \in Waiting' : y.id = y.request /\ y.id <= sent'
  BY <1>1, <1>3, ElementTypes DEF Numbering
<1>6. \A m \in Replies' : m.id = m.request /\ m.id <= sent' /\ \A y \in Waiting' : m.id < y.id
  BY <1>1, <1>2, <1>3, ElementTypes DEF Numbering
<1>7. QED
  BY <1>1, <1>2, <1>3, <1>4, <1>5, <1>6

\* A command is sent, or the call fails at once: the command gets a number that
\* no command has had, and waits behind all that were sent before.
LEMMA SubmitKeeps ==
  ASSUME QmpInv, NEW c \in Calls, Submit(c), c.id = None, c.op \in {"command", "registers"},
         c.stage = "cpu" \/ c.stage = "info" <=> c.op = "registers",
         c.stage \in {"only", "cpu", "info"},
         c.stage = "info" => Waiting = {} /\ (~c.refused => cpu = c.vcpu \/ ~open)
  PROVE  QmpInv'
<1>0. TypeOK /\ CallState /\ Numbering /\ Selection /\ Answers /\ ClientTypes /\ MonitorTypes
  BY TypeParts DEF QmpInv
<1>1. UNCHANGED <<events, wire, half, open, cpu, emitted, delivered, lost, alarms>>
  BY DEF Submit
<1>2. Replies' = Replies
  BY <1>1 DEF Replies
<1>3. CASE nextId = None /\ Return /\ UNCHANGED <<nextId, inbox, parser, sent>>
  <2>1. Numbering' /\ Selection'
    BY <1>0, <1>1, <1>2, <1>3, ReturnKeeps, QuietKeeps
  <2>2. ClientTypes' /\ MonitorTypes' /\ open' \in BOOLEAN
    BY <1>0, <1>1, <1>3, ReturnKeeps, TypeParts DEF ClientTypes, MonitorTypes
  <2>3. QED
    BY <1>3, <2>1, <2>2, ReturnKeeps, TypeParts DEF QmpInv
<1>4. ASSUME nextId # None, nextId' = NextId(nextId), sent' = sent + 1,
             Written(Request(c)) \/ NotWritten(Request(c))
      PROVE  /\ nextId = sent + 1 /\ nextId \in Nat /\ sent \in Nat
             /\ nextId' \in 0..LastId \cup {None}
             /\ nextId' # None => nextId' = sent' + 1
             /\ parser' \in {"ready", "broken"} /\ inbox' \in Seq(Commands) /\ (open \/ inbox' = <<>>)
             /\ \A i, j \in 1..Len(inbox') : i < j => inbox'[i].id < inbox'[j].id
             /\ \A y \in Waiting' : y.id = y.request /\ y.id <= sent'
             /\ \A m \in Replies' : m.id = m.request /\ m.id <= sent' /\ \A y \in Waiting' : m.id < y.id
             /\ \A y \in Waiting' :
                  \/ y \in Waiting
                  \/ y.id = sent + 1 /\ y.stage = c.stage /\ y.vcpu = c.vcpu
  <2>1. /\ nextId = sent + 1 /\ nextId \in Nat /\ sent \in Nat
        /\ nextId' \in 0..LastId \cup {None}
        /\ nextId' # None => nextId' = sent' + 1
    BY <1>0, <1>4, QmpAssumption DEF Numbering, ClientTypes, NextId
  <2>2. PICK x : x = Request(c)
    OBVIOUS
  <2>3. /\ x \in Commands /\ x.id = sent + 1 /\ x.request = sent + 1
        /\ x.stage = c.stage /\ x.vcpu = c.vcpu
    BY <2>1, <2>2 DEF Calls, Commands, Request
  <2>4. /\ inbox' = inbox \/ (open /\ inbox' = Append(inbox, x))
        /\ parser' \in {"ready", "broken"}
    BY <1>0, <1>4, <2>2 DEF Written, NotWritten, Arrives, MonitorTypes
  <2>5. /\ inbox' \in Seq(Commands) /\ Waiting' \subseteq Waiting \cup {x}
        /\ open \/ inbox' = <<>>
        /\ \A i, j \in 1..Len(inbox') : i < j => inbox'[i].id < inbox'[j].id
        /\ \A y \in Waiting' : y.id = y.request /\ y.id <= sent'
        /\ \A m \in Replies' : m.id = m.request /\ m.id <= sent' /\ \A y \in Waiting' : m.id < y.id
    BY <1>0, <1>1, <1>4, <2>3, <2>4, CommandAdded
  <2>6. QED
    BY <2>1, <2>3, <2>4, <2>5
<1>5. CASE /\ nextId # None /\ nextId' = NextId(nextId) /\ sent' = sent + 1
           /\ NotWritten(Request(c)) /\ Return
  <2>1. call'.id = None /\ call'.stage \notin {"cpu", "info"}
    BY <1>5, ReturnKeeps
  <2>2. Numbering'
    BY <1>4, <1>5, <2>1 DEF Numbering
  <2>3. Selection'
    <3>1. \A y \in Waiting' : y.id # call'.id
      BY <1>4, <1>5, <2>1, ElementTypes, QmpAssumption, <1>0
    <3>2. \A m \in Replies' : m.id # call'.id
      BY <1>0, <1>2, <2>1, ElementTypes
    <3>3. QED
      BY <1>1, <1>4, <1>5, <2>1, <3>1, <3>2 DEF Selection
  <2>4. ClientTypes' /\ MonitorTypes' /\ open' \in BOOLEAN
    BY <1>0, <1>1, <1>4, <1>5, ReturnKeeps, TypeParts DEF ClientTypes, MonitorTypes
  <2>5. QED
    BY <1>5, <2>2, <2>3, <2>4, ReturnKeeps, TypeParts DEF QmpInv
<1>6. CASE /\ nextId # None /\ nextId' = NextId(nextId) /\ sent' = sent + 1
           /\ Written(Request(c))
           /\ call' = [c EXCEPT !.id = nextId, !.request = sent + 1]
           /\ deadline' = "future" /\ phase' = "loop" /\ last' = Nothing
           /\ UNCHANGED <<timer, line>>
  <2>1. nextId = sent + 1 /\ sent + 1 \in Nat /\ sent \in Nat
    BY <1>4, <1>6
  <2>5. call' = [c EXCEPT !.id = sent + 1, !.request = sent + 1]
    BY <1>6, <2>1
  <2>6. /\ call' \in Calls /\ call'.op = c.op /\ call'.vcpu = c.vcpu /\ call'.stage = c.stage
        /\ call'.refused = c.refused /\ call'.id = sent + 1 /\ call'.request = sent + 1
    BY <2>1, <2>5, SentTypes
  <2>7. /\ parser' \in {"ready", "broken"} /\ inbox' \in Seq(Commands) /\ (open \/ inbox' = <<>>)
        /\ \A y \in Waiting' :
             \/ y \in Waiting
             \/ y.id = sent + 1 /\ y.stage = c.stage /\ y.vcpu = c.vcpu
    BY <1>4, <1>6
  <2>8. CallState'
    BY <1>6, <2>1, <2>6, IdleTypes, QmpAssumption DEF CallState
  <2>9. Numbering'
    BY <1>4, <1>6, <2>6 DEF Numbering
  <2>10. Selection'
    <3>1. \A y \in Waiting' : y.id = call'.id => y.stage = call'.stage /\ y.vcpu = call'.vcpu
      BY <1>0, <2>1, <2>6, <2>7, ElementTypes DEF Numbering
    <3>2. call'.stage = "info" =>
            /\ \A y \in Waiting' : y.id = call'.id
            /\ ~call'.refused => cpu = call'.vcpu \/ ~open
      BY <2>6, <2>7
    <3>3. \A m \in Replies' : m.id # call'.id
      BY <1>0, <1>2, <2>1, <2>6, ElementTypes DEF Numbering
    <3>4. QED
      BY <1>1, <2>7, <3>1, <3>2, <3>3 DEF Selection
  <2>11. Answers'
    BY <1>6, IdleTypes DEF Answers, AnswersOwnRequest, RegistersOfVcpu
  <2>12. ClientTypes' /\ MonitorTypes' /\ open' \in BOOLEAN
    BY <1>0, <1>1, <1>4, <1>6, <2>6, <2>7, IdleTypes, TypeParts DEF ClientTypes, MonitorTypes
  <2>13. QED
    BY <2>8, <2>9, <2>10, <2>11, <2>12, TypeParts DEF QmpInv
<1>7. QED
  BY <1>3, <1>5, <1>6 DEF Submit

\* A call begins with a command.
LEMMA CommandKeeps ==
  ASSUME NEW op \in {"command", "registers"}, NEW v \in Vcpus \cup {None}
  PROVE  QmpInv /\ Command(op, v) => QmpInv'
<1> SUFFICES ASSUME QmpInv, Command(op, v) PROVE QmpInv'
  OBVIOUS
<1>0. op \in {"command", "registers", "event"}
  OBVIOUS
<1>1. /\ Lock(op, v) \in Calls /\ Lock(op, v).op = op /\ Lock(op, v).id = None
      /\ op = "registers" => Lock(op, v).stage = "cpu"
      /\ op # "registers" => Lock(op, v).stage = "only"
  BY <1>0, LockTypes
<1>2. PICK c : c = Lock(op, v)
  OBVIOUS
<1>3. /\ c \in Calls /\ c.op \in {"command", "registers"} /\ c.id = None
      /\ c.stage \in {"only", "cpu"} /\ (c.stage = "cpu" <=> c.op = "registers")
  BY <1>1, <1>2
<1>4. Submit(c)
  BY <1>2 DEF Command
<1>5. QED
  BY <1>3, <1>4, SubmitKeeps

\* A register read goes on to its second command.
LEMMA InfoRegistersKeeps == QmpInv /\ InfoRegisters => QmpInv'
<1> SUFFICES ASSUME QmpInv, InfoRegisters PROVE QmpInv'
  OBVIOUS
<1>0. TypeOK /\ CallState /\ Numbering /\ Selection /\ call \in Calls
  BY TypeParts DEF QmpInv, ClientTypes
<1>1. call.stage = "info" /\ call.id = None /\ call.op = "registers" /\ Submit(call)
  BY <1>0 DEF InfoRegisters, CallState
<1>2. Waiting = {} /\ (~call.refused => cpu = call.vcpu \/ ~open)
  BY <1>0, <1>1, ElementTypes DEF Selection
<1>3. QED
  BY <1>0, <1>1, <1>2, SubmitKeeps

-----------------------------------------------------------------------------
(* The monitor.                                                            *)

\* The variables of the client.
Local == <<nextId, events, call, phase, deadline, timer, line, delivered, lost, alarms, last, sent>>

\* A step of the monitor changes nothing that a call knows of itself.
LEMMA LocalKeeps ==
  ASSUME QmpInv, UNCHANGED Local
  PROVE  CallState' /\ Answers' /\ ClientTypes'
<1>1. CallState' /\ Answers'
  BY DEF QmpInv, Local, CallState, Answers, AnswersOwnRequest, RegistersOfVcpu
<1>2. ClientTypes
  BY TypeParts DEF QmpInv
<1>3. QED
  BY <1>1, <1>2 DEF Local, ClientTypes

\* A message enters the connection.
LEMMA SendAdds ==
  ASSUME TypeOK, half = None, NEW m \in Message, Send(m)
  PROVE  /\ wire' \in Seq(Pieces) /\ half' \in Message \cup {None}
         /\ Replies' \subseteq Replies \cup {m}
         /\ m.kind # "reply" => Replies' \subseteq Replies
<1>1. wire \in Seq(Pieces)
  BY TypeParts DEF MonitorTypes
<1>2. PICK x \in Pieces : x.msg = m /\ wire' = Append(wire, x) /\ half' \in {half, m}
  <2>1. \A part \in {"whole", "front"} : [part |-> part, msg |-> m] \in Pieces
    BY DEF Pieces
  <2>2. QED
    BY <2>1 DEF Send
<1>3. wire' \in Seq(Pieces) /\ half' \in Message \cup {None}
  BY <1>1, <1>2, SequenceSets
<1>4. /\ Len(wire') = Len(wire) + 1 /\ wire'[Len(wire) + 1] = x
      /\ \A i \in 1..Len(wire) : wire'[i] = wire[i]
  BY <1>1, <1>2, AppendProperties
<1>5. \A i \in 1..Len(wire') : wire'[i].msg = m \/ \E j \in 1..Len(wire) : wire'[i].msg = wire[j].msg
  BY <1>1, <1>2, <1>4
<1>6. \A y \in Replies' : y = m \/ y \in Replies
  BY <1>2, <1>5 DEF Replies
<1>7. m.kind # "reply" => m \notin Replies'
  BY DEF Replies
<1>8. QED
  BY <1>3, <1>6, <1>7

\* The monitor sends the rest of a line.
LEMMA SendRestKeeps == QmpInv /\ SendRest => QmpInv'
<1> SUFFICES ASSUME QmpInv, SendRest PROVE QmpInv'
  OBVIOUS
<1>0. TypeOK /\ Numbering /\ Selection /\ MonitorTypes
  BY TypeParts DEF QmpInv
<1>1. /\ UNCHANGED Local /\ UNCHANGED <<open, inbox, parser, cpu, emitted>>
      /\ half' = None /\ half # None
  BY DEF SendRest, client, history, Local
<1>2. PICK x \in Pieces : x.msg = half /\ wire' = Append(wire, x)
  BY <1>0 DEF SendRest, Pieces, MonitorTypes
<1>3. wire \in Seq(Pieces) /\ wire' \in Seq(Pieces)
  BY <1>0, <1>2, SequenceSets DEF MonitorTypes
<1>4. /\ Len(wire') = Len(wire) + 1 /\ wire'[Len(wire) + 1] = x
      /\ \A i \in 1..Len(wire) : wire'[i] = wire[i]
  BY <1>2, <1>3, AppendProperties
<1>5. \A i \in 1..Len(wire') : wire'[i].msg = half \/ \E j \in 1..Len(wire) : wire'[i].msg = wire[j].msg
  BY <1>2, <1>3, <1>4
<1>6. Replies' \subseteq Replies
  BY <1>1, <1>5 DEF Replies
<1>7. Numbering' /\ Selection'
  BY <1>0, <1>1, <1>6, QuietKeeps DEF Local
<1>8. MonitorTypes' /\ open' \in BOOLEAN
  BY <1>0, <1>1, <1>3, TypeParts DEF MonitorTypes
<1>9. QED
  BY <1>1, <1>7, <1>8, LocalKeeps, TypeParts DEF QmpInv

\* The monitor emits an event.
LEMMA EmitKeeps == QmpInv /\ Emit => QmpInv'
<1> SUFFICES ASSUME QmpInv, Emit PROVE QmpInv'
  OBVIOUS
<1>0. TypeOK /\ Numbering /\ Selection /\ MonitorTypes
  BY TypeParts DEF QmpInv
<1>1. /\ UNCHANGED Local /\ UNCHANGED <<open, inbox, parser, cpu>> /\ half = None
      /\ emitted' = emitted + 1
  BY DEF Emit, client, history, Local
<1>2. PICK m : m = [kind |-> "event", event |-> emitted + 1]
  OBVIOUS
<1>3. m \in Message /\ m.kind = "event" /\ Send(m)
  BY <1>0, <1>2 DEF Emit, Message, MonitorTypes
<1>4. wire' \in Seq(Pieces) /\ half' \in Message \cup {None} /\ Replies' \subseteq Replies
  BY <1>0, <1>1, <1>3, SendAdds
<1>5. Numbering' /\ Selection'
  BY <1>0, <1>1, <1>4, QuietKeeps DEF Local
<1>6. MonitorTypes' /\ open' \in BOOLEAN
  BY <1>0, <1>1, <1>4, TypeParts DEF MonitorTypes
<1>7. QED
  BY <1>1, <1>5, <1>6, LocalKeeps, TypeParts DEF QmpInv

\* The monitor is gone: nothing waits any more.
LEMMA DisconnectKeeps == QmpInv /\ Disconnect => QmpInv'
<1> SUFFICES ASSUME QmpInv, Disconnect PROVE QmpInv'
  OBVIOUS
<1>0. TypeOK /\ Numbering /\ Selection /\ MonitorTypes
  BY TypeParts DEF QmpInv
<1>1. /\ UNCHANGED Local /\ UNCHANGED <<wire, emitted>>
      /\ open' = FALSE /\ half' = None /\ inbox' = <<>> /\ parser' = "ready" /\ cpu' = None
  BY DEF Disconnect, client, history, Local
<1>2. Replies' \subseteq Replies /\ Waiting' = {}
  BY <1>1 DEF Replies, Waiting
<1>3. Numbering'
  BY <1>0, <1>1, <1>2 DEF Numbering, Local
<1>4. Selection'
  BY <1>0, <1>1, <1>2 DEF Selection, Local
<1>5. MonitorTypes'
  BY <1>0, <1>1 DEF MonitorTypes
<1>6. open' \in BOOLEAN
  BY <1>1
<1>7. QED
  BY <1>1, <1>3, <1>4, <1>5, <1>6, LocalKeeps, TypeParts DEF QmpInv

\* The oldest command is executed and answered.  If it selects a vCPU, no call
\* relies on the one selected before: the reply that would make it do so would
\* be to the last command sent, and then none waits.
LEMMA ExecuteKeeps ==
  ASSUME NEW ok \in BOOLEAN, NEW refused \in BOOLEAN
  PROVE  QmpInv /\ Execute(ok, refused) => QmpInv'
<1> SUFFICES ASSUME QmpInv, Execute(ok, refused) PROVE QmpInv'
  OBVIOUS
<1>0. TypeOK /\ Numbering /\ Selection /\ MonitorTypes /\ sent \in Nat
  BY TypeParts DEF QmpInv, ClientTypes
<1>1. /\ UNCHANGED Local /\ UNCHANGED <<open, parser, emitted>>
      /\ half = None /\ inbox # <<>> /\ open
      /\ inbox' = Tail(inbox)
  BY DEF Execute, client, history, Local
<1>2. PICK c : c = Head(inbox)
  OBVIOUS
<1>3. /\ c \in Commands /\ inbox \in Seq(Commands) /\ inbox' \in Seq(Commands)
      /\ Len(inbox') = Len(inbox) - 1 /\ c = inbox[1] /\ 1 \in 1..Len(inbox)
      /\ \A i \in 1..Len(inbox') : inbox'[i] = inbox[i + 1] /\ i + 1 \in 1..Len(inbox)
  BY <1>0, <1>1, <1>2, HeadTailProperties DEF MonitorTypes
<1>4. c \in Waiting /\ Waiting' \subseteq Waiting /\ \A y \in Waiting' : c.id < y.id
  <2>1. c \in Waiting /\ Waiting' \subseteq Waiting
    BY <1>3 DEF Waiting
  <2>2. \A i \in 1..Len(inbox') : c.id < inbox'[i].id
    BY <1>0, <1>3 DEF Numbering
  <2>3. QED
    BY <2>1, <2>2 DEF Waiting
<1>5. cpu' = IF ok /\ ~refused /\ c.stage = "cpu" THEN c.vcpu ELSE cpu
  BY <1>2 DEF Execute
<1>6. PICK m : m = [kind |-> "reply", id |-> c.id, ok |-> ok, refused |-> refused,
                    request |-> c.request, registers |-> IF c.stage = "info" THEN cpu ELSE None]
  OBVIOUS
<1>7. /\ m \in Message /\ m.kind = "reply" /\ m.id = c.id /\ m.request = c.request
      /\ c.stage = "info" => m.registers = cpu
  BY <1>0, <1>3, <1>6 DEF Message, MonitorTypes, Commands
<1>8. m.ok = ok /\ m.refused = refused
  BY <1>6
<1>9. Send(m)
  BY <1>2, <1>6 DEF Execute
<1>10. wire' \in Seq(Pieces) /\ half' \in Message \cup {None} /\ Replies' \subseteq Replies \cup {m}
  BY <1>0, <1>1, <1>7, <1>9, SendAdds
<1>11. Numbering'
  <2>1. ASSUME NEW i \in 1..Len(inbox'), NEW j \in 1..Len(inbox'), i < j
        PROVE  inbox'[i].id < inbox'[j].id
    <3>1. /\ inbox'[i] = inbox[i + 1] /\ i + 1 \in 1..Len(inbox)
          /\ inbox'[j] = inbox[j + 1] /\ j + 1 \in 1..Len(inbox)
      BY <1>3
    <3>2. PICK a : a = i + 1
      OBVIOUS
    <3>3. PICK b : b = j + 1
      OBVIOUS
    <3>4. a < b
      BY <2>1, <3>2, <3>3
    <3>5. \A k, l \in 1..Len(inbox) : k < l => inbox[k].id < inbox[l].id
      BY <1>0 DEF Numbering
    <3>6. QED
      BY <3>1, <3>2, <3>3, <3>4, <3>5
  <2>2. \A y \in Replies' : y.id = y.request /\ y.id <= sent /\ \A z \in Waiting' : y.id < z.id
    BY <1>0, <1>4, <1>7, <1>10 DEF Numbering
  <2>3. QED
    BY <1>0, <1>1, <1>4, <2>1, <2>2 DEF Numbering, Local
<1>12. Selection'
  <2>1. call.stage = "info" => cpu' = cpu
    BY <1>0, <1>4, <1>5 DEF Selection
  <2>2. ASSUME NEW y \in Replies, y.id = call.id PROVE FALSE
    BY <1>0, <1>3, <1>4, <2>2, ElementTypes DEF Numbering
  <2>3. m.id = call.id =>
          /\ call.stage = "cpu" /\ m.ok /\ ~m.refused => cpu' = call.vcpu
          /\ call.stage = "info" /\ ~call.refused => m.registers = call.vcpu
    BY <1>0, <1>1, <1>4, <1>5, <1>7, <1>8 DEF Selection
  <2>4. QED
    BY <1>0, <1>1, <1>4, <1>10, <2>1, <2>2, <2>3 DEF Selection, Local
<1>13. MonitorTypes' /\ open' \in BOOLEAN
  BY <1>0, <1>1, <1>3, <1>5, <1>10, TypeParts DEF MonitorTypes, Commands
<1>14. QED
  BY <1>1, <1>11, <1>12, <1>13, LocalKeeps, TypeParts DEF QmpInv

-----------------------------------------------------------------------------
\* At first no call is in progress and nothing is on its way.
LEMMA InitQmp == Init => QmpInv
<1> SUFFICES ASSUME Init PROVE QmpInv
  OBVIOUS
<1>1. ClientTypes /\ MonitorTypes
  BY IdleTypes, QmpAssumption DEF Init, ClientTypes, MonitorTypes
<1>2. open \in BOOLEAN
  BY DEF Init
<1>3. Waiting = {} /\ Replies = {}
  BY DEF Init, Waiting, Replies
<1>4. CallState
  BY IdleTypes DEF Init, CallState
<1>5. Numbering
  BY <1>3, IdleTypes DEF Init, Numbering
<1>6. Selection
  BY <1>3, IdleTypes DEF Init, Selection
<1>7. Answers
  BY IdleTypes DEF Init, Answers, AnswersOwnRequest, RegistersOfVcpu
<1>8. QED
  BY <1>1, <1>2, <1>4, <1>5, <1>6, <1>7, TypeParts DEF QmpInv

\* Every step keeps the invariant.
LEMMA NextKeeps == QmpInv /\ [Next]_vars => QmpInv'
<1> SUFFICES ASSUME QmpInv, [Next]_vars PROVE QmpInv'
  OBVIOUS
<1>1. CASE Command("command", None) \/ \E v \in Vcpus : Command("registers", v)
  BY <1>1, CommandKeeps
<1>2. CASE \E d \in {"past", "future", "none"} : NextEvent(d)
  BY <1>2, NextEventKeeps
<1>3. CASE Client
  BY <1>3, InfoRegistersKeeps, LoopTopKeeps, FillKeeps, WaitEndsKeeps DEF Client
<1>4. CASE DeadlinePasses \/ SliceExpires
  BY <1>4, TimeKeeps
<1>5. CASE SendRest \/ (\E ok, refused \in BOOLEAN : Execute(ok, refused)) \/ Emit \/ Disconnect
  BY <1>5, SendRestKeeps, ExecuteKeeps, EmitKeeps, DisconnectKeeps
<1>6. CASE UNCHANGED vars
  <2>1. UNCHANGED Local /\ UNCHANGED <<wire, half, open, inbox, parser, cpu, emitted>>
    BY <1>6 DEF vars, client, history, server, Local
  <2>2. TypeOK /\ Numbering /\ Selection /\ MonitorTypes
    BY TypeParts DEF QmpInv
  <2>3. Replies' = Replies
    BY <2>1 DEF Replies
  <2>4. Numbering' /\ Selection'
    BY <2>1, <2>2, <2>3, QuietKeeps DEF Local
  <2>5. MonitorTypes' /\ open' \in BOOLEAN
    BY <2>1, <2>2, TypeParts DEF MonitorTypes
  <2>6. QED
    BY <2>1, <2>4, <2>5, LocalKeeps, TypeParts DEF QmpInv
<1>7. QED
  BY <1>1, <1>2, <1>3, <1>4, <1>5, <1>6 DEF Next

\* Every reachable state of the client and the monitor satisfies the invariant.
LEMMA QmpInvariant == Spec => []QmpInv
<1>1. QED
  BY InitQmp, NextKeeps, PTL DEF Spec

\* A command that succeeds returns the monitor's answer to that very command,
\* whatever replies to commands that timed out before are still under way.
THEOREM QmpAnswersOwnRequest == Spec => []AnswersOwnRequest
<1>1. QmpInv => AnswersOwnRequest
  BY DEF QmpInv, Answers
<1>2. QED
  BY <1>1, QmpInvariant, PTL

\* A register read that succeeds reports the vCPU it asked for, although the
\* selection is state of the monitor that every call shares and that commands
\* of calls long given up still change.
THEOREM QmpRegistersOfVcpu == Spec => []RegistersOfVcpu
<1>1. QmpInv => RegistersOfVcpu
  BY DEF QmpInv, Answers
<1>2. QED
  BY <1>1, QmpInvariant, PTL

-----------------------------------------------------------------------------
(* Events.                                                                 *)

\* Between reads no line is held, and next_event waits only with an empty queue.
ClientFraming ==
  /\ phase # "read" => line = None
  /\ call.op = "event" => events = <<>>

\* The second piece of a line follows the first: on the wire, or still to be sent.
WireFraming ==
  /\ ~open => half = None
  /\ line # None =>
       IF wire = <<>> THEN open => half = line
                      ELSE wire[1].part = "back" /\ wire[1].msg = line
  /\ \A i \in 1..Len(wire) : wire[i].part = "front" =>
       IF i = Len(wire) THEN open => half = wire[i].msg
                        ELSE wire[i + 1].part = "back" /\ wire[i + 1].msg = wire[i].msg

\* The inductive invariant of the accounting, next to QmpInv.
EventInv == ClientFraming /\ WireFraming /\ EventsAccounted

\* The pieces on the wire.
LEMMA WireTypes ==
  ASSUME TypeOK
  PROVE  /\ wire \in Seq(Pieces) /\ Len(wire) \in Nat /\ Fresh \subseteq 1..Len(wire)
         /\ \A i \in 1..Len(wire) : wire[i].part \in {"whole", "front", "back"} /\ wire[i].msg \in Message
         /\ \A i \in Fresh : wire[i].msg.event \in Nat
         /\ OnWire \subseteq Nat /\ LostWithLine \subseteq Nat
         /\ None \notin Message
<1>1. wire \in Seq(Pieces) /\ line \in Message \cup {None}
  BY TypeParts DEF MonitorTypes, ClientTypes
<1>2. None \notin Message
  BY NoneAssumption
<1>3. \A m \in Message : m.kind = "event" => m.event \in Nat
  BY DEF Message
<1>4. \A i \in 1..Len(wire) : wire[i].part \in {"whole", "front", "back"} /\ wire[i].msg \in Message
  <2>1. \A p \in Pieces : p.part \in {"whole", "front", "back"} /\ p.msg \in Message
    BY DEF Pieces
  <2>2. \A i \in 1..Len(wire) : wire[i] \in Pieces
    BY <1>1
  <2>3. QED
    BY <2>1, <2>2
<1>5. Fresh \subseteq 1..Len(wire) /\ \A i \in Fresh : wire[i].msg.event \in Nat
  BY <1>3, <1>4 DEF Fresh
<1>6. LostWithLine \subseteq Nat
  BY <1>1, <1>3 DEF LostWithLine
<1>7. QED
  BY <1>1, <1>2, <1>4, <1>5, <1>6 DEF OnWire

\* The events taken off the connection.
LEMMA KeptTypes ==
  ASSUME TypeOK
  PROVE  /\ Kept \in Seq(Nat) /\ KeptEvents \subseteq Nat /\ Len(Kept) \in Nat
         /\ lost \subseteq Nat /\ emitted \in Nat /\ alarms \in Nat
<1>1. /\ delivered \in Seq(Nat) /\ events \in Seq(Nat) /\ lost \subseteq Nat /\ emitted \in Nat
      /\ alarms \in Nat
  BY TypeParts DEF ClientTypes, MonitorTypes
<1>2. Kept \in Seq(Nat)
  BY <1>1 DEF Kept
<1>3. QED
  BY <1>1, <1>2 DEF KeptEvents

\* The first piece is taken off the wire.
LEMMA WireTaken ==
  ASSUME TypeOK, wire # <<>>, wire' = Tail(wire)
  PROVE  /\ 1 \in 1..Len(wire) /\ Head(wire) = wire[1] /\ Len(wire') = Len(wire) - 1
         /\ \A i \in 1..Len(wire') : i + 1 \in 1..Len(wire) /\ wire'[i] = wire[i + 1]
         /\ Fresh' = {i \in 1..Len(wire') : i + 1 \in Fresh}
         /\ OnWire = OnWire' \cup (IF 1 \in Fresh THEN {wire[1].msg.event} ELSE {})
         /\ EventsInOrder =>
              /\ \A i, j \in Fresh' : i < j => wire'[i].msg.event < wire'[j].msg.event
              /\ 1 \in Fresh => \A m \in OnWire' : wire[1].msg.event < m
<1>1. wire \in Seq(Pieces) /\ Len(wire) \in Nat
  BY WireTypes
<1>2. /\ 1 \in 1..Len(wire) /\ Head(wire) = wire[1] /\ Len(wire') = Len(wire) - 1
      /\ \A i \in 1..Len(wire') : i + 1 \in 1..Len(wire) /\ wire'[i] = wire[i + 1]
  BY <1>1
<1>3. Fresh' = {i \in 1..Len(wire') : i + 1 \in Fresh}
  BY <1>2 DEF Fresh
<1>4. ASSUME NEW i \in Fresh, i # 1 PROVE i - 1 \in Fresh' /\ wire'[i - 1] = wire[i]
  <2>1. i \in 1..Len(wire) /\ i - 1 \in 1..Len(wire') /\ (i - 1) + 1 = i
    BY <1>1, <1>2, <1>4 DEF Fresh
  <2>2. QED
    BY <1>2, <1>3, <2>1
<1>5. ASSUME NEW i \in Fresh' PROVE /\ i + 1 \in Fresh /\ wire'[i] = wire[i + 1] /\ i + 1 # 1
                                    /\ i \in Nat
  BY <1>1, <1>2, <1>3
<1>6. OnWire = OnWire' \cup (IF 1 \in Fresh THEN {wire[1].msg.event} ELSE {})
  <2>1. ASSUME NEW n \in OnWire PROVE n \in OnWire' \cup (IF 1 \in Fresh THEN {wire[1].msg.event} ELSE {})
    <3>1. PICK i \in Fresh : n = wire[i].msg.event
      BY DEF OnWire
    <3>2. CASE i = 1
      BY <3>1, <3>2
    <3>3. CASE i # 1
      <4>1. i - 1 \in Fresh' /\ wire'[i - 1] = wire[i]
        BY <1>4, <3>3
      <4>2. n \in OnWire'
        BY <3>1, <4>1 DEF OnWire
      <4>3. QED
        BY <4>2
    <3>4. QED
      BY <3>2, <3>3
  <2>2. ASSUME NEW n \in OnWire' PROVE n \in OnWire
    <3>1. PICK i \in Fresh' : n = wire'[i].msg.event
      BY DEF OnWire
    <3>2. QED
      BY <1>5, <3>1 DEF OnWire
  <2>3. 1 \in Fresh => wire[1].msg.event \in OnWire
    BY DEF OnWire
  <2>4. QED
    BY <2>1, <2>2, <2>3
<1>7. ASSUME EventsInOrder
      PROVE  /\ \A i, j \in Fresh' : i < j => wire'[i].msg.event < wire'[j].msg.event
             /\ 1 \in Fresh => \A m \in OnWire' : wire[1].msg.event < m
  <2>1. \A i, j \in Fresh : i < j => wire[i].msg.event < wire[j].msg.event
    BY <1>7 DEF EventsInOrder
  <2>2. ASSUME NEW i \in Fresh', NEW j \in Fresh', i < j
        PROVE  wire'[i].msg.event < wire'[j].msg.event
    <3>1. /\ i + 1 \in Fresh /\ j + 1 \in Fresh /\ i \in Nat /\ j \in Nat
          /\ wire'[i] = wire[i + 1] /\ wire'[j] = wire[j + 1]
      BY <1>5
    <3>2. i + 1 < j + 1
      BY <2>2, <3>1
    <3>3. QED
      BY <2>1, <3>1, <3>2
  <2>3. ASSUME 1 \in Fresh, NEW m \in OnWire' PROVE wire[1].msg.event < m
    <3>1. PICK i \in Fresh' : m = wire'[i].msg.event
      BY DEF OnWire
    <3>2. i + 1 \in Fresh /\ wire'[i] = wire[i + 1] /\ 1 < i + 1
      BY <1>3, <1>5
    <3>3. QED
      BY <2>1, <2>3, <3>1, <3>2
  <2>4. QED
    BY <2>2, <2>3
<1>8. QED
  BY <1>2, <1>3, <1>6, <1>7

\* A piece is put on the wire.
LEMMA WireAdded ==
  ASSUME TypeOK, NEW p \in Pieces, wire' = Append(wire, p)
  PROVE  /\ Len(wire') = Len(wire) + 1 /\ wire'[Len(wire) + 1] = p /\ wire' # <<>>
         /\ \A i \in 1..Len(wire) : wire'[i] = wire[i]
         /\ Fresh' = Fresh \cup (IF p.part # "back" /\ p.msg.kind = "event" THEN {Len(wire) + 1} ELSE {})
         /\ OnWire' = OnWire \cup
              (IF p.part # "back" /\ p.msg.kind = "event" THEN {p.msg.event} ELSE {})
<1>1. wire \in Seq(Pieces) /\ Len(wire) \in Nat /\ Fresh \subseteq 1..Len(wire)
  BY WireTypes
<1>2. PICK n \in Nat : n = Len(wire)
  BY <1>1
<1>3. /\ Len(wire') = n + 1 /\ wire'[n + 1] = p /\ wire' # <<>>
      /\ \A i \in 1..n : wire'[i] = wire[i]
  BY <1>1, <1>2
<1>4. \A i \in 1..(n + 1) : i \in 1..n \/ i = n + 1
  OBVIOUS
<1>5. Fresh' = Fresh \cup (IF p.part # "back" /\ p.msg.kind = "event" THEN {n + 1} ELSE {})
  <2>1. \A i \in 1..n : i \in Fresh' <=> i \in Fresh
    BY <1>2, <1>3 DEF Fresh
  <2>2. n + 1 \in Fresh' <=> p.part # "back" /\ p.msg.kind = "event"
    BY <1>3 DEF Fresh
  <2>3. Fresh' \subseteq 1..(n + 1) /\ Fresh \subseteq 1..n
    BY <1>2, <1>3 DEF Fresh
  <2>4. QED
    BY <1>4, <2>1, <2>2, <2>3
<1>6. \A i \in Fresh : wire'[i] = wire[i] /\ i \in Fresh'
  BY <1>1, <1>2, <1>3, <1>5
<1>7. OnWire' = {wire'[i].msg.event : i \in Fresh'}
  BY DEF OnWire
<1>8. OnWire' = OnWire \cup (IF p.part # "back" /\ p.msg.kind = "event" THEN {p.msg.event} ELSE {})
  <2>1. CASE p.part # "back" /\ p.msg.kind = "event"
    <3>1. Fresh' = Fresh \cup {n + 1}
      BY <1>5, <2>1
    <3>2. wire'[n + 1].msg.event = p.msg.event
      BY <1>3
    <3>3. \A e \in OnWire' : e = p.msg.event \/ e \in OnWire
      BY <1>6, <1>7, <3>1, <3>2 DEF OnWire
    <3>4. p.msg.event \in OnWire'
      BY <1>7, <3>1, <3>2
    <3>5. \A e \in OnWire : e \in OnWire'
      BY <1>6, <1>7 DEF OnWire
    <3>6. OnWire' = OnWire \cup {p.msg.event}
      BY <3>3, <3>4, <3>5
    <3>7. QED
      BY <2>1, <3>6
  <2>2. CASE ~(p.part # "back" /\ p.msg.kind = "event")
    BY <1>5, <1>6, <1>7, <2>2 DEF OnWire
  <2>3. QED
    BY <2>1, <2>2
<1>9. QED
  BY <1>2, <1>3, <1>5, <1>8

\* Orphans are numbers of pieces.
LEMMA OrphanTypes ==
  ASSUME TypeOK
  PROVE  /\ IsFiniteSet(Orphans) /\ Cardinality(Orphans) \in Nat /\ Orphans \subseteq 1..Len(wire)
         /\ Torn \in Nat
<1>1. Len(wire) \in Nat
  BY WireTypes
<1>2. Orphans \subseteq 1..Len(wire)
  BY DEF Orphans
<1>3. PICK n \in Int : n = Len(wire)
  BY <1>1
<1>4. PICK first \in Int : first = 1
  OBVIOUS
<1>5. IsFiniteSet(first..n)
  BY FS_Interval
<1>6. IsFiniteSet(Orphans)
  BY <1>2, <1>3, <1>4, <1>5, FS_Subset
<1>7. Cardinality(Orphans) \in Nat
  BY <1>6, FS_CardinalityType
<1>8. QED
  BY <1>2, <1>6, <1>7 DEF Torn

\* As many numbers one lower.
LEMMA ShiftedCount ==
  ASSUME NEW S, IsFiniteSet(S), S \subseteq Nat, NEW T, T = {i - 1 : i \in S}
  PROVE  Cardinality(T) = Cardinality(S)
<1>1. PICK f : f = [i \in S |-> i - 1]
  OBVIOUS
<1>2. f \in [S -> T] /\ \A i \in S : f[i] = i - 1
  BY <1>1
<1>3. \A i, j \in S : f[i] = f[j] => i = j
  BY <1>2
<1>4. \A t \in T : \E i \in S : f[i] = t
  BY <1>2
<1>5. f \in Bijection(S, T)
  BY <1>2, <1>3, <1>4, Fun_IsBij
<1>6. ExistsBijection(S, T)
  BY <1>5 DEF ExistsBijection
<1>7. QED
  BY <1>6, FS_Bijection

\* Taking a piece: the rest of a line stays an orphan or not, and an orphan that is
\* taken is one less.
LEMMA TornTaken ==
  ASSUME TypeOK, wire # <<>>, wire' = Tail(wire), half' = half, TypeOK',
         line' = None <=> wire[1].part # "front"
  PROVE  Torn' = Torn - (IF wire[1].part = "back" /\ line = None THEN 1 ELSE 0)
<1>1. /\ 1 \in 1..Len(wire) /\ Len(wire') = Len(wire) - 1 /\ Len(wire) \in Nat
      /\ \A i \in 1..Len(wire') : i + 1 \in 1..Len(wire) /\ wire'[i] = wire[i + 1]
  BY WireTaken, WireTypes
<1>2. IsFiniteSet(Orphans) /\ Orphans \subseteq 1..Len(wire) /\ Cardinality(Orphans) \in Nat
  BY OrphanTypes
<1>3. PICK S : S = Orphans \ {1}
  OBVIOUS
<1>4. \A i \in 1..Len(wire') : i \in Orphans' <=> i + 1 \in S
  <2>1. SUFFICES ASSUME NEW i \in 1..Len(wire') PROVE i \in Orphans' <=> i + 1 \in S
    OBVIOUS
  <2>2. i + 1 \in 1..Len(wire) /\ wire'[i] = wire[i + 1] /\ i + 1 # 1 /\ (i + 1) - 1 = i /\ i \in Int
    BY <1>1
  <2>3. i # 1 => i - 1 \in 1..Len(wire') /\ wire'[i - 1] = wire[i]
    <3>1. i # 1 => i - 1 \in 1..Len(wire') /\ (i - 1) + 1 = i
      BY <1>1
    <3>2. QED
      BY <1>1, <3>1
  <2>4. i \in Orphans' <=> /\ wire[i + 1].part = "back"
                           /\ IF i = 1 THEN line' = None ELSE wire[i].part # "front"
    BY <2>2, <2>3 DEF Orphans
  <2>5. i + 1 \in Orphans <=> wire[i + 1].part = "back" /\ wire[i].part # "front"
    BY <2>2 DEF Orphans
  <2>6. QED
    BY <1>3, <2>2, <2>4, <2>5
<1>5. Orphans' = {i - 1 : i \in S}
  <2>1. ASSUME NEW k \in Orphans' PROVE k \in {i - 1 : i \in S}
    <3>1. k \in 1..Len(wire')
      BY DEF Orphans
    <3>2. k + 1 \in S /\ k = (k + 1) - 1
      BY <1>4, <3>1
    <3>3. QED
      BY <3>2
  <2>2. ASSUME NEW i \in S PROVE i - 1 \in Orphans'
    <3>1. i \in 1..Len(wire) /\ i # 1
      BY <1>2, <1>3
    <3>2. i - 1 \in 1..Len(wire') /\ (i - 1) + 1 = i
      BY <1>1, <3>1
    <3>3. QED
      BY <1>4, <3>2
  <2>3. QED
    BY <2>1, <2>2
<1>6. IsFiniteSet(S) /\ S \subseteq Nat
  <2>1. S \subseteq Orphans /\ Orphans \subseteq Nat
    BY <1>1, <1>2, <1>3
  <2>2. QED
    BY <1>2, <2>1, FS_Subset
<1>7. Cardinality(Orphans') = Cardinality(S)
  BY <1>5, <1>6, ShiftedCount
<1>8. 1 \in Orphans <=> wire[1].part = "back" /\ line = None
  BY <1>1 DEF Orphans
<1>9. Cardinality(S) = IF 1 \in Orphans THEN Cardinality(Orphans) - 1 ELSE Cardinality(Orphans)
  BY <1>2, <1>3, FS_RemoveElement
<1>10. HalfOrphan' <=> HalfOrphan
  <2>1. CASE wire' = <<>>
    <3>1. Len(wire) = 1
      BY <1>1, <2>1
    <3>2. QED
      BY <2>1, <3>1 DEF HalfOrphan
  <2>2. CASE wire' # <<>>
    <3>1. wire' \in Seq(Pieces) /\ Len(wire') \in Nat
      BY <1>1, WireTypes
    <3>2. Len(wire') # 0
      BY <2>2, <3>1
    <3>3. Len(wire') \in 1..Len(wire') /\ Len(wire') + 1 = Len(wire)
      BY <1>1, <3>1, <3>2
    <3>4. wire'[Len(wire')] = wire[Len(wire)]
      BY <1>1, <3>3
    <3>5. QED
      BY <2>2, <3>4 DEF HalfOrphan
  <2>3. QED
    BY <2>1, <2>2
<1>11. QED
  BY <1>2, <1>7, <1>8, <1>9, <1>10 DEF Torn

\* The monitor's pieces: a line it begins is not torn, and the rest of one it goes
\* on with is torn on the wire as it was before.
LEMMA TornAdded ==
  ASSUME TypeOK, NEW p \in Pieces, wire' = Append(wire, p), line' = line,
         \/ half = None /\ p.part = "whole" /\ half' = None
         \/ half = None /\ p.part = "front" /\ half' = p.msg
         \/ half # None /\ p.part = "back" /\ half' = None
  PROVE  Torn' = Torn
<1>1. /\ Len(wire') = Len(wire) + 1 /\ wire'[Len(wire) + 1] = p /\ wire' # <<>>
      /\ \A i \in 1..Len(wire) : wire'[i] = wire[i]
  BY WireAdded
<1>2. PICK n \in Nat : n = Len(wire)
  BY WireTypes
<1>3. IsFiniteSet(Orphans) /\ Orphans \subseteq 1..n /\ Cardinality(Orphans) \in Nat
  BY <1>2, OrphanTypes
<1>4. \A i \in 1..n : i \in Orphans' <=> i \in Orphans
  <2>1. SUFFICES ASSUME NEW i \in 1..n PROVE i \in Orphans' <=> i \in Orphans
    OBVIOUS
  <2>2. i # 1 => i - 1 \in 1..n
    BY <1>2
  <2>3. i \in 1..(n + 1) /\ wire'[i] = wire[i] /\ (i # 1 => wire'[i - 1] = wire[i - 1])
    BY <1>1, <1>2, <2>2
  <2>4. QED
    BY <1>1, <1>2, <2>3 DEF Orphans
<1>5. wire = <<>> <=> n = 0
  BY <1>2, WireTypes
<1>6. n + 1 \in Orphans' <=> /\ p.part = "back"
                             /\ IF wire = <<>> THEN line = None ELSE wire[n].part # "front"
  <2>1. n + 1 \in 1..(n + 1) /\ (n + 1) - 1 = n /\ (n + 1 = 1 <=> n = 0)
    BY <1>2
  <2>2. n # 0 => wire'[n] = wire[n]
    BY <1>1, <1>2
  <2>3. QED
    BY <1>1, <1>2, <1>5, <2>1, <2>2 DEF Orphans
<1>7. Orphans' \subseteq 1..(n + 1)
  BY <1>1, <1>2 DEF Orphans
<1>8. \A i \in 1..(n + 1) : i \in 1..n \/ i = n + 1
  BY <1>2
<1>9. ~HalfOrphan'
  <2>1. CASE half' = None
    BY <2>1 DEF HalfOrphan
  <2>2. CASE p.part = "front"
    BY <1>1, <2>2 DEF HalfOrphan
  <2>3. QED
    BY <2>1, <2>2
<1>10. CASE n + 1 \in Orphans'
  <2>1. HalfOrphan
    BY <1>2, <1>6, <1>10 DEF HalfOrphan
  <2>2. Orphans' = Orphans \cup {n + 1} /\ n + 1 \notin Orphans
    <3>1. n + 1 \notin 1..n
      BY <1>2
    <3>2. QED
      BY <1>3, <1>4, <1>7, <1>8, <1>10, <3>1
  <2>3. Cardinality(Orphans') = Cardinality(Orphans) + 1
    BY <1>3, <2>2, FS_AddElement
  <2>4. QED
    BY <1>3, <1>9, <2>1, <2>3 DEF Torn
<1>11. CASE n + 1 \notin Orphans'
  <2>1. ~HalfOrphan
    BY <1>2, <1>6, <1>11 DEF HalfOrphan
  <2>2. Orphans' = Orphans
    BY <1>3, <1>4, <1>7, <1>8, <1>11
  <2>3. QED
    BY <1>9, <2>1, <2>2 DEF Torn
<1>12. QED
  BY <1>10, <1>11

\* Dropping the first piece of a line makes its second one an orphan.
LEMMA TornDropped ==
  ASSUME TypeOK, WireFraming, open, line # None, line' = None, wire' = wire, half' = half
  PROVE  Torn' = Torn + 1
<1>1. IsFiniteSet(Orphans) /\ Orphans \subseteq 1..Len(wire) /\ Cardinality(Orphans) \in Nat
  BY OrphanTypes
<1>2. CASE wire = <<>>
  <2>1. half = line
    BY <1>2 DEF WireFraming
  <2>2. HalfOrphan' /\ ~HalfOrphan
    BY <1>2, <2>1 DEF HalfOrphan
  <2>3. Orphans' = Orphans
    BY <1>2 DEF Orphans
  <2>4. QED
    BY <1>1, <2>2, <2>3 DEF Torn
<1>3. CASE wire # <<>>
  <2>1. wire[1].part = "back"
    BY <1>3 DEF WireFraming
  <2>2. wire \in Seq(Pieces) /\ Len(wire) \in Nat /\ 1 \in 1..Len(wire)
    BY <1>3, WireTypes
  <2>3. 1 \notin Orphans /\ 1 \in Orphans'
    BY <2>1, <2>2 DEF Orphans
  <2>4. \A i : i # 1 => (i \in Orphans' <=> i \in Orphans)
    BY DEF Orphans
  <2>5. Orphans' = Orphans \cup {1}
    BY <2>3, <2>4
  <2>6. Cardinality(Orphans') = Cardinality(Orphans) + 1
    BY <1>1, <2>3, <2>5, FS_AddElement
  <2>7. HalfOrphan' <=> HalfOrphan
    BY <1>3 DEF HalfOrphan
  <2>8. QED
    BY <1>1, <2>6, <2>7 DEF Torn
<1>4. QED
  BY <1>2, <1>3

\* The parts of the accounting, and that only finitely many events are lost.
LEMMA Accounts ==
  ASSUME TypeOK, EventsAccounted
  PROVE  /\ \A i, j \in 1..Len(Kept) : i < j => Kept[i] < Kept[j]
         /\ \A n \in KeptEvents, m \in LostWithLine \cup OnWire : n < m
         /\ \A n \in LostWithLine, m \in OnWire : n < m
         /\ \A i, j \in Fresh : i < j => wire[i].msg.event < wire[j].msg.event
         /\ EventsInOrder
         /\ (KeptEvents \cup LostWithLine \cup OnWire) \cap lost = {}
         /\ KeptEvents \cup LostWithLine \cup OnWire \cup lost = 1..emitted
         /\ open => Cardinality(lost) <= alarms + Torn
         /\ IsFiniteSet(lost) /\ Cardinality(lost) \in Nat
         /\ KeptEvents \cap (LostWithLine \cup OnWire) = {} /\ LostWithLine \cap OnWire = {}
<1>1. /\ \A i, j \in 1..Len(Kept) : i < j => Kept[i] < Kept[j]
      /\ \A n \in KeptEvents, m \in LostWithLine \cup OnWire : n < m
      /\ \A n \in LostWithLine, m \in OnWire : n < m
      /\ \A i, j \in Fresh : i < j => wire[i].msg.event < wire[j].msg.event
      /\ EventsInOrder
  BY DEF EventsAccounted, EventsInOrder
<1>2. /\ (KeptEvents \cup LostWithLine \cup OnWire) \cap lost = {}
      /\ KeptEvents \cup LostWithLine \cup OnWire \cup lost = 1..emitted
      /\ open => Cardinality(lost) <= alarms + Torn
  BY DEF EventsAccounted
<1>3. KeptEvents \subseteq Nat /\ LostWithLine \subseteq Nat /\ OnWire \subseteq Nat /\ emitted \in Nat
  BY KeptTypes, WireTypes
<1>4. IsFiniteSet(lost)
  <2>1. PICK n \in Int : n = emitted
    BY <1>3
  <2>2. PICK first \in Int : first = 1
    OBVIOUS
  <2>3. IsFiniteSet(first..n)
    BY FS_Interval
  <2>4. lost \subseteq first..n
    BY <1>2, <2>1, <2>2
  <2>5. QED
    BY <2>3, <2>4, FS_Subset
<1>5. Cardinality(lost) \in Nat
  BY <1>4, FS_CardinalityType
<1>6. \A n \in Nat : ~(n < n)
  OBVIOUS
<1>7. KeptEvents \cap (LostWithLine \cup OnWire) = {} /\ LostWithLine \cap OnWire = {}
  BY <1>1, <1>3, <1>6
<1>8. QED
  BY <1>1, <1>2, <1>4, <1>5, <1>7

\* The accounts of the next state, from its parts.
LEMMA Accounting ==
  ASSUME \A i, j \in 1..Len(Kept') : i < j => Kept'[i] < Kept'[j],
         \A n \in KeptEvents', m \in LostWithLine' \cup OnWire' : n < m,
         \A n \in LostWithLine', m \in OnWire' : n < m,
         \A i, j \in Fresh' : i < j => wire'[i].msg.event < wire'[j].msg.event,
         (KeptEvents' \cup LostWithLine' \cup OnWire') \cap lost' = {},
         KeptEvents' \cup LostWithLine' \cup OnWire' \cup lost' = 1..emitted',
         open' => Cardinality(lost') <= alarms' + Torn'
  PROVE  EventsAccounted'
BY DEF EventsAccounted, EventsInOrder

\* A step that moves no event.
LEMMA NothingMoves ==
  ASSUME TypeOK, EventsAccounted, Kept' = Kept, line' = line,
         UNCHANGED <<wire, lost, alarms, half, emitted>>, open' => open
  PROVE  EventsAccounted'
<1>1. KeptEvents' = KeptEvents
  BY DEF KeptEvents
<1>2. LostWithLine' = LostWithLine
  BY DEF LostWithLine
<1>3. Fresh' = Fresh
  BY DEF Fresh
<1>4. OnWire' = OnWire
  BY <1>3 DEF OnWire
<1>5. Torn' = Torn
  <2>1. Orphans' = Orphans
    BY DEF Orphans
  <2>2. HalfOrphan' <=> HalfOrphan
    BY DEF HalfOrphan
  <2>3. QED
    BY <2>1, <2>2 DEF Torn
<1>6. /\ EventsInOrder
      /\ (KeptEvents \cup LostWithLine \cup OnWire) \cap lost = {}
      /\ KeptEvents \cup LostWithLine \cup OnWire \cup lost = 1..emitted
      /\ open => Cardinality(lost) <= alarms + Torn
  BY DEF EventsAccounted
<1>7. EventsInOrder'
  BY <1>1, <1>2, <1>3, <1>4, <1>6 DEF EventsInOrder
<1>8. QED
  BY <1>1, <1>2, <1>4, <1>5, <1>6, <1>7 DEF EventsAccounted

\* Once the connection is closed nothing more is asked of losses.
LEMMA ClosedMoves ==
  ASSUME TypeOK, EventsAccounted, Kept' = Kept, line' = line,
         UNCHANGED <<wire, lost, emitted>>, ~open'
  PROVE  EventsAccounted'
<1>1. KeptEvents' = KeptEvents
  BY DEF KeptEvents
<1>2. LostWithLine' = LostWithLine
  BY DEF LostWithLine
<1>3. Fresh' = Fresh
  BY DEF Fresh
<1>4. OnWire' = OnWire
  BY <1>3 DEF OnWire
<1>5. EventsInOrder'
  BY <1>1, <1>2, <1>3, <1>4 DEF EventsInOrder, EventsAccounted
<1>6. QED
  BY <1>1, <1>2, <1>4, <1>5 DEF EventsAccounted

\* A wait that ends with an incomplete line: its event, if it is one, is lost, and
\* the rest of the line will be noticed.
LEMMA LineDropped ==
  ASSUME TypeOK, TypeOK', WireFraming, EventsAccounted, Kept' = Kept, line' = None,
         lost' = lost \cup LostWithLine, UNCHANGED <<wire, half, open, emitted, alarms>>
  PROVE  EventsAccounted'
<1>1. KeptEvents' = KeptEvents
  BY DEF KeptEvents
<1>2. LostWithLine' = {}
  BY DEF LostWithLine
<1>3. Fresh' = Fresh
  BY DEF Fresh
<1>4. OnWire' = OnWire
  BY <1>3 DEF OnWire
<1>5. open' => Cardinality(lost') <= alarms' + Torn'
  <2>1. SUFFICES ASSUME open PROVE Cardinality(lost') <= alarms + Torn'
    OBVIOUS
  <2>2. /\ IsFiniteSet(lost) /\ Cardinality(lost) \in Nat /\ Cardinality(lost) <= alarms + Torn
        /\ alarms \in Nat /\ Torn \in Nat
    BY <2>1, Accounts, KeptTypes, OrphanTypes
  <2>3. CASE line = None
    <3>1. LostWithLine = {} /\ lost' = lost
      BY <2>3 DEF LostWithLine
    <3>2. Torn' = Torn
      <4>1. Orphans' = Orphans
        BY <2>3 DEF Orphans
      <4>2. HalfOrphan' <=> HalfOrphan
        BY <2>3 DEF HalfOrphan
      <4>3. QED
        BY <4>1, <4>2 DEF Torn
    <3>3. QED
      BY <2>2, <3>1, <3>2
  <2>4. CASE line # None
    <3>1. Torn' = Torn + 1
      BY <2>1, <2>4, TornDropped
    <3>2. Cardinality(lost') <= Cardinality(lost) + 1
      <4>1. CASE line.kind = "event"
        <5>1. lost' = lost \cup {line.event}
          BY <2>4, <4>1 DEF LostWithLine
        <5>2. QED
          BY <2>2, <5>1, FS_AddElement
      <4>2. CASE line.kind # "event"
        <5>1. lost' = lost
          BY <4>2 DEF LostWithLine
        <5>2. QED
          BY <2>2, <5>1
      <4>3. QED
        BY <4>1, <4>2
    <3>3. IsFiniteSet(lost') /\ Cardinality(lost') \in Nat
      <4>1. lost' \subseteq 1..emitted
        BY Accounts
      <4>2. PICK n \in Int : n = emitted
        BY KeptTypes
      <4>3. PICK first \in Int : first = 1
        OBVIOUS
      <4>4. IsFiniteSet(first..n)
        BY FS_Interval
      <4>5. IsFiniteSet(lost')
        BY <4>1, <4>2, <4>3, <4>4, FS_Subset
      <4>6. QED
        BY <4>5, FS_CardinalityType
    <3>4. QED
      BY <2>2, <3>1, <3>2, <3>3
  <2>5. QED
    BY <2>3, <2>4
<1>6. /\ (KeptEvents \cup OnWire) \cap (lost \cup LostWithLine) = {}
      /\ KeptEvents \cup OnWire \cup lost \cup LostWithLine = 1..emitted
  BY Accounts
<1>7. /\ \A i, j \in 1..Len(Kept') : i < j => Kept'[i] < Kept'[j]
      /\ \A i, j \in Fresh' : i < j => wire'[i].msg.event < wire'[j].msg.event
  BY <1>3, Accounts
<1>8. /\ \A n \in KeptEvents', m \in LostWithLine' \cup OnWire' : n < m
      /\ \A n \in LostWithLine', m \in OnWire' : n < m
  BY <1>1, <1>2, <1>4, Accounts
<1>9. /\ (KeptEvents' \cup LostWithLine' \cup OnWire') \cap lost' = {}
      /\ KeptEvents' \cup LostWithLine' \cup OnWire' \cup lost' = 1..emitted'
  BY <1>1, <1>2, <1>4, <1>6
<1>10. QED
  BY <1>5, <1>7, <1>8, <1>9, Accounting

\* The first piece of a line: an event in it is now the one of the incomplete line.
LEMMA FrontTaken ==
  ASSUME TypeOK, TypeOK', WireFraming, EventsAccounted, wire # <<>>, wire' = Tail(wire),
         wire[1].part = "front", line' = wire[1].msg, Kept' = Kept,
         UNCHANGED <<lost, half, open, emitted, alarms>>
  PROVE  EventsAccounted'
<1>1. line = None /\ LostWithLine = {}
  BY DEF WireFraming, LostWithLine
<1>2. 1 \in 1..Len(wire) /\ wire[1].msg \in Message /\ None \notin Message
  BY WireTaken, WireTypes
<1>3. line' # None
  BY <1>2
<1>4. LostWithLine' = IF 1 \in Fresh THEN {wire[1].msg.event} ELSE {}
  BY <1>2, <1>3 DEF LostWithLine, Fresh
<1>5. /\ OnWire = OnWire' \cup LostWithLine'
      /\ \A i, j \in Fresh' : i < j => wire'[i].msg.event < wire'[j].msg.event
      /\ \A n \in LostWithLine', m \in OnWire' : n < m
  BY <1>4, WireTaken, Accounts
<1>6. KeptEvents' = KeptEvents
  BY DEF KeptEvents
<1>7. Torn' = Torn
  <2>1. Torn' = Torn - 0
    BY <1>3, TornTaken
  <2>2. QED
    BY <2>1, OrphanTypes
<1>8. /\ \A i, j \in 1..Len(Kept') : i < j => Kept'[i] < Kept'[j]
      /\ \A n \in KeptEvents', m \in LostWithLine' \cup OnWire' : n < m
  BY <1>5, <1>6, Accounts
<1>9. /\ (KeptEvents' \cup LostWithLine' \cup OnWire') \cap lost' = {}
      /\ KeptEvents' \cup LostWithLine' \cup OnWire' \cup lost' = 1..emitted'
      /\ open' => Cardinality(lost') <= alarms' + Torn'
  BY <1>1, <1>5, <1>6, <1>7, Accounts
<1>10. QED
  BY <1>5, <1>8, <1>9, Accounting

\* A complete message m: the event in it, if it is one, is the first of those that
\* were to be decoded.
LEMMA MessageTaken ==
  ASSUME TypeOK, TypeOK', WireFraming, EventsAccounted, wire # <<>>, wire' = Tail(wire),
         wire[1].part = "whole" \/ (wire[1].part = "back" /\ line # None),
         line' = None, half' = half, NEW E,
         E = IF wire[1].msg.kind = "event" THEN {wire[1].msg.event} ELSE {}
  PROVE  /\ LostWithLine \cup OnWire = E \cup OnWire' /\ LostWithLine' = {}
         /\ \A n \in E, m \in OnWire' : n < m
         /\ \A i, j \in Fresh' : i < j => wire'[i].msg.event < wire'[j].msg.event
         /\ Torn' = Torn
<1>1. 1 \in 1..Len(wire) /\ wire[1].msg \in Message /\ None \notin Message
  BY WireTaken, WireTypes
<1>2. LostWithLine' = {}
  BY DEF LostWithLine
<1>3. Torn' = Torn
  <2>1. Torn' = Torn - 0
    BY TornTaken
  <2>2. QED
    BY <2>1, OrphanTypes
<1>4. /\ OnWire = OnWire' \cup (IF 1 \in Fresh THEN {wire[1].msg.event} ELSE {})
      /\ \A i, j \in Fresh' : i < j => wire'[i].msg.event < wire'[j].msg.event
      /\ 1 \in Fresh => \A m \in OnWire' : wire[1].msg.event < m
  BY WireTaken, Accounts
<1>5. CASE wire[1].part = "whole"
  <2>1. line = None /\ LostWithLine = {}
    BY <1>5 DEF WireFraming, LostWithLine
  <2>2. 1 \in Fresh <=> wire[1].msg.kind = "event"
    BY <1>1, <1>5 DEF Fresh
  <2>3. QED
    BY <1>2, <1>3, <1>4, <2>1, <2>2
<1>6. CASE wire[1].part = "back" /\ line # None
  <2>1. line = wire[1].msg
    BY <1>6 DEF WireFraming
  <2>2. 1 \notin Fresh /\ OnWire' = OnWire
    BY <1>4, <1>6 DEF Fresh
  <2>3. LostWithLine = E
    BY <1>6, <2>1 DEF LostWithLine
  <2>4. \A n \in LostWithLine, m \in OnWire : n < m
    BY Accounts
  <2>5. QED
    BY <1>2, <1>3, <1>4, <2>2, <2>3, <2>4
<1>7. QED
  BY <1>5, <1>6

\* A message that is no event, or one that is delivered, queued or refused by a full
\* queue with the failure of the call.
LEMMA MessageAccounted ==
  ASSUME TypeOK, TypeOK', WireFraming, EventsAccounted, wire # <<>>, wire' = Tail(wire),
         wire[1].part = "whole" \/ (wire[1].part = "back" /\ line # None),
         line' = None, UNCHANGED <<half, open, emitted>>,
         \/ /\ wire[1].msg.kind # "event"
            /\ Kept' = Kept /\ lost' = lost /\ alarms' = alarms
         \/ /\ wire[1].msg.kind = "event"
            /\ Kept' = Append(Kept, wire[1].msg.event) /\ lost' = lost /\ alarms' = alarms
         \/ /\ wire[1].msg.kind = "event"
            /\ Kept' = Kept /\ lost' = lost \cup {wire[1].msg.event} /\ alarms' = alarms + 1
  PROVE  EventsAccounted'
<1>1. PICK E : E = IF wire[1].msg.kind = "event" THEN {wire[1].msg.event} ELSE {}
  OBVIOUS
<1>2. /\ LostWithLine \cup OnWire = E \cup OnWire' /\ LostWithLine' = {}
      /\ \A n \in E, m \in OnWire' : n < m
      /\ \A i, j \in Fresh' : i < j => wire'[i].msg.event < wire'[j].msg.event
      /\ Torn' = Torn
  BY <1>1, MessageTaken
<1>3. /\ \A n \in KeptEvents, m \in E \cup OnWire' : n < m
      /\ (KeptEvents \cup E \cup OnWire') \cap lost = {}
      /\ KeptEvents \cup E \cup OnWire' \cup lost = 1..emitted
  BY <1>2, Accounts
<1>4. /\ Kept \in Seq(Nat) /\ Len(Kept) \in Nat /\ KeptEvents \subseteq Nat
      /\ OnWire' \subseteq Nat /\ E \subseteq Nat /\ alarms \in Nat /\ Torn \in Nat
  BY <1>2, KeptTypes, WireTypes, OrphanTypes
<1>5. \A n \in LostWithLine', m \in OnWire' : n < m
  BY <1>2
<1>6. ASSUME Kept' = Kept
      PROVE  /\ KeptEvents' = KeptEvents
             /\ \A i, j \in 1..Len(Kept') : i < j => Kept'[i] < Kept'[j]
  BY <1>6, Accounts DEF KeptEvents
<1>7. CASE /\ wire[1].msg.kind # "event"
           /\ Kept' = Kept /\ lost' = lost /\ alarms' = alarms
  <2>1. E = {}
    BY <1>1, <1>7
  <2>2. /\ (KeptEvents' \cup LostWithLine' \cup OnWire') \cap lost' = {}
        /\ KeptEvents' \cup LostWithLine' \cup OnWire' \cup lost' = 1..emitted'
        /\ \A n \in KeptEvents', m \in LostWithLine' \cup OnWire' : n < m
    BY <1>2, <1>3, <1>6, <1>7, <2>1
  <2>3. open' => Cardinality(lost') <= alarms' + Torn'
    BY <1>2, <1>7, Accounts
  <2>4. QED
    BY <1>2, <1>5, <1>6, <1>7, <2>2, <2>3, Accounting
<1>8. CASE /\ wire[1].msg.kind = "event"
           /\ Kept' = Append(Kept, wire[1].msg.event) /\ lost' = lost /\ alarms' = alarms
  <2>1. PICK e \in Nat : e = wire[1].msg.event /\ E = {e}
    BY <1>1, <1>4, <1>8
  <2>2. Kept' = Append(Kept, e)
    BY <1>8, <2>1
  <2>3. /\ Len(Kept') = Len(Kept) + 1 /\ Kept'[Len(Kept) + 1] = e
        /\ \A i \in 1..Len(Kept) : Kept'[i] = Kept[i]
    BY <1>4, <2>2
  <2>4. KeptEvents' = KeptEvents \cup {e}
    BY <1>4, <2>2, SequenceSets DEF KeptEvents
  <2>5. \A i, j \in 1..Len(Kept') : i < j => Kept'[i] < Kept'[j]
    <3>1. SUFFICES ASSUME NEW i \in 1..(Len(Kept) + 1), NEW j \in 1..(Len(Kept) + 1), i < j
                   PROVE  Kept'[i] < Kept'[j]
      BY <2>3
    <3>2. i \in 1..Len(Kept)
      BY <1>4, <3>1
    <3>3. CASE j \in 1..Len(Kept)
      BY <2>3, <3>1, <3>2, <3>3, Accounts
    <3>4. CASE j = Len(Kept) + 1
      <4>1. Kept[i] \in KeptEvents
        BY <3>2 DEF KeptEvents
      <4>2. Kept[i] < e
        BY <1>3, <2>1, <4>1
      <4>3. QED
        BY <2>3, <3>2, <3>4, <4>2
    <3>5. j \in 1..Len(Kept) \/ j = Len(Kept) + 1
      <4>1. PICK n \in Nat : n = Len(Kept)
        BY <1>4
      <4>2. j \in 1..(n + 1)
        BY <3>1, <4>1
      <4>3. j \in 1..n \/ j = n + 1
        BY <4>2
      <4>4. QED
        BY <4>1, <4>3
    <3>6. QED
      BY <3>3, <3>4, <3>5
  <2>6. /\ (KeptEvents' \cup LostWithLine' \cup OnWire') \cap lost' = {}
        /\ KeptEvents' \cup LostWithLine' \cup OnWire' \cup lost' = 1..emitted'
        /\ \A n \in KeptEvents', m \in LostWithLine' \cup OnWire' : n < m
    BY <1>2, <1>3, <1>8, <2>1, <2>4
  <2>7. open' => Cardinality(lost') <= alarms' + Torn'
    BY <1>2, <1>8, Accounts
  <2>8. QED
    BY <1>2, <1>5, <2>5, <2>6, <2>7, Accounting
<1>9. CASE /\ wire[1].msg.kind = "event"
           /\ Kept' = Kept /\ lost' = lost \cup {wire[1].msg.event} /\ alarms' = alarms + 1
  <2>1. PICK e \in Nat : e = wire[1].msg.event /\ E = {e}
    BY <1>1, <1>4, <1>9
  <2>2. lost' = lost \cup {e}
    BY <1>9, <2>1
  <2>3. \A m \in KeptEvents \cup OnWire' : m # e
    <3>1. \A n \in KeptEvents : n < e /\ n \in Nat
      BY <1>3, <1>4, <2>1
    <3>2. \A n \in OnWire' : e < n /\ n \in Nat
      BY <1>2, <1>4, <2>1
    <3>3. QED
      BY <3>1, <3>2
  <2>4. /\ (KeptEvents' \cup LostWithLine' \cup OnWire') \cap lost' = {}
        /\ KeptEvents' \cup LostWithLine' \cup OnWire' \cup lost' = 1..emitted'
        /\ \A n \in KeptEvents', m \in LostWithLine' \cup OnWire' : n < m
    BY <1>2, <1>3, <1>6, <1>9, <2>1, <2>2, <2>3
  <2>5. /\ IsFiniteSet(lost) /\ Cardinality(lost) \in Nat
        /\ open => Cardinality(lost) <= alarms + Torn
    BY Accounts
  <2>6. e \notin lost
    BY <1>3, <2>1
  <2>7. Cardinality(lost') = Cardinality(lost) + 1
    BY <2>2, <2>5, <2>6, FS_AddElement
  <2>8. open' => Cardinality(lost') <= alarms' + Torn'
    BY <1>2, <1>4, <1>9, <2>5, <2>7
  <2>9. QED
    BY <1>2, <1>5, <1>6, <1>9, <2>4, <2>8, Accounting
<1>10. QED
  BY <1>7, <1>8, <1>9

\* The rest of a line that was dropped: the call fails, and one orphan is gone.
LEMMA OrphanTaken ==
  ASSUME TypeOK, TypeOK', EventsAccounted, wire # <<>>, wire' = Tail(wire),
         wire[1].part = "back", line = None, line' = None, Kept' = Kept, alarms' = alarms + 1,
         UNCHANGED <<lost, half, open, emitted>>
  PROVE  EventsAccounted'
<1>1. LostWithLine = {} /\ LostWithLine' = {}
  BY DEF LostWithLine
<1>2. 1 \notin Fresh
  BY DEF Fresh
<1>3. /\ OnWire = OnWire'
      /\ \A i, j \in Fresh' : i < j => wire'[i].msg.event < wire'[j].msg.event
  BY <1>2, WireTaken, Accounts
<1>4. KeptEvents' = KeptEvents
  BY DEF KeptEvents
<1>5. Torn' = Torn - 1
  BY TornTaken
<1>6. /\ \A i, j \in 1..Len(Kept') : i < j => Kept'[i] < Kept'[j]
      /\ \A n \in KeptEvents', m \in LostWithLine' \cup OnWire' : n < m
      /\ \A n \in LostWithLine', m \in OnWire' : n < m
      /\ (KeptEvents' \cup LostWithLine' \cup OnWire') \cap lost' = {}
      /\ KeptEvents' \cup LostWithLine' \cup OnWire' \cup lost' = 1..emitted'
  BY <1>1, <1>3, <1>4, Accounts
<1>7. open' => Cardinality(lost') <= alarms' + Torn'
  <2>1. /\ Torn \in Nat /\ alarms \in Nat /\ Cardinality(lost) \in Nat
        /\ open => Cardinality(lost) <= alarms + Torn
    BY Accounts, KeptTypes, OrphanTypes
  <2>2. QED
    BY <1>5, <2>1
<1>8. QED
  BY <1>3, <1>6, <1>7, Accounting

\* The monitor puts a piece on the wire: of no event, or of one that is the next.
LEMMA PieceAccounted ==
  ASSUME TypeOK, TypeOK', EventsAccounted, NEW p \in Pieces, wire' = Append(wire, p),
         line' = line, Kept' = Kept, UNCHANGED <<lost, alarms, open>>,
         \/ half = None /\ p.part = "whole" /\ half' = None
         \/ half = None /\ p.part = "front" /\ half' = p.msg
         \/ half # None /\ p.part = "back" /\ half' = None,
         IF p.part # "back" /\ p.msg.kind = "event"
         THEN p.msg.event = emitted + 1 /\ emitted' = emitted + 1 ELSE emitted' = emitted
  PROVE  EventsAccounted'
<1>1. Torn' = Torn
  BY TornAdded
<1>2. KeptEvents' = KeptEvents /\ LostWithLine' = LostWithLine
  BY DEF KeptEvents, LostWithLine
<1>3. /\ \A i \in 1..Len(wire) : wire'[i] = wire[i] 
      /\ wire'[Len(wire) + 1] = p
      /\ Fresh' = Fresh \cup (IF p.part # "back" /\ p.msg.kind = "event" THEN {Len(wire) + 1} ELSE {})
      /\ OnWire' = OnWire \cup
           (IF p.part # "back" /\ p.msg.kind = "event" THEN {p.msg.event} ELSE {})
  BY WireAdded
<1>4. /\ Fresh \subseteq 1..Len(wire) /\ Len(wire) \in Nat /\ emitted \in Nat
      /\ LostWithLine \subseteq Nat /\ OnWire \subseteq Nat /\ KeptEvents \subseteq Nat
      /\ lost \subseteq Nat
  BY WireTypes, KeptTypes
<1>5. \A i \in Fresh : wire'[i] = wire[i]
  BY <1>3, <1>4
<1>6. CASE ~(p.part # "back" /\ p.msg.kind = "event")
  <2>1. OnWire' = OnWire /\ Fresh' = Fresh /\ emitted' = emitted
    BY <1>3, <1>6
  <2>2. /\ (KeptEvents' \cup LostWithLine' \cup OnWire') \cap lost' = {}
        /\ KeptEvents' \cup LostWithLine' \cup OnWire' \cup lost' = 1..emitted'
        /\ open' => Cardinality(lost') <= alarms' + Torn'
    BY <1>1, <1>2, <2>1, Accounts
  <2>3. /\ \A n \in KeptEvents', m \in LostWithLine' \cup OnWire' : n < m
        /\ \A n \in LostWithLine', m \in OnWire' : n < m
        /\ \A i, j \in 1..Len(Kept') : i < j => Kept'[i] < Kept'[j]
    BY <1>2, <2>1, Accounts
  <2>4. \A i, j \in Fresh' : i < j => wire'[i].msg.event < wire'[j].msg.event
    BY <1>5, <2>1, Accounts
  <2>5. QED
    BY <2>2, <2>3, <2>4, Accounting
<1>7. CASE p.part # "back" /\ p.msg.kind = "event"
  <2>1. PICK e \in Nat : e = emitted + 1 /\ p.msg.event = e /\ emitted' = e
    BY <1>4, <1>7
  <2>2. OnWire' = OnWire \cup {e} /\ Fresh' = Fresh \cup {Len(wire) + 1}
    BY <1>3, <1>7, <2>1
  <2>3. \A n \in KeptEvents \cup LostWithLine \cup OnWire \cup lost : n < e
    <3>1. \A n \in 1..emitted : n < e
      BY <1>4, <2>1
    <3>2. QED
      BY <3>1, Accounts
  <2>4. 1..e = (1..emitted) \cup {e} /\ ~(e < e)
    BY <1>4, <2>1
  <2>5. e \notin lost
    BY <2>3, <2>4
  <2>6. /\ (KeptEvents' \cup LostWithLine' \cup OnWire') \cap lost' = {}
        /\ KeptEvents' \cup LostWithLine' \cup OnWire' \cup lost' = 1..emitted'
    BY <1>2, <2>1, <2>2, <2>4, <2>5, Accounts
  <2>7. /\ \A n \in KeptEvents', m \in LostWithLine' \cup OnWire' : n < m
        /\ \A n \in LostWithLine', m \in OnWire' : n < m
        /\ \A i, j \in 1..Len(Kept') : i < j => Kept'[i] < Kept'[j]
    BY <1>2, <2>2, <2>3, Accounts
  <2>8. \A i, j \in Fresh' : i < j => wire'[i].msg.event < wire'[j].msg.event
    <3>1. SUFFICES ASSUME NEW i \in Fresh', NEW j \in Fresh', i < j
                   PROVE  wire'[i].msg.event < wire'[j].msg.event
      OBVIOUS
    <3>2. i \in Fresh
      BY <1>4, <2>2, <3>1
    <3>3. CASE j \in Fresh
      BY <1>5, <3>1, <3>2, <3>3, Accounts
    <3>4. CASE j = Len(wire) + 1
      <4>1. wire[i].msg.event \in OnWire
        BY <3>2 DEF OnWire
      <4>2. wire[i].msg.event < e
        BY <2>3, <4>1
      <4>3. QED
        BY <1>3, <1>5, <2>1, <3>2, <3>4, <4>2
    <3>5. QED
      BY <2>2, <3>3, <3>4
  <2>9. open' => Cardinality(lost') <= alarms' + Torn'
    BY <1>1, Accounts
  <2>10. QED
    BY <2>6, <2>7, <2>8, <2>9, Accounting
<1>8. QED
  BY <1>6, <1>7

\* Steps that leave the wire alone, and at most drop the line.
LEMMA WireFramingKept ==
  ASSUME WireFraming, UNCHANGED <<wire, half, open>>, line' = line \/ line' = None
  PROVE  WireFraming'
BY DEF WireFraming

\* A piece is taken: the first piece of a line is followed by its second.
LEMMA WireFramingTaken ==
  ASSUME TypeOK, WireFraming, wire # <<>>, wire' = Tail(wire), UNCHANGED <<half, open>>,
         IF wire[1].part = "front" THEN line' = wire[1].msg ELSE line' = None
  PROVE  WireFraming'
<1>1. /\ 1 \in 1..Len(wire) /\ Len(wire') = Len(wire) - 1 /\ Len(wire) \in Nat
      /\ \A i \in 1..Len(wire') : i + 1 \in 1..Len(wire) /\ wire'[i] = wire[i + 1]
  BY WireTaken, WireTypes
<1>2. wire' \in Seq(Pieces)
  BY WireTypes
<1>3. /\ wire' = <<>> <=> Len(wire) = 1
      /\ Len(wire') \in Nat
  <2>1. PICK w \in Seq(Pieces) : w = wire'
    BY <1>2
  <2>2. Len(w) \in Nat /\ (w = <<>> <=> Len(w) = 0)
    OBVIOUS
  <2>3. QED
    BY <1>1, <2>1, <2>2
<1>4. (line # None =>
         IF wire = <<>> THEN open => half = line
                        ELSE wire[1].part = "back" /\ wire[1].msg = line)'
  <2>1. SUFFICES ASSUME wire[1].part = "front", line' = wire[1].msg
                 PROVE  (IF wire = <<>> THEN open => half = line
                         ELSE wire[1].part = "back" /\ wire[1].msg = line)'
    OBVIOUS
  <2>2. IF 1 = Len(wire) THEN open => half = wire[1].msg
                         ELSE wire[1 + 1].part = "back" /\ wire[1 + 1].msg = wire[1].msg
    BY <1>1, <2>1 DEF WireFraming
  <2>3. wire' # <<>> => 1 \in 1..Len(wire') /\ wire'[1] = wire[1 + 1]
    <3>1. wire' # <<>> => 1 \in 1..Len(wire')
      BY <1>1, <1>3
    <3>2. QED
      BY <1>1, <3>1
  <2>4. QED
    BY <1>3, <2>1, <2>2, <2>3
<1>5. ASSUME NEW i \in 1..Len(wire'), wire'[i].part = "front"
      PROVE  (IF i = Len(wire) THEN open => half = wire[i].msg
              ELSE wire[i + 1].part = "back" /\ wire[i + 1].msg = wire[i].msg)'
  <2>1. i + 1 \in 1..Len(wire) /\ wire'[i] = wire[i + 1] /\ (i = Len(wire') <=> i + 1 = Len(wire))
    BY <1>1
  <2>2. IF i + 1 = Len(wire) THEN open => half = wire[i + 1].msg
        ELSE wire[(i + 1) + 1].part = "back" /\ wire[(i + 1) + 1].msg = wire[i + 1].msg
    BY <1>5, <2>1 DEF WireFraming
  <2>3. i # Len(wire') => i + 1 \in 1..Len(wire') /\ wire'[i + 1] = wire[(i + 1) + 1]
    <3>1. i # Len(wire') => i + 1 \in 1..Len(wire')
      BY <1>3
    <3>2. QED
      BY <1>1, <3>1
  <2>4. QED
    BY <2>1, <2>2, <2>3
<1>6. (~open => half = None)'
  BY DEF WireFraming
<1>7. QED
  BY <1>4, <1>5, <1>6 DEF WireFraming

\* A piece is sent: a second one only after its first.
LEMMA WireFramingAdded ==
  ASSUME TypeOK, WireFraming, NEW p \in Pieces, wire' = Append(wire, p), line' = line, open' = open,
         \/ half = None /\ p.part = "whole" /\ half' = None /\ open
         \/ half = None /\ p.part = "front" /\ half' = p.msg /\ open
         \/ half # None /\ p.part = "back" /\ half' = None /\ p.msg = half
  PROVE  WireFraming'
<1>1. /\ Len(wire') = Len(wire) + 1 /\ wire'[Len(wire) + 1] = p /\ wire' # <<>>
      /\ \A i \in 1..Len(wire) : wire'[i] = wire[i]
  BY WireAdded
<1>2. PICK n \in Nat : n = Len(wire)
  BY WireTypes
<1>3. /\ open /\ (wire = <<>> <=> n = 0) /\ None \notin Message
      /\ line \in Message \cup {None}
      /\ \A i \in 1..n : wire[i].msg \in Message
  <2>1. open
    BY DEF WireFraming
  <2>2. wire = <<>> <=> n = 0
    BY <1>2, WireTypes
  <2>3. line \in Message \cup {None}
    BY TypeParts DEF ClientTypes
  <2>4. QED
    BY <1>2, <2>1, <2>2, <2>3, WireTypes
<1>4. (line # None =>
         IF wire = <<>> THEN open => half = line
                        ELSE wire[1].part = "back" /\ wire[1].msg = line)'
  <2>1. SUFFICES ASSUME line # None PROVE wire'[1].part = "back" /\ wire'[1].msg = line
    BY <1>1
  <2>2. CASE wire = <<>>
    <3>1. half = line
      BY <1>3, <2>1, <2>2 DEF WireFraming
    <3>2. wire'[1] = p
      BY <1>1, <1>2, <1>3, <2>2
    <3>3. QED
      BY <2>1, <3>1, <3>2
  <2>3. CASE wire # <<>>
    <3>1. wire[1].part = "back" /\ wire[1].msg = line
      BY <2>1, <2>3 DEF WireFraming
    <3>2. wire'[1] = wire[1]
      BY <1>1, <1>2, <1>3, <2>3
    <3>3. QED
      BY <3>1, <3>2
  <2>4. QED
    BY <2>2, <2>3
<1>5. ASSUME NEW i \in 1..(n + 1), wire'[i].part = "front"
      PROVE  (IF i = Len(wire) THEN open => half = wire[i].msg
              ELSE wire[i + 1].part = "back" /\ wire[i + 1].msg = wire[i].msg)'
  <2>1. i \in 1..n \/ i = n + 1
    OBVIOUS
  <2>2. CASE i = n + 1
    <3>1. p.part = "front"
      BY <1>1, <1>2, <1>5, <2>2
    <3>2. half' = p.msg
      BY <3>1
    <3>3. QED
      BY <1>1, <1>2, <2>2, <3>2
  <2>3. CASE i \in 1..n
    <3>1. wire'[i] = wire[i] /\ i # n + 1
      BY <1>1, <1>2, <2>3
    <3>2. IF i = n THEN open => half = wire[i].msg
          ELSE wire[i + 1].part = "back" /\ wire[i + 1].msg = wire[i].msg
      BY <1>2, <1>5, <2>3, <3>1 DEF WireFraming
    <3>3. CASE i = n
      <4>1. half = wire[i].msg /\ half # None
        BY <1>3, <2>3, <3>2, <3>3
      <4>2. p.part = "back" /\ p.msg = wire[i].msg /\ wire'[i + 1] = p
        BY <1>1, <1>2, <3>3, <4>1
      <4>3. QED
        BY <1>1, <1>2, <3>1, <4>2
    <3>4. CASE i # n
      <4>1. i + 1 \in 1..n
        BY <2>3, <3>4
      <4>2. wire'[i + 1] = wire[i + 1]
        BY <1>1, <1>2, <4>1
      <4>3. QED
        BY <1>1, <1>2, <3>1, <3>2, <3>4, <4>2
    <3>5. QED
      BY <3>3, <3>4
  <2>4. QED
    BY <2>1, <2>2, <2>3
<1>6. (~open => half = None)'
  BY <1>3
<1>7. QED
  BY <1>1, <1>2, <1>4, <1>5, <1>6 DEF WireFraming

\* Taking the first of the queue for the caller keeps the sequence.
LEMMA DequeueKeepsOrder ==
  ASSUME NEW d \in Seq(Nat), NEW q \in Seq(Nat), q # <<>>
  PROVE  Append(d, Head(q)) \o Tail(q) = d \o q
<1>1. q = <<Head(q)>> \o Tail(q) /\ Head(q) \in Nat /\ Tail(q) \in Seq(Nat)
  <2>1. Head(q) \in Nat /\ Tail(q) \in Seq(Nat) /\ Len(Tail(q)) = Len(q) - 1
        /\ \A i \in 1..Len(Tail(q)) : Tail(q)[i] = q[i + 1]
    OBVIOUS
  <2>2. PICK h \in Nat : h = Head(q)
    BY <2>1
  <2>3. PICK t \in Seq(Nat) : t = Tail(q)
    BY <2>1
  <2>4. Len(<<h>> \o t) = Len(q) /\ <<h>> \o t \in Seq(Nat)
    BY <2>1, <2>3
  <2>5. ASSUME NEW i \in 1..Len(q) PROVE (<<h>> \o t)[i] = q[i]
    <3>1. CASE i = 1
      BY <2>2, <2>3, <3>1
    <3>2. CASE i # 1
      <4>1. i - 1 \in 1..Len(t) /\ (i - 1) + 1 = i
        BY <2>1, <2>3, <3>2
      <4>2. (<<h>> \o t)[i] = t[i - 1]
        BY <4>1
      <4>3. QED
        BY <2>1, <2>3, <4>1, <4>2
    <3>3. QED
      BY <3>1, <3>2
  <2>6. <<h>> \o t = q
    BY <2>4, <2>5, SeqEqual
  <2>7. QED
    BY <2>1, <2>2, <2>3, <2>6
<1>2. PICK h \in Nat : h = Head(q)
  BY <1>1
<1>3. PICK t \in Seq(Nat) : t = Tail(q)
  BY <1>1
<1>4. Append(d, h) = d \o <<h>> /\ <<h>> \in Seq(Nat)
  BY AppendIsConcat
<1>5. (d \o <<h>>) \o t = d \o (<<h>> \o t)
  BY <1>4, ConcatAssociative
<1>6. QED
  BY <1>1, <1>2, <1>3, <1>4, <1>5

\* The calls that send a command.
LEMMA SubmitAccounts ==
  ASSUME QmpInv, EventInv, NEW c \in Calls, c.op # "event", phase = "ready", Submit(c)
  PROVE  EventInv'
<1>1. line = None
  BY DEF EventInv, ClientFraming
<1>2. /\ UNCHANGED <<events, wire, half, open, emitted, delivered, lost, alarms>>
      /\ line' = None
      /\ call' = NoCall \/ call' = [c EXCEPT !.id = nextId, !.request = sent + 1]
  BY <1>1 DEF Submit, Return, Release
<1>3. call'.op # "event"
  BY <1>2, IdleTypes DEF Calls
<1>4. Kept' = Kept
  BY <1>2 DEF Kept
<1>5. TypeOK
  BY DEF QmpInv
<1>6. EventsAccounted'
  BY <1>1, <1>2, <1>4, <1>5, NothingMoves DEF EventInv
<1>7. WireFraming'
  BY <1>2, WireFramingKept DEF EventInv
<1>8. ClientFraming'
  BY <1>2, <1>3 DEF ClientFraming
<1>9. QED
  BY <1>6, <1>7, <1>8 DEF EventInv

\* next_event before its loop.
LEMMA NextEventAccounts ==
  ASSUME QmpInv, EventInv, NEW d, NextEvent(d)
  PROVE  EventInv'
<1>1. phase = "ready" /\ line = None /\ call = NoCall /\ TypeOK
  BY DEF EventInv, ClientFraming, NextEvent, QmpInv, CallState
<1>2. delivered \in Seq(Nat) /\ events \in Seq(Nat)
  BY <1>1, TypeParts DEF ClientTypes
<1>3. /\ UNCHANGED <<wire, half, open, emitted, lost, alarms>> /\ line' = None
      /\ \/ /\ events # <<>> /\ delivered' = Append(delivered, Head(events))
            /\ events' = Tail(events) /\ call' = NoCall
         \/ UNCHANGED <<events, delivered>> /\ (call' = NoCall \/ events = <<>>)
  BY <1>1 DEF NextEvent, Return, Release, server
<1>4. Kept' = Kept
  <2>1. CASE /\ events # <<>> /\ delivered' = Append(delivered, Head(events))
             /\ events' = Tail(events)
    BY <1>2, <2>1, DequeueKeepsOrder DEF Kept
  <2>2. CASE UNCHANGED <<events, delivered>>
    BY <2>2 DEF Kept
  <2>3. QED
    BY <1>3, <2>1, <2>2
<1>5. EventsAccounted'
  BY <1>1, <1>3, <1>4, NothingMoves DEF EventInv
<1>6. WireFraming'
  BY <1>3, WireFramingKept DEF EventInv
<1>7. ClientFraming'
  BY <1>3, IdleTypes DEF ClientFraming
<1>8. QED
  BY <1>5, <1>6, <1>7 DEF EventInv

\* The head of the loop.
LEMMA LoopTopAccounts == QmpInv /\ EventInv /\ LoopTop => EventInv'
<1> SUFFICES ASSUME QmpInv, EventInv, LoopTop PROVE EventInv'
  OBVIOUS
<1>1. phase = "loop" /\ line = None /\ TypeOK
  BY DEF EventInv, ClientFraming, LoopTop, QmpInv
<1>2. /\ UNCHANGED <<events, delivered, wire, half, open, emitted, lost, alarms>> /\ line' = None
      /\ call' = NoCall \/ call' = call
  BY <1>1 DEF LoopTop, Return, Release, server
<1>3. Kept' = Kept
  BY <1>2 DEF Kept
<1>4. EventsAccounted'
  BY <1>1, <1>2, <1>3, NothingMoves DEF EventInv
<1>5. WireFraming'
  BY <1>2, WireFramingKept DEF EventInv
<1>6. ClientFraming'
  BY <1>2, IdleTypes DEF ClientFraming, EventInv
<1>7. QED
  BY <1>4, <1>5, <1>6 DEF EventInv

\* Timeouts and the end of the connection.
LEMMA WaitEndsAccounts ==
  QmpInv /\ QmpInv' /\ EventInv /\ (ReadTimeout \/ LineTooLong \/ EndOfFile) => EventInv'
<1> SUFFICES ASSUME QmpInv, QmpInv', EventInv, ReadTimeout \/ LineTooLong \/ EndOfFile PROVE EventInv'
  OBVIOUS
<1>1. TypeOK /\ TypeOK' /\ WireFraming /\ EventsAccounted
  BY DEF QmpInv, EventInv
<1>2. /\ UNCHANGED <<events, delivered, wire, half, open, emitted, alarms>> /\ line' = None
      /\ lost' = lost \cup LostWithLine
      /\ call' = NoCall \/ call' = call
  BY DEF ReadTimeout, LineTooLong, EndOfFile, Return, Release, Continue, server
<1>3. Kept' = Kept
  BY <1>2 DEF Kept
<1>4. EventsAccounted'
  BY <1>1, <1>2, <1>3, LineDropped
<1>5. WireFraming'
  BY <1>1, <1>2, WireFramingKept
<1>6. ClientFraming'
  BY <1>2, IdleTypes DEF ClientFraming, EventInv
<1>7. QED
  BY <1>4, <1>5, <1>6 DEF EventInv

\* Time passes.
LEMMA TimeAccounts == QmpInv /\ EventInv /\ (DeadlinePasses \/ SliceExpires) => EventInv'
<1> SUFFICES ASSUME QmpInv, EventInv, DeadlinePasses \/ SliceExpires PROVE EventInv'
  OBVIOUS
<1>1. /\ UNCHANGED <<events, delivered, wire, half, open, emitted, lost, alarms, line>>
      /\ UNCHANGED <<phase, call>> /\ TypeOK
  BY DEF DeadlinePasses, SliceExpires, history, server, QmpInv
<1>2. Kept' = Kept
  BY <1>1 DEF Kept
<1>3. EventsAccounted'
  BY <1>1, <1>2, NothingMoves DEF EventInv
<1>4. WireFraming'
  BY <1>1, WireFramingKept DEF EventInv
<1>5. ClientFraming'
  BY <1>1 DEF ClientFraming, EventInv
<1>6. QED
  BY <1>3, <1>4, <1>5 DEF EventInv

\* What becomes of a complete message.
LEMMA DispatchMoves ==
  ASSUME QmpInv, EventInv, NEW m \in Message, Dispatch(m)
  PROVE  /\ line' = None
         /\ call'.op = "event" => events' = <<>>
         /\ \/ /\ m.kind # "event"
               /\ Kept' = Kept /\ lost' = lost /\ alarms' = alarms
            \/ /\ m.kind = "event"
               /\ Kept' = Append(Kept, m.event) /\ lost' = lost /\ alarms' = alarms
            \/ /\ m.kind = "event"
               /\ Kept' = Kept /\ lost' = lost \cup {m.event} /\ alarms' = alarms + 1
<1>1. TypeOK /\ (call.op = "event" => events = <<>>) /\ NoCall.op = "none"
  BY IdleTypes DEF QmpInv, EventInv, ClientFraming
<1>2. delivered \in Seq(Nat) /\ events \in Seq(Nat) /\ call \in Calls
  BY <1>1, TypeParts DEF ClientTypes
<1>3. m.kind = "event" => m.event \in Nat
  BY DEF Message
<1>4. CASE /\ m.kind = "event" /\ call.op = "event"
           /\ delivered' = Append(delivered, m.event)
           /\ Return
           /\ UNCHANGED <<events, lost, alarms>>
  <2>1. events = <<>> /\ events' = <<>> /\ m.event \in Nat
    BY <1>1, <1>3, <1>4
  <2>2. Append(delivered, m.event) \in Seq(Nat)
    BY <1>2, <2>1
  <2>3. Kept = delivered /\ Kept' = Append(delivered, m.event)
    BY <1>2, <1>4, <2>1, <2>2, ConcatEmptySeq DEF Kept
  <2>4. line' = None
    BY <1>4 DEF Return, Release
  <2>5. QED
    BY <1>4, <2>1, <2>3, <2>4
<1>5. CASE /\ m.kind = "event" /\ call.op # "event"
           /\ Enqueue(m.event)
           /\ UNCHANGED delivered
  <2>1. CASE /\ lost' = lost \cup {m.event} /\ alarms' = alarms + 1
             /\ Return /\ UNCHANGED events
    <3>1. line' = None /\ call' = NoCall
      BY <2>1 DEF Return, Release
    <3>2. Kept' = Kept
      BY <1>5, <2>1 DEF Kept
    <3>3. QED
      BY <1>1, <1>5, <2>1, <3>1, <3>2
  <2>2. CASE /\ events' = Append(events, m.event)
             /\ Continue /\ UNCHANGED <<lost, alarms>>
    <3>1. line' = None /\ call' = call
      BY <2>2 DEF Continue
    <3>2. Kept' = Append(Kept, m.event)
      <4>1. PICK e \in Nat : e = m.event
        BY <1>3, <1>5
      <4>2. Append(events, e) = events \o <<e>> /\ <<e>> \in Seq(Nat)
        BY <1>2, AppendIsConcat
      <4>3. delivered \o (events \o <<e>>) = (delivered \o events) \o <<e>>
        BY <1>2, <4>2, ConcatAssociative
      <4>4. delivered \o events \in Seq(Nat)
        BY <1>2
      <4>5. (delivered \o events) \o <<e>> = Append(delivered \o events, e)
        BY <4>4, AppendIsConcat
      <4>6. QED
        BY <1>5, <2>2, <4>1, <4>2, <4>3, <4>5 DEF Kept
    <3>3. QED
      BY <1>5, <2>2, <3>1, <3>2
  <2>3. QED
    BY <1>5, <2>1, <2>2 DEF Enqueue
<1>6. CASE /\ m.kind = "reply" /\ call.op # "event"
           /\ Answered(m)
           /\ UNCHANGED <<events, delivered, lost, alarms>>
  <2>1. line' = None /\ call'.op # "event"
    <3>1. \/ call' = NoCall /\ line' = None
          \/ /\ call' = [call EXCEPT !.stage = "info", !.id = None, !.request = None,
                                     !.refused = m.refused]
             /\ line' = None
      BY <1>6 DEF Answered, ReturnAnswer, Return, Release
    <3>2. [call EXCEPT !.stage = "info", !.id = None, !.request = None,
                       !.refused = m.refused].op = call.op
      BY <1>2 DEF Calls
    <3>3. QED
      BY <1>1, <1>6, <3>1, <3>2
  <2>2. Kept' = Kept
    BY <1>6 DEF Kept
  <2>3. QED
    BY <1>6, <2>1, <2>2
<1>7. CASE /\ m.kind = "reply"
           /\ Continue
           /\ UNCHANGED <<events, delivered, lost, alarms>>
  <2>1. line' = None /\ call' = call /\ Kept' = Kept
    BY <1>7 DEF Continue, Kept
  <2>2. QED
    BY <1>1, <1>7, <2>1
<1>8. QED
  BY <1>4, <1>5, <1>6, <1>7 DEF Dispatch

\* A turn of read_json's loop.
LEMMA FillAccounts == QmpInv /\ QmpInv' /\ EventInv /\ Fill => EventInv'
<1> SUFFICES ASSUME QmpInv, QmpInv', EventInv, Fill PROVE EventInv'
  OBVIOUS
<1>1. TypeOK /\ TypeOK' /\ ClientFraming /\ WireFraming /\ EventsAccounted
  BY DEF QmpInv, EventInv
<1>2. /\ phase = "read" /\ wire # <<>> /\ wire' = Tail(wire) /\ UNCHANGED <<half, open, emitted>>
  BY DEF Fill, server
<1>3. Head(wire) = wire[1] /\ wire[1].msg \in Message
  BY <1>1, <1>2, WireTaken, WireTypes
<1>4. CASE /\ wire[1].part = "front" /\ line' = wire[1].msg
           /\ UNCHANGED <<events, call, phase, delivered, lost, alarms>>
  <2>1. Kept' = Kept
    BY <1>4 DEF Kept
  <2>2. EventsAccounted'
    BY <1>1, <1>2, <1>4, <2>1, FrontTaken
  <2>3. WireFraming'
    BY <1>1, <1>2, <1>4, WireFramingTaken
  <2>4. ClientFraming'
    BY <1>1, <1>2, <1>4 DEF ClientFraming
  <2>5. QED
    BY <2>2, <2>3, <2>4 DEF EventInv
<1>5. CASE /\ wire[1].part = "whole" \/ (wire[1].part = "back" /\ line # None)
           /\ Dispatch(wire[1].msg)
  <2>1. PICK m \in Message : m = wire[1].msg
    BY <1>3
  <2>2. /\ line' = None
        /\ call'.op = "event" => events' = <<>>
        /\ \/ /\ m.kind # "event"
              /\ Kept' = Kept /\ lost' = lost /\ alarms' = alarms
           \/ /\ m.kind = "event"
              /\ Kept' = Append(Kept, m.event) /\ lost' = lost /\ alarms' = alarms
           \/ /\ m.kind = "event"
              /\ Kept' = Kept /\ lost' = lost \cup {m.event} /\ alarms' = alarms + 1
    BY <1>5, <2>1, DispatchMoves
  <2>3. EventsAccounted'
    BY <1>1, <1>2, <1>5, <2>1, <2>2, MessageAccounted
  <2>4. WireFraming'
    BY <1>1, <1>2, <1>5, <2>2, WireFramingTaken
  <2>5. ClientFraming'
    BY <2>2 DEF ClientFraming
  <2>6. QED
    BY <2>3, <2>4, <2>5 DEF EventInv
<1>6. CASE wire[1].part = "back" /\ line = None /\ Undecodable
  <2>1. /\ line' = None /\ call' = NoCall /\ alarms' = alarms + 1
        /\ UNCHANGED <<events, delivered, lost>>
    BY <1>6 DEF Undecodable, Return, Release
  <2>2. Kept' = Kept
    BY <2>1 DEF Kept
  <2>3. EventsAccounted'
    BY <1>1, <1>2, <1>6, <2>1, <2>2, OrphanTaken
  <2>4. WireFraming'
    BY <1>1, <1>2, <1>6, <2>1, WireFramingTaken
  <2>5. ClientFraming'
    BY <2>1, IdleTypes DEF ClientFraming
  <2>6. QED
    BY <2>3, <2>4, <2>5 DEF EventInv
<1>7. QED
  BY <1>3, <1>4, <1>5, <1>6 DEF Fill, history

\* A piece that the monitor sends.
LEMMA SentAccounts ==
  ASSUME QmpInv, QmpInv', EventInv, NEW p \in Pieces, wire' = Append(wire, p),
         UNCHANGED <<client, history, open>>,
         \/ half = None /\ p.part = "whole" /\ half' = None /\ open
         \/ half = None /\ p.part = "front" /\ half' = p.msg /\ open
         \/ half # None /\ p.part = "back" /\ half' = None /\ p.msg = half,
         IF p.part # "back" /\ p.msg.kind = "event"
         THEN p.msg.event = emitted + 1 /\ emitted' = emitted + 1 ELSE emitted' = emitted
  PROVE  EventInv'
<1>1. TypeOK /\ TypeOK' /\ ClientFraming /\ WireFraming /\ EventsAccounted
  BY DEF QmpInv, EventInv
<1>2. UNCHANGED <<events, call, phase, line, delivered, lost, alarms>>
  BY DEF client, history
<1>3. Kept' = Kept
  BY <1>2 DEF Kept
<1>4. EventsAccounted'
  BY <1>1, <1>2, <1>3, PieceAccounted
<1>5. WireFraming'
  BY <1>1, <1>2, WireFramingAdded
<1>6. ClientFraming'
  BY <1>1, <1>2 DEF ClientFraming
<1>7. QED
  BY <1>4, <1>5, <1>6 DEF EventInv

\* The rest of a line is sent.
LEMMA SendRestAccounts == QmpInv /\ QmpInv' /\ EventInv /\ SendRest => EventInv'
<1> SUFFICES ASSUME QmpInv, QmpInv', EventInv, SendRest PROVE EventInv'
  OBVIOUS
<1>1. half \in Message \cup {None} /\ half # None
  BY TypeParts DEF QmpInv, MonitorTypes, SendRest
<1>2. PICK p : p = [part |-> "back", msg |-> half]
  OBVIOUS
<1>3. p \in Pieces /\ p.part = "back" /\ p.msg = half
  BY <1>1, <1>2 DEF Pieces
<1>4. /\ wire' = Append(wire, p) /\ half' = None /\ UNCHANGED <<client, history, open, emitted>>
  BY <1>2 DEF SendRest
<1>5. QED
  BY <1>1, <1>3, <1>4, SentAccounts

\* A message that the monitor begins to send.
LEMMA BeginAccounts ==
  ASSUME QmpInv, QmpInv', EventInv, NEW m \in Message, Send(m), open, half = None,
         UNCHANGED <<client, history, open>>,
         IF m.kind = "event" THEN m.event = emitted + 1 /\ emitted' = emitted + 1
                             ELSE emitted' = emitted
  PROVE  EventInv'
<1>1. PICK part \in {"whole", "front"} :
        /\ wire' = Append(wire, [part |-> part, msg |-> m])
        /\ half' = IF part = "front" THEN m ELSE half
  BY DEF Send
<1>2. PICK p : p = [part |-> part, msg |-> m]
  OBVIOUS
<1>3. p \in Pieces /\ p.part = part /\ p.msg = m
  BY <1>2 DEF Pieces
<1>4. wire' = Append(wire, p)
  BY <1>1, <1>2
<1>5. QED
  BY <1>1, <1>3, <1>4, SentAccounts

\* An event is emitted.
LEMMA EmitAccounts == QmpInv /\ QmpInv' /\ EventInv /\ Emit => EventInv'
<1> SUFFICES ASSUME QmpInv, QmpInv', EventInv, Emit PROVE EventInv'
  OBVIOUS
<1>1. PICK m : m = [kind |-> "event", event |-> emitted + 1]
  OBVIOUS
<1>2. emitted \in Nat
  BY TypeParts DEF QmpInv, MonitorTypes
<1>3. m \in Message /\ m.kind = "event" /\ m.event = emitted + 1
  BY <1>1, <1>2 DEF Message
<1>4. /\ Send(m) /\ open /\ half = None /\ UNCHANGED <<client, history, open>>
      /\ emitted' = emitted + 1
  BY <1>1 DEF Emit
<1>5. QED
  BY <1>3, <1>4, BeginAccounts

\* A command is answered.
LEMMA ExecuteAccounts ==
  ASSUME QmpInv, QmpInv', EventInv, NEW ok \in BOOLEAN, NEW refused \in BOOLEAN, Execute(ok, refused)
  PROVE  EventInv'
<1>1. inbox \in Seq(Commands) /\ inbox # <<>> /\ cpu \in Vcpus \cup {None}
  BY TypeParts DEF QmpInv, MonitorTypes, Execute
<1>2. PICK c \in Commands : c = Head(inbox)
  BY <1>1
<1>3. PICK m : m = [kind |-> "reply", id |-> c.id, ok |-> ok, refused |-> refused,
                    request |-> c.request,
                    registers |-> IF c.stage = "info" THEN cpu ELSE None]
  OBVIOUS
<1>4. c.id \in Nat /\ c.request \in Nat
  BY DEF Commands
<1>5. m \in Message /\ m.kind = "reply"
  BY <1>1, <1>3, <1>4, Zenon DEF Message
<1>6. /\ Send(m) /\ open /\ half = None /\ UNCHANGED <<client, history, open>>
      /\ emitted' = emitted
  BY <1>2, <1>3 DEF Execute
<1>7. QED
  BY <1>5, <1>6, BeginAccounts

\* The monitor goes away.
LEMMA DisconnectAccounts == QmpInv /\ EventInv /\ Disconnect => EventInv'
<1> SUFFICES ASSUME QmpInv, EventInv, Disconnect PROVE EventInv'
  OBVIOUS
<1>1. TypeOK /\ ClientFraming /\ WireFraming /\ EventsAccounted
  BY DEF QmpInv, EventInv
<1>2. /\ open' = FALSE /\ half' = None /\ UNCHANGED <<wire, emitted>>
      /\ UNCHANGED <<events, call, phase, line, delivered, lost, alarms>>
  BY DEF Disconnect, client, history
<1>3. Kept' = Kept
  BY <1>2 DEF Kept
<1>4. EventsAccounted'
  BY <1>1, <1>2, <1>3, ClosedMoves
<1>5. WireFraming'
  BY <1>1, <1>2 DEF WireFraming
<1>6. ClientFraming'
  BY <1>1, <1>2 DEF ClientFraming
<1>7. QED
  BY <1>4, <1>5, <1>6 DEF EventInv

\* The first state has no events.
LEMMA InitAccounts == Init => EventInv
<1> SUFFICES ASSUME Init PROVE EventInv
  OBVIOUS
<1>1. /\ wire = <<>> /\ line = None /\ half = None /\ open = TRUE /\ delivered = <<>>
      /\ events = <<>> /\ lost = {} /\ alarms = 0 /\ emitted = 0 /\ call = NoCall
  BY DEF Init
<1>2. Fresh = {} /\ Orphans = {} /\ ~HalfOrphan /\ LostWithLine = {}
  BY <1>1 DEF Fresh, Orphans, HalfOrphan, LostWithLine
<1>3. OnWire = {}
  BY <1>2 DEF OnWire
<1>4. Kept = <<>>
  BY <1>1 DEF Kept
<1>5. Len(Kept) = 0 /\ KeptEvents = {}
  BY <1>4 DEF KeptEvents
<1>6. Torn = 0 /\ Cardinality(lost) = 0
  BY <1>1, <1>2, FS_EmptySet DEF Torn
<1>7. EventsInOrder
  BY <1>2, <1>3, <1>5 DEF EventsInOrder
<1>8. EventsAccounted
  BY <1>1, <1>2, <1>3, <1>5, <1>6, <1>7 DEF EventsAccounted
<1>9. ClientFraming /\ WireFraming
  BY <1>1 DEF ClientFraming, WireFraming
<1>10. QED
  BY <1>8, <1>9 DEF EventInv

\* Every step keeps the accounts.
LEMMA NextAccounts == QmpInv /\ QmpInv' /\ EventInv /\ [Next]_vars => EventInv'
<1> SUFFICES ASSUME QmpInv, QmpInv', EventInv, [Next]_vars PROVE EventInv'
  OBVIOUS
<1>1. CASE \E op \in {"command", "registers"}, v \in Vcpus \cup {None} : Command(op, v)
  <2>1. PICK op \in {"command", "registers"}, v \in Vcpus \cup {None} : Command(op, v)
    BY <1>1
  <2>2. call = NoCall /\ Submit(Lock(op, v))
    BY <2>1 DEF Command
  <2>3. phase = "ready"
    BY <2>2 DEF QmpInv, CallState
  <2>4. Lock(op, v) \in Calls /\ Lock(op, v).op # "event"
    BY LockTypes
  <2>5. QED
    BY <2>2, <2>3, <2>4, SubmitAccounts
<1>2. CASE InfoRegisters
  <2>1. call # NoCall /\ phase = "ready" /\ Submit(call)
    BY <1>2 DEF InfoRegisters
  <2>2. call \in Calls
    BY TypeParts DEF QmpInv, ClientTypes
  <2>3. call.op # "event"
    BY <2>1 DEF QmpInv, CallState
  <2>4. QED
    BY <2>1, <2>2, <2>3, SubmitAccounts
<1>3. CASE \E d \in {"past", "future", "none"} : NextEvent(d)
  BY <1>3, NextEventAccounts
<1>4. CASE LoopTop \/ Fill \/ ReadTimeout \/ LineTooLong \/ EndOfFile \/ DeadlinePasses \/ SliceExpires
  BY <1>4, LoopTopAccounts, FillAccounts, WaitEndsAccounts, TimeAccounts
<1>5. CASE SendRest \/ Emit \/ Disconnect
  BY <1>5, SendRestAccounts, EmitAccounts, DisconnectAccounts
<1>6. CASE \E ok, refused \in BOOLEAN : Execute(ok, refused)
  BY <1>6, ExecuteAccounts
<1>7. CASE UNCHANGED vars
  <2>1. UNCHANGED <<events, delivered, wire, half, open, emitted, lost, alarms, line, phase, call>>
        /\ TypeOK
    BY <1>7 DEF vars, client, history, server, QmpInv
  <2>2. Kept' = Kept
    BY <2>1 DEF Kept
  <2>3. EventsAccounted'
    BY <2>1, <2>2, NothingMoves DEF EventInv
  <2>4. WireFraming'
    BY <2>1, WireFramingKept DEF EventInv
  <2>5. ClientFraming'
    BY <2>1 DEF ClientFraming, EventInv
  <2>6. QED
    BY <2>3, <2>4, <2>5 DEF EventInv
<1>8. QED
  BY <1>1, <1>2, <1>3, <1>4, <1>5, <1>6, <1>7 DEF Next, Client

\* Events reach the callers in the order in which they were emitted and at most
\* once; what is neither delivered, queued nor on its way was dropped, and while the
\* connection is open every drop has failed a call or leaves the rest of a line that
\* will, for any queue capacity and any number of events.
THEOREM QmpEventsAccounted == Spec => []EventsAccounted
<1>1. EventInv => EventsAccounted
  BY DEF EventInv
<1>2. QED
  BY <1>1, InitAccounts, NextAccounts, QmpInvariant, PTL DEF Spec

=============================================================================
