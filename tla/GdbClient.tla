------------------------------ MODULE GdbClient ------------------------------
(***************************************************************************)
(* The GDB remote side of crates/vmi-driver-qemu: register reads and       *)
(* verified register writes.  A command is acknowledged with one byte and  *)
(* answered with one packet; nothing but their position on the wire ties   *)
(* them to the command.  A command that fails in the middle leaves what it *)
(* did not read to the next one.                                           *)
(*                                                                         *)
(* The session keeps the client in a mutex for a whole register access, so *)
(* accesses follow each other.  The stub is external: it executes commands *)
(* in order, at any time, and may answer any of them with an error.        *)
(***************************************************************************)
EXTENDS Naturals, Sequences

CONSTANTS
  Vcpus, Registers,
  Values,        \* what a register can hold
  Wide,          \* a value that does not fit the width of the register
  Absent,
  MaxCommands    \* bound on the commands sent

ASSUME GdbAssumption ==
  /\ MaxCommands \in Nat
  /\ Absent \notin Vcpus \cup Registers \cup Values \cup {Wide}
  /\ Wide \notin Values

VARIABLES
  access,    \* the register access that holds the mutex
  phase,     \* where its current command is
  wire,      \* what the stub has sent: acknowledgements, packets, rests of packets
  inbox,     \* the commands the stub has not executed
  thread,    \* the vCPU selected in the stub
  regs,      \* the registers of the guest
  sent,      \* commands sent so far
  inSync,    \* no command has left anything unread
  last       \* what the last access returned

stub == <<inbox, thread, regs>>
gdbVars == <<access, phase, wire, stub, sent, inSync, last>>

NoAccess == [op |-> "none", vcpu |-> Absent, reg |-> Absent, val |-> Absent, stage |-> "none"]
Nothing == [status |-> "none", access |-> NoAccess, val |-> Absent, from |-> <<Absent, Absent>>]

GdbInit ==
  /\ access = NoAccess
  /\ phase = "ready"
  /\ wire = <<>>
  /\ inbox = <<>>
  /\ thread \in Vcpus
  /\ regs \in [Vcpus -> [Registers -> Values]]
  /\ sent = 0
  /\ inSync = TRUE
  /\ last = Nothing

Return(status, val, from) ==
  /\ access' = NoAccess
  /\ phase' = "ready"
  /\ last' = [status |-> status, access |-> access, val |-> val, from |-> from]

Fail == Return("error", Absent, <<Absent, Absent>>)

\* A caller gets the mutex.
Begin(op, v, r, x) ==
  /\ access = NoAccess
  /\ access' = [op |-> op, vcpu |-> v, reg |-> r, val |-> x, stage |-> "select"]
  /\ last' = Nothing
  /\ UNCHANGED <<phase, wire, stub, sent, inSync>>

\* write_register looks at the value only when the vCPU has been selected.
TooWide == access.stage = "write" /\ access.val = Wide

RefuseValue ==
  /\ phase = "ready" /\ TooWide
  /\ Fail
  /\ UNCHANGED <<wire, stub, sent, inSync>>

\* command up to the wait for the acknowledgement.
SendCommand ==
  /\ access # NoAccess /\ phase = "ready" /\ ~TooWide /\ sent < MaxCommands
  /\ phase' = "ack"
  /\ sent' = sent + 1
  /\ inbox' = Append(inbox, access)
  /\ UNCHANGED <<access, wire, thread, regs, inSync, last>>

\* The command is written in part or not at all; the stub drops a part that it
\* got, and may tell so with a byte.
SendFails(told) ==
  /\ access # NoAccess /\ phase = "ready" /\ ~TooWide /\ sent < MaxCommands
  /\ sent' = sent + 1
  /\ wire' = wire \o told
  /\ inSync' = FALSE
  /\ Fail
  /\ UNCHANGED stub

\* The byte that should be the acknowledgement.  The first byte of anything
\* else is taken all the same, and the access fails.
ReadAck ==
  /\ phase = "ack" /\ wire # <<>>
  /\ \/ /\ Head(wire).kind = "ack"
        /\ wire' = Tail(wire)
        /\ phase' = "start"
        /\ UNCHANGED <<access, last, inSync>>
     \/ /\ Head(wire).kind # "ack"
        /\ \/ wire' = <<[kind |-> "rest"]>> \o Tail(wire)
           \/ Head(wire).kind = "rest" /\ wire' = Tail(wire)
        /\ inSync' = FALSE
        /\ Fail
  /\ UNCHANGED <<stub, sent>>

\* Bytes before the start of a packet are skipped.
SkipToPacket ==
  /\ phase = "start" /\ wire # <<>> /\ Head(wire).kind \in {"ack", "rest"}
  /\ wire' = Tail(wire)
  /\ UNCHANGED <<access, phase, stub, sent, inSync, last>>

\* The access goes on to its next command.
Advance(stage) ==
  /\ access' = [access EXCEPT !.stage = stage]
  /\ phase' = "ready"
  /\ UNCHANGED last

\* Mutant: the verification does not look at the value.
VerifyNothing(p) ==
  IF p.kind = "value" THEN Return("ok", p.val, p.from) ELSE Fail

\* The read-back of write_register.
Verify(p) ==
  IF p.kind = "value" /\ p.val = access.val THEN Return("ok", p.val, p.from) ELSE Fail

\* Mutant: select_vcpu does not look at the answer.
AcceptAnySelection(p) ==
  \/ /\ access.stage = "select"
     /\ Advance(access.op)
  \/ /\ access.stage = "read"
     /\ IF p.kind = "value" THEN Return("ok", p.val, p.from) ELSE Fail
  \/ /\ access.stage = "write"
     /\ IF p.kind = "OK" THEN Advance("verify") ELSE Fail
  \/ /\ access.stage = "verify"
     /\ Verify(p)

\* What the access makes of the answer to its command: an error packet, or one
\* that is not of the expected form, ends it.
Accept(p) ==
  \/ /\ access.stage = "select"
     /\ IF p.kind = "OK" THEN Advance(access.op) ELSE Fail
  \/ /\ access.stage = "read"
     /\ IF p.kind = "value" THEN Return("ok", p.val, p.from) ELSE Fail
  \/ /\ access.stage = "write"
     /\ IF p.kind = "OK" THEN Advance("verify") ELSE Fail
  \/ /\ access.stage = "verify"
     /\ Verify(p)

IsPacket(p) == p.kind \in {"OK", "value", "error"}

\* The packet is read to its checksum, and refused if that does not match.
ReadPacket(intact) ==
  /\ phase = "start" /\ wire # <<>> /\ IsPacket(Head(wire))
  /\ wire' = Tail(wire)
  /\ IF intact THEN Accept(Head(wire)) ELSE Fail
  /\ UNCHANGED <<stub, sent, inSync>>

\* The deadline of the command passes, or its buffer is full, in the middle of
\* the packet or before.
Timeout ==
  /\ phase \in {"ack", "start"}
  /\ \/ UNCHANGED wire
     \/ /\ phase = "start" /\ wire # <<>> /\ IsPacket(Head(wire))
        /\ wire' = <<[kind |-> "rest"]>> \o Tail(wire)
  /\ inSync' = FALSE
  /\ Fail
  /\ UNCHANGED <<stub, sent>>

\* The stub acknowledges the oldest command, executes it and answers.  It may
\* accept a write that has no effect, and send stray bytes, for which command is
\* prepared, before the packet.
Execute(ok, effective, stray) ==
  /\ inbox # <<>>
  /\ LET c == Head(inbox)
         answer ==
           IF ~ok THEN [kind |-> "error"]
           ELSE IF c.stage \in {"select", "write"} THEN [kind |-> "OK"]
           ELSE [kind |-> "value", val |-> regs[thread][c.reg], from |-> <<thread, c.reg>>]
     IN  /\ inbox' = Tail(inbox)
         /\ thread' = IF ok /\ c.stage = "select" THEN c.vcpu ELSE thread
         /\ regs' = IF ok /\ effective /\ c.stage = "write"
                    THEN [regs EXCEPT ![thread][c.reg] = c.val] ELSE regs
         /\ wire' = wire \o <<[kind |-> "ack"]>> \o stray \o <<answer>>
  /\ UNCHANGED <<access, phase, sent, inSync, last>>

\* What the stub sends unasked: nothing, or bytes that begin no packet.
Strays == {<<>>, <<[kind |-> "rest"]>>}

GdbNext ==
  \/ \E v \in Vcpus, r \in Registers :
       Begin("read", v, r, Absent) \/ \E x \in Values \cup {Wide} : Begin("write", v, r, x)
  \/ RefuseValue
  \/ SendCommand
  \/ \E told \in Strays : SendFails(told)
  \/ ReadAck
  \/ SkipToPacket
  \/ \E intact \in BOOLEAN : ReadPacket(intact)
  \/ Timeout
  \/ \E ok, effective \in BOOLEAN, stray \in Strays : Execute(ok, effective, stray)

GdbSpec == GdbInit /\ [][GdbNext]_gdbVars

-----------------------------------------------------------------------------
(* Properties.                                                             *)

Access ==
  [op : {"none", "read", "write"}, vcpu : Vcpus \cup {Absent}, reg : Registers \cup {Absent},
   val : Values \cup {Absent, Wide}, stage : {"none", "select", "read", "write", "verify"}]

Item ==
  [kind : {"ack", "rest", "OK", "error"}] \cup
  [kind : {"value"}, val : Values, from : Vcpus \X Registers]

\* Every variable has its type: what an access returns is a value of a register.
GdbTypeOK ==
  /\ access \in Access
  /\ phase \in {"ready", "ack", "start"}
  /\ wire \in Seq(Item)
  /\ inbox \in Seq(Access)
  /\ thread \in Vcpus
  /\ regs \in [Vcpus -> [Registers -> Values]]
  /\ sent \in Nat
  /\ inSync \in BOOLEAN
  /\ last \in [status : {"none", "ok", "error"}, access : Access, val : Values \cup {Absent},
               from : (Vcpus \cup {Absent}) \X (Registers \cup {Absent})]

\* A register access that succeeds was answered for the vCPU and the register it
\* names.
AnswerOfAccess ==
  last.status = "ok" => last.from = <<last.access.vcpu, last.access.reg>>

\* The same, as long as no command was cut off.
AnswerOfAccessInSync == inSync => AnswerOfAccess

\* As long as no command was cut off, a register write that succeeds has been
\* carried out: the register holds the value when write_register returns.
WriteVerified ==
  inSync /\ last.status = "ok" /\ last.access.op = "write" =>
    regs[last.access.vcpu][last.access.reg] = last.access.val

=============================================================================
