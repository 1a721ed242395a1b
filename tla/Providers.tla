------------------------------ MODULE Providers -----------------------------
(***************************************************************************)
(* Connectors, sessions and the registry: how the drivers build a          *)
(* connector, how connect() turns it into a session, and which facets the  *)
(* session then has.  crates/vmi-driver-{xen,qemu,virtualbox,libvirt,      *)
(* snapshot,dump}, vmi-testkit's fake provider, the defaults of            *)
(* vmi-driver-api's Session and vmi-core's ProviderRegistry.               *)
(*                                                                         *)
(* A connector's descriptor is an Arc: clones of the connector, the        *)
(* registry and sessions share it, and a builder changes it through        *)
(* Arc::make_mut.  Descriptors live on a heap here, of which only the      *)
(* capabilities matter.  Attaching through the registry takes the          *)
(* connector out under the lock and connects after it was released.        *)
(* connect() of a driver is the sequence of what it checks and of what it  *)
(* asks the target, each of which may end it.                              *)
(***************************************************************************)
EXTENDS Naturals, Sequences, FiniteSets, SequencesExt

CONSTANTS
  Kinds,           \* the drivers considered, of DriverKinds
  Threads,         \* callers that attach
  Requests,        \* the capability sets callers may require
  Descriptors      \* where descriptors are allocated, enough for all that refer to one

DriverKinds == {"xen", "qemu", "virtualbox", "libvirt", "snapshot", "dump", "fake"}

\* Capability::ALL
Capabilities ==
  {"MemoryRead", "MemoryWrite", "RegisterRead", "RegisterWrite", "Control", "Events",
   "MemoryView", "Acquisition", "Lifecycle"}

ASSUME ProviderAssumption ==
  /\ Kinds \subseteq DriverKinds
  /\ Requests \subseteq SUBSET Capabilities
  /\ IsFiniteSet(Threads) /\ IsFiniteSet(Descriptors)
  /\ Cardinality(Descriptors) > 2 + Cardinality(Threads)

VARIABLES
  heap,       \* the capabilities of each descriptor
  driver,     \* the driver whose connectors are considered
  builder,    \* the connector its owner builds, Nothing before there is one
  registry,   \* the connector registered under the driver's provider ID
  call,       \* what each thread's attach is doing
  session     \* the session each thread holds

vars == <<heap, driver, builder, registry, call, session>>

Nothing == [kind |-> "none"]

\* What the constructors advertise.
XenAdvertises == {"Control", "Acquisition"}
QemuAdvertises == {"MemoryRead", "RegisterRead", "Control", "Acquisition", "Events"}
VirtualBoxAdvertises == {"MemoryRead", "RegisterRead", "Control", "Acquisition"}
LibvirtAdvertises == {"Control", "Acquisition"}
SnapshotAdvertises == {"MemoryRead"}
DumpAdvertises == {"MemoryRead"}
FakeAdvertises == {"MemoryRead"}

Advertised(kind) ==
  CASE kind = "xen" -> XenAdvertises
    [] kind = "qemu" -> QemuAdvertises
    [] kind = "virtualbox" -> VirtualBoxAdvertises
    [] kind = "libvirt" -> LibvirtAdvertises
    [] kind = "snapshot" -> SnapshotAdvertises
    [] kind = "dump" -> DumpAdvertises
    [] kind = "fake" -> FakeAdvertises

\* A connector: its descriptor, its transports and the fake provider's own copy of
\* its capabilities.  `lost` is history: a transport that could write registers was
\* replaced by one that cannot.
NewConnector(kind, descriptor) ==
  [kind |-> kind, descriptor |-> descriptor, memory |-> FALSE,
   cpu |-> "none", events |-> FALSE,
   own |-> IF kind = "fake" THEN FakeAdvertises ELSE {}, lost |-> FALSE]

Idle == [at |-> "idle", connector |-> Nothing]

\* How many of the owner, the registry, calls and sessions refer to a descriptor.
References(d) ==
  LET refers(c) == IF c # Nothing THEN c.descriptor = d ELSE FALSE
  IN  Cardinality({t \in Threads : refers(session[t])})
      + Cardinality({t \in Threads : refers(call[t].connector)})
      + Cardinality({c \in {<<"builder", builder>>, <<"registry", registry>>} : refers(c[2])})

Init ==
  /\ heap = [d \in Descriptors |-> {}]
  /\ driver \in Kinds
  /\ builder = Nothing
  /\ registry = Nothing
  /\ call = [t \in Threads |-> Idle]
  /\ session = [t \in Threads |-> Nothing]

-----------------------------------------------------------------------------
(* Connectors.                                                             *)

\* Arc::new
Free == CHOOSE d \in Descriptors : References(d) = 0

Create ==
  /\ builder = Nothing
  /\ heap' = [heap EXCEPT ![Free] = Advertised(driver)]
  /\ builder' = NewConnector(driver, Free)
  /\ UNCHANGED <<driver, registry, call, session>>

Drop ==
  /\ builder # Nothing
  /\ builder' = Nothing
  /\ UNCHANGED <<heap, driver, registry, call, session>>

\* Mutant: the shared descriptor is changed in place.
MakeMutInPlace(connector, set) ==
  heap' = [heap EXCEPT ![builder.descriptor] = set] /\ builder' = connector

\* Arc::make_mut copies a descriptor that somebody else refers to as well.
MakeMut(connector, set) ==
  IF References(builder.descriptor) = 1
  THEN heap' = [heap EXCEPT ![builder.descriptor] = set] /\ builder' = connector
  ELSE /\ heap' = [heap EXCEPT ![Free] = set]
       /\ builder' = [connector EXCEPT !.descriptor = Free]

\* A method of the builder adds to what the connector advertises.
Building(kinds) == builder # Nothing /\ driver \in kinds
Insert(connector, added) ==
  /\ MakeMut(connector, heap[builder.descriptor] \union added)
  /\ UNCHANGED <<driver, registry, call, session>>

\* VirtualBox reads memory anyway, and its descriptor is left alone.
WithMemoryTransport ==
  \/ Building({"xen"}) /\ Insert([builder EXCEPT !.memory = TRUE], {"MemoryRead", "MemoryWrite"})
  \/ /\ Building({"virtualbox"})
     /\ builder' = [builder EXCEPT !.memory = TRUE]
     /\ UNCHANGED <<heap, driver, registry, call, session>>

\* The transport that is replaced may have been one that writes.
Lost == builder.lost \/ builder.cpu = "writer"

\* A transport that can write registers or cannot; what was advertised stays.
WithCpuTransport(writes) ==
  /\ Building({"xen"})
  /\ IF writes THEN Insert([builder EXCEPT !.cpu = "writer", !.lost = FALSE],
                           {"RegisterRead", "RegisterWrite"})
     ELSE Insert([builder EXCEPT !.cpu = "reader", !.lost = Lost], {"RegisterRead"})

\* XenCtxTransport only reads.
WithXenctx ==
  Building({"xen"}) /\ Insert([builder EXCEPT !.cpu = "reader", !.lost = Lost], {"RegisterRead"})

WithEventTransport ==
  Building({"xen"}) /\ Insert([builder EXCEPT !.events = TRUE], {"Events"})

\* with_gdb of QEMU and with_register_write of VirtualBox.
WithRegisterWrite ==
  Building({"qemu", "virtualbox"}) /\ Insert([builder EXCEPT !.cpu = "writer"], {"RegisterWrite"})

\* The fake provider's capabilities are replaced.
WithCapabilities(set) ==
  /\ Building({"fake"})
  /\ MakeMut([builder EXCEPT !.own = set], set)
  /\ UNCHANGED <<driver, registry, call, session>>

-----------------------------------------------------------------------------
(* The registry.                                                           *)

\* register refuses an ID that is taken; the owner keeps a clone.
Register ==
  /\ builder # Nothing /\ registry = Nothing
  /\ registry' = builder
  /\ UNCHANGED <<heap, driver, builder, call, session>>

\* The connector that is returned is dropped; an attach under way still holds it.
Unregister ==
  /\ registry # Nothing
  /\ registry' = Nothing
  /\ UNCHANGED <<heap, driver, builder, call, session>>

-----------------------------------------------------------------------------
(* connect(): what each driver checks and asks the target, in order.       *)

\* Mutant: the domain is asked for its state before the selector is compared.
XenConnectAsksEarly == <<"name", "capabilities", "state", "selector">>

XenConnect == <<"name", "capabilities", "selector", "state">>

\* The QMP handshake and, with a GDB address, the one of the stub.
QemuConnect(gdb) ==
  IF gdb THEN <<"capabilities", "name", "selector", "gdb name", "qmp", "gdb">>
  ELSE <<"capabilities", "name", "selector", "qmp">>

VirtualBoxConnect == <<"name", "capabilities", "selector", "state">>

\* The URI is an argument of every command, like the domain's name.
LibvirtConnect == <<"name", "uri", "capabilities", "selector", "xml", "state">>

SnapshotConnect == <<"capabilities", "selector">>
DumpConnect == <<"capabilities", "selector">>
FakeConnect == <<"segments", "capabilities", "selector">>

Connect(c) ==
  CASE c.kind = "xen" -> XenConnect
    [] c.kind = "qemu" -> QemuConnect(c.cpu = "writer")
    [] c.kind = "virtualbox" -> VirtualBoxConnect
    [] c.kind = "libvirt" -> LibvirtConnect
    [] c.kind = "snapshot" -> SnapshotConnect
    [] c.kind = "dump" -> DumpConnect
    [] c.kind = "fake" -> FakeConnect

\* What needs the hypervisor; everything else looks at the request and at the
\* connector only.
Asked == {"state", "xml", "qmp", "gdb"}
Wrong(c) == {"nothing"} \union (Range(Connect(c)) \ (Asked \union {"capabilities"}))

-----------------------------------------------------------------------------
(* Attaching.                                                              *)

\* ProviderRegistry::attach holds the lock only for the lookup.  `wrong` is what is
\* wrong with the connector's names or the request's selector, if anything.
Lookup(t, required, wrong) ==
  /\ call[t] = Idle /\ session[t] = Nothing /\ registry # Nothing
  /\ wrong \in Wrong(registry)
  /\ call' = [call EXCEPT ![t] = [at |-> "connect", connector |-> registry, step |-> 1,
                required |-> required, wrong |-> wrong, commands |-> 0]]
  /\ UNCHANGED <<heap, driver, builder, registry, session>>

\* The step a call of connect() is at, "done" after the last one.
Step(c) ==
  IF c.at # "connect" THEN "none"
  ELSE IF c.step > Len(Connect(c.connector)) THEN "done"
  ELSE Connect(c.connector)[c.step]

\* The fake provider compares with its own copy of the capabilities.
Passes(c) ==
  IF Step(c) = "capabilities"
  THEN c.required \subseteq IF c.connector.kind = "fake" THEN c.connector.own
                            ELSE heap[c.connector.descriptor]
  ELSE Step(c) # c.wrong

Give(t, outcome) == call' = [call EXCEPT ![t].at = outcome, ![t].connector = Nothing]

Check(t) ==
  /\ Step(call[t]) \notin Asked \union {"none", "done"}
  /\ IF Passes(call[t]) THEN call' = [call EXCEPT ![t].step = @ + 1] ELSE Give(t, "rejected")
  /\ UNCHANGED <<heap, driver, builder, registry, session>>

Ask(t) ==
  /\ Step(call[t]) \in Asked
  /\ call' = [call EXCEPT ![t].step = @ + 1, ![t].commands = @ + 1]
  /\ UNCHANGED <<heap, driver, builder, registry, session>>

\* The target does not answer, or not like this kind of target.
AskFails(t) ==
  /\ Step(call[t]) \in Asked
  /\ Give(t, "failed")
  /\ UNCHANGED <<heap, driver, builder, registry, session>>

\* Mutant: the session is made without the connector's events.
SessionWithoutEvents(c) ==
  LET k == c.connector
  IN  [kind |-> k.kind, descriptor |-> k.descriptor, memory |-> k.memory, cpu |-> k.cpu,
       events |-> FALSE, own |-> k.own, lost |-> k.lost, required |-> c.required]

\* The session shares the descriptor and the transports.
SessionOf(c) ==
  LET k == c.connector
  IN  [kind |-> k.kind, descriptor |-> k.descriptor, memory |-> k.memory, cpu |-> k.cpu,
       events |-> k.events, own |-> k.own, lost |-> k.lost, required |-> c.required]

Open(t) ==
  /\ Step(call[t]) = "done"
  /\ session' = [session EXCEPT ![t] = SessionOf(call[t])]
  /\ call' = [call EXCEPT ![t] = Idle]
  /\ UNCHANGED <<heap, driver, builder, registry>>

Return(t) ==
  /\ call[t].at \in {"failed", "rejected"}
  /\ call' = [call EXCEPT ![t] = Idle]
  /\ UNCHANGED <<heap, driver, builder, registry, session>>

Close(t) ==
  /\ session[t] # Nothing
  /\ session' = [session EXCEPT ![t] = Nothing]
  /\ UNCHANGED <<heap, driver, builder, registry, call>>

-----------------------------------------------------------------------------
(* What a session does.                                                    *)

\* Capabilities() of the session.
SessionCapabilities(s) == IF s.kind = "fake" THEN s.own ELSE heap[s.descriptor]

\* For each driver, whether the facet exists and its operation does not answer
\* CapabilityMissing; what a driver does not define is missing.
XenServes(s, c) ==
  \/ c \in {"Control", "Acquisition"}
  \/ c \in {"MemoryRead", "MemoryWrite"} /\ s.memory
  \/ c = "RegisterRead" /\ s.cpu # "none"
  \/ c = "RegisterWrite" /\ s.cpu = "writer"
  \/ c = "Events" /\ s.events

QemuServes(s, c) ==
  \/ c \in {"MemoryRead", "RegisterRead", "Control", "Events", "Acquisition"}
  \/ c = "RegisterWrite" /\ s.cpu = "writer"

VirtualBoxServes(s, c) ==
  \/ c \in {"MemoryRead", "RegisterRead", "Control", "Acquisition"}
  \/ c = "RegisterWrite" /\ c \in SessionCapabilities(s)

LibvirtServes(s, c) == c \in {"Control", "Acquisition"}
SnapshotServes(s, c) == c = "MemoryRead"
DumpServes(s, c) == c = "MemoryRead"
FakeServes(s, c) == c \in s.own

Served(s, c) ==
  CASE s.kind = "xen" -> XenServes(s, c)
    [] s.kind = "qemu" -> QemuServes(s, c)
    [] s.kind = "virtualbox" -> VirtualBoxServes(s, c)
    [] s.kind = "libvirt" -> LibvirtServes(s, c)
    [] s.kind = "snapshot" -> SnapshotServes(s, c)
    [] s.kind = "dump" -> DumpServes(s, c)
    [] s.kind = "fake" -> FakeServes(s, c)

-----------------------------------------------------------------------------
(* The specification.                                                      *)

Build ==
  \/ Create \/ Drop \/ Register \/ Unregister
  \/ WithMemoryTransport \/ WithXenctx \/ WithEventTransport \/ WithRegisterWrite
  \/ \E writes \in BOOLEAN : WithCpuTransport(writes)
  \/ \E set \in Requests : WithCapabilities(set)

Attach(t) ==
  \/ \E required \in Requests : \E wrong \in {"nothing", "name", "gdb name", "uri", "segments", "selector"} :
       Lookup(t, required, wrong)
  \/ Check(t) \/ Ask(t) \/ AskFails(t) \/ Open(t) \/ Return(t) \/ Close(t)

Next == Build \/ \E t \in Threads : Attach(t)

Spec == Init /\ [][Next]_vars

-----------------------------------------------------------------------------
(* Properties.                                                             *)

Sessions == {session[t] : t \in Threads} \ {Nothing}

\* A session serves what it advertises and nothing else, however its connector
\* was built, cloned and registered, and serves whatever the attach required.
\* The exception is a Xen connector whose register transport was replaced by one
\* that only reads: RegisterWrite stays advertised.
ServesWhatItAdvertises ==
  \A s \in Sessions : \A c \in Capabilities :
    /\ Served(s, c) => c \in SessionCapabilities(s)
    /\ c \in SessionCapabilities(s) \union s.required =>
         Served(s, c) \/ (s.lost /\ c = "RegisterWrite")

\* What a session and its provider's descriptor advertise never changes while the
\* session lives, whatever is built from connectors that share the descriptor;
\* the same holds for a registered connector.
AdvertisedStays ==
  [][/\ \A t \in Threads : session[t] # Nothing /\ session'[t] # Nothing =>
          heap'[session'[t].descriptor] = heap[session[t].descriptor]
     /\ registry # Nothing /\ registry' # Nothing =>
          heap'[registry'.descriptor] = heap[registry.descriptor]]_vars

\* A request that is refused for its name, its capabilities or its selector has
\* not reached the hypervisor.
RejectedUntouched == \A t \in Threads : call[t].at = "rejected" => call[t].commands = 0

=============================================================================
