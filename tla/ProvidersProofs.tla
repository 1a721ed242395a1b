--------------------------- MODULE ProvidersProofs ---------------------------
(***************************************************************************)
(* Proofs about Providers, for any number of threads that attach.  The     *)
(* invariant says what a connector and its descriptor have to do with each *)
(* other wherever they are: what the descriptor lists is what was built    *)
(* into the connector.  It is kept because a descriptor changes only while *)
(* nobody but the builder refers to it.                                    *)
(***************************************************************************)
EXTENDS Providers, FiniteSetTheorems, TLAPS

Connector ==
  [kind : DriverKinds, descriptor : Descriptors, memory : BOOLEAN,
   cpu : {"none", "reader", "writer"}, events : BOOLEAN, own : SUBSET Capabilities,
   lost : BOOLEAN]

Session ==
  [kind : DriverKinds, descriptor : Descriptors, memory : BOOLEAN,
   cpu : {"none", "reader", "writer"}, events : BOOLEAN, own : SUBSET Capabilities,
   lost : BOOLEAN, required : SUBSET Capabilities]

\* What is wrong with a request.
Reasons == {"nothing", "name", "gdb name", "uri", "segments", "selector"}

\* An attach under way, and one that is over.
Connecting ==
  [at : {"connect"}, connector : Connector, step : Nat \ {0}, required : SUBSET Capabilities,
   wrong : Reasons, commands : Nat]
Ended ==
  [at : {"failed", "rejected"}, connector : {Nothing}, step : Nat \ {0},
   required : SUBSET Capabilities, wrong : Reasons, commands : Nat]

ProviderTypes ==
  /\ heap \in [Descriptors -> SUBSET Capabilities]
  /\ driver \in DriverKinds
  /\ builder \in Connector \cup {Nothing}
  /\ builder # Nothing => builder.kind = driver
  /\ registry \in Connector \cup {Nothing}
  /\ call \in [Threads -> Connecting \cup Ended \cup {Idle}]
  /\ session \in [Threads -> Session \cup {Nothing}]

\* A thread has a session or an attach under way.
OneAtATime == \A t \in Threads : session[t] # Nothing => call[t] = Idle

\* What the builders of each driver can build.
WellBuilt(c) ==
  /\ c.cpu # "none" => c.kind \in {"xen", "qemu", "virtualbox"}
  /\ c.cpu = "reader" => c.kind = "xen"
  /\ c.events => c.kind = "xen"
  /\ c.lost => c.kind = "xen" /\ c.cpu # "none"

\* What the descriptor of a connector lists.
Listed(c) ==
  IF c.kind = "fake" THEN c.own
  ELSE Advertised(c.kind)
       \cup (IF c.kind = "xen" /\ c.memory THEN {"MemoryRead", "MemoryWrite"} ELSE {})
       \cup (IF c.cpu # "none" THEN {"RegisterRead"} ELSE {})
       \cup (IF c.cpu = "writer" \/ c.lost THEN {"RegisterWrite"} ELSE {})
       \cup (IF c.events THEN {"Events"} ELSE {})

Described(c) == WellBuilt(c) /\ heap[c.descriptor] = Listed(c)

AllDescribed ==
  /\ builder # Nothing => Described(builder)
  /\ registry # Nothing => Described(registry)
  /\ \A t \in Threads : call[t].connector # Nothing => Described(call[t].connector)
  /\ \A t \in Threads : session[t] # Nothing => Described(session[t])

\* What a call of connect() has behind it: nothing was asked before the last
\* check, and past the look at the capabilities the request is within them.
Progress ==
  \A t \in Threads : call[t].at = "connect" =>
    LET steps == Connect(call[t].connector)
    IN  /\ call[t].step <= Len(steps) + 1
        /\ call[t].commands > 0 =>
             \E i \in 1..Len(steps) : i < call[t].step /\ steps[i] \in Asked
        /\ \A i \in 1..Len(steps) : i < call[t].step /\ steps[i] = "capabilities" =>
             call[t].required \subseteq Listed(call[t].connector)

Granted ==
  \A t \in Threads : session[t] # Nothing => session[t].required \subseteq Listed(session[t])

ProviderInv ==
  /\ ProviderTypes /\ OneAtATime /\ AllDescribed /\ Progress /\ Granted /\ RejectedUntouched

\* Connectors, sessions and calls are told from their absence.
LEMMA Present ==
  /\ \A c \in Connector : c # Nothing
  /\ \A s \in Session : s # Nothing
  /\ \A c \in Connecting : c.at = "connect" /\ c.connector # Nothing
  /\ \A c \in Ended : c.at \in {"failed", "rejected"} /\ c.connector = Nothing
  /\ Idle.at = "idle" /\ Idle.connector = Nothing
<1>1. \A k \in DriverKinds : k # "none"
  BY DEF DriverKinds
<1>2. /\ \A c \in Connector : c # Nothing
      /\ \A s \in Session : s # Nothing
  BY <1>1 DEF Connector, Session, Nothing
<1>3. QED
  BY <1>2 DEF Connecting, Ended, Idle

\* Every connect() looks at the capabilities, and asks the target last.
LEMMA ConnectShape ==
  ASSUME NEW c \in Connector
  PROVE  /\ Len(Connect(c)) \in Nat
         /\ \E i \in 1..Len(Connect(c)) : Connect(c)[i] = "capabilities"
         /\ \A i, j \in 1..Len(Connect(c)) :
              i < j /\ Connect(c)[i] \in Asked => Connect(c)[j] \in Asked
<1> DEFINE Shape(s) ==
      /\ Len(s) \in Nat
      /\ \E i \in 1..Len(s) : s[i] = "capabilities"
      /\ \A i, j \in 1..Len(s) : i < j /\ s[i] \in Asked => s[j] \in Asked
<1>1. Shape(XenConnect) /\ Shape(VirtualBoxConnect)
  BY DEF XenConnect, VirtualBoxConnect, Asked
<1>2. Shape(LibvirtConnect)
  BY DEF LibvirtConnect, Asked
<1>3. Shape(SnapshotConnect) /\ Shape(DumpConnect) /\ Shape(FakeConnect)
  BY DEF SnapshotConnect, DumpConnect, FakeConnect, Asked
<1>4. Shape(QemuConnect(TRUE))
  <2>1. PICK s : s = QemuConnect(TRUE)
    OBVIOUS
  <2>2. /\ Len(s) = 6 /\ s[1] = "capabilities" /\ s[2] = "name" /\ s[3] = "selector"
        /\ s[4] = "gdb name" /\ s[5] = "qmp" /\ s[6] = "gdb"
    BY <2>1 DEF QemuConnect
  <2>3. /\ s[1] \notin Asked /\ s[2] \notin Asked /\ s[3] \notin Asked /\ s[4] \notin Asked
        /\ s[5] \in Asked /\ s[6] \in Asked
    BY <2>2 DEF Asked
  <2>4. \A i \in 1..6 : i \in {1, 2, 3, 4, 5, 6}
    OBVIOUS
  <2>5. \A i, j \in 1..6 : i < j /\ s[i] \in Asked => s[j] \in Asked
    BY <2>3, <2>4
  <2>6. 1 \in 1..6 /\ 6 \in Nat
    OBVIOUS
  <2>7. Shape(s)
    <3>1. \E i \in 1..6 : s[i] = "capabilities"
      BY <2>2, <2>6
    <3>2. QED
      BY <2>2, <2>5, <2>6, <3>1, Zenon
  <2>8. QED
    BY <2>1, <2>7
<1>5. Shape(QemuConnect(FALSE))
  BY DEF QemuConnect, Asked
<1>6. c.kind \in DriverKinds
  BY DEF Connector
<1>7. \/ Connect(c) \in {XenConnect, VirtualBoxConnect, LibvirtConnect, SnapshotConnect, DumpConnect,
                         FakeConnect}
      \/ Connect(c) = QemuConnect(c.cpu = "writer")
  BY <1>6 DEF Connect, DriverKinds
<1>8. QemuConnect(c.cpu = "writer") = QemuConnect(TRUE) \/ QemuConnect(c.cpu = "writer") = QemuConnect(FALSE)
  BY DEF QemuConnect
<1> HIDE DEF Shape
<1>9. Shape(Connect(c))
  BY <1>1, <1>2, <1>3, <1>4, <1>5, <1>7, <1>8
<1>10. QED
  BY <1>9 DEF Shape

-----------------------------------------------------------------------------
(* Who refers to a descriptor.                                             *)

SessionsAt(d) == {t \in Threads : session[t] # Nothing /\ session[t].descriptor = d}
CallsAt(d) == {t \in Threads : call[t].connector # Nothing /\ call[t].connector.descriptor = d}
OwnersAt(d) ==
  {c \in {<<"builder", builder>>, <<"registry", registry>>} :
     c[2] # Nothing /\ c[2].descriptor = d}

\* Somebody other than the owner who builds refers to it.
Shared(d) ==
  \/ registry # Nothing /\ registry.descriptor = d
  \/ \E t \in Threads : call[t].connector # Nothing /\ call[t].connector.descriptor = d
  \/ \E t \in Threads : session[t] # Nothing /\ session[t].descriptor = d

\* References counts these.
LEMMA Counted ==
  ASSUME NEW d
  PROVE  /\ References(d) = Cardinality(SessionsAt(d)) + Cardinality(CallsAt(d))
                            + Cardinality(OwnersAt(d))
         /\ IsFiniteSet(SessionsAt(d)) /\ IsFiniteSet(CallsAt(d)) /\ IsFiniteSet(OwnersAt(d))
         /\ Cardinality(SessionsAt(d)) \in Nat /\ Cardinality(CallsAt(d)) \in Nat
         /\ Cardinality(OwnersAt(d)) \in Nat
<1>1. IsFiniteSet(SessionsAt(d)) /\ IsFiniteSet(CallsAt(d))
  BY ProviderAssumption, FS_Subset DEF SessionsAt, CallsAt
<1>2. IsFiniteSet({<<"builder", builder>>, <<"registry", registry>>})
  <2>1. IsFiniteSet({<<"builder", builder>>}) /\ IsFiniteSet({<<"registry", registry>>})
    BY FS_Singleton
  <2>2. {<<"builder", builder>>, <<"registry", registry>>}
          = {<<"builder", builder>>} \cup {<<"registry", registry>>}
    OBVIOUS
  <2>3. QED
    BY <2>1, <2>2, FS_Union
<1>3. IsFiniteSet(OwnersAt(d))
  BY <1>2, FS_Subset DEF OwnersAt
<1>4. References(d) = Cardinality(SessionsAt(d)) + Cardinality(CallsAt(d)) + Cardinality(OwnersAt(d))
  <2>1. SessionsAt(d) = {t \in Threads : IF session[t] # Nothing THEN session[t].descriptor = d ELSE FALSE}
    BY DEF SessionsAt
  <2>2. CallsAt(d) = {t \in Threads : IF call[t].connector # Nothing THEN call[t].connector.descriptor = d ELSE FALSE}
    BY DEF CallsAt
  <2>3. OwnersAt(d) = {c \in {<<"builder", builder>>, <<"registry", registry>>} :
                         IF c[2] # Nothing THEN c[2].descriptor = d ELSE FALSE}
    BY DEF OwnersAt
  <2>4. QED
    BY <2>1, <2>2, <2>3 DEF References
<1>5. QED
  BY <1>1, <1>3, <1>4, FS_CardinalityType

\* A descriptor without references is one that nobody refers to.
LEMMA NoReferences ==
  ASSUME NEW d, References(d) = 0
  PROVE  ~Shared(d) /\ (builder # Nothing => builder.descriptor # d)
<1>1. SessionsAt(d) = {} /\ CallsAt(d) = {} /\ OwnersAt(d) = {}
  <2>1. /\ Cardinality(SessionsAt(d)) = 0 /\ Cardinality(CallsAt(d)) = 0
        /\ Cardinality(OwnersAt(d)) = 0
    BY Counted
  <2>2. QED
    BY <2>1, Counted, FS_EmptySet
<1>2. ASSUME NEW c \in {<<"builder", builder>>, <<"registry", registry>>}, c[2] # Nothing
      PROVE  c[2].descriptor # d
  BY <1>1, <1>2 DEF OwnersAt
<1>3. /\ builder # Nothing => builder.descriptor # d
      /\ registry # Nothing => registry.descriptor # d
  <2>1. <<"builder", builder>>[2] = builder /\ <<"registry", registry>>[2] = registry
    OBVIOUS
  <2>2. QED
    BY <1>2, <2>1
<1>4. QED
  BY <1>1, <1>3 DEF SessionsAt, CallsAt, Shared

\* When the builder's reference is the only one, nobody else has the descriptor.
LEMMA OneReference ==
  ASSUME builder # Nothing, References(builder.descriptor) = 1
  PROVE  ~Shared(builder.descriptor)
<1> DEFINE d == builder.descriptor
           b == <<"builder", builder>>
           r == <<"registry", registry>>
<1>1. b \in OwnersAt(d)
  BY DEF OwnersAt
<1>2. /\ References(d) = Cardinality(SessionsAt(d)) + Cardinality(CallsAt(d))
                         + Cardinality(OwnersAt(d))
      /\ IsFiniteSet(SessionsAt(d)) /\ IsFiniteSet(CallsAt(d)) /\ IsFiniteSet(OwnersAt(d))
      /\ Cardinality(SessionsAt(d)) \in Nat /\ Cardinality(CallsAt(d)) \in Nat
      /\ Cardinality(OwnersAt(d)) \in Nat
  BY Counted
<1>3. IsFiniteSet(OwnersAt(d) \ {b}) /\ Cardinality(OwnersAt(d) \ {b}) = Cardinality(OwnersAt(d)) - 1
  BY <1>1, <1>2, FS_RemoveElement
<1>4. Cardinality(OwnersAt(d) \ {b}) \in Nat
  BY <1>3, FS_CardinalityType
<1>5. /\ Cardinality(SessionsAt(d)) = 0 /\ Cardinality(CallsAt(d)) = 0
      /\ Cardinality(OwnersAt(d) \ {b}) = 0
  BY <1>2, <1>3, <1>4
<1>6. SessionsAt(d) = {} /\ CallsAt(d) = {} /\ OwnersAt(d) \ {b} = {}
  BY <1>2, <1>3, <1>5, FS_EmptySet
<1>7. registry # Nothing => registry.descriptor # d
  <2>1. r # b
    OBVIOUS
  <2>2. QED
    BY <1>6, <2>1 DEF OwnersAt
<1>8. QED
  BY <1>6, <1>7 DEF SessionsAt, CallsAt, Shared

\* There is always a descriptor that nobody refers to.
LEMMA FreeIsFree ==
  ASSUME ProviderTypes, OneAtATime
  PROVE  Free \in Descriptors /\ References(Free) = 0
<1> DEFINE at(t) == IF session[t] # Nothing THEN session[t].descriptor
                    ELSE call[t].connector.descriptor
           D == {at(t) : t \in Threads}
           E == D \cup {builder.descriptor} \cup {registry.descriptor}
<1>1. IsFiniteSet(D) /\ Cardinality(D) <= Cardinality(Threads)
  <2> DEFINE f == [t \in Threads |-> at(t)]
  <2>1. f \in Surjection(Threads, D)
    BY DEF Surjection
  <2>2. QED
    BY <2>1, ProviderAssumption, FS_Surjection
<1>2. IsFiniteSet(E) /\ Cardinality(E) <= Cardinality(Threads) + 2
  <2> DEFINE B == D \cup {builder.descriptor}
  <2>1. Cardinality(D) \in Nat /\ Cardinality(Threads) \in Nat
    BY <1>1, ProviderAssumption, FS_CardinalityType
  <2>2. IsFiniteSet(B) /\ Cardinality(B) <= Cardinality(D) + 1 /\ Cardinality(B) \in Nat
    <3>1. IsFiniteSet(B) /\ (Cardinality(B) = Cardinality(D) \/ Cardinality(B) = Cardinality(D) + 1)
      BY <1>1, FS_AddElement
    <3>2. QED
      BY <2>1, <3>1
  <2>3. IsFiniteSet(E) /\ (Cardinality(E) = Cardinality(B) \/ Cardinality(E) = Cardinality(B) + 1)
    BY <2>2, FS_AddElement
  <2>4. QED
    BY <1>1, <2>1, <2>2, <2>3
<1>3. \E d \in Descriptors : d \notin E
  <2> SUFFICES ASSUME Descriptors \subseteq E PROVE FALSE
    OBVIOUS
  <2>1. Cardinality(Descriptors) <= Cardinality(E)
    BY <1>2, FS_Subset
  <2>2. /\ Cardinality(Descriptors) \in Nat /\ Cardinality(E) \in Nat
        /\ Cardinality(Threads) \in Nat
    BY <1>2, ProviderAssumption, FS_CardinalityType
  <2>3. QED
    BY <1>2, <2>1, <2>2, ProviderAssumption
<1>4. PICK d \in Descriptors : d \notin E
  BY <1>3
<1>5. SessionsAt(d) = {} /\ OwnersAt(d) = {}
  BY <1>4 DEF SessionsAt, OwnersAt
<1>6. CallsAt(d) = {}
  <2> SUFFICES ASSUME NEW t \in Threads, call[t].connector # Nothing,
                      call[t].connector.descriptor = d
               PROVE  FALSE
    BY DEF CallsAt
  <2>1. session[t] = Nothing
    BY Present DEF OneAtATime
  <2>2. at(t) = d
    BY <2>1
  <2>3. QED
    BY <1>4, <2>2
<1>7. References(d) = 0
  BY <1>5, <1>6, Counted, FS_EmptySet
<1>8. QED
  BY <1>7 DEF Free

-----------------------------------------------------------------------------
(* Building.                                                               *)

\* Arc::make_mut changes nothing that anybody but the builder can see.
LEMMA MakeMutFrame ==
  ASSUME ProviderTypes, OneAtATime, builder # Nothing,
         NEW c \in Connector, c.descriptor = builder.descriptor,
         NEW set \in SUBSET Capabilities, MakeMut(c, set)
  PROVE  /\ heap' \in [Descriptors -> SUBSET Capabilities]
         /\ builder' \in Connector /\ heap'[builder'.descriptor] = set
         /\ builder'.kind = c.kind /\ builder'.memory = c.memory /\ builder'.cpu = c.cpu
         /\ builder'.events = c.events /\ builder'.own = c.own /\ builder'.lost = c.lost
         /\ \A d \in Descriptors : Shared(d) => heap'[d] = heap[d]
<1>1. heap \in [Descriptors -> SUBSET Capabilities] /\ c.descriptor \in Descriptors
  BY DEF ProviderTypes, Connector
<1>2. CASE References(builder.descriptor) = 1
  <2>1. heap' = [heap EXCEPT ![c.descriptor] = set] /\ builder' = c
    BY <1>2 DEF MakeMut
  <2>2. ~Shared(c.descriptor)
    BY <1>2, OneReference
  <2>3. QED
    BY <1>1, <2>1, <2>2
<1>3. CASE References(builder.descriptor) # 1
  <2>1. PICK f \in Descriptors : f = Free /\ ~Shared(f)
    BY FreeIsFree, NoReferences
  <2>2. heap' = [heap EXCEPT ![f] = set] /\ builder' = [c EXCEPT !.descriptor = f]
    BY <1>3, <2>1 DEF MakeMut
  <2>3. /\ builder' \in Connector /\ builder'.descriptor = f
        /\ builder'.kind = c.kind /\ builder'.memory = c.memory /\ builder'.cpu = c.cpu
        /\ builder'.events = c.events /\ builder'.own = c.own /\ builder'.lost = c.lost
    BY <2>2 DEF Connector
  <2>4. QED
    BY <1>1, <2>1, <2>2, <2>3
<1>4. QED
  BY <1>2, <1>3

\* A step that changes the builder and what only it refers to.
LEMMA OthersKeep ==
  ASSUME ProviderInv, UNCHANGED <<registry, call, session>>,
         heap' \in [Descriptors -> SUBSET Capabilities],
         \A d \in Descriptors : Shared(d) => heap'[d] = heap[d],
         builder' \in Connector, builder'.kind = driver, UNCHANGED driver,
         WellBuilt(builder'), heap'[builder'.descriptor] = Listed(builder')
  PROVE  ProviderInv'
<1>1. ProviderTypes'
  BY DEF ProviderInv, ProviderTypes
<1>2. OneAtATime' /\ Progress' /\ Granted' /\ RejectedUntouched'
  BY DEF ProviderInv, OneAtATime, Progress, Granted, RejectedUntouched
<1>3. Described(builder)'
  BY DEF Described
<1>4. registry' # Nothing => Described(registry)'
  <2> SUFFICES ASSUME registry # Nothing PROVE Described(registry)'
    OBVIOUS
  <2>1. registry.descriptor \in Descriptors /\ Shared(registry.descriptor)
    BY DEF ProviderInv, ProviderTypes, Connector, Shared
  <2>2. QED
    BY <2>1 DEF ProviderInv, AllDescribed, Described
<1>5. ASSUME NEW t \in Threads, call'[t].connector # Nothing PROVE Described(call[t].connector)'
  <2>1. call[t].connector \in Connector
    BY <1>5, Present DEF ProviderInv, ProviderTypes, Connecting
  <2>2. call[t].connector.descriptor \in Descriptors /\ Shared(call[t].connector.descriptor)
    BY <1>5, <2>1 DEF Connector, Shared
  <2>3. QED
    BY <1>5, <2>2 DEF ProviderInv, AllDescribed, Described
<1>6. ASSUME NEW t \in Threads, session'[t] # Nothing PROVE Described(session[t])'
  <2>1. session[t].descriptor \in Descriptors /\ Shared(session[t].descriptor)
    BY <1>6 DEF ProviderInv, ProviderTypes, Session, Shared
  <2>2. QED
    BY <1>6, <2>1 DEF ProviderInv, AllDescribed, Described
<1>7. AllDescribed'
  BY <1>3, <1>4, <1>5, <1>6 DEF AllDescribed
<1>8. QED
  BY <1>1, <1>2, <1>7 DEF ProviderInv

\* What a connector lists does not depend on where its descriptor is.
LEMMA SameBuild ==
  ASSUME NEW c, NEW d, d.kind = c.kind, d.memory = c.memory, d.cpu = c.cpu,
         d.events = c.events, d.own = c.own, d.lost = c.lost
  PROVE  Listed(d) = Listed(c) /\ (WellBuilt(d) <=> WellBuilt(c))
BY DEF Listed, WellBuilt

\* A method of the builder that makes the descriptor list what the connector has.
LEMMA MakeMutKeeps ==
  ASSUME ProviderInv, builder # Nothing, NEW c \in Connector,
         c.descriptor = builder.descriptor, c.kind = driver, WellBuilt(c),
         Listed(c) \subseteq Capabilities, MakeMut(c, Listed(c)),
         UNCHANGED <<driver, registry, call, session>>
  PROVE  ProviderInv'
<1>1. ProviderTypes /\ OneAtATime
  BY DEF ProviderInv
<1>2. PICK set \in SUBSET Capabilities : set = Listed(c)
  OBVIOUS
<1>3. /\ heap' \in [Descriptors -> SUBSET Capabilities]
      /\ builder' \in Connector /\ heap'[builder'.descriptor] = set
      /\ builder'.kind = c.kind /\ builder'.memory = c.memory /\ builder'.cpu = c.cpu
      /\ builder'.events = c.events /\ builder'.own = c.own /\ builder'.lost = c.lost
      /\ \A d \in Descriptors : Shared(d) => heap'[d] = heap[d]
  BY <1>1, <1>2, MakeMutFrame
<1>4. PICK d : d = builder'
  OBVIOUS
<1>5. Listed(d) = Listed(c) /\ WellBuilt(d)
  BY <1>3, <1>4, SameBuild
<1>6. Listed(builder') = Listed(c) /\ WellBuilt(builder')
  BY <1>4, <1>5
<1>7. QED
  BY <1>2, <1>3, <1>6, OthersKeep

\* What the builder is and what its descriptor lists.
LEMMA BuilderFacts ==
  ASSUME ProviderInv, builder # Nothing
  PROVE  /\ builder \in Connector /\ builder.kind = driver /\ driver \in DriverKinds
         /\ WellBuilt(builder) /\ heap[builder.descriptor] = Listed(builder)
BY DEF ProviderInv, ProviderTypes, AllDescribed, Described

\* All that a connector can list is a capability.
LEMMA ListedCapabilities ==
  ASSUME NEW c \in Connector
  PROVE  Listed(c) \subseteq Capabilities
<1>1. c.kind \in DriverKinds /\ c.own \subseteq Capabilities
  BY DEF Connector
<1>2. Advertised(c.kind) \subseteq Capabilities
  BY <1>1 DEF Advertised, DriverKinds, XenAdvertises, QemuAdvertises, VirtualBoxAdvertises,
              LibvirtAdvertises, SnapshotAdvertises, DumpAdvertises, FakeAdvertises, Capabilities
<1>3. \A x \in {"MemoryRead", "MemoryWrite", "RegisterRead", "RegisterWrite", "Events"} :
        x \in Capabilities
  BY DEF Capabilities
<1>4. QED
  BY <1>1, <1>2, <1>3 DEF Listed

\* A method of the builder that adds to the descriptor what it adds to the
\* connector.
LEMMA InsertKeeps ==
  ASSUME ProviderInv, builder # Nothing, NEW c \in Connector,
         c.descriptor = builder.descriptor, c.kind = driver, WellBuilt(c),
         NEW added, Listed(c) = Listed(builder) \cup added, Insert(c, added)
  PROVE  ProviderInv'
<1>1. MakeMut(c, Listed(c)) /\ UNCHANGED <<driver, registry, call, session>>
  BY BuilderFacts DEF Insert
<1>2. QED
  BY <1>1, MakeMutKeeps, ListedCapabilities

\* A memory transport for Xen is advertised; VirtualBox reads memory anyway.
LEMMA MemoryTransportKeeps == ASSUME ProviderInv, WithMemoryTransport PROVE ProviderInv'
<1>1. PICK b \in Connector : b = builder
  BY BuilderFacts DEF WithMemoryTransport, Building
<1>2. PICK c : c = [b EXCEPT !.memory = TRUE]
  OBVIOUS
<1>3. /\ c \in Connector /\ c.kind = b.kind /\ c.descriptor = b.descriptor /\ c.memory = TRUE
      /\ c.cpu = b.cpu /\ c.events = b.events /\ c.own = b.own /\ c.lost = b.lost
  BY <1>2 DEF Connector
<1>4. builder # Nothing /\ b.kind = driver /\ WellBuilt(b)
  BY <1>1, BuilderFacts DEF WithMemoryTransport, Building
<1>5. WellBuilt(c)
  BY <1>3, <1>4 DEF WellBuilt
<1>6. CASE driver = "xen"
  <2>1. Insert(c, {"MemoryRead", "MemoryWrite"})
    BY <1>1, <1>2, <1>6 DEF WithMemoryTransport, Building
  <2>2. Listed(c) = Listed(b) \cup {"MemoryRead", "MemoryWrite"}
    BY <1>3, <1>4, <1>6 DEF Listed
  <2>3. QED
    BY <1>1, <1>3, <1>4, <1>5, <2>1, <2>2, InsertKeeps
<1>7. CASE driver # "xen"
  <2>1. builder' = c /\ UNCHANGED <<heap, driver, registry, call, session>>
    BY <1>1, <1>2, <1>7 DEF WithMemoryTransport, Building
  <2>2. Listed(c) = Listed(b)
    BY <1>3, <1>4, <1>7 DEF Listed
  <2>3. heap'[c.descriptor] = Listed(c)
    BY <1>1, <1>3, <1>4, <2>1, <2>2, BuilderFacts
  <2>4. heap' \in [Descriptors -> SUBSET Capabilities]
    BY <2>1 DEF ProviderInv, ProviderTypes
  <2>5. QED
    BY <1>3, <1>4, <1>5, <2>1, <2>3, <2>4, OthersKeep
<1>8. QED
  BY <1>6, <1>7

\* A register transport for Xen: a writer, or a reader in place of what was there.
LEMMA XenCpuKeeps ==
  ASSUME ProviderInv, builder # Nothing, driver = "xen",
         \/ Insert([builder EXCEPT !.cpu = "writer", !.lost = FALSE],
                   {"RegisterRead", "RegisterWrite"})
         \/ Insert([builder EXCEPT !.cpu = "reader", !.lost = Lost], {"RegisterRead"})
  PROVE  ProviderInv'
<1>1. PICK b \in Connector : b = builder
  BY BuilderFacts
<1>2. b.kind = "xen" /\ WellBuilt(b)
  BY <1>1, BuilderFacts
<1>3. CASE Insert([builder EXCEPT !.cpu = "writer", !.lost = FALSE],
                  {"RegisterRead", "RegisterWrite"})
  <2>1. PICK c : c = [b EXCEPT !.cpu = "writer", !.lost = FALSE]
    OBVIOUS
  <2>2. /\ c \in Connector /\ c.kind = b.kind /\ c.descriptor = b.descriptor /\ c.memory = b.memory
        /\ c.cpu = "writer" /\ c.events = b.events /\ c.own = b.own /\ c.lost = FALSE
    BY <2>1 DEF Connector
  <2>3. WellBuilt(c)
    BY <1>2, <2>2 DEF WellBuilt
  <2>4. Listed(c) = Listed(b) \cup {"RegisterRead", "RegisterWrite"}
    BY <1>2, <2>2 DEF Listed
  <2>5. QED
    BY <1>1, <1>2, <1>3, <2>1, <2>2, <2>3, <2>4, InsertKeeps
<1>4. CASE Insert([builder EXCEPT !.cpu = "reader", !.lost = Lost], {"RegisterRead"})
  <2>1. PICK l \in BOOLEAN : l = (b.lost \/ b.cpu = "writer")
    OBVIOUS
  <2>2. PICK c : c = [b EXCEPT !.cpu = "reader", !.lost = l]
    OBVIOUS
  <2>3. /\ c \in Connector /\ c.kind = b.kind /\ c.descriptor = b.descriptor /\ c.memory = b.memory
        /\ c.cpu = "reader" /\ c.events = b.events /\ c.own = b.own /\ c.lost = l
    BY <2>2 DEF Connector
  <2>4. WellBuilt(c)
    BY <1>2, <2>3 DEF WellBuilt
  <2>5. Listed(c) = Listed(b) \cup {"RegisterRead"}
    BY <1>2, <2>1, <2>3 DEF Listed
  <2>6. Insert(c, {"RegisterRead"})
    BY <1>1, <1>4, <2>1, <2>2 DEF Lost
  <2>7. QED
    BY <1>1, <1>2, <2>3, <2>4, <2>5, <2>6, InsertKeeps
<1>5. QED
  BY <1>3, <1>4

\* An event transport for Xen.
LEMMA EventTransportKeeps == ASSUME ProviderInv, WithEventTransport PROVE ProviderInv'
<1>1. PICK b \in Connector : b = builder
  BY BuilderFacts DEF WithEventTransport, Building
<1>2. PICK c : c = [b EXCEPT !.events = TRUE]
  OBVIOUS
<1>3. /\ c \in Connector /\ c.kind = b.kind /\ c.descriptor = b.descriptor /\ c.memory = b.memory
      /\ c.cpu = b.cpu /\ c.events = TRUE /\ c.own = b.own /\ c.lost = b.lost
  BY <1>2 DEF Connector
<1>4. builder # Nothing /\ b.kind = "xen" /\ driver = "xen" /\ WellBuilt(b)
  BY <1>1, BuilderFacts DEF WithEventTransport, Building
<1>5. WellBuilt(c) /\ Listed(c) = Listed(b) \cup {"Events"}
  BY <1>3, <1>4 DEF WellBuilt, Listed
<1>6. Insert(c, {"Events"})
  BY <1>1, <1>2 DEF WithEventTransport
<1>7. QED
  BY <1>1, <1>3, <1>4, <1>5, <1>6, InsertKeeps

\* Register writes of QEMU and VirtualBox, whose descriptors list register reads
\* already.
LEMMA RegisterWriteKeeps == ASSUME ProviderInv, WithRegisterWrite PROVE ProviderInv'
<1>1. PICK b \in Connector : b = builder
  BY BuilderFacts DEF WithRegisterWrite, Building
<1>2. PICK c : c = [b EXCEPT !.cpu = "writer"]
  OBVIOUS
<1>3. /\ c \in Connector /\ c.kind = b.kind /\ c.descriptor = b.descriptor /\ c.memory = b.memory
      /\ c.cpu = "writer" /\ c.events = b.events /\ c.own = b.own /\ c.lost = b.lost
  BY <1>2 DEF Connector
<1>4. builder # Nothing /\ b.kind \in {"qemu", "virtualbox"} /\ driver = b.kind /\ WellBuilt(b)
  BY <1>1, BuilderFacts DEF WithRegisterWrite, Building
<1>5. WellBuilt(c)
  BY <1>3, <1>4 DEF WellBuilt
<1>6. "RegisterRead" \in Advertised(b.kind)
  BY <1>4 DEF Advertised, QemuAdvertises, VirtualBoxAdvertises
<1>7. Listed(c) = Listed(b) \cup {"RegisterWrite"}
  BY <1>3, <1>4, <1>6 DEF Listed, WellBuilt
<1>8. Insert(c, {"RegisterWrite"})
  BY <1>1, <1>2 DEF WithRegisterWrite
<1>9. QED
  BY <1>1, <1>3, <1>4, <1>5, <1>7, <1>8, InsertKeeps

\* The fake provider keeps its own copy in step with the descriptor.
LEMMA CapabilitiesKeep ==
  ASSUME ProviderInv, NEW set \in Requests, WithCapabilities(set)
  PROVE  ProviderInv'
<1>0. set \in SUBSET Capabilities
  BY ProviderAssumption
<1>1. PICK b \in Connector : b = builder
  BY BuilderFacts DEF WithCapabilities, Building
<1>2. PICK c : c = [b EXCEPT !.own = set]
  OBVIOUS
<1>3. /\ c \in Connector /\ c.kind = b.kind /\ c.descriptor = b.descriptor /\ c.memory = b.memory
      /\ c.cpu = b.cpu /\ c.events = b.events /\ c.own = set /\ c.lost = b.lost
  BY <1>0, <1>2 DEF Connector
<1>4. builder # Nothing /\ b.kind = "fake" /\ driver = "fake" /\ WellBuilt(b)
  BY <1>1, BuilderFacts DEF WithCapabilities, Building
<1>5. WellBuilt(c) /\ Listed(c) = set
  BY <1>3, <1>4 DEF WellBuilt, Listed
<1>6. MakeMut(c, Listed(c)) /\ UNCHANGED <<driver, registry, call, session>>
  BY <1>1, <1>2, <1>5 DEF WithCapabilities
<1>7. QED
  BY <1>0, <1>1, <1>3, <1>4, <1>5, <1>6, MakeMutKeeps

\* A constructor takes a descriptor that nobody refers to.
LEMMA CreateKeeps == ASSUME ProviderInv, Create PROVE ProviderInv'
<1>1. ProviderTypes /\ OneAtATime
  BY DEF ProviderInv
<1>2. PICK f \in Descriptors : f = Free /\ ~Shared(f)
  BY <1>1, FreeIsFree, NoReferences
<1>3. PICK c : c = NewConnector(driver, f)
  OBVIOUS
<1>4. /\ c.kind = driver /\ c.descriptor = f /\ c.memory = FALSE /\ c.cpu = "none"
      /\ c.events = FALSE /\ c.own = (IF driver = "fake" THEN FakeAdvertises ELSE {})
      /\ c.lost = FALSE
  BY <1>3 DEF NewConnector
<1>5. c \in Connector
  BY <1>1, <1>3 DEF NewConnector, Connector, ProviderTypes, FakeAdvertises, Capabilities
<1>6. WellBuilt(c) /\ Listed(c) = Advertised(driver)
  BY <1>4 DEF WellBuilt, Listed, Advertised
<1>7. /\ heap' = [heap EXCEPT ![f] = Advertised(driver)] /\ builder' = c
      /\ UNCHANGED <<driver, registry, call, session>>
  BY <1>2, <1>3 DEF Create
<1>8. /\ heap' \in [Descriptors -> SUBSET Capabilities] /\ heap'[f] = Listed(c)
      /\ \A d \in Descriptors : Shared(d) => heap'[d] = heap[d]
  <2>1. Listed(c) \in SUBSET Capabilities
    BY <1>5, ListedCapabilities
  <2>2. QED
    BY <1>1, <1>2, <1>6, <1>7, <2>1 DEF ProviderTypes
<1>9. QED
  BY <1>4, <1>5, <1>6, <1>7, <1>8, OthersKeep

\* The owner drops the connector, or moves a clone into the registry or out of it.
LEMMA OwnersKeep ==
  ASSUME ProviderInv, Drop \/ Register \/ Unregister
  PROVE  ProviderInv'
<1>1. /\ UNCHANGED <<heap, driver, call, session>>
      /\ builder' = builder \/ builder' = Nothing
      /\ registry' \in {registry, builder, Nothing}
  BY DEF Drop, Register, Unregister
<1>2. ProviderTypes'
  BY <1>1 DEF ProviderInv, ProviderTypes
<1>3. OneAtATime' /\ Progress' /\ Granted' /\ RejectedUntouched'
  BY <1>1 DEF ProviderInv, OneAtATime, Progress, Granted, RejectedUntouched
<1>4. AllDescribed'
  BY <1>1 DEF ProviderInv, AllDescribed, Described
<1>5. QED
  BY <1>2, <1>3, <1>4 DEF ProviderInv

-----------------------------------------------------------------------------
(* Attaching.                                                              *)

\* What the invariant says of one call.
CallGood(c) ==
  /\ c \in Connecting \cup Ended \cup {Idle}
  /\ c.connector # Nothing => Described(c.connector)
  /\ c.at = "rejected" => c.commands = 0
  /\ c.at = "connect" =>
       /\ c.step <= Len(Connect(c.connector)) + 1
       /\ c.commands > 0 => \E i \in 1..Len(Connect(c.connector)) :
                               i < c.step /\ Connect(c.connector)[i] \in Asked
       /\ \A i \in 1..Len(Connect(c.connector)) :
            i < c.step /\ Connect(c.connector)[i] = "capabilities" =>
              c.required \subseteq Listed(c.connector)

\* Every call is good, and a step that only changes one call keeps the invariant
\* when the new one is.
LEMMA CallsGood == ASSUME ProviderInv, NEW t \in Threads PROVE CallGood(call[t])
BY DEF ProviderInv, ProviderTypes, AllDescribed, RejectedUntouched, Progress, CallGood

\* The same, for the step.
LEMMA CallKeeps ==
  ASSUME ProviderInv, NEW t \in Threads, UNCHANGED <<heap, driver, builder, registry, session>>,
         NEW c, call' = [call EXCEPT ![t] = c], CallGood(c), session[t] = Nothing
  PROVE  ProviderInv'
<1>1. call \in [Threads -> Connecting \cup Ended \cup {Idle}]
  BY DEF ProviderInv, ProviderTypes
<1>2. call'[t] = c /\ \A u \in Threads : u # t => call'[u] = call[u]
  BY <1>1
<1>3. ProviderTypes'
  BY <1>1 DEF ProviderInv, ProviderTypes, CallGood
<1>4. OneAtATime' /\ Granted'
  BY <1>2 DEF ProviderInv, OneAtATime, Granted
<1>5. \A u \in Threads : CallGood(call'[u])
  BY <1>2, CallsGood
<1>6. AllDescribed'
  <2>1. \A u \in Threads : call'[u].connector # Nothing => Described(call'[u].connector)
    BY <1>5 DEF CallGood
  <2>2. QED
    BY <2>1 DEF ProviderInv, AllDescribed, Described
<1>7. Progress' /\ RejectedUntouched'
  BY <1>5 DEF CallGood, Progress, RejectedUntouched
<1>8. QED
  BY <1>3, <1>4, <1>6, <1>7 DEF ProviderInv

\* An idle call is good.
LEMMA IdleGood == CallGood(Idle)
BY Present DEF CallGood

\* A lookup begins at the first step.
LEMMA LookupKeeps ==
  ASSUME ProviderInv, NEW t \in Threads, NEW required \in Requests, NEW wrong \in Reasons,
         Lookup(t, required, wrong)
  PROVE  ProviderInv'
<1>1. PICK c : c = [at |-> "connect", connector |-> registry, step |-> 1,
                    required |-> required, wrong |-> wrong, commands |-> 0]
  OBVIOUS
<1>2. registry \in Connector /\ Described(registry) /\ session[t] = Nothing
  BY DEF Lookup, ProviderInv, ProviderTypes, AllDescribed
<1>3. /\ c.at = "connect" /\ c.connector = registry /\ c.step = 1 /\ c.required = required
      /\ c.wrong = wrong /\ c.commands = 0
  BY <1>1
<1>4. c \in Connecting
  BY <1>1, <1>2, ProviderAssumption DEF Connecting
<1>5. Len(Connect(registry)) \in Nat
  BY <1>2, ConnectShape
<1>6. CallGood(c)
  BY <1>2, <1>3, <1>4, <1>5 DEF CallGood
<1>7. QED
  BY <1>1, <1>2, <1>6, CallKeeps DEF Lookup

\* A call that is in connect() and where it is.
LEMMA InConnect ==
  ASSUME ProviderInv, NEW t \in Threads, call[t].at = "connect"
  PROVE  /\ call[t] \in Connecting /\ CallGood(call[t]) /\ session[t] = Nothing
         /\ call[t].connector \in Connector /\ Described(call[t].connector)
<1>1. call[t] \in Connecting
  BY Present DEF ProviderInv, ProviderTypes
<1>2. call[t].connector \in Connector /\ call[t].connector # Nothing
  BY <1>1, Present DEF Connecting
<1>3. session[t] = Nothing
  BY Present DEF ProviderInv, OneAtATime
<1>4. QED
  BY <1>1, <1>2, <1>3, CallsGood DEF CallGood

\* A call that ends without a session.
LEMMA GiveKeeps ==
  ASSUME ProviderInv, NEW t \in Threads, call[t].at = "connect",
         NEW outcome \in {"failed", "rejected"}, Give(t, outcome),
         outcome = "rejected" => call[t].commands = 0,
         UNCHANGED <<heap, driver, builder, registry, session>>
  PROVE  ProviderInv'
<1>1. PICK b \in Connecting : b = call[t]
  BY InConnect
<1>2. PICK c : c = [b EXCEPT !.at = outcome, !.connector = Nothing]
  OBVIOUS
<1>3. call' = [call EXCEPT ![t] = c]
  BY <1>1, <1>2 DEF Give
<1>4. c \in Ended /\ c.at = outcome /\ c.connector = Nothing /\ c.commands = b.commands
  BY <1>2 DEF Connecting, Ended
<1>5. CallGood(c)
  BY <1>1, <1>4 DEF CallGood
<1>6. QED
  BY <1>3, <1>5, CallKeeps, InConnect

\* A check compares the request with the connector, before anything was asked.
LEMMA CheckKeeps == ASSUME ProviderInv, NEW t \in Threads, Check(t) PROVE ProviderInv'
<1>1. call[t].at = "connect"
  BY DEF Check, Step
<1>2. PICK b \in Connecting : b = call[t]
  BY <1>1, InConnect
<1>3. PICK n \in Nat \ {0} : n = b.step
  BY DEF Connecting
<1>4. PICK steps : steps = Connect(b.connector)
  OBVIOUS
<1>5. /\ Len(steps) \in Nat
      /\ \A i, j \in 1..Len(steps) : i < j /\ steps[i] \in Asked => steps[j] \in Asked
  BY <1>1, <1>2, <1>4, InConnect, ConnectShape
<1>6. n \in 1..Len(steps) /\ Step(b) = steps[n] /\ steps[n] \notin Asked
  BY <1>1, <1>2, <1>3, <1>4, <1>5 DEF Check, Step
<1>7. b.commands = 0
  <2>1. b.commands \in Nat
    BY DEF Connecting
  <2>2. b.commands > 0 => \E i \in 1..Len(steps) : i < n /\ steps[i] \in Asked
    BY <1>1, <1>2, <1>3, <1>4, CallsGood DEF CallGood
  <2>3. QED
    BY <1>5, <1>6, <2>1, <2>2
<1>8. CASE Passes(b)
  <2>1. PICK c : c = [b EXCEPT !.step = n + 1]
    OBVIOUS
  <2>2. call' = [call EXCEPT ![t] = c]
    BY <1>2, <1>3, <1>8, <2>1 DEF Check
  <2>3. /\ c \in Connecting /\ c.at = "connect" /\ c.connector = b.connector /\ c.step = n + 1
        /\ c.required = b.required /\ c.commands = 0
    BY <1>3, <1>7, <2>1 DEF Connecting
  <2>4. ASSUME steps[n] = "capabilities" PROVE b.required \subseteq Listed(b.connector)
    <3>1. heap[b.connector.descriptor] = Listed(b.connector)
      BY <1>1, <1>2, InConnect DEF Described
    <3>2. b.connector.kind = "fake" => Listed(b.connector) = b.connector.own
      BY DEF Listed
    <3>3. QED
      BY <1>6, <1>8, <2>4, <3>1, <3>2 DEF Passes
  <2>5. \A i \in 1..Len(steps) : i < n /\ steps[i] = "capabilities" =>
          b.required \subseteq Listed(b.connector)
    BY <1>1, <1>2, <1>3, <1>4, CallsGood DEF CallGood
  <2>6. \A i \in 1..Len(steps) : i < n + 1 /\ steps[i] = "capabilities" =>
          c.required \subseteq Listed(c.connector)
    BY <1>6, <2>3, <2>4, <2>5
  <2>7. c.connector # Nothing => Described(c.connector)
    BY <1>1, <1>2, <2>3, InConnect
  <2>8. CallGood(c)
    BY <1>3, <1>4, <1>5, <1>6, <2>3, <2>6, <2>7 DEF CallGood
  <2>9. QED
    BY <1>1, <2>2, <2>8, CallKeeps, InConnect DEF Check
<1>9. CASE ~Passes(b)
  <2>1. Give(t, "rejected") /\ UNCHANGED <<heap, driver, builder, registry, session>>
    BY <1>2, <1>9 DEF Check
  <2>2. QED
    BY <1>1, <1>2, <1>7, <2>1, GiveKeeps
<1>10. QED
  BY <1>8, <1>9

\* The target answers.
LEMMA AskKeeps == ASSUME ProviderInv, NEW t \in Threads, Ask(t) PROVE ProviderInv'
<1>1. call[t].at = "connect"
  BY DEF Ask, Step, Asked
<1>2. PICK b \in Connecting : b = call[t]
  BY <1>1, InConnect
<1>3. PICK n \in Nat \ {0} : n = b.step
  BY DEF Connecting
<1>4. PICK steps : steps = Connect(b.connector)
  OBVIOUS
<1>5. Len(steps) \in Nat
  BY <1>1, <1>2, <1>4, InConnect, ConnectShape
<1>6. n \in 1..Len(steps) /\ steps[n] \in Asked
  BY <1>1, <1>2, <1>3, <1>4, <1>5 DEF Ask, Step, Asked
<1>7. PICK c : c = [b EXCEPT !.step = n + 1, !.commands = @ + 1]
  OBVIOUS
<1>8. call' = [call EXCEPT ![t] = c]
  BY <1>2, <1>3, <1>7 DEF Ask
<1>9. /\ c \in Connecting /\ c.at = "connect" /\ c.connector = b.connector /\ c.step = n + 1
      /\ c.required = b.required
  <2>1. c = [at |-> b.at, connector |-> b.connector, step |-> n + 1, required |-> b.required,
             wrong |-> b.wrong, commands |-> b.commands + 1]
    BY <1>7 DEF Connecting
  <2>2. QED
    BY <1>3, <2>1 DEF Connecting
<1>10. \A i \in 1..Len(steps) : i < n /\ steps[i] = "capabilities" =>
         b.required \subseteq Listed(b.connector)
  BY <1>1, <1>2, <1>3, <1>4, CallsGood DEF CallGood
<1>11. steps[n] # "capabilities"
  BY <1>6 DEF Asked
<1>12. \A i \in 1..Len(steps) : i < n + 1 /\ steps[i] = "capabilities" =>
         c.required \subseteq Listed(c.connector)
  BY <1>6, <1>9, <1>10, <1>11
<1>13. c.connector # Nothing => Described(c.connector)
  BY <1>1, <1>2, <1>9, InConnect
<1>14. CallGood(c)
  BY <1>3, <1>4, <1>5, <1>6, <1>9, <1>12, <1>13 DEF CallGood
<1>15. QED
  BY <1>1, <1>8, <1>14, CallKeeps, InConnect DEF Ask

\* The target does not answer.
LEMMA AskFailsKeeps == ASSUME ProviderInv, NEW t \in Threads, AskFails(t) PROVE ProviderInv'
<1>1. call[t].at = "connect"
  BY DEF AskFails, Step, Asked
<1>2. QED
  BY <1>1, GiveKeeps DEF AskFails

\* The steps of connect() are no outcomes.
LEMMA DoneIsNoStep ==
  ASSUME NEW c \in Connector
  PROVE  \A i \in 1..Len(Connect(c)) : Connect(c)[i] # "done"
<1> DEFINE Fine(s) == \A i \in 1..Len(s) : s[i] # "done"
<1>1. Fine(XenConnect) /\ Fine(VirtualBoxConnect)
  BY DEF XenConnect, VirtualBoxConnect
<1>2. Fine(LibvirtConnect)
  BY DEF LibvirtConnect
<1>3. Fine(SnapshotConnect) /\ Fine(DumpConnect) /\ Fine(FakeConnect)
  BY DEF SnapshotConnect, DumpConnect, FakeConnect
<1>4. Fine(QemuConnect(TRUE)) /\ Fine(QemuConnect(FALSE))
  <2>1. PICK s : s = QemuConnect(TRUE)
    OBVIOUS
  <2>2. /\ Len(s) = 6 /\ s[1] # "done" /\ s[2] # "done" /\ s[3] # "done"
        /\ s[4] # "done" /\ s[5] # "done" /\ s[6] # "done"
    BY <2>1 DEF QemuConnect
  <2>3. \A i \in 1..6 : i \in {1, 2, 3, 4, 5, 6}
    OBVIOUS
  <2>4. Fine(s)
    BY <2>2, <2>3
  <2>5. Fine(QemuConnect(FALSE))
    BY DEF QemuConnect
  <2>6. QED
    BY <2>1, <2>4, <2>5
<1>5. \/ Connect(c) \in {XenConnect, VirtualBoxConnect, LibvirtConnect, SnapshotConnect, DumpConnect,
                         FakeConnect}
      \/ Connect(c) = QemuConnect(c.cpu = "writer")
  BY DEF Connect, DriverKinds, Connector
<1>6. QemuConnect(c.cpu = "writer") = QemuConnect(TRUE) \/ QemuConnect(c.cpu = "writer") = QemuConnect(FALSE)
  BY DEF QemuConnect
<1> HIDE DEF Fine
<1>7. Fine(Connect(c))
  BY <1>1, <1>2, <1>3, <1>4, <1>5, <1>6
<1>8. QED
  BY <1>7 DEF Fine

\* A session is its connector with the request.
LEMMA SessionFields ==
  ASSUME NEW b \in Connecting, NEW k \in Connector, k = b.connector, NEW s, s = SessionOf(b)
  PROVE  /\ s \in Session /\ s.kind = k.kind /\ s.descriptor = k.descriptor /\ s.memory = k.memory
         /\ s.cpu = k.cpu /\ s.events = k.events /\ s.own = k.own /\ s.lost = k.lost
         /\ s.required = b.required
<1>1. s = [kind |-> k.kind, descriptor |-> k.descriptor, memory |-> k.memory, cpu |-> k.cpu,
           events |-> k.events, own |-> k.own, lost |-> k.lost, required |-> b.required]
  BY DEF SessionOf
<1>2. QED
  BY <1>1 DEF Session, Connector, Connecting

\* A session is opened with what the call was granted.
LEMMA OpenKeeps == ASSUME ProviderInv, NEW t \in Threads, Open(t) PROVE ProviderInv'
<1>1. call[t].at = "connect"
  BY DEF Open, Step
<1>2. PICK b \in Connecting : b = call[t]
  BY <1>1, InConnect
<1>3. PICK k \in Connector : k = b.connector
  BY DEF Connecting
<1>4. b.required \subseteq Listed(k)
  <2>1. PICK i \in 1..Len(Connect(k)) : Connect(k)[i] = "capabilities"
    BY ConnectShape
  <2>2. Len(Connect(k)) \in Nat /\ b.step \in Nat
    BY ConnectShape DEF Connecting
  <2>3. b.step > Len(Connect(k))
    <3>1. IF b.step > Len(Connect(k)) THEN TRUE ELSE Connect(k)[b.step] = "done"
      BY <1>1, <1>2, <1>3 DEF Open, Step
    <3>2. \A j \in 1..Len(Connect(k)) : Connect(k)[j] # "done"
      BY DoneIsNoStep
    <3>3. b.step # 0
      BY DEF Connecting
    <3>4. QED
      BY <2>2, <3>1, <3>2, <3>3
  <2>4. CallGood(b)
    BY <1>2, CallsGood
  <2>5. b.at = "connect" => \A j \in 1..Len(Connect(k)) :
          j < b.step /\ Connect(k)[j] = "capabilities" => b.required \subseteq Listed(k)
    BY <1>3, <2>4, Zenon DEF CallGood
  <2>6. b.at = "connect" /\ i < b.step
    BY <1>1, <1>2, <2>2, <2>3
  <2>7. QED
    BY <2>1, <2>5, <2>6
<1>5. PICK s : s = SessionOf(b)
  OBVIOUS
<1>6. /\ s \in Session /\ s.kind = k.kind /\ s.descriptor = k.descriptor /\ s.memory = k.memory
      /\ s.cpu = k.cpu /\ s.events = k.events /\ s.own = k.own /\ s.lost = k.lost
      /\ s.required = b.required
  BY <1>2, <1>3, <1>5, SessionFields
<1>7. session' = [session EXCEPT ![t] = s] /\ call' = [call EXCEPT ![t] = Idle]
      /\ UNCHANGED <<heap, driver, builder, registry>>
  BY <1>2, <1>5 DEF Open
<1>8. /\ call \in [Threads -> Connecting \cup Ended \cup {Idle}]
      /\ session \in [Threads -> Session \cup {Nothing}]
  BY DEF ProviderInv, ProviderTypes
<1>9. /\ call'[t] = Idle /\ session'[t] = s
      /\ \A u \in Threads : u # t => call'[u] = call[u] /\ session'[u] = session[u]
  BY <1>7, <1>8
<1>10. ProviderTypes'
  BY <1>6, <1>7, <1>8 DEF ProviderInv, ProviderTypes
<1>11. OneAtATime'
  BY <1>9 DEF ProviderInv, OneAtATime
<1>12. Listed(s) = Listed(k) /\ Described(s)
  <2>1. Listed(s) = Listed(k) /\ (WellBuilt(s) <=> WellBuilt(k))
    BY <1>6, SameBuild
  <2>2. Described(k)
    BY <1>1, <1>2, <1>3, InConnect
  <2>3. QED
    BY <1>6, <2>1, <2>2 DEF Described
<1>13. AllDescribed'
  BY <1>7, <1>9, <1>12, Present DEF ProviderInv, AllDescribed, Described
<1>14. Granted'
  BY <1>4, <1>6, <1>9, <1>12 DEF ProviderInv, Granted
<1>15. Progress' /\ RejectedUntouched'
  BY <1>9, Present DEF ProviderInv, Progress, RejectedUntouched
<1>16. QED
  BY <1>10, <1>11, <1>13, <1>14, <1>15 DEF ProviderInv

\* The caller takes note of a failure.
LEMMA ReturnKeeps == ASSUME ProviderInv, NEW t \in Threads, Return(t) PROVE ProviderInv'
<1>1. session[t] = Nothing
  BY Present DEF Return, ProviderInv, OneAtATime
<1>2. QED
  BY <1>1, IdleGood, CallKeeps DEF Return

\* A session is dropped.
LEMMA CloseKeeps == ASSUME ProviderInv, NEW t \in Threads, Close(t) PROVE ProviderInv'
<1>1. session \in [Threads -> Session \cup {Nothing}]
  BY DEF ProviderInv, ProviderTypes
<1>2. /\ session' = [session EXCEPT ![t] = Nothing] /\ session'[t] = Nothing
      /\ UNCHANGED <<heap, driver, builder, registry, call>>
      /\ \A u \in Threads : u # t => session'[u] = session[u]
  BY <1>1 DEF Close
<1>3. ProviderTypes'
  BY <1>1, <1>2 DEF ProviderInv, ProviderTypes
<1>4. OneAtATime' /\ Granted'
  BY <1>2 DEF ProviderInv, OneAtATime, Granted
<1>5. AllDescribed'
  BY <1>2 DEF ProviderInv, AllDescribed, Described
<1>6. Progress' /\ RejectedUntouched'
  BY <1>2 DEF ProviderInv, Progress, RejectedUntouched
<1>7. QED
  BY <1>3, <1>4, <1>5, <1>6 DEF ProviderInv

\* Nothing is built, registered or attached at first.
LEMMA InitProviders == Init => ProviderInv
<1> SUFFICES ASSUME Init PROVE ProviderInv
  OBVIOUS
<1>1. ProviderTypes
  BY ProviderAssumption DEF Init, ProviderTypes
<1>2. \A t \in Threads : session[t] = Nothing /\ call[t].connector = Nothing /\ call[t].at = "idle"
  BY Present DEF Init
<1>3. QED
  BY <1>1, <1>2 DEF Init, ProviderInv, OneAtATime, AllDescribed, Progress, Granted, RejectedUntouched

\* Every step of an owner keeps the invariant.
LEMMA BuildKeeps == ASSUME ProviderInv, Build PROVE ProviderInv'
<1>1. ASSUME NEW writes \in BOOLEAN, WithCpuTransport(writes) PROVE ProviderInv'
  <2>1. /\ builder # Nothing /\ driver = "xen"
        /\ \/ Insert([builder EXCEPT !.cpu = "writer", !.lost = FALSE],
                     {"RegisterRead", "RegisterWrite"})
           \/ Insert([builder EXCEPT !.cpu = "reader", !.lost = Lost], {"RegisterRead"})
    BY <1>1 DEF WithCpuTransport, Building
  <2>2. QED
    BY <2>1, XenCpuKeeps
<1>2. CASE WithXenctx
  <2>1. /\ builder # Nothing /\ driver = "xen"
        /\ Insert([builder EXCEPT !.cpu = "reader", !.lost = Lost], {"RegisterRead"})
    BY <1>2 DEF WithXenctx, Building
  <2>2. QED
    BY <2>1, XenCpuKeeps
<1>3. QED
  BY <1>1, <1>2, CreateKeeps, OwnersKeep, MemoryTransportKeeps, EventTransportKeeps,
     RegisterWriteKeeps, CapabilitiesKeep DEF Build

\* Every step keeps the invariant.
LEMMA ProvidersStep == ProviderInv /\ [Next]_vars => ProviderInv'
<1> SUFFICES ASSUME ProviderInv, [Next]_vars PROVE ProviderInv'
  OBVIOUS
<1>1. CASE UNCHANGED vars
  <2>1. UNCHANGED <<heap, driver, builder, registry, call, session>>
    BY <1>1 DEF vars
  <2>2. ProviderTypes' /\ OneAtATime' /\ Progress' /\ Granted' /\ RejectedUntouched'
    BY <2>1 DEF ProviderInv, ProviderTypes, OneAtATime, Progress, Granted, RejectedUntouched
  <2>3. AllDescribed'
    BY <2>1 DEF ProviderInv, AllDescribed, Described
  <2>4. QED
    BY <2>2, <2>3 DEF ProviderInv
<1>2. CASE Build
  BY <1>2, BuildKeeps
<1>3. ASSUME NEW t \in Threads, Attach(t) PROVE ProviderInv'
  <2>1. ASSUME NEW required \in Requests,
               NEW wrong \in {"nothing", "name", "gdb name", "uri", "segments", "selector"},
               Lookup(t, required, wrong)
        PROVE  ProviderInv'
    BY <2>1, LookupKeeps DEF Reasons
  <2>2. QED
    BY <1>3, <2>1, CheckKeeps, AskKeeps, AskFailsKeeps, OpenKeeps, ReturnKeeps, CloseKeeps
    DEF Attach
<1>4. QED
  BY <1>1, <1>2, <1>3 DEF Next

\* The invariant holds of every reachable state.
LEMMA ProviderInvariant == Spec => []ProviderInv
BY InitProviders, ProvidersStep, PTL DEF Spec

\* connect() of every driver checks names, capabilities and selector before it
\* talks to the hypervisor: a request that is refused has not reached it.
THEOREM ProvidersRejectUntouched == Spec => []RejectedUntouched
<1>1. ProviderInv => RejectedUntouched
  BY DEF ProviderInv
<1>2. QED
  BY <1>1, ProviderInvariant, PTL

\* A session has exactly the facets that its descriptor lists, and those that the
\* attach required, for every driver and every sequence of builder calls; the
\* exception is the register transport of Xen that was replaced by a reader.
THEOREM ProvidersServe == Spec => []ServesWhatItAdvertises
<1>1. ProviderInv => ServesWhatItAdvertises
  <2> SUFFICES ASSUME ProviderInv, NEW t \in Threads, session[t] # Nothing,
                      NEW c \in Capabilities
               PROVE  /\ Served(session[t], c) => c \in SessionCapabilities(session[t])
                      /\ c \in SessionCapabilities(session[t]) \union session[t].required =>
                           Served(session[t], c) \/ (session[t].lost /\ c = "RegisterWrite")
    BY DEF ServesWhatItAdvertises, Sessions
  <2>1. PICK s \in Session : s = session[t]
    BY DEF ProviderInv, ProviderTypes
  <2>2. WellBuilt(s) /\ heap[s.descriptor] = Listed(s) /\ s.required \subseteq Listed(s)
    BY <2>1 DEF ProviderInv, AllDescribed, Described, Granted
  <2>3. SessionCapabilities(s) = Listed(s)
    BY <2>2 DEF SessionCapabilities, Listed
  <2>4. s.kind \in DriverKinds
    BY DEF Session
  <2>5. /\ Served(s, c) => c \in Listed(s)
        /\ c \in Listed(s) => Served(s, c) \/ (s.lost /\ c = "RegisterWrite")
    <3>1. CASE s.kind = "xen"
      BY <2>2, <3>1 DEF Served, XenServes, Listed, WellBuilt, Advertised, XenAdvertises
    <3>2. CASE s.kind = "qemu"
      BY <2>2, <3>2 DEF Served, QemuServes, Listed, WellBuilt, Advertised, QemuAdvertises
    <3>3. CASE s.kind = "virtualbox"
      BY <2>2, <2>3, <3>3 DEF Served, VirtualBoxServes, Listed, WellBuilt, Advertised,
                              VirtualBoxAdvertises
    <3>4. CASE s.kind = "libvirt"
      BY <2>2, <3>4 DEF Served, LibvirtServes, Listed, WellBuilt, Advertised, LibvirtAdvertises
    <3>5. CASE s.kind = "snapshot"
      BY <2>2, <3>5 DEF Served, SnapshotServes, Listed, WellBuilt, Advertised, SnapshotAdvertises
    <3>6. CASE s.kind = "dump"
      BY <2>2, <3>6 DEF Served, DumpServes, Listed, WellBuilt, Advertised, DumpAdvertises
    <3>7. CASE s.kind = "fake"
      BY <2>2, <3>7 DEF Served, FakeServes, Listed
    <3>8. QED
      BY <2>4, <3>1, <3>2, <3>3, <3>4, <3>5, <3>6, <3>7 DEF DriverKinds
  <2>6. QED
    BY <2>1, <2>2, <2>3, <2>5
<1>2. QED
  BY <1>1, ProviderInvariant, PTL

\* The step of AdvertisedStays.
AdvertisedStep ==
  /\ \A t \in Threads : session[t] # Nothing /\ session'[t] # Nothing =>
       heap'[session'[t].descriptor] = heap[session[t].descriptor]
  /\ registry # Nothing /\ registry' # Nothing =>
       heap'[registry'.descriptor] = heap[registry.descriptor]

\* Arc::make_mut leaves alone what others refer to, whatever is put into it.
LEMMA MakeMutStays ==
  ASSUME ProviderInv, builder # Nothing, NEW c, NEW set, MakeMut(c, set)
  PROVE  \A d \in Descriptors : Shared(d) => heap'[d] = heap[d]
<1>1. ProviderTypes /\ OneAtATime /\ heap \in [Descriptors -> SUBSET Capabilities]
  BY DEF ProviderInv, ProviderTypes
<1>2. CASE References(builder.descriptor) = 1
  <2>1. heap' = [heap EXCEPT ![builder.descriptor] = set] /\ ~Shared(builder.descriptor)
    BY <1>2, OneReference DEF MakeMut
  <2>2. QED
    BY <1>1, <2>1
<1>3. CASE References(builder.descriptor) # 1
  <2>1. heap' = [heap EXCEPT ![Free] = set]
    BY <1>3 DEF MakeMut
  <2>2. ~Shared(Free)
    BY <1>1, FreeIsFree, NoReferences
  <2>3. QED
    BY <1>1, <2>1, <2>2
<1>4. QED
  BY <1>2, <1>3

\* No step changes a descriptor that the registry, an attach or a session has.
LEMMA SharedStays ==
  ASSUME ProviderInv, Next
  PROVE  \A d \in Descriptors : Shared(d) => heap'[d] = heap[d]
<1>1. CASE UNCHANGED heap
  BY <1>1
<1>2. CASE Create
  <2>1. heap' = [heap EXCEPT ![Free] = Advertised(driver)]
    BY <1>2 DEF Create
  <2>2. ~Shared(Free) /\ heap \in [Descriptors -> SUBSET Capabilities]
    BY FreeIsFree, NoReferences DEF ProviderInv, ProviderTypes
  <2>3. QED
    BY <2>1, <2>2
<1>3. CASE builder # Nothing /\ \E c, set : MakeMut(c, set)
  BY <1>3, MakeMutStays
<1>4. QED
  <2>1. ASSUME NEW c, NEW added, Insert(c, added), builder # Nothing
        PROVE  builder # Nothing /\ \E d, set : MakeMut(d, set)
    BY <2>1 DEF Insert
  <2>2. CASE Build
    <3>1. CASE Create \/ Drop \/ Register \/ Unregister
      BY <1>1, <1>2, <3>1 DEF Drop, Register, Unregister
    <3>2. CASE WithMemoryTransport
      BY <1>1, <1>3, <2>1, <3>2 DEF WithMemoryTransport, Building
    <3>3. CASE WithXenctx
      BY <1>3, <2>1, <3>3 DEF WithXenctx, Building
    <3>4. CASE WithEventTransport
      BY <1>3, <2>1, <3>4 DEF WithEventTransport, Building
    <3>5. CASE WithRegisterWrite
      BY <1>3, <2>1, <3>5 DEF WithRegisterWrite, Building
    <3>6. ASSUME NEW writes \in BOOLEAN, WithCpuTransport(writes)
          PROVE  builder # Nothing /\ \E c, set : MakeMut(c, set)
      BY <2>1, <3>6 DEF WithCpuTransport, Building
    <3>7. ASSUME NEW set \in Requests, WithCapabilities(set)
          PROVE  builder # Nothing /\ \E c, x : MakeMut(c, x)
      BY <3>7 DEF WithCapabilities, Building
    <3>8. QED
      BY <1>3, <2>2, <3>1, <3>2, <3>3, <3>4, <3>5, <3>6, <3>7 DEF Build
  <2>3. ASSUME NEW t \in Threads, Attach(t) PROVE UNCHANGED heap
    BY <2>3 DEF Attach, Lookup, Check, Ask, AskFails, Open, Return, Close
  <2>4. QED
    BY <1>1, <2>2, <2>3 DEF Next

\* No step puts another session, or another connector, in the place of one.
LEMMA HoldersStay ==
  ASSUME ProviderInv, Next
  PROVE  /\ registry # Nothing /\ registry' # Nothing => registry' = registry
         /\ \A t \in Threads : session[t] # Nothing /\ session'[t] # Nothing =>
              session'[t] = session[t]
<1>1. CASE Build
  <2>1. UNCHANGED session
    BY <1>1 DEF Build, Create, Drop, Register, Unregister, WithMemoryTransport, WithXenctx,
                WithEventTransport, WithRegisterWrite, WithCpuTransport, WithCapabilities, Insert
  <2>2. CASE Register
    BY <2>1, <2>2 DEF Register
  <2>3. CASE ~Register
    <3>1. registry' = registry \/ registry' = Nothing
      BY <1>1, <2>3 DEF Build, Create, Drop, Unregister, WithMemoryTransport, WithXenctx,
                        WithEventTransport, WithRegisterWrite, WithCpuTransport,
                        WithCapabilities, Insert
    <3>2. QED
      BY <2>1, <3>1
  <2>4. QED
    BY <2>2, <2>3
<1>2. ASSUME NEW t \in Threads, Attach(t)
      PROVE  /\ registry' = registry
             /\ \A u \in Threads : session[u] # Nothing /\ session'[u] # Nothing =>
                  session'[u] = session[u]
  <2>1. registry' = registry
    BY <1>2 DEF Attach, Lookup, Check, Ask, AskFails, Open, Return, Close
  <2>2. session \in [Threads -> Session \cup {Nothing}]
    BY DEF ProviderInv, ProviderTypes
  <2>3. CASE Open(t)
    <3>1. session[t] = Nothing
      BY <2>3, InConnect DEF Open, Step
    <3>2. QED
      BY <2>1, <2>2, <2>3, <3>1 DEF Open
  <2>4. CASE Close(t)
    BY <2>1, <2>2, <2>4 DEF Close
  <2>5. CASE ~Open(t) /\ ~Close(t)
    <3>1. session' = session
      BY <1>2, <2>5 DEF Attach, Lookup, Check, Ask, AskFails, Return
    <3>2. QED
      BY <2>1, <3>1
  <2>6. QED
    BY <2>3, <2>4, <2>5
<1>3. QED
  BY <1>1, <1>2 DEF Next

\* Whatever is built from clones of a connector, Arc::make_mut keeps what a live
\* session and a registered connector advertise as it was.
THEOREM ProvidersAdvertisedStays == Spec => AdvertisedStays
<1>1. ProviderInv /\ [Next]_vars => [AdvertisedStep]_vars
  <2> SUFFICES ASSUME ProviderInv, Next PROVE AdvertisedStep
    OBVIOUS
  <2>1. ASSUME NEW t \in Threads, session[t] # Nothing, session'[t] # Nothing
        PROVE  heap'[session'[t].descriptor] = heap[session[t].descriptor]
    <3>1. session'[t] = session[t]
      BY <2>1, HoldersStay
    <3>2. session[t].descriptor \in Descriptors /\ Shared(session[t].descriptor)
      BY <2>1 DEF ProviderInv, ProviderTypes, Session, Shared
    <3>3. QED
      BY <3>1, <3>2, SharedStays
  <2>2. ASSUME registry # Nothing, registry' # Nothing
        PROVE  heap'[registry'.descriptor] = heap[registry.descriptor]
    <3>1. registry' = registry
      BY <2>2, HoldersStay
    <3>2. registry.descriptor \in Descriptors /\ Shared(registry.descriptor)
      BY <2>2 DEF ProviderInv, ProviderTypes, Connector, Shared
    <3>3. QED
      BY <3>1, <3>2, SharedStays
  <2>3. QED
    BY <2>1, <2>2 DEF AdvertisedStep
<1>2. QED
  BY <1>1, ProviderInvariant, PTL DEF Spec, AdvertisedStays, AdvertisedStep

=============================================================================
