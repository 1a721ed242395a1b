# TLA+ models of libvmi-rust

This directory holds TLA+ models of the virtual-machine introspection
workspace, the TLC configurations that check them on small instances, and
TLAPS proofs of the most important properties for every size. The code under
`crates/` is the reference: each definition is translated from the lines that
`PROJECT.json` gives for it under `map`.

1. [The system](#1-the-system): inventory of components, state, interactions
2. [Modules and code](#2-modules-and-code)
3. [Runs, bounds and fairness](#3-runs-bounds-and-fairness)
4. [Proofs](#4-proofs)
5. [Where documentation and code disagree](#5-where-documentation-and-code-disagree)
6. [What is not modelled](#6-what-is-not-modelled)
7. [Plan](#7-plan)

## 1. The system

An application attaches a `VmiSession` (vmi-core) to a guest through a provider:
a live one (QEMU, Xen, VirtualBox, libvirt), or an artifact (dump, snapshot).
The session asks an architecture translator for guest-virtual addresses, and the
operating-system crates read processes, modules, files and sockets through it. A
C interface exposes snapshots to other languages.

| component | state it keeps | operations | what makes it correct |
|---|---|---|---|
| `vmi-core` session | the translation cache (map and eviction order, one mutex), the provider's facets | `read_bytes`, `write_bytes`, `translate`, `read_virtual`, `write_virtual`, `clear_translation_cache` | a cached translation belongs to its translator, root and page; the cache agrees with memory once writes have returned; a range is accessed byte by byte where the page tables map it |
| `vmi-core` registry, and the connectors of all drivers | connectors by provider ID behind a lock; a descriptor shared by clones, registry and sessions (`Arc`) | the builders, `register`, `unregister`, `attach`, `connect` | a session serves what it advertises, and what it advertises never changes; a refused request does not reach the hypervisor |
| `vmi-arch-amd64`, `vmi-arch-aarch64` | none | `translate` | canonical addresses, index arithmetic, large pages |
| `vmi-events` and the cancellable wait of `vmi-driver-api` | queue, closed flag, mutex, condition variable, cancellation token | `push`, `close`, `next_event`, `next_event_cancellable` | bounded FIFO; no lost wakeup; every bounded call ends; close ends all calls |
| `vmi-views` | bitmap of views, count, active view, next identifier | `create`, `destroy`, `switch_view` | the active view exists; identifiers are not reused while in use; create ends |
| `vmi-driver-qemu`, QMP | request id, event queue, buffered socket behind one mutex | `execute`, register reads, `next_event` | replies are matched; events are neither reordered nor silently lost; deadlines |
| `vmi-driver-qemu`, GDB RSP | socket behind one mutex | vCPU selection, register reads and verified writes | an answer belongs to its command |
| `vmi-driver-qemu`, acquisition | none: the monitor writes the file | `save_physical_range`, `save_snapshot` | as below |
| `vmi-driver-xen`, `-virtualbox`, `-libvirt` | sequence counters for temporary names; files; child processes and reader threads | commands with a deadline and an output limit, range acquisition, reads through a core | budget shared exactly; children reaped; destinations complete and never replaced; temporaries removed |
| `vmi-artifact` | immutable segments | bounded file reads and decoding, seven loaders, `read_into` | loads stay within their limit whatever happens to the file; disjoint segments, right payloads, all-or-nothing reads |
| `vmi-ffi` | table of live handles, token counter, `Arc` references | open, read, segment queries, close | a handle names one artifact for good; no use after free |
| `vmi-os-linux`, `vmi-os-windows` | none: loops over guest memory | process, module, socket, file, handle listings, paths | walks end and stay bounded whatever the guest does; undisturbed walks are exact |
| `vmi-profile` | tables of symbols (two indices) and of field offsets | loading System.map, JSON and PDB files, lookups | accepted exactly when well formed; the tables are those the file defines; loads end and stay bounded |
| `vmi-testkit` | a fake provider for tests | builder, connect, publication; reads, writes, control | the reference for publication |
| `vmi-driver-dump`, `vmi-driver-snapshot` | an artifact | `connect`, reads | as for connectors and artifacts |
| `vmi-types`, `vmi-arch-api`, `vmi`, `vmi-cli` | none | values, traits, re-exports, a command line | |

**How they interact.** Calls go down (introspector, session, translator and
provider) and are synchronous. State is shared between threads in six places:
the session's cache, the registry with the descriptors, the event queue, the
QEMU connections, the FFI handle table, and the byte budget of a running command.
State outside the process is touched by guests that run while they are inspected,
by QEMU's monitor and GDB stub, by child processes, and by whoever uses the same
directory.

**What is hard.** The cache lock is not held during a page-table walk; a timeout
leaves an answer or half a line on a socket, or a command that the monitor
carries out later; a condition variable is woken in
vain or for an event that another consumer takes; two reader threads, a poller
and a deadline race over one child; two acquisitions race for one destination
while any file operation may fail, and a tool replaces what appeared after the
look at the destination; a file grows or shrinks while it is loaded; a builder
changes a descriptor that sessions share; a C caller closes a handle that another
thread uses; the guest relinks the list, or moves the table, that is being walked; counters and
addresses reach the end of their range. `PROJECT.json` lists these hazards with
the line where each bites and the properties that cover it.

## 2. Modules and code

One action is one step that other threads, the peer or the guest can observe: a
critical section, a system call, one read of guest memory. Payloads, text formats
and log messages are abstracted. Definitions marked as mutants in a comment are
wrong variants of the definition that follows; nothing uses them but mutation
tests of the properties, listed in `PROJECT.json`.

**VmiSession** (vmi-core). Threads run `translate`, `read_virtual`,
`write_virtual` and `write_bytes` page by page: look the page up under the cache
lock (`LookupHit`, `LookupMiss`), walk the tables without it (`WalkRead`, one
entry per step), insert (`Insert`), access memory (`ReadChunk`, `WriteChunk`),
and invalidate at the end of every attempted write (`Clear`). Translators are
abstract: `Path` gives the entries a walk reads and `Decode` what it makes of
them. A store may fail after changing memory. `version`, `start`, `raced` and
`held` are history variables.

**VirtualRange** (vmi-core and both translators). One virtual range down to the
page tables: the cut at 4 KiB, the canonical check, the index and mask
arithmetic, large pages and blocks, granules larger than the session's page.
Address words have `Width` bits, and the tables are chosen lazily as they are
read. It complements VmiSession: no cache and one thread, but real arithmetic.

**EventChannel**, **EventQueue** (vmi-events, vmi-driver-api). EventChannel is
what the event facet promises: a bounded FIFO whose requests end with the oldest
event, or with nothing if it is empty and closed, or the request had a deadline.
EventQueue has the mutex, the condition variable (with spurious wakeups and
stolen events), deadlines and the cancellable wrapper, and implements
EventChannel under the mapping at its end.

**MemoryViews** (vmi-views). The loop of `create` is spelled out, so that its
wrap-around and its end are visible; the state's bitmap is a set.

**QmpClient** (vmi-driver-qemu). The client in its mutex, the wire as a sequence
of whole and half lines, and an external monitor that answers in order and at any
time, fails commands, refuses a vCPU selection in the text of a successful
reply, emits events and disconnects. A command whose write fails may have arrived
in part (`NotWritten`); `parser` says whether the monitor waits for the rest of
such a piece. A line that is too long fails the call that reads it, and what was
read of it is lost (`LineTooLong`). A register read is two
commands (`cpu`, `info registers`) in one acquisition of the mutex. Time is
abstracted to whether the deadline and the current socket timeout have passed.

**GdbClient** (vmi-driver-qemu). Packets without identifiers: acknowledgement,
skipping to the next packet, one answer. A register write is selection, write and
read-back; a value that does not fit the register is refused after the selection
(`RefuseValue`). A command may be written in part (`SendFails`). `inSync` records that no command was cut off.

**RangeAcquisition** (four drivers and the testkit). Sessions of one provider, and
a stranger, in one directory. Xen, VirtualBox and the fake provider publish
through a temporary file and a hard link; libvirt creates the destination and
writes it in place. A snapshot, and a range of QEMU, is written by a tool or by
the monitor under the destination's own name. Each file operation can fail. A
QEMU session may give up (`GiveUp`) when the monitor already has its command; the
monitor carries it out later (`LateOpens`, `LateEnds`), in order, whatever the
session does meanwhile. `late` counts such commands, `lateOpen` says for which
sessions the monitor has the file open.
`read` is VirtualBox's `read_into` through a core. `stuck` and `replaced` are
history: what failed to be cleaned up, and whether a tool replaced a file.

**BoundedCommand** (three command drivers). The caller's poll loop, two reader
threads with the compare-and-exchange loop of `reserve_captured_bytes`, the
child, and a descendant that inherits the pipes. `provider` selects libvirt's
differences: how it starts readers, how it reaps.

**SnapshotBundle** (vmi-artifact). One loop iteration of each loader per action,
the end-of-table checks, sorting and neighbour comparison, and both loops of
`read_into`. A byte is the file position it came from.

**SnapshotHandles** (vmi-ffi). `vmi_snapshot_open` in two steps (parse, register),
use in two steps (look up, release), close; null and stale handles; the token
counter at its end; a table that cannot grow.

**FileLoads** (vmi-artifact, vmi-profile). One loop shape reads a file, a prefix of
it, a decoded stream or a text profile: the size is compared once, then chunks
are read, and the length is compared after each. Others append to the file, cut
it and write over it between any two reads. A compressed dump (`encoded`) is kept
while it is decoded. `edits` and `grown` are history.

**Profiles** (vmi-profile) extends FileLoads. What was loaded is parsed: a
System.map line by line, JSON entries into two objects, a PDB in two passes, each
of which opens the file anew. The field lists of a class are followed one by
one, with the set of visited lists that stops a cycle. `ProfileExact` compares
with a definition of what the file says (`WellFormed`) that does not depend on the
order of its entries; where the code's answer does, for a PDB, is an exception of its own
(`RepeatedWhenFull`).

**Providers** (vmi-core's registry, `vmi-driver-api`, the six drivers, the
testkit). Descriptors live on a heap; a builder changes one through
`Arc::make_mut`, which copies it if it is shared. `attach` looks the connector up
under the lock and connects after releasing it. `connect` of each driver is the
sequence of what it checks and asks, in the order of the code. For each driver,
`...Serves` says which facets and operations a session has.

**GuestLists**, **GuestPaths**, **GuestTables**, **GuestWalks** (vmi-os-linux,
vmi-os-windows). The three loop shapes over linked lists, the two climbs through
dentries and mounts, and the walks over a descriptor table and a handle table of up
to three levels, over guest memory that the guest may rewrite between any two
reads. A guest changes its tables as a kernel does: it opens and closes entries,
grows the table, and reuses the memory of a descriptor table it replaced. Tables
are well formed and laid out over seven pages of two words, the smallest with
three levels; the refusal of a malformed one is the outcome of `ReadFails`. GuestWalks
composes them: a query is one walk of any kind.

The `MC*` modules give the constants that a configuration cannot express, and
symmetry sets. **MCObjects** puts SnapshotHandles, MemoryViews and GdbClient into
one run: they share no state, and a behaviour uses one of them. The
`*Proofs` modules hold theorems.

## 3. Runs, bounds and fairness

| run | instance | properties |
|---|---|---|
| VmiSession | 2 threads, 2 translators, 1 root, 2 pages, 2-level walks, cache of 2, 1 store | `CacheConsistent`, `TranslationsBelongToKey`, `FreshUnlessRaced` |
| VirtualRange | 6-bit words, three geometries, 3 frames, ranges up to 6 bytes around every boundary | `EachByteTranslated`, `RangeOutcome` |
| EventQueue | 2 consumers, capacity 2, 2 events | `NoLostWakeup`, `QueueInOrder`, `ImplementsChannel`, `BoundedCallReturns`, `CloseEndsCalls` |
| Objects | handles: 3 threads, 3 tokens, 4 opens; views: 5 identifiers; GDB: 2 vCPUs, 1 register, 2 values and one too wide, 4 packets | `ReadsOwnArtifact`, `ClosedForGood`, `ReferencesExact`; `ActiveExists`, `ExhaustedMeansFull`; `AnswerOfAccessInSync`, `WriteVerified` |
| QmpClient | 2 vCPUs, 3 request ids (2 to 4), capacity 1, 2 events, 2 pieces on the wire | `AnswersOwnRequest`, `RegistersOfVcpu`, `EventsAccounted`, `CommandReturns` |
| RangeAcquisition | 3 sessions, a stranger, 2 temporary names per kind, 2 late commands per session, each of five providers | `DestinationComplete`, `SuccessIsPublished`, `TemporariesExact`, `NoClobber` |
| RangeAcquisition_leak | 2 sessions of Xen | `NoTemporaryLeft`, violated |
| BoundedCommand | limit 2, up to 2 units per pipe, each of three providers | `OutputExact`, `ChildReaped`, `CallEnds` |
| SnapshotBundle | tables of up to 3 entries in 7 formats, 6 addresses, pages of 2 | `SegmentsExact`, `ReadExact` |
| Profiles | files of up to 3 units (a PDB: 4) that grow to 5, 1 edit, chunks of 2, limits 0 to 4; 3 symbol names, 2 values, 2 classes, tables of up to 2 entries | `LoadBounded`, `LoadExact`, `ProfileExact`, `LoadEnds` |
| Providers | 7 drivers, an owner who builds and a thread that attaches, 4 descriptors, 3 requests | `ServesWhatItAdvertises`, `RejectedUntouched`, `AdvertisedStays` |
| GuestWalks | 3 list nodes, 2 buckets; 2 dentries, 2 mounts; limits 1 and 2; tables of up to 6 entries, limits 3 and 6, 2 objects, 2 changes | `WalkBounded`, `WalkExact`, `WalkEnds` |

The type invariants of the modules describe their states and are not part of a
run; what the proofs need of them is part of the invariants of section 4.

**Why the bounds are enough.** Two threads are what the session's race needs: one
walks, one writes. Two translators with one root exercise the shared cache, a
capacity of two makes the order of eviction matter, and the proofs of section 4
lift the rest to any size. Two consumers suffice for a stolen wakeup and for
a notification that reaches a consumer which has just timed out; capacity two
lets two events wait for two consumers. Three request ids allow a register read
whose selection is executed late, in the middle of another register read, and one
exhaustion; two events overflow a queue of one. Three
sessions with two names each make two of them meet at the destination while a
third runs out of names; two commands that timed out let the monitor be late with one
while its session waits for the next. A limit of two units with two units per pipe gives
every order of reservation, refusal and exact fit. Three table entries are the
fewest with a neighbour between two others; six addresses with pages of two
reach the end of the address space with and without a fit. The geometries of
VirtualRange are the smallest with equal granules, a larger granule, and a first
index narrower than the others; the addresses lie around page borders, the
canonical hole and the last address. A file of three units and chunks of two give
short reads, an exact fit and one unit too many; one edit is enough to
contradict any size that was looked at before it; a limit equal to the largest
number takes the second way of noticing that a file goes on. Tables of two
entries are full with two of the three names. One thread that attaches, the
registry and the owner give a descriptor up to three holders, while the owner
goes on building; a second session adds no other kind of holder. The view of
that run leaves out what is in descriptors that nobody refers to. Two changes of
a guest table are a growth and the reuse of the old memory, or a growth and a
count. Three nodes with limit two give lists
shorter than, equal to and longer than the limit, and all their cycles.

The remaining named bounds are `MaxWrites`, `MaxEvents`, `MaxCommands`,
`MaxOpens`, `MaxLate`, `MaxOutput`, `MaxEntries`, `MaxLength`, `MaxFile`, `MaxEdits`,
`MaxChanges`, `TextLength` and `SocketSize` (what the connection holds before the
monitor has to wait). `FileLengths`, `ElfOffsets`, `Addresses`, `FirstDentries`,
`FirstMounts`, `Members` and `Requests` choose representatives among inputs.
`LastId`, `LastSequence`, `LastToken`, `Ids`, `Limit`, `Top` and `AddressTop`
stand for the end of an integer type, and the runs reach it.

**Deadlock** is not checked where the program may stop: when all calls of a
bounded run have been made (BoundedCommand, Objects), and when a load, a range or
a walk is over (SnapshotBundle, VirtualRange, Profiles, GuestWalks).

**Fairness.** Only what a scheduler and a clock guarantee is assumed: a thread
that can run does, and time passes. In EventQueue, the steps of a
consumer inside a call and its deadline; in QmpClient,
the client and the passage of the deadline and of the socket's
timeout, but nothing of the monitor, which may stay silent for ever; in
BoundedCommand, caller, readers and deadline, but neither the child nor its
descendant; in Profiles, the thread that loads, but not those who
change the file; in GuestWalks, the walk but not the guest, which may relink for
ever. No fairness is assumed of failures, pushes, cancellations or writes.

## 4. Proofs

All theorems hold for every value of the constants that satisfies the named
assumptions in the modules: finite sets of consumers, threads, dentries and mounts,
positive capacities, translators that read a path of locations and decode it to a
frame or a fault, a page of the session that is no larger than the granule of a
geometry and addresses narrower than a word (`WalkAssumption`), null values outside the sets they extend,
and one descriptor more than can be referred to at a time (the heap never refuses an
`Arc`). The properties are those the runs check; none of them is inductive, so each
proof rests on a stronger invariant.

* **VmiSessionProofs**. `SessionTypeCorrect`: the invariant is `Typed`, which adds
  `LoopState`: a thread inside the page loop has an operation and a page left, a
  walk has read no more than its path, a translation in use is a frame. Without it
  a key could not be shown to be a key. `SessionCacheConsistent`: with `CacheInv`,
  which adds that the cached keys are finite and as many as the order is long;
  this is what bounds the cache when an insertion evicts. `SessionFresh`: with
  `FreshInv`, which adds `WalkIsCurrent`: the words that a walk has read are the
  current ones as long as memory has not changed since it began. A completed walk
  that no write overlapped therefore inserts the current translation
  (`UnracedWalk`), and every write is pending until the cache is empty.
  `SessionTranslationsBelongToKey`: with `KeyInv`, which adds that each word a walk
  has read was held by the location of its own path; `held` only grows, so what
  was plausible for a key remains so (`HeldGrows`). VirtualRange, about `RangeSpec`:
  `RangeEachByteTranslated` and `RangeOutcomeExact`, from `RangeInv`: at each level the walk
  has come down the session's own path of the page (`Progress`, `SessionWalk`), and the bytes
  accessed stay translated as they were, because an entry keeps the value it had when
  it was first read. That the session's one walk per
  page serves each byte of it is arithmetic: all bytes of a chunk have the same index at
  every level (`WalkOfByte`, from lemmas about `\div` and `%` by powers of two), and
  a page table has at most one walk of an address (`WalksAgree`).
* **EventQueueProofs**. `QueueTypeCorrect`; `QueueNoLostWakeup`, where
  `NoLostWakeup` and `ClosedWakesAll` are inductive together: counting, a push adds
  one event and wakes one sleeper, a consumer that takes an event leaves with
  it, and one that goes to sleep has seen the queue empty. `QueueOrder`; and
  `QueueImplementsChannel`: each action is a step of the channel or a
  stutter under the refinement mapping.
* **ObjectsProofs**, about three objects behind a mutex. SnapshotHandles:
  `HandlesReadOwnArtifact` and `HandlesClosedForGood`, from `HandleInv`: tokens at or
  above the counter have no past (`FreshTokens`), a live token was issued once, for
  the bundle it stands for (`LiveTokens`), and whoever uses a bundle looked up a
  token issued for it (`Users`). `HandlesReferencesExact`, from `ReferenceInv`: an idle
  thread holds nothing, and nobody refers to a bundle that was not parsed yet; the
  counts follow because each step changes one member of the table's set and one of the
  holders' (`CountUpdate`). MemoryViews, about `ViewsSpec`: `ViewsConsistent` and
  `ViewsExhaustion`, from an invariant with `PassedAreTaken`, the loop invariant of
  `create`: the identifiers between the start of the scan and the candidate are taken.
  GdbClient, about `GdbSpec`: `GdbAnswerOfAccess` and `GdbWriteVerified`, from `GdbInv`: as
  long as no command was cut off, the wire holds exactly the rest of one acknowledgement
  and one answer, and that answer is one the stub can have given to the current stage
  (`Synchronous`). Packets have no identifiers, so this position is all that ties an
  answer to its command. A value that is sent is one that fits its register. `inSync` never becomes true again, and nothing is claimed
  afterwards (section 5).
* **QmpClientProofs**. `QmpAnswersOwnRequest` and `QmpRegistersOfVcpu`, from `QmpInv`.
  `Numbering`: ids count the commands, a reply carries the number of its command, and
  what still waits at the monitor was sent after whatever was answered. `Selection`:
  hence, once a register read has the reply to its `cpu`, no selection of an earlier
  call is left to be executed before its `info registers`. A torn command changes neither:
  it is executed not at all, or whole and in its place (`CommandAdded`). The first theorem depends on
  ids that are never reused (the exhaustion of `LastId`), the second on the monitor's
  order of execution. `QmpEventsAccounted`, from `EventInv`: the second piece of a line
  follows the first, on the wire or among what the monitor still has to send
  (`WireFraming`), and a line is half read only inside a read (`ClientFraming`). With these
  the property is inductive: a call that gives up leaves at most one line whose beginning is
  lost, and the next call fails at the rest of it.
* **BoundedCommandProofs**. `CommandOutputExact` and `CommandChildReaped`, from
  `CommandInv`. `ReaderState`: what a reader has taken from its pipe is what it kept and
  the chunk in its hands, and a reader that ended without the flag saw the end of a
  pipe that nobody can write to any more. `Budget`: the shared counter against the kept
  bytes; `CallerState` and `Outcome`: what the caller knows of both readers and of the
  child at each place. Any limit, any output.
* **ArtifactProofs**. `AcquiredDestinationComplete`, `AcquiredSuccessIsPublished`,
  `AcquiredTemporariesExact` and the action property `AcquiredNoClobber`, for all five
  providers at once and any number of sessions, from `AcquisitionInv`: names beyond the
  counters are free and no two sessions share one (`NamesBelow`, `NamesOwn`), a temporary
  file belongs to the session that was given its name, or to one that littered
  (`FilesOwned`), which files exist while a session is at each place (`Places`), and who may
  claim the destination (`DestinationWork`, `Claims`). `LateWork`: commands that outlive
  their call are QEMU's, a session that has one does not report success, and the monitor
  begins with no later command of the session before it has ended with this one. SnapshotBundle, about `BundleSpec`:
  `BundleSegmentsExact` and `BundleReadExact`, for tables of any length, from `BundleInv`. Its
  parts are what a format's parser accepts (`TableLayout`), that the segments are the
  entries of the table and cover as many cells as pages were counted (`LoadingState`), and
  how far both loops of a read have come (`ReadState`). Neighbours
  suffice because ends of a sorted table without empty segments ascend; the sort is
  known only as a permutation into order, which leaves the covered cells as they were.
* **ProvidersProofs**. `ProvidersServe`, `ProvidersRejectUntouched` and the action property
  `ProvidersAdvertisedStays`, for any number of threads that attach, from `ProviderInv`.
  `AllDescribed`: wherever a connector or a session is, its descriptor lists exactly what
  was built into it (`Listed`). It is kept because a step of the builder writes only to a
  descriptor that nobody else refers to, or to a copy. `Progress` and `Granted`: nothing
  was asked of the hypervisor before the last check of `connect`, and past the look at the
  capabilities the request is within them.
* **ReadersProofs**, about readers of what others may rewrite between any two reads.
  `QueriesBounded` (`WalkBounded`, about `Queries`), from `WalkInv`, which speaks of the
  reader's own records and never of what it reads: a list walk has seen
  whatever it pushed and has room for one entry more where it is about to push
  (`ListInv`); a climb has named no more components than the places it has visited
  (`PathInv`); the entries of a table walk have indices below the next one, which is
  itself within the length that was compared (`TableInv`). `QueriesExact` (`WalkExact`), from
  `QueryExactInv`, which compares with the structure in memory.
  Lists: what was pushed is a beginning of the list (`PushedBy`), and every list in memory
  goes on where the walk is (`Along`), so that a repetition or a full output refutes all of
  them. Tables: the directories lead to the leaves at each level and a replaced
  table keeps its words until they are reused (`HandleTable`, `DescriptorTable`); what was
  open throughout is open, and what is open was open some time (`Histories`). Paths: an
  undisturbed climb is `k` steps above its beginning at a place of its own (`Climbed`);
  there are `Height` places (`RoomAbove`), so that the place `Height` steps up decides whether there is a top,
  and one that recurs, or is null, has none above it (`GoesAround`, `StaysThere`).
  `LoadsBounded` and `LoadsExact`,
  about `LoadsSpec`, from `LoadInv`: how long the captured data, and the encoded dump
  beside it, can be at each stage (`LoadLengths`), and that it is the beginning of the file, or of the decoded stream, as
  long as nobody cut the file or wrote over it (`LoadContents`).

Definitions by recursion (`Pow2`, `Ascent`, `Outward`) are recursive functions. What they
compute is proved by the least counterexample, from the fact that the naturals are
well-founded (`LeastNat`, `LeastNumber`): the provers cannot instantiate an induction
theorem with a predicate, but they can with the set of its counterexamples.

Only model-checked, and why:

* liveness (`BoundedCallReturns`, `CloseEndsCalls`, `CommandReturns`, `CallEnds`, `LoadEnds`,
  `WalkEnds`, and the liveness part of `ImplementsChannel`): `ENABLED` and fairness are
  outside the prover's reach;
* `ProfileExact`: the parsers are folds with an operator as a parameter over tables built
  with `@@`, and the property selects entries with `SelectSeq` and sorts names; the provers
  support none of these, and the model would have to be rewritten around them.

## 5. Where documentation and code disagree

One disagreement is kept as a run that TLC must find violated:

* **Xen leaves a core behind.** `docs/provider-authoring.md:47-48` says "A failed
  acquisition must preserve an existing destination and remove every temporary
  artifact". In `save_physical_range` a failed dump returns with `?` before
  `finish_temporary_core` (driver-xen, line 612); a core that the tool had begun
  stays. VirtualBox has the same order; libvirt cleans up. Run
  `RangeAcquisition_leak`.

The others are exceptions that the properties state exactly, so that the
passing runs show that there are no more:

* **A racing walk leaves a stale translation** (`FreshUnlessRaced`).
  `docs/current-implementation.md:108`: "Translation caches are invalidated after
  every attempted physical or virtual write". A walk that began before a
  write can insert after its invalidation, since the lock is not held meanwhile
  (vmi-core, lines 181-187).
* **A QMP line in pieces outlasts the deadline.** `docs/current-implementation.md:258`
  promises end-to-end deadlines. One line is read with several `fill_buf`
  calls, each with the timeout computed before the first (driver-qemu, line 393).
  `CommandReturns` shows that the command still returns.
* **A late GDB answer is taken for the next one** (`AnswerOfAccessInSync`). Packets
  have no identifiers, and a timed-out command leaves the connection open
  (driver-qemu, line 105).
* **A monitor's refusal is not read** (`SuccessIsPublished`, `RegistersOfVcpu`). QEMU
  reports that `pmemsave` or `cpu` failed in the text of a successful
  `human-monitor-command`, and the text is dropped (driver-qemu, lines 993 and
  814): the acquisition or the register read succeeds. `docs/provider-authoring.md:11`
  asks that advertised facets work.
* **Tools write the destination under its own name** (`DestinationComplete`,
  `NoClobber`, `SuccessIsPublished`). A snapshot, and a range of QEMU, is neither
  assembled in a temporary file nor published atomically, as
  `docs/provider-authoring.md:46-47` asks; a file that appears after the look at
  the destination is replaced. `docs/current-implementation.md:146` names this, for
  QEMU, as a limitation of the environment.
* **QEMU's monitor outlives a timeout** (`NoClobber`, `DestinationComplete`).
  `docs/provider-authoring.md:47-48`, as above: "A failed acquisition must preserve an
  existing destination". `hmp` and `execute` (driver-qemu, lines 993 and 1008) can
  time out while the monitor has the command: it begins to write, or goes on, after
  the session returned its error, and may replace a destination that was
  created meanwhile.
* **Xen goes on advertising register writes** (`ServesWhatItAdvertises`).
  `docs/provider-authoring.md:11`: "Advertise only capabilities whose corresponding
  session facets work." When `with_cpu_transport` or `with_xenctx` replaces a
  transport that writes by one that only reads, RegisterWrite stays in the
  descriptor (driver-xen, lines 434-453).
* **A PDB is opened twice and its size trusted** (`ProfileExact`, `LoadBounded`).
  `docs/current-implementation.md:142`: "Text profiles and PDBs inspect the same
  open handle they subsequently parse". Each opening does, but symbols and types
  come from two openings (vmi-profile, line 299), and the parser reads what the
  file has become, not the size that was compared (line 98).
* **A repeated symbol in a full PDB table** (`ProfileExact`). No document speaks of
  it: `from_pdb` compares the limit before it looks the name up (vmi-profile,
  lines 140-148), so that with room for two the symbols a, a, b are accepted
  and a, b, a are not.
* **A compressed dump is held twice** (`LoadBounded`). The encoded bytes stay while
  they are decoded (vmi-artifact, lines 348-363); either buffer keeps to the limit,
  the two together to twice the limit.
* **libvirt writes the destination in place** (`DestinationComplete`, `NoClobber`).
  `docs/provider-authoring.md:46-47` asks for a temporary file and atomic
  publication; `publish_new` (driver-libvirt, line 469) creates the final name
  first.
* **A descendant can keep a call from ending** (`CallEnds`).
  `docs/provider-authoring.md:51-57` asks for a total deadline and names inherited
  handles for failure paths; after a normal exit of the child the readers
  are joined without a deadline (driver-virtualbox, line 232).
* **libvirt leaves a child when a reader cannot start** (`ChildReaped`).
  `docs/current-implementation.md:206`: "External-command setup and polling failures
  clean up the spawned child" (driver-libvirt, line 100).
* **An empty ELF segment hides an overlap** (`SegmentsExact`).
  `docs/current-implementation.md:123` lists ELF overlap validation; only neighbours
  of the sorted table are compared (vmi-artifact, line 310).
* **The first index of an AArch64 high address** (`EachByteTranslated`).
  `docs/current-implementation.md:81` claims configurable address sizes. When
  the address bits above the page are not a multiple of the index width, the
  first index of an upper-half address takes in sign bits (vmi-arch-aarch64,
  line 159).

Two more exceptions are inherent in reading a guest that runs, and no document
denies them: a handle table that grows between the reads of its level and of its
length, and a descriptor table whose memory is reused (`WalkExact`).

## 6. What is not modelled

* Field layouts, checksums, JSON, text output of tools, path confinement in
  manifests, decompression: data, where the models keep the control around it.
* Discovery, state queries, pause and resume of the drivers, the register commands of
  VirtualBox, QEMU's physical reads: one command and a text parser each, in chunks
  for a long read; the behaviour of the command is BoundedCommand's, or QmpClient's.
  The parsers of HMP, `xenctx` and `VBoxManage` text are pure.
* The mapping of guest pages with libxenctrl: a foreign library, one call per page.
* The cancellable variants of reads and acquisitions: a look at the token before and
  after one call. The cancellable wait for events is part of EventQueue.
* The fake provider's sparse memory, registers, events and control: values behind one
  mutex each.
* What hangs on a guest object: `file_object`, names, access masks, socket addresses.
  They are reads without a loop of their own.
* `vmi-cli`: argument parsing and printing. `vmi-types`, `vmi-arch-api`, `vmi`: values,
  traits and re-exports, of which Providers has the capabilities. Scripts and fuzz
  targets are not part of the running system.
* Poisoned mutexes: every lock turns poisoning into an error, and no critical
  section of the modelled code panics.
* A command timeout beyond the range of `Instant` in QmpClient; each read then
  times out after the longest socket wait.
* Work that a tool's own service goes on with after the tool was killed at its
  deadline: `virsh` and `VBoxManage` ask a daemon, of which the code sees nothing; they are
  taken to stop with the command. For QEMU, whose monitor is the service, it is modelled.
* A tool that reports success and has written no file, which libvirt checks for
  (driver-libvirt, lines 415-419): a successful tool has written its file.
* Malformed guest tables (a null fdtable or array, a fourth level, an unaligned
  count): the walk refuses them, and no property speaks of that refusal.
* Memory exhaustion is an early return of the step that allocates
  (`Reject`, `LoadFails`, `Register`, `Reserve`).

## 7. Plan

The order followed the weight of the behaviour: the session and its cache, the
event queue with its abstract channel, the clients of QEMU, the command drivers,
artifacts, handles, views and walks; then bounded file loads, profiles, guest
tables, acquisitions by tools, and connectors with the registry. Next, in this
order:

1. **Theorems**: `ProfileExact`, the only safety property left without one, after its
   folds have become recursive functions.
2. **The fake provider as a reference**: its publication as an abstract
   specification that RangeAcquisition implements for Xen and VirtualBox.
3. **Loads and bundles together**: the length of SnapshotBundle's file as FileLoads
   determines it.
