--------------------------- MODULE ArtifactProofs ---------------------------
(***************************************************************************)
(* Proofs about how memory artifacts are written and read.                 *)
(*                                                                         *)
(* RangeAcquisition, for any number of sessions and of names: the          *)
(* invariant says whose each file is: names that the counters have not     *)
(* reached are free, no two sessions have one name, what is under a        *)
(* temporary name belongs to the session that was given it, and what is    *)
(* under the destination's name to the session that claims it.             *)
(*                                                                         *)
(* SnapshotBundle, for every table, file length and page size: the         *)
(* invariant says what the table read so far is, that the segments are its *)
(* entries (and, once loaded, its entries sorted), and how far a read's    *)
(* loops have come.                                                        *)
(***************************************************************************)
EXTENDS RangeAcquisition, SnapshotBundle, FiniteSetTheorems, FunctionTheorems,
        SequenceTheorems, TLAPS

\* The sequence counters: names given out are below them, those above are free.
NamesBelow ==
  /\ \A s \in Sessions : core[s] # None =>
       \E n \in 0..LastSequence : n < coreNext /\ core[s] = Core(n)
  /\ \A s \in Sessions : temp[s] # None =>
       \E n \in 0..LastSequence : n < rangeNext /\ temp[s] = Temp(n)
  /\ \A n \in 0..LastSequence : n >= coreNext => dir[Core(n)] = None
  /\ \A n \in 0..LastSequence : n >= rangeNext => dir[Temp(n)] = None

\* No two sessions have a name in common.
NamesOwn ==
  \A s, t \in Sessions :
    /\ core[s] # None /\ core[s] = core[t] => s = t
    /\ temp[s] # None /\ temp[s] = temp[t] => s = t

\* Something of session s stayed behind.
Littered(s) == "dump" \in stuck[s] \/ "remove" \in stuck[s]

\* The files under temporary names, and whose they are.
FilesOwned ==
  /\ \A s \in Sessions :
       /\ core[s] # None /\ Exists(core[s]) => dir[core[s]].by = s
       /\ temp[s] # None /\ Exists(temp[s]) => dir[temp[s]].by = s
  /\ \A n \in Names \ {Dest} : Exists(n) =>
       \E s \in Sessions :
         dir[n].by = s /\ (n = core[s] \/ n = temp[s] \/ Littered(s))

\* Which temporary files there are while session s is at each place.
Places ==
  \A s \in Sessions :
    /\ pc[s] = "dump" => core[s] # None /\ ~Exists(core[s])
    /\ /\ pc[s] \in {"read", "publish", "create", "write", "link", "unlink", "discard", "inplace"}
       /\ provider # "fake"
       => core[s] # None /\ Exists(core[s])
    /\ pc[s] = "cleanup" => core[s] # None
    /\ pc[s] \in {"idle", "name", "tool", "writing", "done"} =>
         core[s] = None \/ ~Exists(core[s]) \/ Littered(s)
    /\ pc[s] = "create" => temp[s] # None /\ ~Exists(temp[s])
    /\ pc[s] \in {"write", "link", "unlink"} => temp[s] # None /\ Exists(temp[s])
    /\ pc[s] = "link" => dir[temp[s]].complete
    /\ pc[s] = "discard" => temp[s] # None
    /\ pc[s] \notin {"create", "write", "link", "unlink", "discard"} =>
         temp[s] = None \/ ~Exists(temp[s]) \/ Littered(s)
    /\ pc[s] = "inplace" => provider = "libvirt"
    /\ provider = "fake" =>
         core[s] = None /\ pc[s] \notin {"name", "dump", "read", "cleanup", "inplace"}

\* A destination that is not complete is the unfinished or abandoned work of
\* the session that created it.
DestinationWork ==
  Exists(Dest) /\ ~dir[Dest].complete =>
    \E s \in Sessions :
      /\ dir[Dest].by = s
      /\ \/ pc[s] \in {"inplace", "writing"} \/ s \in lateOpen
         \/ provider = "libvirt" /\ "remove" \in stuck[s]
         \/ "tool" \in stuck[s]

\* A command that timed out is QEMU's, and its session has at most another one
\* waiting behind it: it neither writes the destination nor has succeeded.
LateWork ==
  \A s \in Sessions :
    /\ late[s] > 0 =>
         provider = "qemu" /\ pc[s] \in {"tool", "done"} /\ (pc[s] = "done" => outcome[s] # "ok")
    /\ s \in lateOpen => late[s] > 0
    /\ provider = "qemu" => pc[s] \in {"idle", "tool", "writing", "done"}

\* Session s may say that the destination is its file, and that it is complete.
Opened(s) == pc[s] \in {"inplace", "writing"} \/ s \in lateOpen
Published(s) ==
  \/ pc[s] = "unlink"
  \/ /\ pc[s] \in {"cleanup", "done"} /\ outcome[s] = "ok" /\ op[s] # "read"
     /\ ~(provider = "qemu" /\ op[s] = "range")

Claims ==
  ~replaced => \A s \in Sessions :
    /\ Opened(s) => Exists(Dest) /\ dir[Dest].by = s
    /\ Published(s) => Exists(Dest) /\ dir[Dest].by = s /\ dir[Dest].complete

AcquisitionInv ==
  /\ TypeOK /\ NamesBelow /\ NamesOwn /\ FilesOwned /\ Places /\ DestinationWork /\ Claims
  /\ LateWork


\* The names that sessions are given are not the destination's, nor each other's.
LEMMA NameFacts ==
  /\ Dest \in Names
  /\ \A n \in 0..LastSequence :
       /\ Core(n) \in Names \ {Dest} /\ Temp(n) \in Names \ {Dest}
       /\ Core(n) # None /\ Temp(n) # None
       /\ \A m \in 0..LastSequence :
            /\ Core(n) # Temp(m)
            /\ Core(n) = Core(m) => n = m
            /\ Temp(n) = Temp(m) => n = m
BY NoneAssumption DEF Dest, Names, Core, Temp

\* The same, for the names that sessions have.
LEMMA OwnNames ==
  ASSUME TypeOK, NamesBelow
  PROVE  \A s \in Sessions :
           /\ core[s] # None => core[s] \in Names /\ core[s] # Dest
           /\ temp[s] # None => temp[s] \in Names /\ temp[s] # Dest
           /\ \A t \in Sessions : core[s] # None => core[s] # temp[t]
<1> SUFFICES ASSUME NEW s \in Sessions, NEW t \in Sessions
             PROVE  /\ core[s] # None => core[s] \in Names /\ core[s] # Dest /\ core[s] # temp[t]
                    /\ temp[s] # None => temp[s] \in Names /\ temp[s] # Dest
  OBVIOUS
<1>1. CASE core[s] # None
  <2>1. PICK n \in 0..LastSequence : core[s] = Core(n)
    BY <1>1 DEF NamesBelow
  <2>2. core[s] # temp[t]
    BY <2>1, NameFacts DEF NamesBelow
  <2>3. QED
    BY <2>1, <2>2, NameFacts DEF NamesBelow
<1>2. CASE core[s] = None
  BY <1>2, NameFacts DEF NamesBelow
<1>3. QED
  BY <1>1, <1>2

\* A directory entry is a file or None.
LEMMA FileFacts ==
  ASSUME NEW s \in Sessions, NEW b \in BOOLEAN
  PROVE  /\ [by |-> s, complete |-> b] \in Files
         /\ [by |-> s, complete |-> b] # None
         /\ [by |-> Stranger, complete |-> b] \in Files
         /\ [by |-> Stranger, complete |-> b] # None
BY NoneAssumption DEF Files

\* What an update of the directory does to the entry and to the others.
LEMMA DirectoryReplaces ==
  ASSUME TypeOK, NEW n \in Names, NEW f \in Files \cup {None}, dir' = [dir EXCEPT ![n] = f]
  PROVE  /\ dir' \in [Names -> Files \cup {None}]
         /\ dir'[n] = f
         /\ \A m \in Names : m # n => dir'[m] = dir[m]
BY DEF TypeOK

\* The same for a write to a file that exists: it keeps its owner.
LEMMA DirectoryWrites ==
  ASSUME TypeOK, NEW n \in Names, NEW b \in BOOLEAN, Exists(n),
         dir' = [dir EXCEPT ![n].complete = b]
  PROVE  /\ dir' \in [Names -> Files \cup {None}]
         /\ dir'[n] = [by |-> dir[n].by, complete |-> b] /\ dir'[n] # None
         /\ \A m \in Names : m # n => dir'[m] = dir[m]
<1>1. dir[n] \in Files
  BY DEF TypeOK, Exists
<1>2. PICK f : f = [dir[n] EXCEPT !.complete = b]
  OBVIOUS
<1>3. f = [by |-> dir[n].by, complete |-> b] /\ f \in Files
  BY <1>1, <1>2 DEF Files
<1>4. dir' = [dir EXCEPT ![n] = f]
  BY <1>2
<1>5. QED
  BY <1>3, <1>4, DirectoryReplaces, NoneAssumption

\* The types of everything but the directory.
OtherTypes ==
  /\ provider \in Providers
  /\ coreNext \in 0..LastSequence /\ rangeNext \in 0..LastSequence
  /\ pc \in [Sessions -> {"idle", "name", "dump", "read", "publish", "create", "write", "link",
                          "unlink", "discard", "inplace", "tool", "writing", "cleanup", "done"}]
  /\ op \in [Sessions -> {"range", "snapshot", "read"}]
  /\ core \in [Sessions -> Names \cup {None}]
  /\ temp \in [Sessions -> Names \cup {None}]
  /\ outcome \in [Sessions -> {"none", "ok", "error"}]
  /\ stuck \in [Sessions -> SUBSET {"dump", "tool", "remove"}]
  /\ replaced \in BOOLEAN
  /\ late \in [Sessions -> 0..MaxLate] /\ lateOpen \in SUBSET Sessions

\* At first there are no files.
LEMMA InitAcquisition == Init => AcquisitionInv
<1> SUFFICES ASSUME Init PROVE AcquisitionInv
  OBVIOUS
<1>1. TypeOK
  <2>1. replaced \in BOOLEAN
    BY Zenon DEF Init
  <2>2. QED
    BY <2>1, AcquisitionAssumption DEF Init, TypeOK
<1>2. NamesBelow /\ NamesOwn
  BY NameFacts DEF Init, NamesBelow, NamesOwn
<1>3. FilesOwned /\ Places
  BY DEF Init, FilesOwned, Places, Exists
<1>4. DestinationWork /\ Claims
  BY NameFacts DEF Init, DestinationWork, Claims, Opened, Published, Exists
<1>5. LateWork
  <2>1. \A s \in Sessions : late[s] = 0 /\ pc[s] = "idle" /\ s \notin lateOpen
    BY DEF Init
  <2>2. ~(0 > 0)
    OBVIOUS
  <2>3. QED
    BY <2>1, <2>2, Zenon DEF LateWork
<1>6. QED
  BY <1>1, <1>2, <1>3, <1>4, <1>5 DEF AcquisitionInv

\* A session starts: it touches no file.
LEMMA StartKeeps ==
  ASSUME NEW s \in Sessions, NEW what \in {"range", "snapshot", "read"}
  PROVE  AcquisitionInv /\ Start(s, what) => AcquisitionInv'
<1> SUFFICES ASSUME AcquisitionInv, Start(s, what) PROVE AcquisitionInv'
  OBVIOUS
<1> USE DEF Start, FakeReadFails, Direct, Finish, Goto, Exists
<1>0. /\ TypeOK /\ NamesBelow /\ NamesOwn /\ FilesOwned /\ Places /\ DestinationWork /\ Claims
      /\ LateWork
  BY DEF AcquisitionInv
<1>1. TypeOK'
  BY <1>0, NameFacts, OwnNames, FileFacts, AcquisitionAssumption DEF TypeOK
<1>2. NamesBelow'
  BY <1>0, NameFacts, OwnNames, FileFacts, AcquisitionAssumption DEF TypeOK, NamesBelow
<1>3. NamesOwn'
  BY <1>0, NameFacts, AcquisitionAssumption DEF TypeOK, NamesBelow, NamesOwn
<1>4. FilesOwned'
  BY <1>0, NameFacts, OwnNames, FileFacts DEF TypeOK, NamesOwn, FilesOwned, Places, Littered
<1>5. Places'
  BY <1>0, NameFacts, OwnNames, FileFacts DEF TypeOK, NamesOwn, FilesOwned, Places, Littered
<1>6. DestinationWork'
  BY <1>0, NameFacts, OwnNames, FileFacts DEF TypeOK, Places, DestinationWork
<1>7. Claims'
  BY <1>0, NameFacts, OwnNames, FileFacts DEF TypeOK, FilesOwned, Places, Claims, Opened, Published
<1>8. LateWork'
  BY <1>0 DEF TypeOK, Places, LateWork
<1>9. QED
  BY <1>1, <1>2, <1>3, <1>4, <1>5, <1>6, <1>7, <1>8 DEF AcquisitionInv

\* The core gets a name that no session has had and that no file has.
LEMMA NameCoreKeeps ==
  ASSUME NEW s \in Sessions
  PROVE  AcquisitionInv /\ NameCore(s) => AcquisitionInv'
<1> SUFFICES ASSUME AcquisitionInv, NameCore(s) PROVE AcquisitionInv'
  OBVIOUS
<1> USE DEF NameCore, Successor, Finish, Goto, Exists
<1>0. /\ TypeOK /\ NamesBelow /\ NamesOwn /\ FilesOwned /\ Places /\ DestinationWork /\ Claims
      /\ LateWork
  BY DEF AcquisitionInv
<1>1. TypeOK'
  BY <1>0, NameFacts, OwnNames, FileFacts, AcquisitionAssumption DEF TypeOK
<1>2. NamesBelow'
  BY <1>0, NameFacts, OwnNames, FileFacts, AcquisitionAssumption DEF TypeOK, NamesBelow
<1>3. NamesOwn'
  BY <1>0, NameFacts, AcquisitionAssumption DEF TypeOK, NamesBelow, NamesOwn
<1>4. FilesOwned'
  <2>1. CASE Successor(coreNext) = None
    BY <1>0, <2>1 DEF TypeOK, FilesOwned, Littered
  <2>2. CASE ~(Successor(coreNext) = None)
    <3>1. dir[Core(coreNext)] = None
      BY <1>0 DEF TypeOK, NamesBelow
    <3>2. core'[s] = Core(coreNext) /\ \A t \in Sessions : t # s => core'[t] = core[t]
      BY <1>0, <2>2 DEF TypeOK
    <3>3. core[s] = None \/ ~Exists(core[s]) \/ Littered(s)
      BY <1>0 DEF Places
    <3>4. UNCHANGED <<dir, stuck, temp>>
      BY <2>2
    <3>5. \A t \in Sessions :
            /\ core'[t] # None /\ Exists(core'[t]) => dir[core'[t]].by = t
            /\ temp'[t] # None /\ Exists(temp'[t]) => dir[temp'[t]].by = t
      BY <1>0, <3>1, <3>2, <3>4 DEF FilesOwned
    <3>6. ASSUME NEW n \in Names \ {Dest}, Exists(n)
          PROVE  \E t \in Sessions :
                   dir[n].by = t /\ (n = core'[t] \/ n = temp'[t] \/ Littered(t))
      <4>1. PICK t \in Sessions :
              dir[n].by = t /\ (n = core[t] \/ n = temp[t] \/ Littered(t))
        BY <1>0, <3>6 DEF FilesOwned
      <4>2. QED
        BY <1>0, <3>2, <3>3, <3>4, <3>6, <4>1, OwnNames, NoneAssumption
    <3>7. QED
      BY <3>4, <3>5, <3>6 DEF FilesOwned, Littered
  <2>3. QED
    BY <2>1, <2>2
<1>5. Places'
  <2>1. CASE Successor(coreNext) = None
    BY <1>0, <2>1 DEF TypeOK, Places, Littered
  <2>2. CASE ~(Successor(coreNext) = None)
    <3>1. dir[Core(coreNext)] = None /\ Core(coreNext) # None
      BY <1>0, NameFacts DEF TypeOK, NamesBelow
    <3>2. core'[s] = Core(coreNext) /\ \A t \in Sessions : t # s => core'[t] = core[t]
      BY <1>0, <2>2 DEF TypeOK
    <3>3. QED
      BY <1>0, <2>2, <3>1, <3>2 DEF TypeOK, Places, Littered
  <2>3. QED
    BY <2>1, <2>2
<1>6. DestinationWork'
  BY <1>0, NameFacts, OwnNames, FileFacts DEF TypeOK, Places, DestinationWork
<1>7. Claims'
  BY <1>0, NameFacts, OwnNames, FileFacts DEF TypeOK, FilesOwned, Places, Claims, Opened, Published
<1>8. LateWork'
  BY <1>0 DEF TypeOK, Places, LateWork
<1>9. QED
  BY <1>1, <1>2, <1>3, <1>4, <1>5, <1>6, <1>7, <1>8 DEF AcquisitionInv

\* The tool creates the session's core.
LEMMA DumpSucceedsKeeps ==
  ASSUME NEW s \in Sessions
  PROVE  AcquisitionInv /\ DumpSucceeds(s) => AcquisitionInv'
<1> SUFFICES ASSUME AcquisitionInv, DumpSucceeds(s) PROVE AcquisitionInv'
  OBVIOUS
<1> USE DEF DumpSucceeds, Create, Goto, Exists
<1>0. /\ TypeOK /\ NamesBelow /\ NamesOwn /\ FilesOwned /\ Places /\ DestinationWork /\ Claims
      /\ LateWork
  BY DEF AcquisitionInv
<1>1. TypeOK'
  BY <1>0, NameFacts, OwnNames, FileFacts, AcquisitionAssumption DEF TypeOK
<1>2. NamesBelow'
  BY <1>0, NameFacts, OwnNames, FileFacts, AcquisitionAssumption DEF TypeOK, NamesBelow
<1>3. NamesOwn'
  BY <1>0, NameFacts, AcquisitionAssumption DEF TypeOK, NamesBelow, NamesOwn
<1>4. FilesOwned'
  BY <1>0, NameFacts, OwnNames, FileFacts DEF TypeOK, NamesOwn, FilesOwned, Places, Littered
<1>5. Places'
  <2>1. core[s] \in Names /\ core[s] # None
    BY <1>0, OwnNames DEF Places
  <2>2. dir'[core[s]] # None /\ \A m \in Names : m # core[s] => dir'[m] = dir[m]
    BY <1>0, <2>1, FileFacts, DirectoryReplaces
  <2>3. \A t \in Sessions : t # s =>
          /\ core[t] # None => dir'[core[t]] = dir[core[t]]
          /\ temp[t] # None => dir'[temp[t]] = dir[temp[t]]
    BY <1>0, <2>1, <2>2, OwnNames DEF NamesOwn
  <2>4. temp[s] # None => dir'[temp[s]] = dir[temp[s]]
    BY <1>0, <2>1, <2>2, OwnNames
  <2>5. QED
    BY <1>0, <2>1, <2>2, <2>3, <2>4 DEF TypeOK, Places, Littered
<1>6. DestinationWork'
  BY <1>0, NameFacts, OwnNames, FileFacts DEF TypeOK, Places, DestinationWork
<1>7. Claims'
  BY <1>0, NameFacts, OwnNames, FileFacts DEF TypeOK, FilesOwned, Places, Claims, Opened, Published
<1>8. LateWork'
  BY <1>0 DEF TypeOK, Places, LateWork
<1>9. QED
  BY <1>1, <1>2, <1>3, <1>4, <1>5, <1>6, <1>7, <1>8 DEF AcquisitionInv

\* A dump that fails may leave part of a core, which libvirt still removes.
LEMMA DumpFailsKeeps ==
  ASSUME NEW s \in Sessions
  PROVE  AcquisitionInv /\ DumpFails(s) => AcquisitionInv'
<1> SUFFICES ASSUME AcquisitionInv, DumpFails(s) PROVE AcquisitionInv'
  OBVIOUS
<1> USE DEF DumpFails, Create, Stuck, Cleanup, Finish, Goto, Exists
<1>0. /\ TypeOK /\ NamesBelow /\ NamesOwn /\ FilesOwned /\ Places /\ DestinationWork /\ Claims
      /\ LateWork
  BY DEF AcquisitionInv
<1>1. TypeOK'
  <2>1. OtherTypes'
    BY <1>0 DEF TypeOK, OtherTypes
  <2>2. dir' \in [Names -> Files \cup {None}]
    BY <1>0, OwnNames, FileFacts, DirectoryReplaces DEF TypeOK, Places
  <2>3. QED
    BY <2>1, <2>2 DEF TypeOK, OtherTypes
<1>2. NamesBelow'
  BY <1>0, NameFacts, OwnNames, FileFacts, AcquisitionAssumption DEF TypeOK, NamesBelow
<1>3. NamesOwn'
  BY <1>0, NameFacts, AcquisitionAssumption DEF TypeOK, NamesBelow, NamesOwn
<1>4. FilesOwned'
  BY <1>0, NameFacts, OwnNames, FileFacts DEF TypeOK, NamesOwn, FilesOwned, Places, Littered
<1>5. Places'
  BY <1>0, NameFacts, OwnNames, FileFacts DEF TypeOK, NamesOwn, FilesOwned, Places, Littered
<1>6. DestinationWork'
  BY <1>0, NameFacts, OwnNames, FileFacts DEF TypeOK, Places, DestinationWork
<1>7. Claims'
  BY <1>0, NameFacts, OwnNames, FileFacts DEF TypeOK, FilesOwned, Places, Claims, Opened, Published
<1>8. LateWork'
  BY <1>0 DEF TypeOK, Places, LateWork
<1>9. QED
  BY <1>1, <1>2, <1>3, <1>4, <1>5, <1>6, <1>7, <1>8 DEF AcquisitionInv

\* Reading the core changes no file.
LEMMA ReadCoreKeeps ==
  ASSUME NEW s \in Sessions, NEW ok \in BOOLEAN
  PROVE  AcquisitionInv /\ ReadCore(s, ok) => AcquisitionInv'
<1> SUFFICES ASSUME AcquisitionInv, ReadCore(s, ok) PROVE AcquisitionInv'
  OBVIOUS
<1> USE DEF ReadCore, Cleanup, Goto, Exists
<1>0. /\ TypeOK /\ NamesBelow /\ NamesOwn /\ FilesOwned /\ Places /\ DestinationWork /\ Claims
      /\ LateWork
  BY DEF AcquisitionInv
<1>1. TypeOK'
  BY <1>0, NameFacts, OwnNames, FileFacts, AcquisitionAssumption DEF TypeOK
<1>2. NamesBelow'
  BY <1>0, NameFacts, OwnNames, FileFacts, AcquisitionAssumption DEF TypeOK, NamesBelow
<1>3. NamesOwn'
  BY <1>0, NameFacts, AcquisitionAssumption DEF TypeOK, NamesBelow, NamesOwn
<1>4. FilesOwned'
  BY <1>0, NameFacts, OwnNames, FileFacts DEF TypeOK, NamesOwn, FilesOwned, Places, Littered
<1>5. Places'
  BY <1>0, NameFacts, OwnNames, FileFacts DEF TypeOK, NamesOwn, FilesOwned, Places, Littered
<1>6. DestinationWork'
  BY <1>0, NameFacts, OwnNames, FileFacts DEF TypeOK, Places, DestinationWork
<1>7. Claims'
  BY <1>0, NameFacts, OwnNames, FileFacts DEF TypeOK, FilesOwned, Places, Claims, Opened, Published
<1>8. LateWork'
  BY <1>0 DEF TypeOK, Places, LateWork
<1>9. QED
  BY <1>1, <1>2, <1>3, <1>4, <1>5, <1>6, <1>7, <1>8 DEF AcquisitionInv

\* The temporary range gets a name that no session has had and that no file has.
LEMMA NameRangeKeeps ==
  ASSUME NEW s \in Sessions
  PROVE  AcquisitionInv /\ NameRange(s) => AcquisitionInv'
<1> SUFFICES ASSUME AcquisitionInv, NameRange(s) PROVE AcquisitionInv'
  OBVIOUS
<1> USE DEF NameRange, Successor, Cleanup, Goto, Exists
<1>0. /\ TypeOK /\ NamesBelow /\ NamesOwn /\ FilesOwned /\ Places /\ DestinationWork /\ Claims
      /\ LateWork
  BY DEF AcquisitionInv
<1>1. TypeOK'
  BY <1>0, NameFacts, OwnNames, FileFacts, AcquisitionAssumption DEF TypeOK
<1>2. NamesBelow'
  BY <1>0, NameFacts, OwnNames, FileFacts, AcquisitionAssumption DEF TypeOK, NamesBelow
<1>3. NamesOwn'
  BY <1>0, NameFacts, AcquisitionAssumption DEF TypeOK, NamesBelow, NamesOwn
<1>4. FilesOwned'
  <2>1. CASE (provider # "fake" /\ Exists(Dest)) \/ Successor(rangeNext) = None
    BY <1>0, <2>1 DEF TypeOK, FilesOwned, Littered
  <2>2. CASE ~((provider # "fake" /\ Exists(Dest)) \/ Successor(rangeNext) = None)
    <3>1. dir[Temp(rangeNext)] = None
      BY <1>0 DEF TypeOK, NamesBelow
    <3>2. temp'[s] = Temp(rangeNext) /\ \A t \in Sessions : t # s => temp'[t] = temp[t]
      BY <1>0, <2>2 DEF TypeOK
    <3>3. temp[s] = None \/ ~Exists(temp[s]) \/ Littered(s)
      BY <1>0 DEF Places
    <3>4. UNCHANGED <<dir, stuck, core>>
      BY <2>2
    <3>5. \A t \in Sessions :
            /\ core'[t] # None /\ Exists(core'[t]) => dir[core'[t]].by = t
            /\ temp'[t] # None /\ Exists(temp'[t]) => dir[temp'[t]].by = t
      BY <1>0, <3>1, <3>2, <3>4 DEF FilesOwned
    <3>6. ASSUME NEW n \in Names \ {Dest}, Exists(n)
          PROVE  \E t \in Sessions :
                   dir[n].by = t /\ (n = core'[t] \/ n = temp'[t] \/ Littered(t))
      <4>1. PICK t \in Sessions :
              dir[n].by = t /\ (n = core[t] \/ n = temp[t] \/ Littered(t))
        BY <1>0, <3>6 DEF FilesOwned
      <4>2. QED
        BY <1>0, <3>2, <3>3, <3>4, <3>6, <4>1, OwnNames, NoneAssumption
    <3>7. QED
      BY <3>4, <3>5, <3>6 DEF FilesOwned, Littered
  <2>3. QED
    BY <2>1, <2>2
<1>5. Places'
  <2>1. CASE (provider # "fake" /\ Exists(Dest)) \/ Successor(rangeNext) = None
    BY <1>0, <2>1 DEF TypeOK, Places, Littered
  <2>2. CASE ~((provider # "fake" /\ Exists(Dest)) \/ Successor(rangeNext) = None)
    <3>1. dir[Temp(rangeNext)] = None /\ Temp(rangeNext) # None
      BY <1>0, NameFacts DEF TypeOK, NamesBelow
    <3>2. temp'[s] = Temp(rangeNext) /\ \A t \in Sessions : t # s => temp'[t] = temp[t]
      BY <1>0, <2>2 DEF TypeOK
    <3>3. QED
      BY <1>0, <2>2, <3>1, <3>2 DEF TypeOK, Places, Littered
  <2>3. QED
    BY <2>1, <2>2
<1>6. DestinationWork'
  BY <1>0, NameFacts, OwnNames, FileFacts DEF TypeOK, Places, DestinationWork
<1>7. Claims'
  BY <1>0, NameFacts, OwnNames, FileFacts DEF TypeOK, FilesOwned, Places, Claims, Opened, Published
<1>8. LateWork'
  BY <1>0 DEF TypeOK, Places, LateWork
<1>9. QED
  BY <1>1, <1>2, <1>3, <1>4, <1>5, <1>6, <1>7, <1>8 DEF AcquisitionInv

\* The temporary range is created under the session's own name.
LEMMA CreateRangeKeeps ==
  ASSUME NEW s \in Sessions, NEW ok \in BOOLEAN
  PROVE  AcquisitionInv /\ CreateRange(s, ok) => AcquisitionInv'
<1> SUFFICES ASSUME AcquisitionInv, CreateRange(s, ok) PROVE AcquisitionInv'
  OBVIOUS
<1> USE DEF CreateRange, Create, Goto, Exists
<1>0. /\ TypeOK /\ NamesBelow /\ NamesOwn /\ FilesOwned /\ Places /\ DestinationWork /\ Claims
      /\ LateWork
  BY DEF AcquisitionInv
<1>1. TypeOK'
  <2>1. OtherTypes'
    BY <1>0 DEF TypeOK, OtherTypes
  <2>2. dir' \in [Names -> Files \cup {None}]
    BY <1>0, OwnNames, FileFacts, DirectoryReplaces DEF TypeOK, Places
  <2>3. QED
    BY <2>1, <2>2 DEF TypeOK, OtherTypes
<1>2. NamesBelow'
  BY <1>0, NameFacts, OwnNames, FileFacts, AcquisitionAssumption DEF TypeOK, NamesBelow
<1>3. NamesOwn'
  BY <1>0, NameFacts, AcquisitionAssumption DEF TypeOK, NamesBelow, NamesOwn
<1>4. FilesOwned'
  BY <1>0, NameFacts, OwnNames, FileFacts DEF TypeOK, NamesOwn, FilesOwned, Places, Littered
<1>5. Places'
  <2>1. temp[s] \in Names /\ temp[s] # None
    BY <1>0, OwnNames DEF Places
  <2>2. CASE ok /\ ~Exists(temp[s])
    <3>1. dir'[temp[s]] # None /\ \A m \in Names : m # temp[s] => dir'[m] = dir[m]
      BY <1>0, <2>1, <2>2, FileFacts, DirectoryReplaces
    <3>2. \A t \in Sessions : t # s =>
            /\ core[t] # None => dir'[core[t]] = dir[core[t]]
            /\ temp[t] # None => dir'[temp[t]] = dir[temp[t]]
      BY <1>0, <2>1, <3>1, OwnNames DEF NamesOwn
    <3>3. core[s] # None => dir'[core[s]] = dir[core[s]]
      BY <1>0, <2>1, <3>1, OwnNames
    <3>4. QED
      BY <1>0, <2>1, <2>2, <3>1, <3>2, <3>3 DEF TypeOK, Places, Littered
  <2>3. CASE ~(ok /\ ~Exists(temp[s]))
    BY <1>0, <2>3 DEF TypeOK, Places, Littered
  <2>4. QED
    BY <2>2, <2>3
<1>6. DestinationWork'
  BY <1>0, NameFacts, OwnNames, FileFacts DEF TypeOK, Places, DestinationWork
<1>7. Claims'
  BY <1>0, NameFacts, OwnNames, FileFacts DEF TypeOK, FilesOwned, Places, Claims, Opened, Published
<1>8. LateWork'
  BY <1>0 DEF TypeOK, Places, LateWork
<1>9. QED
  BY <1>1, <1>2, <1>3, <1>4, <1>5, <1>6, <1>7, <1>8 DEF AcquisitionInv

\* The temporary range is complete when it is linked.
LEMMA WriteRangeKeeps ==
  ASSUME NEW s \in Sessions, NEW ok \in BOOLEAN
  PROVE  AcquisitionInv /\ WriteRange(s, ok) => AcquisitionInv'
<1> SUFFICES ASSUME AcquisitionInv, WriteRange(s, ok) PROVE AcquisitionInv'
  OBVIOUS
<1> USE DEF WriteRange, Goto, Exists
<1>0. /\ TypeOK /\ NamesBelow /\ NamesOwn /\ FilesOwned /\ Places /\ DestinationWork /\ Claims
      /\ LateWork
  BY DEF AcquisitionInv
<1>1. TypeOK'
  <2>1. OtherTypes'
    BY <1>0 DEF TypeOK, OtherTypes
  <2>2. dir' \in [Names -> Files \cup {None}]
    BY <1>0, OwnNames, DirectoryWrites DEF TypeOK, Places
  <2>3. QED
    BY <2>1, <2>2 DEF TypeOK, OtherTypes
<1>2. NamesBelow'
  BY <1>0, NameFacts, OwnNames, FileFacts, AcquisitionAssumption DEF TypeOK, NamesBelow
<1>3. NamesOwn'
  BY <1>0, NameFacts, AcquisitionAssumption DEF TypeOK, NamesBelow, NamesOwn
<1>4. temp[s] # None /\ temp[s] \in Names /\ Exists(temp[s])
  BY <1>0, OwnNames DEF Places
<1>5. FilesOwned' /\ Places'
  <2>1. CASE ok
    <3>1. /\ dir'[temp[s]] = [by |-> dir[temp[s]].by, complete |-> TRUE] /\ dir'[temp[s]] # None
          /\ \A m \in Names : m # temp[s] => dir'[m] = dir[m]
      BY <1>0, <1>4, <2>1, DirectoryWrites
    <3>2. \A m \in Names : (dir[m] = None <=> dir'[m] = None) /\ dir'[m].by = dir[m].by
      BY <3>1, <1>4
    <3>3. FilesOwned'
      BY <1>0, <3>2, OwnNames DEF TypeOK, FilesOwned, Littered
    <3>4. dir'[temp[s]].complete /\ \A t \in Sessions :
            temp[t] # None /\ dir[temp[t]].complete => dir'[temp[t]].complete
      BY <1>0, <3>1, OwnNames
    <3>5. Places'
      BY <1>0, <2>1, <3>2, <3>4, OwnNames DEF TypeOK, Places, Littered
    <3>6. QED
      BY <3>3, <3>5
  <2>2. CASE ~ok
    <3>1. UNCHANGED <<dir, core, temp, stuck, provider>> /\ pc' = [pc EXCEPT ![s] = "discard"]
      BY <2>2
    <3>2. FilesOwned'
      BY <1>0, <3>1 DEF TypeOK, FilesOwned, Littered
    <3>3. Places'
      BY <1>0, <1>4, <3>1 DEF TypeOK, Places, Littered
    <3>4. QED
      BY <3>2, <3>3
  <2>3. QED
    BY <2>1, <2>2
<1>6. DestinationWork'
  BY <1>0, NameFacts, OwnNames, FileFacts DEF TypeOK, Places, DestinationWork
<1>7. Claims'
  BY <1>0, NameFacts, OwnNames, FileFacts DEF TypeOK, FilesOwned, Places, Claims, Opened, Published
<1>8. LateWork'
  BY <1>0 DEF TypeOK, Places, LateWork
<1>9. QED
  BY <1>1, <1>2, <1>3, <1>5, <1>6, <1>7, <1>8 DEF AcquisitionInv

\* What is published is complete, and nothing is replaced.
LEMMA LinkKeeps ==
  ASSUME NEW s \in Sessions, NEW ok \in BOOLEAN
  PROVE  AcquisitionInv /\ Link(s, ok) => AcquisitionInv'
<1> SUFFICES ASSUME AcquisitionInv, Link(s, ok) PROVE AcquisitionInv'
  OBVIOUS
<1> USE DEF Link, Goto, Exists
<1>0. /\ TypeOK /\ NamesBelow /\ NamesOwn /\ FilesOwned /\ Places /\ DestinationWork /\ Claims
      /\ LateWork
  BY DEF AcquisitionInv
<1>1. TypeOK'
  <2>1. OtherTypes'
    BY <1>0 DEF TypeOK, OtherTypes
  <2>2. dir' \in [Names -> Files \cup {None}]
    BY <1>0, NameFacts, OwnNames, DirectoryReplaces DEF TypeOK, Places
  <2>3. QED
    BY <2>1, <2>2 DEF TypeOK, OtherTypes
<1>2. NamesBelow'
  BY <1>0, NameFacts, OwnNames, FileFacts, AcquisitionAssumption DEF TypeOK, NamesBelow
<1>3. NamesOwn'
  BY <1>0, NameFacts, AcquisitionAssumption DEF TypeOK, NamesBelow, NamesOwn
<1>4. FilesOwned'
  BY <1>0, NameFacts, OwnNames, FileFacts DEF TypeOK, NamesOwn, FilesOwned, Places, Littered
<1>5. Places'
  BY <1>0, NameFacts, OwnNames, FileFacts DEF TypeOK, NamesOwn, FilesOwned, Places, Littered
<1>6. DestinationWork'
  BY <1>0, NameFacts, OwnNames, FileFacts DEF TypeOK, Places, DestinationWork
<1>7. Claims'
  BY <1>0, NameFacts, OwnNames, FileFacts DEF TypeOK, FilesOwned, Places, Claims, Opened, Published
<1>8. LateWork'
  BY <1>0 DEF TypeOK, Places, LateWork
<1>9. QED
  BY <1>1, <1>2, <1>3, <1>4, <1>5, <1>6, <1>7, <1>8 DEF AcquisitionInv

\* The second name of the published file is removed, and only that.
LEMMA UnlinkKeeps ==
  ASSUME NEW s \in Sessions, NEW ok \in BOOLEAN
  PROVE  AcquisitionInv /\ Unlink(s, ok) => AcquisitionInv'
<1> SUFFICES ASSUME AcquisitionInv, Unlink(s, ok) PROVE AcquisitionInv'
  OBVIOUS
<1> USE DEF Unlink, RemoveFile, Cleanup, Goto, Exists
<1>0. /\ TypeOK /\ NamesBelow /\ NamesOwn /\ FilesOwned /\ Places /\ DestinationWork /\ Claims
      /\ LateWork
  BY DEF AcquisitionInv
<1>1. TypeOK'
  BY <1>0, NameFacts, OwnNames, FileFacts, AcquisitionAssumption DEF TypeOK
<1>2. NamesBelow'
  BY <1>0, NameFacts, OwnNames, FileFacts, AcquisitionAssumption DEF TypeOK, NamesBelow
<1>3. NamesOwn'
  BY <1>0, NameFacts, AcquisitionAssumption DEF TypeOK, NamesBelow, NamesOwn
<1>4. FilesOwned'
  BY <1>0, NameFacts, OwnNames, FileFacts DEF TypeOK, NamesOwn, FilesOwned, Places, Littered
<1>5. Places'
  BY <1>0, NameFacts, OwnNames, FileFacts DEF TypeOK, NamesOwn, FilesOwned, Places, Littered
<1>6. DestinationWork'
  BY <1>0, NameFacts, OwnNames, FileFacts DEF TypeOK, Places, DestinationWork
<1>7. Claims'
  BY <1>0, NameFacts, OwnNames, FileFacts DEF TypeOK, FilesOwned, Places, Claims, Opened, Published
<1>8. LateWork'
  BY <1>0 DEF TypeOK, Places, LateWork
<1>9. QED
  BY <1>1, <1>2, <1>3, <1>4, <1>5, <1>6, <1>7, <1>8 DEF AcquisitionInv

\* After a failure the session removes its own temporary range.
LEMMA DiscardKeeps ==
  ASSUME NEW s \in Sessions, NEW ok \in BOOLEAN
  PROVE  AcquisitionInv /\ Discard(s, ok) => AcquisitionInv'
<1> SUFFICES ASSUME AcquisitionInv, Discard(s, ok) PROVE AcquisitionInv'
  OBVIOUS
<1> USE DEF Discard, RemoveFile, Stuck, Cleanup, Goto, Exists
<1>0. /\ TypeOK /\ NamesBelow /\ NamesOwn /\ FilesOwned /\ Places /\ DestinationWork /\ Claims
      /\ LateWork
  BY DEF AcquisitionInv
<1>1. TypeOK'
  BY <1>0, NameFacts, OwnNames, FileFacts, AcquisitionAssumption DEF TypeOK
<1>2. NamesBelow'
  BY <1>0, NameFacts, OwnNames, FileFacts, AcquisitionAssumption DEF TypeOK, NamesBelow
<1>3. NamesOwn'
  BY <1>0, NameFacts, AcquisitionAssumption DEF TypeOK, NamesBelow, NamesOwn
<1>4. FilesOwned'
  BY <1>0, NameFacts, OwnNames, FileFacts DEF TypeOK, NamesOwn, FilesOwned, Places, Littered
<1>5. Places'
  BY <1>0, NameFacts, OwnNames, FileFacts DEF TypeOK, NamesOwn, FilesOwned, Places, Littered
<1>6. DestinationWork'
  BY <1>0, NameFacts, OwnNames, FileFacts DEF TypeOK, Places, DestinationWork
<1>7. Claims'
  BY <1>0, NameFacts, OwnNames, FileFacts DEF TypeOK, FilesOwned, Places, Claims, Opened, Published
<1>8. LateWork'
  BY <1>0 DEF TypeOK, Places, LateWork
<1>9. QED
  BY <1>1, <1>2, <1>3, <1>4, <1>5, <1>6, <1>7, <1>8 DEF AcquisitionInv

\* libvirt creates a destination that is absent: nobody else claims it.
LEMMA CreateInPlaceKeeps ==
  ASSUME NEW s \in Sessions, NEW ok \in BOOLEAN
  PROVE  AcquisitionInv /\ CreateInPlace(s, ok) => AcquisitionInv'
<1> SUFFICES ASSUME AcquisitionInv, CreateInPlace(s, ok) PROVE AcquisitionInv'
  OBVIOUS
<1> USE DEF CreateInPlace, Create, Cleanup, Goto, Exists
<1>0. /\ TypeOK /\ NamesBelow /\ NamesOwn /\ FilesOwned /\ Places /\ DestinationWork /\ Claims
      /\ LateWork
  BY DEF AcquisitionInv
<1>1. TypeOK'
  <2>1. OtherTypes'
    BY <1>0 DEF TypeOK, OtherTypes
  <2>2. dir' \in [Names -> Files \cup {None}]
    BY <1>0, NameFacts, FileFacts, DirectoryReplaces DEF TypeOK
  <2>3. QED
    BY <2>1, <2>2 DEF TypeOK, OtherTypes
<1>2. NamesBelow'
  BY <1>0, NameFacts, OwnNames, FileFacts, AcquisitionAssumption DEF TypeOK, NamesBelow
<1>3. NamesOwn'
  BY <1>0, NameFacts, AcquisitionAssumption DEF TypeOK, NamesBelow, NamesOwn
<1>4. FilesOwned'
  BY <1>0, NameFacts, OwnNames, FileFacts DEF TypeOK, NamesOwn, FilesOwned, Places, Littered
<1>5. Places'
  BY <1>0, NameFacts, OwnNames, FileFacts DEF TypeOK, NamesOwn, FilesOwned, Places, Littered
<1>6. DestinationWork'
  BY <1>0, NameFacts, OwnNames, FileFacts DEF TypeOK, Places, DestinationWork
<1>7. Claims'
  <2>1. CASE ok /\ ~Exists(Dest)
    <3>1. dir'[Dest] = [by |-> s, complete |-> FALSE] /\ dir'[Dest] # None
      BY <1>0, <2>1, NameFacts, FileFacts, DirectoryReplaces
    <3>2. ~replaced => \A t \in Sessions : ~Opened(t) /\ ~Published(t)
      BY <1>0, <2>1 DEF Claims
    <3>3. pc' = [pc EXCEPT ![s] = "inplace"] /\ UNCHANGED <<outcome, op, provider, replaced>>
      BY <2>1
    <3>4. QED
      BY <1>0, <3>1, <3>2, <3>3 DEF TypeOK, Claims, Opened, Published
  <2>2. CASE ~(ok /\ ~Exists(Dest))
    BY <1>0, <2>2 DEF TypeOK, Claims, Opened, Published
  <2>3. QED
    BY <2>1, <2>2
<1>8. LateWork'
  BY <1>0 DEF TypeOK, Places, LateWork
<1>9. QED
  BY <1>1, <1>2, <1>3, <1>4, <1>5, <1>6, <1>7, <1>8 DEF AcquisitionInv

\* libvirt completes the destination, removes it, or is marked for not having done so.
LEMMA WriteInPlaceKeeps ==
  ASSUME NEW s \in Sessions, NEW ok \in BOOLEAN, NEW removed \in BOOLEAN
  PROVE  AcquisitionInv /\ WriteInPlace(s, ok, removed) => AcquisitionInv'
<1> SUFFICES ASSUME AcquisitionInv, WriteInPlace(s, ok, removed) PROVE AcquisitionInv'
  OBVIOUS
<1> USE DEF WriteInPlace, WrittenBy, RemoveFile, Stuck, Cleanup, Goto, Exists
<1>0. /\ TypeOK /\ NamesBelow /\ NamesOwn /\ FilesOwned /\ Places /\ DestinationWork /\ Claims
      /\ LateWork
  BY DEF AcquisitionInv
<1>1. TypeOK'
  <2>1. OtherTypes'
    BY <1>0 DEF TypeOK, OtherTypes
  <2>2. dir' \in [Names -> Files \cup {None}]
    BY <1>0, NameFacts, DirectoryWrites, DirectoryReplaces DEF TypeOK
  <2>3. QED
    BY <2>1, <2>2 DEF TypeOK, OtherTypes
<1>2. NamesBelow'
  BY <1>0, NameFacts, OwnNames, FileFacts, AcquisitionAssumption DEF TypeOK, NamesBelow
<1>3. NamesOwn'
  BY <1>0, NameFacts, AcquisitionAssumption DEF TypeOK, NamesBelow, NamesOwn
<1>4. FilesOwned'
  BY <1>0, NameFacts, OwnNames, FileFacts DEF TypeOK, NamesOwn, FilesOwned, Places, Littered
<1>5. Places'
  BY <1>0, NameFacts, OwnNames, FileFacts DEF TypeOK, NamesOwn, FilesOwned, Places, Littered
<1>60. /\ pc'[s] = "cleanup" /\ provider = "libvirt"
       /\ \A t \in Sessions : t # s =>
            pc'[t] = pc[t] /\ outcome'[t] = outcome[t] /\ stuck'[t] = stuck[t]
       /\ stuck[s] \subseteq stuck'[s]
       /\ outcome'[s] = (IF ok THEN "ok" ELSE "error")
  BY <1>0 DEF TypeOK, Places
<1>61. \/ /\ ok /\ Exists(Dest) /\ dir[Dest].by = s
          /\ dir'[Dest] = [by |-> s, complete |-> TRUE] /\ dir'[Dest] # None
       \/ ok /\ dir' = dir /\ ~(Exists(Dest) /\ dir[Dest].by = s)
       \/ ~ok /\ dir'[Dest] = None
       \/ ~ok /\ dir' = dir /\ "remove" \in stuck'[s]
  <2>1. CASE ok
    BY <1>0, <2>1, NameFacts, DirectoryWrites
  <2>2. CASE ~ok
    BY <1>0, <2>2, NameFacts, DirectoryReplaces DEF TypeOK
  <2>3. QED
    BY <2>1, <2>2
<1>6. DestinationWork'
  <2>1. CASE dir'[Dest] = None \/ dir'[Dest] = [by |-> s, complete |-> TRUE]
    BY <2>1 DEF DestinationWork
  <2>2. CASE dir' = dir
    BY <1>0, <1>60, <1>61, <2>2 DEF DestinationWork
  <2>3. QED
    BY <1>61, <2>1, <2>2
<1>7. Claims'
  <2> SUFFICES ASSUME ~replaced, NEW t \in Sessions
               PROVE  /\ Opened(t)' => Exists(Dest)' /\ dir'[Dest].by = t
                      /\ Published(t)' =>
                           Exists(Dest)' /\ dir'[Dest].by = t /\ dir'[Dest].complete
    BY DEF Claims
  <2>1. Exists(Dest) /\ dir[Dest].by = s
    BY <1>0 DEF Claims, Opened
  <2>2. CASE t = s
    BY <1>0, <1>60, <1>61, <2>1, <2>2 DEF LateWork, Opened, Published
  <2>3. CASE t # s
    BY <1>0, <1>60, <2>1, <2>3 DEF Claims, Opened, Published
  <2>4. QED
    BY <2>2, <2>3
<1>8. LateWork'
  BY <1>0 DEF TypeOK, Places, LateWork
<1>9. QED
  BY <1>1, <1>2, <1>3, <1>4, <1>5, <1>6, <1>7, <1>8 DEF AcquisitionInv

\* A tool replaces a destination only if that is recorded.
LEMMA ToolOpensKeeps ==
  ASSUME NEW s \in Sessions
  PROVE  AcquisitionInv /\ ToolOpens(s) => AcquisitionInv'
<1> SUFFICES ASSUME AcquisitionInv, ToolOpens(s) PROVE AcquisitionInv'
  OBVIOUS
<1> USE DEF ToolOpens, OpenDest, Create, Goto, Exists
<1>0. /\ TypeOK /\ NamesBelow /\ NamesOwn /\ FilesOwned /\ Places /\ DestinationWork /\ Claims
      /\ LateWork
  BY DEF AcquisitionInv
<1>1. TypeOK'
  BY <1>0, NameFacts, OwnNames, FileFacts, AcquisitionAssumption DEF TypeOK
<1>2. NamesBelow'
  BY <1>0, NameFacts, OwnNames, FileFacts, AcquisitionAssumption DEF TypeOK, NamesBelow
<1>3. NamesOwn'
  BY <1>0, NameFacts, AcquisitionAssumption DEF TypeOK, NamesBelow, NamesOwn
<1>4. FilesOwned'
  BY <1>0, NameFacts, OwnNames, FileFacts DEF TypeOK, NamesOwn, FilesOwned, Places, Littered
<1>5. Places'
  BY <1>0, NameFacts, OwnNames, FileFacts DEF TypeOK, NamesOwn, FilesOwned, Places, Littered
<1>6. DestinationWork'
  BY <1>0, NameFacts, OwnNames, FileFacts DEF TypeOK, Places, DestinationWork
<1>7. Claims'
  BY <1>0, NameFacts, OwnNames, FileFacts DEF TypeOK, FilesOwned, Places, Claims, Opened, Published
<1>8. LateWork'
  BY <1>0 DEF TypeOK, Places, LateWork
<1>9. QED
  BY <1>1, <1>2, <1>3, <1>4, <1>5, <1>6, <1>7, <1>8 DEF AcquisitionInv

\* A tool that gets nowhere changes no file.
LEMMA ToolFailsKeeps ==
  ASSUME NEW s \in Sessions
  PROVE  AcquisitionInv /\ ToolFails(s) => AcquisitionInv'
<1> SUFFICES ASSUME AcquisitionInv, ToolFails(s) PROVE AcquisitionInv'
  OBVIOUS
<1> USE DEF ToolFails, ToolReports, Finish, Goto, Exists
<1>0. /\ TypeOK /\ NamesBelow /\ NamesOwn /\ FilesOwned /\ Places /\ DestinationWork /\ Claims
      /\ LateWork
  BY DEF AcquisitionInv
<1>1. TypeOK'
  BY <1>0, NameFacts, OwnNames, FileFacts, AcquisitionAssumption DEF TypeOK
<1>2. NamesBelow'
  BY <1>0, NameFacts, OwnNames, FileFacts, AcquisitionAssumption DEF TypeOK, NamesBelow
<1>3. NamesOwn'
  BY <1>0, NameFacts, AcquisitionAssumption DEF TypeOK, NamesBelow, NamesOwn
<1>4. FilesOwned'
  BY <1>0, NameFacts, OwnNames, FileFacts DEF TypeOK, NamesOwn, FilesOwned, Places, Littered
<1>5. Places'
  BY <1>0, NameFacts, OwnNames, FileFacts DEF TypeOK, NamesOwn, FilesOwned, Places, Littered
<1>6. DestinationWork'
  BY <1>0, NameFacts, OwnNames, FileFacts DEF TypeOK, Places, DestinationWork
<1>7. Claims'
  BY <1>0, NameFacts, OwnNames, FileFacts DEF TypeOK, FilesOwned, Places, Claims, Opened, Published
<1>8. LateWork'
  BY <1>0 DEF TypeOK, Places, LateWork
<1>9. QED
  BY <1>1, <1>2, <1>3, <1>4, <1>5, <1>6, <1>7, <1>8 DEF AcquisitionInv

\* A tool completes what it opened, or is marked for not having done so.
LEMMA ToolEndsKeeps ==
  ASSUME NEW s \in Sessions, NEW ok \in BOOLEAN
  PROVE  AcquisitionInv /\ ToolEnds(s, ok) => AcquisitionInv'
<1> SUFFICES ASSUME AcquisitionInv, ToolEnds(s, ok) PROVE AcquisitionInv'
  OBVIOUS
<1> USE DEF ToolEnds, EndWriting, WrittenBy, ToolReports, Stuck, Finish, Goto, Exists
<1>0. /\ TypeOK /\ NamesBelow /\ NamesOwn /\ FilesOwned /\ Places /\ DestinationWork /\ Claims
      /\ LateWork
  BY DEF AcquisitionInv
<1>1. TypeOK'
  <2>1. OtherTypes'
    BY <1>0 DEF TypeOK, OtherTypes
  <2>2. dir' \in [Names -> Files \cup {None}]
    BY <1>0, NameFacts, DirectoryWrites DEF TypeOK
  <2>3. QED
    BY <2>1, <2>2 DEF TypeOK, OtherTypes
<1>2. NamesBelow'
  BY <1>0, NameFacts, OwnNames, FileFacts, AcquisitionAssumption DEF TypeOK, NamesBelow
<1>3. NamesOwn'
  BY <1>0, NameFacts, AcquisitionAssumption DEF TypeOK, NamesBelow, NamesOwn
<1>4. FilesOwned'
  BY <1>0, NameFacts, OwnNames, FileFacts DEF TypeOK, NamesOwn, FilesOwned, Places, Littered
<1>5. Places'
  BY <1>0, NameFacts, OwnNames, FileFacts DEF TypeOK, NamesOwn, FilesOwned, Places, Littered
<1>60. /\ pc'[s] = "done" /\ ~ok => "tool" \in stuck'[s]
       /\ \A t \in Sessions : t # s =>
            pc'[t] = pc[t] /\ outcome'[t] = outcome[t] /\ stuck'[t] = stuck[t]
       /\ stuck[s] \subseteq stuck'[s]
  BY <1>0 DEF TypeOK
<1>61. \/ /\ Exists(Dest) /\ dir[Dest].by = s
          /\ dir'[Dest] = [by |-> s, complete |-> ok] /\ dir'[Dest] # None
       \/ dir' = dir /\ ~(Exists(Dest) /\ dir[Dest].by = s)
  BY <1>0, NameFacts, DirectoryWrites
<1>6. DestinationWork'
  <2>1. CASE Exists(Dest) /\ dir[Dest].by = s
    BY <1>60, <1>61, <2>1 DEF DestinationWork
  <2>2. CASE ~(Exists(Dest) /\ dir[Dest].by = s)
    BY <1>0, <1>60, <1>61, <2>2 DEF DestinationWork
  <2>3. QED
    BY <2>1, <2>2
<1>7. Claims'
  <2> SUFFICES ASSUME ~replaced, NEW t \in Sessions
               PROVE  /\ Opened(t)' => Exists(Dest)' /\ dir'[Dest].by = t
                      /\ Published(t)' =>
                           Exists(Dest)' /\ dir'[Dest].by = t /\ dir'[Dest].complete
    BY DEF Claims
  <2>1. Exists(Dest) /\ dir[Dest].by = s
    BY <1>0 DEF Claims, Opened
  <2>2. dir'[Dest] = [by |-> s, complete |-> ok] /\ dir'[Dest] # None
    BY <1>61, <2>1
  <2>3. CASE t = s
    BY <1>0, <1>60, <2>2, <2>3 DEF TypeOK, Opened, Published
  <2>4. CASE t # s
    BY <1>0, <1>60, <2>1, <2>4 DEF Claims, Opened, Published
  <2>5. QED
    BY <2>3, <2>4
<1>8. LateWork'
  BY <1>0 DEF TypeOK, Places, LateWork
<1>9. QED
  BY <1>1, <1>2, <1>3, <1>4, <1>5, <1>6, <1>7, <1>8 DEF AcquisitionInv

\* A session that gives up leaves its command, and the file, to the monitor.
LEMMA GiveUpKeeps ==
  ASSUME NEW s \in Sessions
  PROVE  AcquisitionInv /\ GiveUp(s) => AcquisitionInv'
<1> SUFFICES ASSUME AcquisitionInv, GiveUp(s) PROVE AcquisitionInv'
  OBVIOUS
<1> USE DEF GiveUp, Finish, Goto, Exists
<1>0. /\ TypeOK /\ NamesBelow /\ NamesOwn /\ FilesOwned /\ Places /\ DestinationWork /\ Claims
      /\ LateWork
  BY DEF AcquisitionInv
<1>1. TypeOK'
  BY <1>0, NameFacts, OwnNames, FileFacts, AcquisitionAssumption DEF TypeOK
<1>2. NamesBelow'
  BY <1>0, NameFacts, OwnNames, FileFacts, AcquisitionAssumption DEF TypeOK, NamesBelow
<1>3. NamesOwn'
  BY <1>0, NameFacts, AcquisitionAssumption DEF TypeOK, NamesBelow, NamesOwn
<1>4. FilesOwned'
  BY <1>0, NameFacts, OwnNames, FileFacts DEF TypeOK, NamesOwn, FilesOwned, Places, Littered
<1>5. Places'
  BY <1>0, NameFacts, OwnNames, FileFacts DEF TypeOK, NamesOwn, FilesOwned, Places, Littered
<1>6. DestinationWork'
  BY <1>0, NameFacts, OwnNames, FileFacts DEF TypeOK, Places, DestinationWork
<1>7. Claims'
  BY <1>0, NameFacts, OwnNames, FileFacts DEF TypeOK, FilesOwned, Places, Claims, Opened, Published
<1>8. LateWork'
  BY <1>0 DEF TypeOK, Places, LateWork
<1>9. QED
  BY <1>1, <1>2, <1>3, <1>4, <1>5, <1>6, <1>7, <1>8 DEF AcquisitionInv


\* The monitor replaces a destination only if that is recorded.
LEMMA LateOpensKeeps ==
  ASSUME NEW s \in Sessions
  PROVE  AcquisitionInv /\ LateOpens(s) => AcquisitionInv'
<1> SUFFICES ASSUME AcquisitionInv, LateOpens(s) PROVE AcquisitionInv'
  OBVIOUS
<1> USE DEF LateOpens, OpenDest, Create, Exists
<1>0. /\ TypeOK /\ NamesBelow /\ NamesOwn /\ FilesOwned /\ Places /\ DestinationWork /\ Claims
      /\ LateWork
  BY DEF AcquisitionInv
<1>1. TypeOK'
  BY <1>0, NameFacts, OwnNames, FileFacts, AcquisitionAssumption DEF TypeOK
<1>2. NamesBelow'
  BY <1>0, NameFacts, OwnNames, FileFacts, AcquisitionAssumption DEF TypeOK, NamesBelow
<1>3. NamesOwn'
  BY <1>0, NameFacts, AcquisitionAssumption DEF TypeOK, NamesBelow, NamesOwn
<1>4. FilesOwned'
  BY <1>0, NameFacts, OwnNames, FileFacts DEF TypeOK, NamesOwn, FilesOwned, Places, Littered
<1>5. Places'
  BY <1>0, NameFacts, OwnNames, FileFacts DEF TypeOK, NamesOwn, FilesOwned, Places, Littered
<1>6. DestinationWork'
  BY <1>0, NameFacts, OwnNames, FileFacts DEF TypeOK, Places, DestinationWork
<1>7. Claims'
  BY <1>0, NameFacts, OwnNames, FileFacts DEF TypeOK, FilesOwned, Places, Claims, Opened, Published
<1>8. LateWork'
  BY <1>0 DEF TypeOK, Places, LateWork
<1>9. QED
  BY <1>1, <1>2, <1>3, <1>4, <1>5, <1>6, <1>7, <1>8 DEF AcquisitionInv


\* The monitor completes what it opened, or its session is marked for its failure.
LEMMA LateEndsKeeps ==
  ASSUME NEW s \in Sessions, NEW ok \in BOOLEAN
  PROVE  AcquisitionInv /\ LateEnds(s, ok) => AcquisitionInv'
<1> SUFFICES ASSUME AcquisitionInv, LateEnds(s, ok) PROVE AcquisitionInv'
  OBVIOUS
<1> USE DEF LateEnds, EndWriting, WrittenBy, Stuck, Exists
<1>0. /\ TypeOK /\ NamesBelow /\ NamesOwn /\ FilesOwned /\ Places /\ DestinationWork /\ Claims
      /\ LateWork
  BY DEF AcquisitionInv
<1>10. late[s] \in 1..MaxLate /\ late[s] - 1 \in 0..MaxLate
  BY <1>0, AcquisitionAssumption DEF TypeOK
<1>11. /\ late' \in [Sessions -> 0..MaxLate] /\ lateOpen' \in SUBSET Sessions
       /\ late'[s] = late[s] - 1 /\ s \notin lateOpen'
       /\ \A t \in Sessions : t # s => late'[t] = late[t] /\ (t \in lateOpen' <=> t \in lateOpen)
  BY <1>0, <1>10 DEF TypeOK
<1>12. /\ s \in lateOpen /\ ~ok => "tool" \in stuck'[s]
       /\ stuck' \in [Sessions -> SUBSET {"dump", "tool", "remove"}]
       /\ \A t \in Sessions : t # s => stuck'[t] = stuck[t]
       /\ stuck[s] \subseteq stuck'[s]
  BY <1>0 DEF TypeOK
<1>13. \/ /\ s \in lateOpen /\ Exists(Dest) /\ dir[Dest].by = s
          /\ dir'[Dest] = [by |-> s, complete |-> ok] /\ dir'[Dest] # None
          /\ dir' \in [Names -> Files \cup {None}]
       \/ dir' = dir /\ (s \in lateOpen => ~(Exists(Dest) /\ dir[Dest].by = s))
  BY <1>0, NameFacts, DirectoryWrites
<1>1. TypeOK'
  <2>1. OtherTypes'
    BY <1>0, <1>11, <1>12 DEF TypeOK, OtherTypes
  <2>2. dir' \in [Names -> Files \cup {None}]
    BY <1>0, <1>13 DEF TypeOK
  <2>3. QED
    BY <2>1, <2>2 DEF TypeOK, OtherTypes
<1>2. NamesBelow'
  BY <1>0, NameFacts, OwnNames, FileFacts, AcquisitionAssumption DEF TypeOK, NamesBelow
<1>3. NamesOwn'
  BY <1>0, NameFacts, AcquisitionAssumption DEF TypeOK, NamesBelow, NamesOwn
<1>4. FilesOwned'
  BY <1>0, NameFacts, OwnNames, FileFacts DEF TypeOK, NamesOwn, FilesOwned, Places, Littered
<1>5. Places'
  BY <1>0, NameFacts, OwnNames, FileFacts DEF TypeOK, NamesOwn, FilesOwned, Places, Littered
<1>6. DestinationWork'
  <2>1. CASE s \in lateOpen /\ Exists(Dest) /\ dir[Dest].by = s
    BY <1>12, <1>13, <2>1 DEF DestinationWork
  <2>2. CASE ~(s \in lateOpen /\ Exists(Dest) /\ dir[Dest].by = s)
    <3>1. dir' = dir
      BY <1>13, <2>2
    <3>2. QED
      BY <1>0, <1>11, <1>12, <2>2, <3>1 DEF DestinationWork
  <2>3. QED
    BY <2>1, <2>2
<1>7. Claims'
  <2> SUFFICES ASSUME ~replaced, NEW t \in Sessions
               PROVE  /\ Opened(t)' => Exists(Dest)' /\ dir'[Dest].by = t
                      /\ Published(t)' =>
                           Exists(Dest)' /\ dir'[Dest].by = t /\ dir'[Dest].complete
    BY DEF Claims
  <2>1. /\ Opened(t) => Exists(Dest) /\ dir[Dest].by = t
        /\ Published(t) => Exists(Dest) /\ dir[Dest].by = t /\ dir[Dest].complete
    BY <1>0 DEF Claims
  <2>2. pc[s] \in {"tool", "done"} /\ (pc[s] = "done" => outcome[s] # "ok")
    BY <1>0, <1>10 DEF LateWork
  <2>3. CASE t = s
    BY <1>11, <2>2, <2>3 DEF Opened, Published
  <2>4. CASE t # s
    <3>1. (Opened(t)' => Opened(t)) /\ (Published(t)' => Published(t))
      BY <1>11, <2>4 DEF Opened, Published
    <3>2. QED
      BY <1>13, <2>1, <2>4, <3>1
  <2>5. QED
    BY <2>3, <2>4
<1>8. LateWork'
  BY <1>0, <1>10, <1>11 DEF LateWork
<1>9. QED
  BY <1>1, <1>2, <1>3, <1>4, <1>5, <1>6, <1>7, <1>8 DEF AcquisitionInv

\* A session removes its own core at the end, or is marked for not having done so.
LEMMA RemoveCoreKeeps ==
  ASSUME NEW s \in Sessions, NEW ok \in BOOLEAN
  PROVE  AcquisitionInv /\ RemoveCore(s, ok) => AcquisitionInv'
<1> SUFFICES ASSUME AcquisitionInv, RemoveCore(s, ok) PROVE AcquisitionInv'
  OBVIOUS
<1> USE DEF RemoveCore, RemoveFile, Stuck, Goto, Exists
<1>0. /\ TypeOK /\ NamesBelow /\ NamesOwn /\ FilesOwned /\ Places /\ DestinationWork /\ Claims
      /\ LateWork
  BY DEF AcquisitionInv
<1>1. TypeOK'
  BY <1>0, NameFacts, OwnNames, FileFacts, AcquisitionAssumption DEF TypeOK
<1>2. NamesBelow'
  BY <1>0, NameFacts, OwnNames, FileFacts, AcquisitionAssumption DEF TypeOK, NamesBelow
<1>3. NamesOwn'
  BY <1>0, NameFacts, AcquisitionAssumption DEF TypeOK, NamesBelow, NamesOwn
<1>4. FilesOwned'
  BY <1>0, NameFacts, OwnNames, FileFacts DEF TypeOK, NamesOwn, FilesOwned, Places, Littered
<1>5. Places'
  BY <1>0, NameFacts, OwnNames, FileFacts DEF TypeOK, NamesOwn, FilesOwned, Places, Littered
<1>6. DestinationWork'
  BY <1>0, NameFacts, OwnNames, FileFacts DEF TypeOK, Places, DestinationWork
<1>7. Claims'
  BY <1>0, NameFacts, OwnNames, FileFacts DEF TypeOK, FilesOwned, Places, Claims, Opened, Published
<1>8. LateWork'
  BY <1>0 DEF TypeOK, Places, LateWork
<1>9. QED
  BY <1>1, <1>2, <1>3, <1>4, <1>5, <1>6, <1>7, <1>8 DEF AcquisitionInv

\* Somebody else creates a destination that is absent, so nobody claims it.
LEMMA AppearKeeps == AcquisitionInv /\ Appear => AcquisitionInv'
<1> SUFFICES ASSUME AcquisitionInv, Appear PROVE AcquisitionInv'
  OBVIOUS
<1> USE DEF Appear, Create, Exists
<1>0. /\ TypeOK /\ NamesBelow /\ NamesOwn /\ FilesOwned /\ Places /\ DestinationWork /\ Claims
      /\ LateWork
  BY DEF AcquisitionInv
<1>1. [by |-> Stranger, complete |-> TRUE] \in Files
  BY DEF Files
<1>2. /\ dir' \in [Names -> Files \cup {None}]
      /\ dir'[Dest] = [by |-> Stranger, complete |-> TRUE]
      /\ \A m \in Names : m # Dest => dir'[m] = dir[m]
  BY <1>0, <1>1, NameFacts, DirectoryReplaces
<1>3. TypeOK'
  <2>1. OtherTypes'
    BY <1>0 DEF TypeOK, OtherTypes
  <2>2. QED
    BY <1>2, <2>1 DEF TypeOK, OtherTypes
<1>4. NamesBelow' /\ NamesOwn'
  BY <1>0, <1>2, NameFacts DEF NamesBelow, NamesOwn
<1>5. FilesOwned' /\ Places'
  BY <1>0, <1>2, OwnNames DEF FilesOwned, Places, Littered
<1>6. DestinationWork'
  BY <1>2 DEF DestinationWork
<1>7. Claims'
  BY <1>0 DEF Claims, Opened, Published
<1>8. LateWork'
  BY <1>0 DEF LateWork
<1>9. QED
  BY <1>3, <1>4, <1>5, <1>6, <1>7, <1>8 DEF AcquisitionInv

\* Every step of a session keeps the invariant.
LEMMA StepKeeps ==
  ASSUME NEW s \in Sessions
  PROVE  AcquisitionInv /\ Step(s) => AcquisitionInv'
<1> SUFFICES ASSUME AcquisitionInv, Step(s) PROVE AcquisitionInv'
  OBVIOUS
<1>1. CASE \E what \in {"range", "snapshot", "read"} : Start(s, what)
  BY <1>1, StartKeeps
<1>2. CASE NameCore(s) \/ DumpSucceeds(s) \/ DumpFails(s) \/ NameRange(s) \/ ToolOpens(s)
           \/ ToolFails(s) \/ GiveUp(s) \/ LateOpens(s)
  BY <1>2, NameCoreKeeps, DumpSucceedsKeeps, DumpFailsKeeps, NameRangeKeeps, ToolOpensKeeps,
     ToolFailsKeeps, GiveUpKeeps, LateOpensKeeps
<1>3. ASSUME NEW ok \in BOOLEAN,
             \/ ReadCore(s, ok) \/ CreateRange(s, ok) \/ WriteRange(s, ok) \/ Link(s, ok)
             \/ Unlink(s, ok) \/ Discard(s, ok) \/ CreateInPlace(s, ok)
      PROVE  AcquisitionInv'
  BY <1>3, ReadCoreKeeps, CreateRangeKeeps, WriteRangeKeeps, LinkKeeps, UnlinkKeeps, DiscardKeeps,
     CreateInPlaceKeeps
<1>4. ASSUME NEW ok \in BOOLEAN,
             \/ \E removed \in BOOLEAN : WriteInPlace(s, ok, removed)
             \/ ToolEnds(s, ok) \/ LateEnds(s, ok) \/ RemoveCore(s, ok)
      PROVE  AcquisitionInv'
  BY <1>4, WriteInPlaceKeeps, ToolEndsKeeps, LateEndsKeeps, RemoveCoreKeeps
<1>5. QED
  BY <1>1, <1>2, <1>3, <1>4 DEF Step

\* A step that changes nothing keeps it.
LEMMA StutterKeeps == AcquisitionInv /\ UNCHANGED vars => AcquisitionInv'
<1> SUFFICES ASSUME AcquisitionInv, UNCHANGED vars PROVE AcquisitionInv'
  OBVIOUS
<1> USE DEF vars, AcquisitionInv
<1>1. TypeOK'
  BY DEF TypeOK
<1>2. NamesBelow' /\ NamesOwn' /\ FilesOwned' /\ Places'
  BY DEF NamesBelow, NamesOwn, FilesOwned, Places, Littered, Exists
<1>3. DestinationWork' /\ Claims' /\ LateWork'
  BY DEF DestinationWork, Claims, Opened, Published, Exists, LateWork
<1>4. QED
  BY <1>1, <1>2, <1>3

\* Every reachable state of the directory and its sessions satisfies the invariant.
LEMMA AcquisitionInvariant == Spec => []AcquisitionInv
<1>1. AcquisitionInv /\ [Next]_vars => AcquisitionInv'
  BY AppearKeeps, StepKeeps, StutterKeeps DEF Next
<1>2. QED
  BY <1>1, InitAcquisition, PTL DEF Spec

-----------------------------------------------------------------------------
\* What is under the destination's name is a complete file, or the unfinished
\* or abandoned work of libvirt in place, of a tool, or of QEMU's monitor, which
\* may still be writing for a session whose command timed out, however many
\* sessions of whatever provider work in the directory.
THEOREM AcquiredDestinationComplete == Spec => []DestinationComplete
<1>1. AcquisitionInv => DestinationComplete
  <2> SUFFICES ASSUME AcquisitionInv, Exists(Dest), ~dir[Dest].complete
               PROVE  DestinationComplete
    BY DEF DestinationComplete
  <2>1. PICK s \in Sessions :
          /\ dir[Dest].by = s
          /\ \/ pc[s] \in {"inplace", "writing"} \/ s \in lateOpen
             \/ provider = "libvirt" /\ "remove" \in stuck[s]
             \/ "tool" \in stuck[s]
    BY DEF AcquisitionInv, DestinationWork
  <2>2. pc[s] = "inplace" => provider = "libvirt"
    BY DEF AcquisitionInv, Places
  <2>3. QED
    BY <2>1, <2>2 DEF DestinationComplete, InPlace
<1>2. QED
  BY <1>1, AcquisitionInvariant, PTL

\* Of any number of sessions that acquire to one destination, only the one whose
\* own complete file is there may report success, unless a tool replaced a file
\* that appeared after its session looked.
THEOREM AcquiredSuccessIsPublished == Spec => []SuccessIsPublished
<1>1. AcquisitionInv => SuccessIsPublished
  <2> SUFFICES ASSUME AcquisitionInv, NEW s \in Sessions, pc[s] = "done", op[s] # "read",
                      outcome[s] = "ok", ~replaced, ~(provider = "qemu" /\ op[s] = "range")
               PROVE  Exists(Dest) /\ dir[Dest] = [by |-> s, complete |-> TRUE]
    BY DEF SuccessIsPublished
  <2>1. Exists(Dest) /\ dir[Dest].by = s /\ dir[Dest].complete
    BY DEF AcquisitionInv, Claims, Published
  <2>2. dir[Dest] \in Files
    BY <2>1, NameFacts DEF AcquisitionInv, TypeOK, Exists
  <2>3. PICK w \in Sessions \cup {Stranger}, b \in BOOLEAN : dir[Dest] = [by |-> w, complete |-> b]
    BY <2>2 DEF Files
  <2>4. dir[Dest].complete = b /\ dir[Dest].by = w
    BY <2>3
  <2>5. w = s /\ b = TRUE
    BY <2>1, <2>4
  <2>6. QED
    BY <2>1, <2>3, <2>5
<1>2. QED
  BY <1>1, AcquisitionInvariant, PTL

\* No session removes a temporary file of another, and none leaves one of its
\* own, except the core of a dump that failed and a file that could not be
\* removed: the sequence counters never hand out a name twice.
THEOREM AcquiredTemporariesExact == Spec => []TemporariesExact
<1>1. AcquisitionInv => TemporariesExact
  <2> SUFFICES ASSUME AcquisitionInv, NEW s \in Sessions
               PROVE  /\ /\ pc[s] \in {"read", "publish", "create", "write", "link", "unlink"}
                         /\ provider # "fake"
                         => Exists(core[s]) /\ dir[core[s]].by = s
                      /\ pc[s] \in {"write", "link", "unlink"} =>
                           Exists(temp[s]) /\ dir[temp[s]].by = s
                      /\ pc[s] = "done" /\ stuck[s] \cap {"dump", "remove"} = {} => ~Left(s)
    BY DEF TemporariesExact
  <2>1. /\ /\ pc[s] \in {"read", "publish", "create", "write", "link", "unlink"}
           /\ provider # "fake"
           => Exists(core[s]) /\ dir[core[s]].by = s
        /\ pc[s] \in {"write", "link", "unlink"} => Exists(temp[s]) /\ dir[temp[s]].by = s
    BY DEF AcquisitionInv, Places, FilesOwned
  <2>2. ASSUME pc[s] = "done", stuck[s] \cap {"dump", "remove"} = {}
        PROVE  ~Left(s)
    <3>1. ~Littered(s)
      BY <2>2 DEF Littered
    <3>2. ASSUME NEW n \in Names \ {Dest}, Exists(n), dir[n].by = s PROVE FALSE
      <4>1. n = core[s] \/ n = temp[s]
        BY <3>1, <3>2 DEF AcquisitionInv, FilesOwned
      <4>2. n # None
        BY NoneAssumption
      <4>3. QED
        BY <2>2, <3>1, <3>2, <4>1, <4>2 DEF AcquisitionInv, Places
    <3>3. QED
      BY <3>2 DEF Left
  <2>3. QED
    BY <2>1, <2>2
<1>2. QED
  BY <1>1, AcquisitionInvariant, PTL

\* What one step may do to a destination that exists.
ClobberStep ==
  Exists(Dest) =>
    \/ dir'[Dest] = dir[Dest]
    \/ \E s \in Sessions :
         InPlace(s) \/ (ToolBusy(s) /\ dir'[Dest] # None /\ dir'[Dest].by = s)

\* A step of a session touches a destination that exists only in the two ways
\* that ClobberStep allows.
LEMMA StepClobbers ==
  ASSUME AcquisitionInv, NEW s \in Sessions, Step(s)
  PROVE  ClobberStep
<1> SUFFICES ASSUME Exists(Dest)
             PROVE  \/ dir'[Dest] = dir[Dest]
                    \/ \E t \in Sessions :
                         InPlace(t) \/ (ToolBusy(t) /\ dir'[Dest] # None /\ dir'[Dest].by = t)
  BY DEF ClobberStep
<1>0. /\ TypeOK /\ Dest \in Names
      /\ core[s] # None => core[s] \in Names /\ core[s] # Dest
      /\ temp[s] # None => temp[s] \in Names /\ temp[s] # Dest
  BY NameFacts, OwnNames DEF AcquisitionInv
<1>00. dir \in [Names -> Files \cup {None}]
  BY <1>0 DEF TypeOK
<1>1. CASE \/ \E what \in {"range", "snapshot", "read"} : Start(s, what)
           \/ NameCore(s) \/ NameRange(s) \/ ToolFails(s) \/ GiveUp(s)
           \/ \E ok \in BOOLEAN : ReadCore(s, ok)
  BY <1>1 DEF Start, NameCore, NameRange, ToolFails, GiveUp, ReadCore
<1>2. CASE DumpSucceeds(s) \/ DumpFails(s)
  <2>1. core[s] # None
    BY <1>2 DEF AcquisitionInv, Places, DumpSucceeds, DumpFails
  <2>2. QED
    BY <1>0, <1>00, <1>2, <2>1 DEF DumpSucceeds, DumpFails, Create
<1>3. CASE \E ok \in BOOLEAN : CreateRange(s, ok) \/ WriteRange(s, ok) \/ Unlink(s, ok) \/ Discard(s, ok)
  <2>1. temp[s] # None
    BY <1>3 DEF AcquisitionInv, Places, CreateRange, WriteRange, Unlink, Discard
  <2>2. \A f : dir' = [dir EXCEPT ![temp[s]] = f] => dir'[Dest] = dir[Dest]
    BY <1>0, <1>00, <2>1
  <2>3. QED
    BY <1>3, <2>2 DEF CreateRange, WriteRange, Unlink, Discard, Create, RemoveFile
<1>4. CASE \E ok \in BOOLEAN : Link(s, ok) \/ CreateInPlace(s, ok)
  BY <1>4 DEF Link, CreateInPlace
<1>5. CASE \E ok \in BOOLEAN : RemoveCore(s, ok)
  <2>1. core[s] # None
    BY <1>5 DEF AcquisitionInv, Places, RemoveCore
  <2>2. QED
    BY <1>0, <1>00, <1>5, <2>1 DEF RemoveCore, RemoveFile
<1>6. CASE ToolOpens(s) \/ LateOpens(s)
  <2>1. dir'[Dest] = [by |-> s, complete |-> FALSE] /\ dir'[Dest] # None
    BY <1>0, <1>6, FileFacts, DirectoryReplaces DEF ToolOpens, LateOpens, OpenDest, Create
  <2>2. ToolBusy(s) /\ dir'[Dest].by = s
    BY <1>6, <2>1 DEF ToolOpens, LateOpens, ToolBusy
  <2>3. QED
    BY <2>1, <2>2
<1>7. ASSUME NEW ok \in BOOLEAN, ToolEnds(s, ok) \/ LateEnds(s, ok)
      PROVE  \/ dir'[Dest] = dir[Dest]
             \/ ToolBusy(s) /\ dir'[Dest] # None /\ dir'[Dest].by = s
  <2>1. ToolBusy(s) /\ (UNCHANGED dir \/ WrittenBy(s, ok))
    BY <1>7 DEF ToolEnds, LateEnds, EndWriting, ToolBusy
  <2>2. CASE WrittenBy(s, ok) /\ dir[Dest].by = s
    <3>1. dir'[Dest] = [by |-> s, complete |-> ok] /\ dir'[Dest] # None
      BY <1>0, <2>2, DirectoryWrites DEF WrittenBy
    <3>2. QED
      BY <2>1, <3>1
  <2>3. CASE ~(WrittenBy(s, ok) /\ dir[Dest].by = s)
    BY <2>1, <2>3 DEF WrittenBy
  <2>4. QED
    BY <2>2, <2>3
<1>8. ASSUME NEW ok \in BOOLEAN, NEW removed \in BOOLEAN, WriteInPlace(s, ok, removed)
      PROVE  InPlace(s)
  BY <1>8 DEF WriteInPlace, InPlace, AcquisitionInv, Places, Claims, Opened
<1>9. QED
  BY <1>1, <1>2, <1>3, <1>4, <1>5, <1>6, <1>7, <1>8 DEF Step

\* An existing destination is never changed nor removed, except by the libvirt
\* session that is still writing it and by a tool whose session had seen no
\* file there; QEMU's monitor does so also for a command that timed out, after
\* its session has returned.
THEOREM AcquiredNoClobber == Spec => NoClobber
<1>1. AcquisitionInv /\ [Next]_vars => [ClobberStep]_vars
  <2> SUFFICES ASSUME AcquisitionInv, Next PROVE ClobberStep
    OBVIOUS
  <2>1. CASE Appear
    BY <2>1 DEF Appear, ClobberStep
  <2>2. CASE \E s \in Sessions : Step(s)
    BY <2>2, StepClobbers
  <2>3. QED
    BY <2>1, <2>2 DEF Next
<1>2. QED
  BY <1>1, AcquisitionInvariant, PTL DEF Spec, NoClobber, ClobberStep

-----------------------------------------------------------------------------
(* SnapshotBundle                                                          *)

\* An entry of the range table, as the parsers read it.
EntryType == [start : Address, from : Nat, stored : Nat, length : Nat]

\* A segment of the bundle.
SegmentType == [start : Address, bytes : Seq(Int)]

\* What every variable holds.
BundleTypes ==
  /\ format \in Formats /\ declared \in Nat
  /\ fileLength \in Nat /\ fileLength <= MaxFile
  /\ table \in Seq(EntryType) /\ segments \in Seq(SegmentType)
  /\ payload \in Nat /\ total \in Nat
  /\ request \in [address : Address, length : Nat]
  /\ at \in Nat /\ reach \in Nat
  /\ output \in [1..request.length -> Int]

\* The positions a LiME entry has before its payload; the other formats have none.
Header == IF format = "lime" THEN 1 ELSE 0

\* The formats whose payloads follow one another.
Following == format \in {"lime", "kdmp", "bitmap", "rdmp"}

\* The formats whose header declares how many pages there are.
Counting == format \in {"kdmp", "bitmap"}

\* The table so far: where the next payload begins, which entries can be empty,
\* and that the pages of a bitmap ascend.
TableLayout ==
  /\ Following =>
       /\ \A k \in 1..Len(table) : PayloadInPlace(k)
       /\ payload = IF Len(table) = 0 THEN 0
                    ELSE table[Len(table)].from + table[Len(table)].length
  /\ format \notin {"elf", "raw"} => \A k \in 1..Len(table) : table[k].length > 0
  /\ format = "raw" => Len(table) <= 1
  /\ Counting => \A k \in 1..Len(table) : table[k].length <= MaxFile
  /\ format = "bitmap" =>
       /\ \A k \in 1..Len(table) : /\ table[k].length = PageSize
                                   /\ \E n \in Nat : table[k].start = n * PageSize
       /\ \A i, j \in 1..Len(table) : i < j => table[i].start + PageSize <= table[j].start

\* While the table is read, the segments are its entries in order, and as many
\* pages were counted as they cover.
LoadingState ==
  phase = "loading" =>
    /\ Len(segments) = Len(table)
    /\ \A k \in 1..Len(table) : segments[k] = Segment(table[k])
    /\ Counting => /\ IsFiniteSet(CoveredCells(segments))
                   /\ Cardinality(CoveredCells(segments)) = total * PageSize

\* The byte of output at position k is that of a segment with its address.
FromSegment(k) ==
  \E i \in DOMAIN segments :
    /\ Covers(segments[i], request.address + k - 1)
    /\ output[k] = segments[i].bytes[Offset(segments[i], request.address + k - 1)]

\* Some segment has address a.
Held(a) == \E i \in DOMAIN segments : Covers(segments[i], a)

\* Both loops of a read: every address below reach is in a segment, and the
\* segments passed end at or below it, unless the request is satisfied.
ReadState ==
  /\ phase \in {"loading", "rejected"} => result = "none"
  /\ phase \in {"covering", "copying"} =>
       /\ request.length > 0 /\ RequestEnd <= Limit /\ result = "none"
       /\ at >= 1
       /\ request.address <= reach /\ reach <= RequestEnd
       /\ \A k \in 1..Len(segments) : k < at => reach = RequestEnd \/ End(segments[k]) <= reach
       /\ \A a \in Nat : request.address <= a /\ a < reach => Held(a)
  /\ phase = "covering" => \A k \in 1..request.length : output[k] = Untouched
  /\ phase = "copying" =>
       /\ \A a \in Nat : request.address <= a /\ a < RequestEnd => Held(a)
       /\ \A k \in 1..request.length : request.address + k - 1 < reach => FromSegment(k)

\* The inductive invariant of the bundle.
BundleInv ==
  BundleTypes /\ TableLayout /\ LoadingState /\ SegmentsExact /\ ReadState /\ ReadExact

\* An entry as a segment.
LEMMA SegmentFacts ==
  ASSUME NEW e \in EntryType
  PROVE  /\ Segment(e) \in SegmentType
         /\ Segment(e).start = e.start /\ Len(Segment(e).bytes) = e.length
         /\ End(Segment(e)) = e.start + e.length
         /\ Segment(e).bytes = <<>> <=> e.length = 0
<1>1. /\ e.start \in Address /\ e.from \in Nat /\ e.stored \in Nat /\ e.length \in Nat
  BY DEF EntryType
<1>2. PICK b : b = Bytes(e)
  OBVIOUS
<1>3. b \in [1..e.length -> Int]
  BY <1>1, <1>2 DEF Bytes, Zero
<1>4. b \in Seq(Int) /\ Len(b) = e.length
  BY <1>1, <1>3
<1>5. Segment(e) = [start |-> e.start, bytes |-> b]
  BY <1>2 DEF Segment
<1>6. b = <<>> <=> e.length = 0
  BY <1>4
<1>7. e.start \in Int
  BY <1>1, SizeAssumption DEF Address
<1>8. QED
  BY <1>1, <1>4, <1>5, <1>6 DEF SegmentType, End

\* Constants as numbers.
LEMMA Sizes ==
  /\ Limit \in Nat /\ Limit > 0 /\ PageSize \in Nat /\ PageSize > 0 /\ MaxFile \in Nat
  /\ MaxLength \in Nat /\ ElfOffsets \subseteq Nat /\ Address \subseteq Nat
  /\ \A a \in Nat : a \in Address <=> a < Limit
BY SizeAssumption DEF Address

\* Segments as numbers.
LEMMA SegmentTypeFacts ==
  ASSUME NEW s \in SegmentType
  PROVE  /\ s.start \in Nat /\ s.start < Limit /\ s.bytes \in Seq(Int)
         /\ Len(s.bytes) \in Nat /\ End(s) \in Nat /\ s.start <= End(s)
         /\ s.bytes # <<>> <=> s.start < End(s)
<1>1. s.start \in Nat /\ s.start < Limit /\ s.bytes \in Seq(Int)
  BY Sizes DEF SegmentType
<1>2. Len(s.bytes) \in Nat /\ (s.bytes = <<>> <=> Len(s.bytes) = 0)
  BY <1>1
<1>3. QED
  BY <1>1, <1>2 DEF End

\* An addition to the table covers the addresses of its entry.
LEMMA CellsAdded ==
  ASSUME NEW s \in Seq(SegmentType), NEW e \in EntryType, e.length <= MaxFile,
         IsFiniteSet(CoveredCells(s))
  PROVE  /\ IsFiniteSet(CoveredCells(Append(s, Segment(e))))
         /\ Cardinality(CoveredCells(Append(s, Segment(e))))
              = Cardinality(CoveredCells(s)) + e.length
<1>1. PICK g \in SegmentType : /\ g = Segment(e) /\ g.start = e.start
                               /\ End(g) = e.start + e.length
  BY SegmentFacts
<1>2. PICK n \in Nat : n = Len(s)
  OBVIOUS
<1>3. PICK t : t = Append(s, g)
  OBVIOUS
<1>4. /\ t \in Seq(SegmentType) /\ Len(t) = n + 1 /\ t[n + 1] = g
      /\ \A i \in 1..n : t[i] = s[i]
  BY <1>2, <1>3
<1>5. e.start \in Nat /\ e.length \in Nat /\ e.start < Limit
  BY Sizes DEF EntryType
<1>6. PICK D : D = {n + 1} \X (e.start .. (e.start + e.length - 1))
  OBVIOUS
<1>7. CoveredCells(t) = CoveredCells(s) \cup D
  <2>1. DOMAIN t = 1..(n + 1) /\ DOMAIN s = 1..n
    BY <1>2, <1>4
  <2>2. ASSUME NEW c \in CoveredCells(t) PROVE c \in CoveredCells(s) \cup D
    <3>1. c \in (1..(n + 1)) \X (0 .. (Limit + MaxFile)) /\ Covers(t[c[1]], c[2])
      BY <2>1 DEF CoveredCells
    <3>2. CASE c[1] = n + 1
      <4>1. Covers(g, c[2])
        BY <1>4, <3>1, <3>2
      <4>2. e.start <= c[2] /\ c[2] < e.start + e.length /\ c[2] \in Nat
        BY <1>1, <1>5, <3>1, <4>1, Sizes DEF Covers
      <4>3. c \in D
        BY <1>5, <1>6, <3>1, <3>2, <4>2
      <4>4. QED
        BY <4>3
    <3>3. CASE c[1] # n + 1
      <4>1. c[1] \in 1..n
        BY <3>1, <3>3
      <4>2. Covers(s[c[1]], c[2])
        BY <1>4, <3>1, <4>1
      <4>3. QED
        BY <2>1, <3>1, <4>1, <4>2 DEF CoveredCells
    <3>4. QED
      BY <3>2, <3>3
  <2>3. ASSUME NEW c \in CoveredCells(s) PROVE c \in CoveredCells(t)
    <3>1. c \in (1..n) \X (0 .. (Limit + MaxFile)) /\ Covers(s[c[1]], c[2])
      BY <2>1 DEF CoveredCells
    <3>2. c[1] \in 1..n /\ c[1] \in 1..(n + 1)
      BY <3>1
    <3>3. Covers(t[c[1]], c[2])
      BY <1>4, <3>1, <3>2
    <3>4. QED
      BY <2>1, <3>1, <3>2, <3>3 DEF CoveredCells
  <2>4. ASSUME NEW c \in D PROVE c \in CoveredCells(t)
    <3>1. /\ c = <<c[1], c[2]>> /\ c[1] = n + 1 /\ c[2] \in Int
          /\ e.start <= c[2] /\ c[2] < e.start + e.length
      BY <1>5, <1>6
    <3>2. Covers(t[c[1]], c[2])
      BY <1>1, <1>4, <3>1 DEF Covers
    <3>3. c[2] \in 0 .. (Limit + MaxFile)
      BY <1>5, <3>1, Sizes
    <3>4. c[1] \in 1..(n + 1)
      BY <3>1
    <3>5. c \in (1..(n + 1)) \X (0 .. (Limit + MaxFile))
      BY <3>1, <3>3, <3>4
    <3>6. QED
      BY <2>1, <3>2, <3>5 DEF CoveredCells
  <2>5. QED
    BY <2>2, <2>3, <2>4
<1>8. CoveredCells(s) \cap D = {}
  <2>1. ASSUME NEW c \in CoveredCells(s) PROVE c[1] # n + 1
    BY <1>2 DEF CoveredCells
  <2>2. \A c \in D : c[1] = n + 1
    BY <1>6
  <2>3. QED
    BY <2>1, <2>2
<1>9. IsFiniteSet(D) /\ Cardinality(D) = e.length
  <2>1. IsFiniteSet({n + 1}) /\ Cardinality({n + 1}) = 1
    BY FS_Singleton
  <2>2. PICK I : I = e.start .. (e.start + e.length - 1)
    OBVIOUS
  <2>3. IsFiniteSet(I) /\ Cardinality(I) = e.length
    <3>1. PICK last \in Int : last = e.start + e.length - 1
      BY <1>5
    <3>2. PICK first \in Int : first = e.start
      BY <1>5
    <3>3. /\ IsFiniteSet(first .. last)
          /\ Cardinality(first .. last) = IF first > last THEN 0 ELSE last - first + 1
      BY FS_Interval
    <3>4. QED
      BY <1>5, <2>2, <3>1, <3>2, <3>3
  <2>4. IsFiniteSet({n + 1} \X I) /\ Cardinality({n + 1} \X I) = 1 * e.length
    BY <2>1, <2>3, FS_Product
  <2>5. D = {n + 1} \X I /\ 1 * e.length = e.length
    BY <1>5, <1>6, <2>2
  <2>6. QED
    BY <2>4, <2>5
<1>10. /\ IsFiniteSet(CoveredCells(s) \cup D)
       /\ Cardinality(CoveredCells(s) \cup D) = Cardinality(CoveredCells(s)) + Cardinality(D) - 0
  <2>1. Cardinality(CoveredCells(s) \cap D) = 0
    BY <1>8, FS_EmptySet
  <2>2. QED
    BY <1>9, <2>1, FS_Union
<1>11. Cardinality(CoveredCells(s)) \in Nat
  BY FS_CardinalityType
<1>12. Append(s, Segment(e)) = t
  BY <1>1, <1>3
<1>13. CoveredCells(Append(s, Segment(e))) = CoveredCells(s) \cup D
  BY <1>7, <1>12
<1>14. QED
  BY <1>5, <1>9, <1>10, <1>11, <1>13

\* The state of the reads is that of a bundle in which none has begun.
LEMMA NoRead ==
  ASSUME BundleInv, phase = "loading", UNCHANGED readVars, phase' \in {"loading", "loaded", "rejected"}
  PROVE  ReadState' /\ ReadExact'
<1>1. result = "none" /\ result' = "none"
  BY DEF BundleInv, ReadState, readVars
<1>2. QED
  BY <1>1 DEF ReadState, ReadExact

\* A rejected artifact leaves no segment behind.
LEMMA RejectKeeps == BundleInv /\ Reject => BundleInv'
<1> SUFFICES ASSUME BundleInv, Reject PROVE BundleInv'
  OBVIOUS
<1>1. /\ phase = "loading" /\ phase' = "rejected" /\ segments' = <<>>
      /\ UNCHANGED <<format, fileLength, declared, table, payload, total>> /\ UNCHANGED readVars
  BY DEF Reject
<1>2. BundleTypes'
  BY <1>1 DEF BundleInv, BundleTypes, readVars
<1>3. TableLayout'
  BY <1>1 DEF BundleInv, TableLayout, Following, Counting, PayloadInPlace
<1>4. LoadingState' /\ SegmentsExact'
  BY <1>1 DEF LoadingState, SegmentsExact, SegmentsDisjoint, SegmentsAreTable, Loaded
<1>5. ReadState' /\ ReadExact'
  BY <1>1, NoRead
<1>6. QED
  BY <1>2, <1>3, <1>4, <1>5 DEF BundleInv

\* What an entry has to be for the invariant to survive it.
Fitting(entry, nextPayload, nextTotal) ==
  /\ entry \in EntryType /\ nextPayload \in Nat /\ nextTotal \in Nat
  /\ Following => entry.from = payload + Header /\ nextPayload = entry.from + entry.length
  /\ format \notin {"elf", "raw"} => entry.length > 0
  /\ format = "raw" => table = <<>>
  /\ Counting => entry.length <= MaxFile /\ nextTotal * PageSize = total * PageSize + entry.length
  /\ format = "bitmap" =>
       /\ entry.length = PageSize /\ \E n \in Nat : entry.start = n * PageSize
       /\ table # <<>> => table[Len(table)].start + PageSize <= entry.start

\* Adding a fitting entry keeps the invariant.
LEMMA PushKeeps ==
  ASSUME BundleInv, phase = "loading", NEW e, NEW np, NEW nt, Fitting(e, np, nt), Push(e, np, nt)
  PROVE  BundleInv'
<1>1. /\ table' = Append(table, e) /\ segments' = Append(segments, Segment(e))
      /\ payload' = np /\ total' = nt /\ phase' = "loading"
      /\ UNCHANGED <<format, fileLength, declared>> /\ UNCHANGED readVars
  BY DEF Push
<1>2. /\ table \in Seq(EntryType) /\ segments \in Seq(SegmentType) /\ e \in EntryType
      /\ Segment(e) \in SegmentType /\ np \in Nat /\ nt \in Nat
  BY SegmentFacts DEF BundleInv, BundleTypes, Fitting
<1>3. PICK n \in Nat : n = Len(table)
  BY <1>2
<1>4. /\ Len(segments) = n /\ \A k \in 1..n : segments[k] = Segment(table[k])
  BY <1>3 DEF BundleInv, LoadingState
<1>5. /\ table' \in Seq(EntryType) /\ Len(table') = n + 1 /\ table'[n + 1] = e
      /\ \A k \in 1..n : table'[k] = table[k]
  BY <1>1, <1>2, <1>3
<1>6. /\ segments' \in Seq(SegmentType) /\ Len(segments') = n + 1 /\ segments'[n + 1] = Segment(e)
      /\ \A k \in 1..n : segments'[k] = segments[k]
  BY <1>1, <1>2, <1>4
<1>7. BundleTypes'
  BY <1>1, <1>2, <1>5, <1>6 DEF BundleInv, BundleTypes, readVars
<1>8. \A k \in 1..n : k \in 1..(n + 1) /\ k # n + 1
  OBVIOUS
<1>9. \A k \in 1..(n + 1) : k \in 1..n \/ k = n + 1
  OBVIOUS
<1>10. TableLayout'
  <2>1. Following' => /\ \A k \in 1..Len(table') : PayloadInPlace(k)'
                      /\ payload' = IF Len(table') = 0 THEN 0
                                    ELSE table'[Len(table')].from + table'[Len(table')].length
    <3> SUFFICES ASSUME Following'
                 PROVE  /\ \A k \in 1..(n + 1) : PayloadInPlace(k)'
                        /\ payload' = table'[n + 1].from + table'[n + 1].length
      BY <1>3, <1>5
    <3>1. Following
      BY <1>1 DEF Following
    <3>2. /\ e.from = payload + Header /\ np = e.from + e.length
          /\ \A k \in 1..n : PayloadInPlace(k)
          /\ payload = IF n = 0 THEN 0 ELSE table[n].from + table[n].length
      BY <1>3, <3>1 DEF Fitting, BundleInv, TableLayout
    <3>3. ASSUME NEW k \in 1..n PROVE PayloadInPlace(k)'
      <4>1. table'[k] = table[k] /\ (k # 1 => table'[k - 1] = table[k - 1])
        BY <1>5
      <4>2. PayloadInPlace(k)
        BY <3>2
      <4>3. QED
        BY <1>1, <4>1, <4>2 DEF PayloadInPlace
    <3>4. PayloadInPlace(n + 1)'
      <4>1. n # 0 => table'[n] = table[n]
        BY <1>5
      <4>2. payload \in Nat /\ Header \in Nat /\ (n # 0 => table[n] \in EntryType)
        BY <1>2, <1>3 DEF BundleInv, BundleTypes, Header
      <4>3. QED
        BY <1>1, <1>5, <3>2, <4>1, <4>2 DEF PayloadInPlace, Header, EntryType
    <3>5. QED
      BY <1>1, <1>5, <1>9, <3>2, <3>3, <3>4
  <2>2. format' \notin {"elf", "raw"} => \A k \in 1..Len(table') : table'[k].length > 0
    BY <1>1, <1>3, <1>5, <1>9 DEF Fitting, BundleInv, TableLayout
  <2>3. format' = "raw" => Len(table') <= 1
    BY <1>1, <1>2, <1>3, <1>5 DEF Fitting
  <2>4. Counting' => \A k \in 1..Len(table') : table'[k].length <= MaxFile
    BY <1>1, <1>3, <1>5, <1>9 DEF Fitting, BundleInv, TableLayout, Counting
  <2>5. ASSUME format' = "bitmap"
        PROVE  /\ \A k \in 1..(n + 1) : /\ table'[k].length = PageSize
                                         /\ \E m \in Nat : table'[k].start = m * PageSize
               /\ \A i, j \in 1..(n + 1) : i < j => table'[i].start + PageSize <= table'[j].start
    <3>1. /\ \A k \in 1..n : /\ table[k].length = PageSize
                              /\ \E m \in Nat : table[k].start = m * PageSize
          /\ \A i, j \in 1..n : i < j => table[i].start + PageSize <= table[j].start
          /\ e.length = PageSize /\ \E m \in Nat : e.start = m * PageSize
          /\ n # 0 => table[n].start + PageSize <= e.start
      BY <1>1, <1>2, <1>3, <2>5 DEF Fitting, BundleInv, TableLayout
    <3>2. \A k \in 1..(n + 1) : /\ table'[k].length = PageSize
                                /\ \E m \in Nat : table'[k].start = m * PageSize
      BY <1>5, <1>9, <3>1
    <3>3. ASSUME NEW i \in 1..(n + 1), NEW j \in 1..(n + 1), i < j
          PROVE  table'[i].start + PageSize <= table'[j].start
      <4>1. i \in 1..n /\ table'[i] = table[i] /\ table[i].start \in Nat
        <5>1. i \in 1..n
          BY <3>3
        <5>2. table[i] \in EntryType
          BY <1>2, <1>3, <5>1
        <5>3. QED
          BY <1>5, <5>1, <5>2, Sizes DEF EntryType
      <4>2. CASE j \in 1..n
        BY <1>5, <3>1, <3>3, <4>1, <4>2
      <4>3. CASE j = n + 1 /\ i = n
        BY <1>5, <3>1, <4>1, <4>3
      <4>4. CASE j = n + 1 /\ i # n
        <5>1. i < n /\ n \in 1..n /\ table[n].start \in Nat /\ e.start \in Nat
          <6>1. i < n /\ n \in 1..n
            BY <4>1, <4>4
          <6>2. table[n] \in EntryType
            BY <1>2, <1>3, <6>1
          <6>3. QED
            BY <1>2, <6>1, <6>2, Sizes DEF EntryType
        <5>2. table[i].start + PageSize <= table[n].start
          BY <3>1, <4>1, <5>1
        <5>3. QED
          BY <1>5, <3>1, <4>1, <4>4, <5>1, <5>2, Sizes
      <4>5. QED
        BY <1>9, <4>2, <4>3, <4>4
    <3>4. QED
      BY <3>2, <3>3
  <2>6. QED
    BY <1>5, <2>1, <2>2, <2>3, <2>4, <2>5 DEF TableLayout
<1>11. LoadingState'
  <2>1. \A k \in 1..(n + 1) : segments'[k] = Segment(table'[k])
    BY <1>4, <1>5, <1>6, <1>9
  <2>2. Segment(table[1])' = Segment(table'[1])
    BY DEF Segment, Bytes
  <2>3. ASSUME NEW k \in 1..(n + 1) PROVE segments'[k] = Segment(table[k])'
    BY <2>1 DEF Segment, Bytes
  <2>4. ASSUME Counting'
        PROVE  /\ IsFiniteSet(CoveredCells(segments)')
               /\ Cardinality(CoveredCells(segments)') = total' * PageSize
    <3>1. /\ Counting /\ e.length <= MaxFile /\ IsFiniteSet(CoveredCells(segments))
          /\ Cardinality(CoveredCells(segments)) = total * PageSize
          /\ nt * PageSize = total * PageSize + e.length
      BY <1>1, <2>4 DEF Counting, Fitting, BundleInv, LoadingState
    <3>2. PICK t : t = Append(segments, Segment(e))
      OBVIOUS
    <3>3. IsFiniteSet(CoveredCells(t)) /\ Cardinality(CoveredCells(t)) = nt * PageSize
      BY <1>2, <3>1, <3>2, CellsAdded
    <3>4. CoveredCells(segments)' = CoveredCells(t)
      BY <1>1, <3>2 DEF CoveredCells, Covers, End
    <3>5. QED
      BY <1>1, <3>3, <3>4
  <2>5. QED
    BY <1>5, <1>6, <2>3, <2>4 DEF LoadingState
<1>12. SegmentsExact'
  BY <1>1 DEF SegmentsExact, SegmentsDisjoint, SegmentsAreTable, Loaded
<1>13. ReadState' /\ ReadExact'
  BY <1>1, NoRead
<1>14. QED
  BY <1>7, <1>10, <1>11, <1>12, <1>13 DEF BundleInv

\* Every parser pushes a fitting entry, or rejects.
LEMMA ElfKeeps ==
  ASSUME BundleInv, NEW start \in Address, NEW offset \in ElfOffsets, NEW stored \in Lengths,
         NEW length \in Lengths, ElfEntry(start, offset, stored, length)
  PROVE  BundleInv'
<1>1. phase = "loading" /\ format = "elf"
  BY DEF ElfEntry, Loading
<1>2. PICK e : e = Entry(start, offset, stored, length)
  OBVIOUS
<1>3. e \in EntryType /\ payload \in Nat /\ total + length \in Nat
  BY <1>2, Sizes DEF Entry, EntryType, Lengths, BundleInv, BundleTypes
<1>4. Fitting(e, payload, total + length)
  BY <1>1, <1>3 DEF Fitting, Following, Counting
<1>5. QED
  BY <1>1, <1>2, <1>4, PushKeeps, RejectKeeps DEF ElfEntry, Accepting

\* The same of the segments of a manifest.
LEMMA ManifestKeeps ==
  ASSUME BundleInv, NEW start \in Address, NEW offset \in Positions, NEW length \in Lengths,
         ManifestEntry(start, offset, length)
  PROVE  BundleInv'
<1>1. phase = "loading" /\ format = "manifest"
  BY DEF ManifestEntry, Loading
<1>2. PICK e : e = Entry(start, offset, length, length)
  OBVIOUS
<1>3. e \in EntryType /\ payload \in Nat /\ total + length \in Nat /\ e.length = length
  BY <1>2, Sizes DEF Entry, EntryType, Lengths, Positions, BundleInv, BundleTypes
<1>4. length # 0 => Fitting(e, payload, total + length)
  BY <1>1, <1>3 DEF Fitting, Following, Counting, EntryType
<1>5. QED
  BY <1>1, <1>2, <1>4, PushKeeps, RejectKeeps DEF ManifestEntry, Accepting

\* The same of the single segment of a raw image.
LEMMA RawKeeps ==
  ASSUME BundleInv, NEW base \in Address, LoadRaw(base)
  PROVE  BundleInv'
<1>1. phase = "loading" /\ format = "raw" /\ table = <<>>
  BY DEF LoadRaw, Loading
<1>2. PICK e : e = Entry(base, 0, fileLength, fileLength)
  OBVIOUS
<1>3. e \in EntryType /\ payload \in Nat /\ total \in Nat
  BY <1>2, Sizes DEF Entry, EntryType, BundleInv, BundleTypes
<1>4. Fitting(e, payload, total)
  BY <1>1, <1>3 DEF Fitting, Following, Counting
<1>5. QED
  BY <1>1, <1>2, <1>4, PushKeeps, RejectKeeps DEF LoadRaw, Accepting

\* The same of the ranges of a LiME image.
LEMMA LimeKeeps ==
  ASSUME BundleInv, NEW start \in Address, NEW last \in Address, LimeEntry(start, last)
  PROVE  BundleInv'
<1>1. phase = "loading" /\ format = "lime"
  BY DEF LimeEntry, Loading
<1>2. PICK length : length = last - start + 1
  OBVIOUS
<1>3. PICK e : e = Entry(start, payload + 1, length, length)
  OBVIOUS
<1>4. start <= last => Fitting(e, payload + 1 + length, total)
  <2> SUFFICES ASSUME start <= last PROVE Fitting(e, payload + 1 + length, total)
    OBVIOUS
  <2>1. start \in Nat /\ last \in Nat /\ payload \in Nat /\ total \in Nat
    BY Sizes DEF BundleInv, BundleTypes
  <2>2. length \in Nat /\ length > 0
    BY <1>2, <2>1
  <2>3. e \in EntryType /\ e.from = payload + 1 /\ e.length = length
    BY <1>3, <2>1, <2>2 DEF Entry, EntryType
  <2>4. QED
    BY <1>1, <2>1, <2>2, <2>3 DEF Fitting, Following, Counting, Header
<1>5. QED
  BY <1>1, <1>2, <1>3, <1>4, PushKeeps, RejectKeeps DEF LimeEntry, Accepting

\* A run of pages, as the two parsers of page runs push it.
LEMMA RunFits ==
  ASSUME BundleInv, format \in {"kdmp", "rdmp"}, NEW page \in Address, NEW pages \in Lengths,
         NEW length, length = pages * PageSize, pages # 0, page * PageSize < Limit,
         payload + length <= fileLength, NEW nt \in Nat, format = "kdmp" => nt = total + pages
  PROVE  Fitting(Entry(page * PageSize, payload, length, length), payload + length, nt)
<1>1. page \in Nat /\ pages \in Nat /\ PageSize \in Nat /\ PageSize > 0
  BY Sizes DEF Lengths
<1>2. page * PageSize \in Nat /\ length \in Nat /\ length > 0
  BY <1>1, SMTT(30)
<1>3. payload \in Nat /\ total \in Nat /\ fileLength \in Nat /\ fileLength <= MaxFile /\ MaxFile \in Nat
  BY Sizes DEF BundleInv, BundleTypes
<1>4. PICK e : e = Entry(page * PageSize, payload, length, length)
  OBVIOUS
<1>5. e \in EntryType /\ e.from = payload /\ e.length = length
  BY <1>2, <1>3, <1>4, Sizes DEF Entry, EntryType
<1>6. (total + pages) * PageSize = total * PageSize + length
  BY <1>1, <1>3
<1>7. length <= MaxFile
  BY <1>2, <1>3
<1>8. Fitting(e, payload + length, nt)
  BY <1>2, <1>3, <1>5, <1>6, <1>7 DEF Fitting, Following, Counting, Header
<1>9. QED
  BY <1>4, <1>8

\* The same of the physical runs of a kernel dump.
LEMMA KdmpKeeps ==
  ASSUME BundleInv, NEW page \in Address, NEW pages \in Lengths, KdmpEntry(page, pages)
  PROVE  BundleInv'
<1>1. phase = "loading" /\ format = "kdmp"
  BY DEF KdmpEntry, Loading
<1>2. PICK length : length = pages * PageSize
  OBVIOUS
<1>3. PICK e : e = Entry(page * PageSize, payload, length, length)
  OBVIOUS
<1>4. total + pages \in Nat
  BY Sizes DEF BundleInv, BundleTypes, Lengths
<1>5. ASSUME pages # 0, page * PageSize < Limit, payload + length <= fileLength
      PROVE  Fitting(e, payload + length, total + pages)
  BY <1>1, <1>2, <1>3, <1>4, <1>5, RunFits
<1>6. QED
  BY <1>1, <1>2, <1>3, <1>5, PushKeeps, RejectKeeps DEF KdmpEntry, Accepting

\* The same of the ranges of an RDMP dump.
LEMMA RdmpKeeps ==
  ASSUME BundleInv, NEW page \in Address, NEW pages \in Lengths, RdmpEntry(page, pages)
  PROVE  BundleInv'
<1>1. phase = "loading" /\ format = "rdmp"
  BY DEF RdmpEntry, Loading
<1>2. PICK length : length = pages * PageSize
  OBVIOUS
<1>3. PICK e : e = Entry(page * PageSize, payload, length, length)
  OBVIOUS
<1>4. total \in Nat
  BY DEF BundleInv, BundleTypes
<1>5. ASSUME pages # 0, page * PageSize < Limit, payload + length <= fileLength
      PROVE  Fitting(e, payload + length, total)
  BY <1>1, <1>2, <1>3, <1>4, <1>5, RunFits
<1>6. QED
  BY <1>1, <1>2, <1>3, <1>5, PushKeeps, RejectKeeps DEF RdmpEntry, Accepting

\* The same of the present pages of a bitmap dump: they ascend by whole pages.
LEMMA BitmapKeeps ==
  ASSUME BundleInv, NEW page \in Address, BitmapPage(page)
  PROVE  BundleInv'
<1>1. phase = "loading" /\ format = "bitmap"
  BY DEF BitmapPage, Loading
<1>2. PICK e : e = Entry(page * PageSize, payload, PageSize, PageSize)
  OBVIOUS
<1>3. ASSUME page * PageSize < Limit, payload + PageSize <= fileLength
      PROVE  Fitting(e, payload + PageSize, total + 1)
  <2>1. page \in Nat /\ PageSize \in Nat /\ PageSize > 0 /\ page * PageSize \in Nat
    BY Sizes
  <2>2. /\ payload \in Nat /\ total \in Nat /\ fileLength \in Nat /\ fileLength <= MaxFile
        /\ MaxFile \in Nat /\ table \in Seq(EntryType)
    BY Sizes DEF BundleInv, BundleTypes
  <2>3. e \in EntryType /\ e.from = payload /\ e.length = PageSize /\ e.start = page * PageSize
    BY <1>2, <1>3, <2>1, <2>2, Sizes DEF Entry, EntryType
  <2>4. table # <<>> => table[Len(table)].start + PageSize <= e.start
    <3> SUFFICES ASSUME table # <<>> PROVE table[Len(table)].start + PageSize <= e.start
      OBVIOUS
    <3>1. PICK n \in 1..Len(table) : n = Len(table)
      BY <2>2
    <3>2. PICK m \in Nat : table[n].start = m * PageSize
      BY <1>1, <3>1 DEF BundleInv, TableLayout
    <3>3. page * PageSize > table[n].start
      BY <3>1 DEF BitmapPage, Last
    <3>4. page >= m + 1
      BY <2>1, <3>2, <3>3, SMTT(30)
    <3>5. page * PageSize >= (m + 1) * PageSize
      BY <2>1, <3>4, SMTT(30)
    <3>6. (m + 1) * PageSize = m * PageSize + PageSize
      BY <2>1
    <3>7. QED
      BY <2>1, <2>3, <3>1, <3>2, <3>5, <3>6
  <2>5. (total + 1) * PageSize = total * PageSize + PageSize
    BY <2>1, <2>2
  <2>6. PageSize <= MaxFile
    BY <1>3, <2>1, <2>2
  <2>7. QED
    BY <1>1, <2>1, <2>2, <2>3, <2>4, <2>5, <2>6 DEF Fitting, Following, Counting, Header
<1>4. QED
  BY <1>1, <1>2, <1>3, PushKeeps, RejectKeeps DEF BitmapPage, Accepting

\* Reordered segments cover as many cells.
LEMMA CellsReordered ==
  ASSUME NEW n \in Nat, NEW s \in Seq(SegmentType), Len(s) = n, NEW p \in Bijection(1..n, 1..n),
         NEW o \in Seq(SegmentType), Len(o) = n, \A i \in 1..n : o[i] = s[p[i]],
         IsFiniteSet(CoveredCells(s))
  PROVE  Cardinality(CoveredCells(o)) = Cardinality(CoveredCells(s))
<1>1. /\ p \in [1..n -> 1..n]
      /\ \A i, j \in 1..n : p[i] = p[j] => i = j
      /\ \A k \in 1..n : \E i \in 1..n : p[i] = k
  <2>1. PICK D : D = 1..n
    OBVIOUS
  <2>2. p \in Bijection(D, D)
    BY <2>1
  <2>3. /\ p \in [D -> D]
        /\ \A i, j \in D : p[i] = p[j] => i = j
        /\ \A k \in D : \E i \in D : p[i] = k
    BY <2>2, Fun_BijectionProperties
  <2>4. QED
    BY <2>1, <2>3
<1>2. PICK M : M = 0 .. (Limit + MaxFile)
  OBVIOUS
<1>3. /\ \A c : c \in CoveredCells(s) <=> c \in (1..n) \X M /\ Covers(s[c[1]], c[2])
      /\ \A c : c \in CoveredCells(o) <=> c \in (1..n) \X M /\ Covers(o[c[1]], c[2])
  BY <1>2 DEF CoveredCells
<1>4. PICK S : S = CoveredCells(s)
  OBVIOUS
<1>5. PICK T : T = CoveredCells(o)
  OBVIOUS
<1>6. PICK f : f = [c \in T |-> <<p[c[1]], c[2]>>]
  OBVIOUS
<1>7. f \in [T -> S]
  <2>1. ASSUME NEW c \in T PROVE <<p[c[1]], c[2]>> \in S
    <3>1. c[1] \in 1..n /\ c[2] \in M /\ Covers(o[c[1]], c[2])
      BY <1>3, <1>5
    <3>2. p[c[1]] \in 1..n /\ Covers(s[p[c[1]]], c[2])
      BY <1>1, <3>1
    <3>3. QED
      BY <1>3, <1>4, <3>1, <3>2
  <2>2. QED
    BY <1>6, <2>1
<1>8. \A c, d \in T : f[c] = f[d] => c = d
  <2>1. SUFFICES ASSUME NEW c \in T, NEW d \in T, f[c] = f[d] PROVE c = d
    OBVIOUS
  <2>2. c \in (1..n) \X M /\ d \in (1..n) \X M
    BY <1>3, <1>5
  <2>3. p[c[1]] = p[d[1]] /\ c[2] = d[2]
    BY <1>6, <2>1
  <2>4. c[1] = d[1]
    BY <1>1, <2>2, <2>3
  <2>5. QED
    BY <2>2, <2>3, <2>4
<1>9. \A c \in S : \E d \in T : f[d] = c
  <2>1. SUFFICES ASSUME NEW c \in S PROVE \E d \in T : f[d] = c
    OBVIOUS
  <2>2. c \in (1..n) \X M /\ Covers(s[c[1]], c[2])
    BY <1>3, <1>4
  <2>3. PICK i \in 1..n : p[i] = c[1]
    BY <1>1, <2>2
  <2>4. <<i, c[2]>> \in T
    BY <1>3, <1>5, <2>2, <2>3
  <2>5. f[<<i, c[2]>>] = c
    BY <1>6, <2>2, <2>3, <2>4
  <2>6. QED
    BY <2>4, <2>5
<1>10. f \in Bijection(T, S)
  BY <1>7, <1>8, <1>9, Fun_IsBij
<1>11. ExistsBijection(T, S) /\ ExistsBijection(S, T)
  <2>1. ExistsBijection(T, S)
    BY <1>10 DEF ExistsBijection
  <2>2. QED
    BY <2>1, Fun_ExistsBijSymmetric
<1>12. QED
  BY <1>4, <1>5, <1>11, FS_Bijection

\* Sorted segments of which no neighbours overlap are disjoint, up to empty ones.
LEMMA NeighboursSuffice ==
  ASSUME NEW n \in Nat, NEW o \in Seq(SegmentType), Len(o) = n,
         \A i, j \in 1..n : i < j => o[i].start <= o[j].start,
         ~NeighboursOverlap(o),
         NEW i \in 1..n, NEW j \in 1..n, i < j, NEW a \in Address, Covers(o[i], a), Covers(o[j], a)
  PROVE  \E k \in (i + 1)..(j - 1) : o[k].bytes = <<>>
<1>1. i + 1 \in 1..n /\ i \in 1..(Len(o) - 1)
  OBVIOUS
<1>2. ~RangesOverlap(o[i], o[i + 1])
  BY <1>1 DEF NeighboursOverlap
<1>3. o[i] \in SegmentType /\ o[i + 1] \in SegmentType /\ o[j] \in SegmentType
  BY <1>1
<1>4. PICK x, y, z : x = o[i] /\ y = o[i + 1] /\ z = o[j]
  OBVIOUS
<1>5. /\ x.start \in Nat /\ y.start \in Nat /\ z.start \in Nat
      /\ End(x) \in Nat /\ End(y) \in Nat /\ End(z) \in Nat
      /\ y.start <= End(y) /\ (y.bytes # <<>> <=> y.start < End(y))
  BY <1>3, <1>4, SegmentTypeFacts
<1>6. x.start <= y.start /\ y.start <= z.start
  <2>1. x.start <= y.start
    BY <1>1, <1>4
  <2>2. y.start <= z.start
    <3>1. CASE j = i + 1
      BY <1>4, <1>5, <3>1
    <3>2. CASE i + 1 < j
      BY <1>1, <1>4, <3>2
    <3>3. QED
      BY <1>1, <3>1, <3>2
  <2>3. QED
    BY <2>1, <2>2
<1>7. /\ x.start <= a /\ a < End(x) /\ z.start <= a /\ a < End(z) /\ a \in Nat
  BY <1>4, Sizes DEF Covers
<1>8. ~(x.start < End(y) /\ y.start < End(x))
  BY <1>2, <1>4 DEF RangesOverlap
<1>9. End(y) = y.start /\ y.start = x.start
  BY <1>5, <1>6, <1>7, <1>8
<1>10. y.bytes = <<>>
  BY <1>5, <1>9
<1>11. j # i + 1
  BY <1>4, <1>5, <1>7, <1>9
<1>12. i + 1 \in (i + 1)..(j - 1)
  BY <1>1, <1>11
<1>13. QED
  BY <1>4, <1>10, <1>12

\* The order in which a parser returns the segments.
LEMMA FinishOrder ==
  ASSUME BundleInv, phase = "loading",
         NEW o \in IF format \in {"raw", "bitmap"} THEN {segments} ELSE Sorted(segments),
         NEW n \in Nat, n = Len(table)
  PROVE  /\ o \in Seq(SegmentType) /\ Len(o) = n
         /\ \E p \in Bijection(1..n, 1..n) : \A i \in 1..n : o[i] = segments[p[i]]
         /\ \A i, j \in 1..n : i < j => o[i].start <= o[j].start
<1>1. /\ segments \in Seq(SegmentType) /\ Len(segments) = n /\ table \in Seq(EntryType)
      /\ \A k \in 1..n : segments[k] = Segment(table[k])
  BY DEF BundleInv, BundleTypes, LoadingState
<1>2. CASE format \in {"raw", "bitmap"}
  <2>1. o = segments
    BY <1>2
  <2>2. PICK p : p = [i \in 1..n |-> i]
    OBVIOUS
  <2>3. p \in Bijection(1..n, 1..n)
    <3>1. p \in [1..n -> 1..n] /\ \A i, j \in 1..n : p[i] = p[j] => i = j
      BY <2>2
    <3>2. \A k \in 1..n : \E i \in 1..n : p[i] = k
      BY <2>2
    <3>3. QED
      BY <3>1, <3>2, Fun_IsBij
  <2>4. \A i \in 1..n : o[i] = segments[p[i]]
    BY <2>1, <2>2
  <2>5. ASSUME NEW i \in 1..n, NEW j \in 1..n, i < j PROVE o[i].start <= o[j].start
    <3>1. format # "raw"
      BY <2>5 DEF BundleInv, TableLayout
    <3>2. table[i].start + PageSize <= table[j].start
      BY <1>2, <2>5, <3>1 DEF BundleInv, TableLayout
    <3>3. table[i] \in EntryType /\ table[j] \in EntryType
      BY <1>1
    <3>4. o[i].start = table[i].start /\ o[j].start = table[j].start
      BY <1>1, <2>1, <3>3, SegmentFacts
    <3>5. table[i].start \in Nat /\ table[j].start \in Nat
      BY <3>3, Sizes DEF EntryType
    <3>6. QED
      BY <3>2, <3>4, <3>5, Sizes
  <2>6. QED
    BY <1>1, <2>1, <2>3, <2>4, <2>5
<1>3. CASE format \notin {"raw", "bitmap"}
  <2>1. o \in Sorted(segments) /\ DOMAIN segments = 1..n
    BY <1>1, <1>3
  <2>2. PICK p \in StableOrders(segments) : o = [i \in 1..n |-> segments[p[i]]]
    BY <2>1 DEF Sorted
  <2>3. /\ p \in Bijection(1..n, 1..n)
        /\ \A i, j \in 1..n :
              i < j => \/ segments[p[i]].start < segments[p[j]].start
                       \/ segments[p[i]].start = segments[p[j]].start /\ p[i] < p[j]
    BY <2>1, <2>2 DEF StableOrders
  <2>4. p \in [1..n -> 1..n]
    BY <2>3, Fun_BijectionProperties
  <2>5. \A i \in 1..n : o[i] = segments[p[i]] /\ o[i] \in SegmentType
    BY <1>1, <2>2, <2>4
  <2>6. o \in [1..n -> SegmentType]
    BY <2>2, <2>5
  <2>7. o \in Seq(SegmentType) /\ Len(o) = n
    BY <2>6
  <2>8. \A i \in 1..n : o[i].start \in Nat
    BY <2>5, SegmentTypeFacts
  <2>9. \A i, j \in 1..n : i < j => o[i].start <= o[j].start
    BY <2>3, <2>5, <2>8
  <2>10. QED
    BY <2>3, <2>5, <2>7, <2>9
<1>4. QED
  BY <1>2, <1>3

\* The end of the table: the sorted segments are the table's, and disjoint.
LEMMA FinishKeeps == BundleInv /\ FinishTable => BundleInv'
<1> SUFFICES ASSUME BundleInv, FinishTable PROVE BundleInv'
  OBVIOUS
<1>1. phase = "loading" /\ (format = "raw" => table # <<>>)
  BY DEF FinishTable
<1>2. PICK o \in IF format \in {"raw", "bitmap"} THEN {segments} ELSE Sorted(segments) :
        IF TableComplete /\ ~(format \notin {"raw", "bitmap"} /\ NeighboursOverlap(o))
        THEN /\ phase' = "loaded" /\ segments' = o
             /\ UNCHANGED <<format, fileLength, declared, table, payload, total, readVars>>
        ELSE Reject
  BY DEF FinishTable
<1>3. CASE ~(TableComplete /\ ~(format \notin {"raw", "bitmap"} /\ NeighboursOverlap(o)))
  BY <1>2, <1>3, RejectKeeps
<1>4. CASE TableComplete /\ ~(format \notin {"raw", "bitmap"} /\ NeighboursOverlap(o))
  <2>1. /\ phase' = "loaded" /\ segments' = o
        /\ UNCHANGED <<format, fileLength, declared, table, payload, total>> /\ UNCHANGED readVars
    BY <1>2, <1>4
  <2>2. PICK n \in Nat : n = Len(table)
    BY DEF BundleInv, BundleTypes
  <2>3. /\ o \in Seq(SegmentType) /\ Len(o) = n
        /\ \A i, j \in 1..n : i < j => o[i].start <= o[j].start
    BY <1>1, <1>2, <2>2, FinishOrder
  <2>4. PICK p \in Bijection(1..n, 1..n) : \A i \in 1..n : o[i] = segments[p[i]]
    BY <1>1, <1>2, <2>2, FinishOrder
  <2>5. /\ segments \in Seq(SegmentType) /\ Len(segments) = n /\ table \in Seq(EntryType)
        /\ \A k \in 1..n : segments[k] = Segment(table[k]) /\ table[k] \in EntryType
    BY <1>1, <2>2 DEF BundleInv, BundleTypes, LoadingState
  <2>6. p \in [1..n -> 1..n] /\ \A k \in 1..n : \E i \in 1..n : p[i] = k
    <3>1. PICK D : D = 1..n
      OBVIOUS
    <3>2. p \in Bijection(D, D)
      BY <3>1
    <3>3. p \in [D -> D] /\ \A k \in D : \E i \in D : p[i] = k
      BY <3>2, Fun_BijectionProperties
    <3>4. QED
      BY <3>1, <3>3
  <2>7. DOMAIN segments' = 1..n /\ DOMAIN table' = 1..n /\ Len(segments') = n /\ Len(table') = n
    BY <2>1, <2>2, <2>3, <2>5
  <2>8. BundleTypes'
    BY <2>1, <2>3 DEF BundleInv, BundleTypes, readVars
  <2>9. TableLayout'
    BY <2>1 DEF BundleInv, TableLayout, Following, Counting, PayloadInPlace
  <2>10. LoadingState'
    BY <2>1 DEF LoadingState
  <2>11. SegmentsDisjoint'
    <3>1. ASSUME NEW i \in 1..n, NEW j \in 1..n, i < j, NEW a \in Address,
                 Covers(o[i], a), Covers(o[j], a)
          PROVE  format = "elf" /\ \E k \in (i + 1)..(j - 1) : o[k].bytes = <<>>
      <4>1. format # "raw"
        BY <2>2, <3>1 DEF BundleInv, TableLayout
      <4>2. CASE format = "bitmap"
        <5>1. o = segments
          BY <4>2
        <5>2. /\ table[i].start + PageSize <= table[j].start
              /\ table[i].length = PageSize
          BY <2>2, <3>1, <4>2 DEF BundleInv, TableLayout
        <5>3. o[j].start = table[j].start /\ End(o[i]) = table[i].start + table[i].length
          BY <2>5, <5>1, SegmentFacts
        <5>4. table[i].start \in Nat /\ table[j].start \in Nat
          BY <2>5, Sizes DEF EntryType
        <5>5. a < End(o[i]) /\ o[j].start <= a /\ a \in Nat
          BY <3>1, Sizes DEF Covers
        <5>6. QED
          BY <5>2, <5>3, <5>4, <5>5, Sizes
      <4>3. CASE format \notin {"raw", "bitmap"}
        <5>1. PICK k \in (i + 1)..(j - 1) : o[k].bytes = <<>>
          BY <1>4, <2>3, <3>1, <4>3, NeighboursSuffice
        <5>2. k \in 1..n /\ p[k] \in 1..n
          BY <2>6
        <5>3. o[k] = Segment(table[p[k]]) /\ table[p[k]] \in EntryType
          BY <2>4, <2>5, <5>2
        <5>4. table[p[k]].length = 0
          BY <5>1, <5>3, SegmentFacts
        <5>5. format = "elf"
          BY <2>2, <4>3, <5>2, <5>4 DEF BundleInv, TableLayout
        <5>6. QED
          BY <5>1, <5>5
      <4>4. QED
        BY <4>1, <4>2, <4>3
    <3>2. \A i, j \in 1..n :
            i < j /\ (\E a \in Address : Covers(o[i], a) /\ Covers(o[j], a))
              => format = "elf" /\ \E k \in (i + 1)..(j - 1) : o[k].bytes = <<>>
      BY <3>1
    <3>3. QED
      BY <2>1, <2>7, <3>2 DEF SegmentsDisjoint, Covers, End
  <2>12. SegmentsAreTable'
    <3>1. ASSUME NEW k \in 1..n
          PROVE  \E i \in 1..n : o[i] = Segment(table[k])
      BY <2>4, <2>5, <2>6
    <3>2. ASSUME NEW k \in 1..n, Following PROVE PayloadInPlace(k)'
      <4>1. PayloadInPlace(k)
        BY <2>2, <3>2 DEF BundleInv, TableLayout
      <4>2. QED
        BY <2>1, <4>1 DEF PayloadInPlace
    <3>3. Counting => Cardinality(CoveredCells(o)) = declared * PageSize
      <4>1. SUFFICES ASSUME Counting PROVE Cardinality(CoveredCells(o)) = declared * PageSize
        OBVIOUS
      <4>2. /\ IsFiniteSet(CoveredCells(segments))
            /\ Cardinality(CoveredCells(segments)) = total * PageSize
        BY <1>1, <4>1 DEF BundleInv, LoadingState
      <4>3. Cardinality(CoveredCells(o)) = Cardinality(CoveredCells(segments))
        BY <2>3, <2>4, <2>5, <4>2, CellsReordered
      <4>4. total = declared
        BY <1>4, <4>1 DEF TableComplete, Counting
      <4>5. QED
        BY <4>2, <4>3, <4>4
    <3>4. (CoveredCells(segments))' = CoveredCells(o)
      BY <2>1 DEF CoveredCells, Covers, End
    <3>5. \A k \in 1..n : \E i \in 1..n : segments'[i] = Segment(table[k])'
      BY <2>1, <3>1 DEF Segment, Bytes
    <3>6. \A i, j \in 1..n : i < j => segments'[i].start <= segments'[j].start
      BY <2>1, <2>3
    <3>7. (Counting => Cardinality(CoveredCells(segments)) = declared * PageSize)'
      BY <2>1, <3>3, <3>4 DEF Counting
    <3>8. (Following => \A k \in 1..n : PayloadInPlace(k))'
      BY <2>1, <3>2 DEF Following
    <3>9. QED
      BY <2>7, <3>5, <3>6, <3>7, <3>8 DEF SegmentsAreTable, Following, Counting
  <2>13. ReadState' /\ ReadExact'
    BY <1>1, <2>1, NoRead
  <2>14. QED
    BY <2>8, <2>9, <2>10, <2>11, <2>12, <2>13 DEF BundleInv, SegmentsExact
<1>5. QED
  BY <1>3, <1>4

\* A step of a read leaves the bundle alone.
LEMMA BundleKept ==
  ASSUME BundleInv, Loaded, Loaded', UNCHANGED loadVars
  PROVE  TableLayout' /\ LoadingState' /\ SegmentsExact'
<1>1. UNCHANGED <<format, fileLength, declared, table, payload, total, segments>>
  BY DEF loadVars
<1>2. TableLayout'
  BY <1>1 DEF BundleInv, TableLayout, Following, Counting, PayloadInPlace
<1>3. LoadingState'
  BY DEF LoadingState, Loaded
<1>4. SegmentsDisjoint'
  BY <1>1 DEF BundleInv, SegmentsExact, SegmentsDisjoint, Covers, End
<1>5. SegmentsAreTable'
  <2>1. (CoveredCells(segments))' = CoveredCells(segments)
    BY <1>1 DEF CoveredCells, Covers, End
  <2>2. \A k : (Segment(table[k])' = Segment(table[k]))
    BY <1>1 DEF Segment, Bytes
  <2>3. \A k : (PayloadInPlace(k)' <=> PayloadInPlace(k))
    BY <1>1 DEF PayloadInPlace
  <2>4. QED
    BY <1>1, <2>1, <2>2, <2>3 DEF BundleInv, SegmentsExact, SegmentsAreTable
<1>6. QED
  BY <1>2, <1>3, <1>4, <1>5 DEF SegmentsExact

\* What the reads rely on.
LEMMA ReadFacts ==
  ASSUME BundleInv, phase \in {"loaded", "covering", "copying"}
  PROVE  /\ Loaded /\ segments \in Seq(SegmentType) /\ DOMAIN segments = 1..Len(segments)
         /\ Len(segments) \in Nat
         /\ request.address \in Nat /\ request.length \in Nat /\ at \in Nat /\ reach \in Nat
         /\ RequestEnd = request.address + request.length /\ RequestEnd \in Nat
         /\ \A i \in 1..Len(segments) :
              /\ segments[i] \in SegmentType
              /\ segments[i].start \in Nat /\ End(segments[i]) \in Nat
         /\ \A i, j \in 1..Len(segments) : i < j => segments[i].start <= segments[j].start
<1>1. Loaded
  BY DEF Loaded
<1>2. segments \in Seq(SegmentType) /\ DOMAIN segments = 1..Len(segments) /\ Len(segments) \in Nat
  BY DEF BundleInv, BundleTypes
<1>3. /\ request.address \in Nat /\ request.length \in Nat /\ at \in Nat /\ reach \in Nat
  BY Sizes DEF BundleInv, BundleTypes
<1>4. RequestEnd = request.address + request.length /\ RequestEnd \in Nat
  BY <1>3 DEF RequestEnd
<1>5. ASSUME NEW i \in 1..Len(segments)
      PROVE  /\ segments[i] \in SegmentType
             /\ segments[i].start \in Nat /\ End(segments[i]) \in Nat
  <2>1. segments[i] \in SegmentType
    BY <1>2
  <2>2. QED
    BY <2>1, SegmentTypeFacts
<1>6. \A i, j \in 1..Len(segments) : i < j => segments[i].start <= segments[j].start
  BY <1>1, <1>2 DEF BundleInv, SegmentsExact, SegmentsAreTable
<1>7. QED
  BY <1>1, <1>2, <1>3, <1>4, <1>5, <1>6

\* When a loop is over before the request is satisfied, the address it has reached
\* is in no segment: those passed end below it, and those left begin above it.
LEMMA GapFound ==
  ASSUME BundleInv, phase \in {"covering", "copying"}, LoopOver, reach # RequestEnd
  PROVE  ~Held(reach)
<1>1. SUFFICES ASSUME NEW i \in 1..Len(segments), Covers(segments[i], reach) PROVE FALSE
  BY ReadFacts DEF Held
<1>2. /\ segments[i].start \in Nat /\ End(segments[i]) \in Nat /\ reach \in Nat /\ at \in Nat
      /\ Len(segments) \in Nat
  BY ReadFacts
<1>3. segments[i].start <= reach /\ reach < End(segments[i])
  BY <1>1 DEF Covers
<1>4. i >= at
  BY <1>2, <1>3 DEF BundleInv, ReadState
<1>5. at >= 1
  BY DEF BundleInv, ReadState
<1>6. at \in 1..Len(segments)
  BY <1>2, <1>4, <1>5
<1>7. reach < segments[at].start
  BY <1>2, <1>6, ReadFacts DEF LoopOver
<1>8. segments[at].start <= segments[i].start
  BY <1>2, <1>4, <1>6, ReadFacts
<1>9. segments[at].start \in Nat
  BY <1>6, ReadFacts
<1>10. QED
  BY <1>2, <1>3, <1>7, <1>8, <1>9

\* A turn of either loop: the segment it looks at holds what it reaches beyond.
LEMMA TurnReaches ==
  ASSUME BundleInv, phase \in {"covering", "copying"}, ~LoopOver,
         NEW stop, stop = Smaller(End(segments[at]), RequestEnd),
         NEW r, r = IF reach < stop THEN stop ELSE reach
  PROVE  /\ at \in 1..Len(segments) /\ r \in Nat /\ stop \in Nat
         /\ reach <= r /\ r <= RequestEnd
         /\ \A a \in Nat : reach <= a /\ a < stop => Covers(segments[at], a)
         /\ \A a \in Nat : request.address <= a /\ a < r => Held(a)
         /\ \A k \in 1..Len(segments) : k < at + 1 => r = RequestEnd \/ End(segments[k]) <= r
<1>1. /\ at <= Len(segments) /\ reach # RequestEnd /\ reach >= segments[at].start
  BY DEF LoopOver
<1>2. /\ at >= 1 /\ request.address <= reach /\ reach <= RequestEnd
      /\ \A k \in 1..Len(segments) : k < at => reach = RequestEnd \/ End(segments[k]) <= reach
      /\ \A a \in Nat : request.address <= a /\ a < reach => Held(a)
  BY DEF BundleInv, ReadState
<1>3. /\ at \in Nat /\ reach \in Nat /\ RequestEnd \in Nat /\ Len(segments) \in Nat
      /\ request.address \in Nat /\ DOMAIN segments = 1..Len(segments)
  BY ReadFacts
<1>4. at \in 1..Len(segments)
  BY <1>1, <1>2, <1>3
<1>5. segments[at].start \in Nat /\ End(segments[at]) \in Nat
  BY <1>4, ReadFacts
<1>6. /\ stop \in Nat /\ stop <= RequestEnd /\ stop <= End(segments[at])
      /\ stop = RequestEnd \/ stop = End(segments[at])
  BY <1>3, <1>5 DEF Smaller
<1>7. r \in Nat /\ reach <= r /\ r <= RequestEnd
  BY <1>2, <1>3, <1>6
<1>8. \A a \in Nat : reach <= a /\ a < stop => Covers(segments[at], a)
  BY <1>1, <1>3, <1>5, <1>6 DEF Covers
<1>9. ASSUME NEW a \in Nat, request.address <= a, a < r PROVE Held(a)
  <2>1. CASE a < reach
    BY <1>2, <1>9, <2>1
  <2>2. CASE ~(a < reach)
    <3>1. reach <= a /\ a < stop
      BY <1>3, <1>6, <1>9, <2>2
    <3>2. Covers(segments[at], a)
      BY <1>8, <3>1
    <3>3. QED
      BY <1>3, <1>4, <3>2 DEF Held
  <2>3. QED
    BY <2>1, <2>2
<1>10. ASSUME NEW k \in 1..Len(segments), k < at + 1
       PROVE  r = RequestEnd \/ End(segments[k]) <= r
  <2>1. End(segments[k]) \in Nat
    BY ReadFacts
  <2>2. CASE k < at
    BY <1>1, <1>2, <1>3, <1>7, <2>1, <2>2
  <2>3. CASE k = at
    BY <1>3, <1>6, <1>7, <2>1, <2>3
  <2>4. QED
    BY <1>3, <1>10, <2>2, <2>3
<1>11. QED
  BY <1>4, <1>6, <1>7, <1>8, <1>9, <1>10

\* A read begins with nothing reached and nothing written.
LEMMA BeginReadKeeps ==
  ASSUME BundleInv, NEW address \in Address, NEW length \in Lengths, BeginRead(address, length)
  PROVE  BundleInv'
<1>1. /\ phase = "loaded" /\ UNCHANGED loadVars /\ at' = 1 /\ reach' = address
      /\ request' = [address |-> address, length |-> length]
      /\ output' = [i \in 1..length |-> Untouched]
  BY DEF BeginRead
<1>2. address \in Nat /\ length \in Nat /\ Limit \in Nat
  BY Sizes DEF Lengths
<1>3. phase' \in {"loaded", "covering"}
  BY DEF BeginRead
<1>4. TableLayout' /\ LoadingState' /\ SegmentsExact'
  BY <1>1, <1>3, BundleKept DEF Loaded
<1>5. /\ request'.address = address /\ request'.length = length
      /\ \A k \in 1..length : output'[k] = Untouched
      /\ output' \in [1..length -> Int] /\ DOMAIN output' = 1..length
  BY <1>1 DEF Untouched
<1>6. BundleTypes'
  <2>1. UNCHANGED <<format, fileLength, declared, table, payload, total, segments>>
    BY <1>1 DEF loadVars
  <2>2. request' \in [address : Address, length : Nat]
    BY <1>1, <1>2
  <2>3. QED
    BY <1>1, <1>2, <1>5, <2>1, <2>2 DEF BundleInv, BundleTypes
<1>7. RequestEnd' = address + length
  BY <1>5 DEF RequestEnd
<1>8. CASE length = 0
  <2>1. phase' = "loaded" /\ result' = "ok"
    BY <1>8 DEF BeginRead
  <2>2. ReadState'
    BY <2>1 DEF ReadState
  <2>3. Requested' = {} /\ DOMAIN output' = {}
    BY <1>5, <1>8 DEF Requested
  <2>4. ReadExact'
    BY <2>1, <2>3 DEF ReadExact
  <2>5. QED
    BY <1>4, <1>6, <2>2, <2>4 DEF BundleInv
<1>9. CASE length > 0 /\ address + length > Limit
  <2>1. phase' = "loaded" /\ result' = "failed"
    BY <1>2, <1>9 DEF BeginRead
  <2>2. ReadState'
    BY <2>1 DEF ReadState
  <2>3. PICK a : a = address + length - 1
    OBVIOUS
  <2>4. a \in Requested' /\ ~(a < Limit)
    <3>1. length \in 1..length /\ a = address + length - 1 /\ ~(a < Limit)
      BY <1>2, <1>9, <2>3
    <3>2. Requested' = {address + i - 1 : i \in 1..length}
      BY <1>5 DEF Requested
    <3>3. QED
      BY <3>1, <3>2
  <2>5. ReadExact'
    BY <1>5, <2>1, <2>4 DEF ReadExact
  <2>6. QED
    BY <1>4, <1>6, <2>2, <2>5 DEF BundleInv
<1>10. CASE length > 0 /\ address + length <= Limit
  <2>1. phase' = "covering" /\ result' = "none"
    BY <1>2, <1>10 DEF BeginRead
  <2>2. ReadState'
    BY <1>1, <1>2, <1>5, <1>7, <1>10, <2>1 DEF ReadState
  <2>3. ReadExact'
    BY <2>1 DEF ReadExact
  <2>4. QED
    BY <1>4, <1>6, <2>2, <2>3 DEF BundleInv
<1>11. QED
  BY <1>2, <1>8, <1>9, <1>10

\* The addresses asked for.
LEMMA RequestedFacts ==
  ASSUME BundleInv, phase \in {"covering", "copying"}
  PROVE  \A a : a \in Requested <=> a \in Nat /\ request.address <= a /\ a < RequestEnd
<1>1. request.address \in Nat /\ request.length \in Nat /\ RequestEnd = request.address + request.length
  BY ReadFacts
<1>2. ASSUME NEW a, a \in Requested PROVE a \in Nat /\ request.address <= a /\ a < RequestEnd
  BY <1>1, <1>2 DEF Requested
<1>3. ASSUME NEW a \in Nat, request.address <= a, a < RequestEnd PROVE a \in Requested
  <2>1. PICK i : i = a - request.address + 1
    OBVIOUS
  <2>2. i \in 1..request.length /\ a = request.address + i - 1
    BY <1>1, <1>3, <2>1
  <2>3. QED
    BY <2>2 DEF Requested
<1>4. QED
  BY <1>2, <1>3

\* The measuring loop: it fails only at a gap, and goes on only without one.
LEMMA CoverKeeps == BundleInv /\ Cover => BundleInv'
<1> SUFFICES ASSUME BundleInv, Cover PROVE BundleInv'
  OBVIOUS
<1>1. phase = "covering" /\ UNCHANGED loadVars /\ UNCHANGED <<request, output>>
      /\ phase' \in {"covering", "copying", "loaded"}
  BY DEF Cover, Return
<1>2. TableLayout' /\ LoadingState' /\ SegmentsExact'
  BY <1>1, BundleKept DEF Loaded
<1>3. UNCHANGED <<format, fileLength, declared, table, payload, total, segments>>
  BY <1>1 DEF loadVars
<1>4. /\ request.length > 0 /\ RequestEnd <= Limit /\ result = "none"
      /\ \A k \in 1..request.length : output[k] = Untouched
      /\ \A a \in Nat : request.address <= a /\ a < reach => Held(a)
      /\ request.address <= reach /\ reach <= RequestEnd
  BY <1>1 DEF BundleInv, ReadState
<1>5. RequestEnd' = RequestEnd /\ Requested' = Requested
  BY <1>1 DEF RequestEnd, Requested
<1>6. \A a : (Held(a)' <=> Held(a))
  BY <1>3 DEF Held, Covers, End
<1>7. \A i : End(segments[i])' = End(segments[i])
  BY <1>3 DEF End
<1>8. /\ at \in Nat /\ reach \in Nat /\ RequestEnd \in Nat /\ request.address \in Nat
      /\ request.length \in Nat /\ RequestEnd = request.address + request.length
  BY <1>1, ReadFacts
<1>9. CASE ~LoopOver
  <2>1. /\ reach' = IF reach < End(segments[at])
                    THEN Smaller(End(segments[at]), RequestEnd) ELSE reach
        /\ at' = at + 1 /\ phase' = "covering" /\ result' = result
    BY <1>9 DEF Cover
  <2>2. PICK stop : stop = Smaller(End(segments[at]), RequestEnd)
    OBVIOUS
  <2>3. PICK r : r = IF reach < stop THEN stop ELSE reach
    OBVIOUS
  <2>4. /\ at \in 1..Len(segments) /\ r \in Nat /\ reach <= r /\ r <= RequestEnd
        /\ \A a \in Nat : request.address <= a /\ a < r => Held(a)
        /\ \A k \in 1..Len(segments) : k < at + 1 => r = RequestEnd \/ End(segments[k]) <= r
    BY <1>1, <1>9, <2>2, <2>3, TurnReaches
  <2>5. reach # RequestEnd /\ End(segments[at]) \in Nat
    BY <1>1, <1>9, <2>4, ReadFacts DEF LoopOver
  <2>6. reach' = r
    BY <1>4, <1>8, <2>1, <2>2, <2>3, <2>5 DEF Smaller
  <2>7. BundleTypes'
    BY <1>1, <1>3, <1>8, <2>1, <2>4, <2>6 DEF BundleInv, BundleTypes
  <2>8. ReadState'
    BY <1>1, <1>3, <1>4, <1>5, <1>6, <1>7, <1>8, <2>1, <2>4, <2>6 DEF ReadState
  <2>9. ReadExact'
    BY <2>1 DEF ReadExact
  <2>10. QED
    BY <1>2, <2>7, <2>8, <2>9 DEF BundleInv
<1>10. CASE LoopOver /\ reach # RequestEnd
  <2>1. phase' = "loaded" /\ result' = "failed" /\ UNCHANGED <<at, reach>>
    BY <1>10 DEF Cover, Return
  <2>2. BundleTypes'
    BY <1>1, <1>3, <2>1 DEF BundleInv, BundleTypes
  <2>3. ReadState'
    BY <2>1 DEF ReadState
  <2>4. ~Held(reach) /\ reach \in Requested
    BY <1>1, <1>4, <1>8, <1>10, GapFound, RequestedFacts
  <2>5. \A k \in DOMAIN output' : output'[k] = Untouched
    BY <1>1, <1>4 DEF BundleInv, BundleTypes
  <2>6. reach \in Requested' /\ ~\E i \in DOMAIN segments' : Covers(segments'[i], reach)
    BY <1>3, <1>5, <2>4 DEF Held
  <2>7. ~(\A a \in Requested : a < Limit /\ \E i \in DOMAIN segments : Covers(segments[i], a))'
    BY <1>3, <1>5, <2>4 DEF Held, Covers, End
  <2>8. ReadExact'
    BY <2>1, <2>5, <2>7 DEF ReadExact
  <2>9. QED
    BY <1>2, <2>2, <2>3, <2>8 DEF BundleInv
<1>11. CASE LoopOver /\ reach = RequestEnd
  <2>1. phase' = "copying" /\ result' = result /\ at' = 1 /\ reach' = request.address
    BY <1>11 DEF Cover
  <2>2. BundleTypes'
    BY <1>1, <1>3, <1>8, <2>1 DEF BundleInv, BundleTypes
  <2>3. ReadState'
    BY <1>1, <1>3, <1>4, <1>5, <1>6, <1>7, <1>8, <1>11, <2>1 DEF ReadState
  <2>4. ReadExact'
    BY <2>1 DEF ReadExact
  <2>5. QED
    BY <1>2, <2>2, <2>3, <2>4 DEF BundleInv
<1>12. QED
  BY <1>9, <1>10, <1>11

\* The copying loop: it meets no gap, and what it has reached is copied.
LEMMA CopyKeeps == BundleInv /\ Copy => BundleInv'
<1> SUFFICES ASSUME BundleInv, Copy PROVE BundleInv'
  OBVIOUS
<1>1. phase = "copying" /\ UNCHANGED loadVars /\ UNCHANGED request
      /\ phase' \in {"copying", "loaded"}
  BY DEF Copy, Return
<1>2. TableLayout' /\ LoadingState' /\ SegmentsExact'
  BY <1>1, BundleKept DEF Loaded
<1>3. UNCHANGED <<format, fileLength, declared, table, payload, total, segments>>
  BY <1>1 DEF loadVars
<1>4. /\ request.length > 0 /\ RequestEnd <= Limit /\ result = "none"
      /\ \A a \in Nat : request.address <= a /\ a < RequestEnd => Held(a)
      /\ \A k \in 1..request.length : request.address + k - 1 < reach => FromSegment(k)
      /\ request.address <= reach /\ reach <= RequestEnd
  BY <1>1 DEF BundleInv, ReadState
<1>5. RequestEnd' = RequestEnd /\ Requested' = Requested
  BY <1>1 DEF RequestEnd, Requested
<1>6. \A a : (Held(a)' <=> Held(a))
  BY <1>3 DEF Held, Covers, End
<1>7. \A i : End(segments[i])' = End(segments[i])
  BY <1>3 DEF End
<1>8. /\ at \in Nat /\ reach \in Nat /\ RequestEnd \in Nat /\ request.address \in Nat
      /\ request.length \in Nat /\ RequestEnd = request.address + request.length
      /\ DOMAIN segments = 1..Len(segments) /\ segments \in Seq(SegmentType)
  BY <1>1, ReadFacts
<1>9. output \in [1..request.length -> Int]
  BY DEF BundleInv, BundleTypes
<1>10. CASE ~LoopOver
  <2>1. PICK stop : stop = Smaller(End(segments[at]), RequestEnd)
    OBVIOUS
  <2>2. /\ output' = [i \in DOMAIN output |->
                        LET a == request.address + i - 1
                        IN  IF reach <= a /\ a < stop
                            THEN segments[at].bytes[Offset(segments[at], a)] ELSE output[i]]
        /\ reach' = IF reach < stop THEN stop ELSE reach
        /\ at' = at + 1 /\ phase' = "copying" /\ result' = result
    BY <1>10, <2>1 DEF Copy
  <2>3. PICK r : r = IF reach < stop THEN stop ELSE reach
    OBVIOUS
  <2>4. /\ at \in 1..Len(segments) /\ r \in Nat /\ stop \in Nat /\ reach <= r /\ r <= RequestEnd
        /\ \A a \in Nat : reach <= a /\ a < stop => Covers(segments[at], a)
        /\ \A a \in Nat : request.address <= a /\ a < r => Held(a)
        /\ \A k \in 1..Len(segments) : k < at + 1 => r = RequestEnd \/ End(segments[k]) <= r
    BY <1>1, <1>10, <2>1, <2>3, TurnReaches
  <2>5. ASSUME NEW k \in 1..request.length
        PROVE  LET a == request.address + k - 1
               IN  /\ reach <= a /\ a < stop =>
                        /\ output'[k] = segments[at].bytes[Offset(segments[at], a)]
                        /\ Covers(segments[at], a)
                   /\ ~(reach <= a /\ a < stop) => output'[k] = output[k]
    <3>1. k \in DOMAIN output
      BY <1>9
    <3>2. request.address + k - 1 \in Nat
      BY <1>8
    <3>3. QED
      BY <2>2, <2>4, <3>1, <3>2
  <2>6. output' \in [1..request.length -> Int]
    <3>1. segments[at] \in SegmentType
      BY <1>8, <2>4
    <3>2. PICK g \in SegmentType : g = segments[at]
      BY <3>1
    <3>3. g.start \in Nat /\ g.bytes \in Seq(Int) /\ End(g) = g.start + Len(g.bytes)
          /\ Len(g.bytes) \in Nat
      BY SegmentTypeFacts DEF End
    <3>4. ASSUME NEW a \in Nat, Covers(g, a) PROVE g.bytes[Offset(g, a)] \in Int
      <4>1. a - g.start + 1 \in 1..Len(g.bytes)
        BY <3>3, <3>4 DEF Covers
      <4>2. QED
        BY <3>3, <4>1 DEF Offset
    <3>5. ASSUME NEW k \in 1..request.length PROVE output'[k] \in Int
      <4>1. request.address + k - 1 \in Nat /\ output[k] \in Int
        BY <1>8, <1>9
      <4>2. QED
        BY <2>5, <3>2, <3>4, <4>1
    <3>6. DOMAIN output' = 1..request.length /\ output' = [k \in 1..request.length |-> output'[k]]
      BY <1>9, <2>2
    <3>7. QED
      BY <3>5, <3>6
  <2>7. BundleTypes'
    BY <1>1, <1>3, <1>8, <2>2, <2>3, <2>4, <2>6 DEF BundleInv, BundleTypes
  <2>8. ASSUME NEW k \in 1..request.length, request.address + k - 1 < r
        PROVE  FromSegment(k)'
    <3>1. PICK a \in Nat : a = request.address + k - 1
      BY <1>8
    <3>2. CASE reach <= a /\ a < stop
      <4>1. /\ output'[k] = segments[at].bytes[Offset(segments[at], a)]
            /\ Covers(segments[at], a)
        BY <2>5, <3>1, <3>2
      <4>2. QED
        BY <1>1, <1>3, <1>8, <2>4, <3>1, <4>1 DEF FromSegment, Covers, End, Offset
    <3>3. CASE ~(reach <= a /\ a < stop)
      <4>1. a < reach
        BY <1>8, <2>3, <2>4, <2>8, <3>1, <3>3
      <4>2. FromSegment(k) /\ output'[k] = output[k]
        BY <1>4, <2>5, <3>1, <3>3, <4>1
      <4>3. QED
        BY <1>1, <1>3, <4>2 DEF FromSegment, Covers, End, Offset
    <3>4. QED
      BY <3>2, <3>3
  <2>9. ReadState'
    <3>1. /\ reach' = r /\ at' = at + 1 /\ phase' = "copying" /\ result' = result
          /\ segments' = segments /\ request' = request /\ RequestEnd' = RequestEnd
      BY <1>1, <1>3, <1>5, <2>2, <2>3
    <3>2. \A a \in Nat : request.address <= a /\ a < RequestEnd => Held(a)'
      BY <1>4, <1>6
    <3>3. \A a \in Nat : request.address <= a /\ a < r => Held(a)'
      BY <1>6, <2>4
    <3>4. \A k \in 1..Len(segments) : k < at + 1 => r = RequestEnd \/ End(segments[k])' <= r
      BY <1>7, <2>4
    <3>5. \A k \in 1..request.length : request.address + k - 1 < r => FromSegment(k)'
      BY <2>8
    <3>6. /\ request.length > 0 /\ RequestEnd <= Limit /\ result = "none"
          /\ request.address <= r /\ at + 1 >= 1
      BY <1>4, <1>8, <2>4
    <3>7. (phase \in {"loading", "rejected"} => result = "none")'
      BY <3>1
    <3>8. (phase \in {"covering", "copying"} =>
             /\ request.length > 0 /\ RequestEnd <= Limit /\ result = "none"
             /\ at >= 1
             /\ request.address <= reach /\ reach <= RequestEnd
             /\ \A k \in 1..Len(segments) : k < at => reach = RequestEnd \/ End(segments[k]) <= reach
             /\ \A a \in Nat : request.address <= a /\ a < reach => Held(a))'
      BY <2>4, <3>1, <3>3, <3>4, <3>6
    <3>9. (phase = "covering" => \A k \in 1..request.length : output[k] = Untouched)'
      BY <3>1
    <3>10. (phase = "copying" =>
             /\ \A a \in Nat : request.address <= a /\ a < RequestEnd => Held(a)
             /\ \A k \in 1..request.length : request.address + k - 1 < reach => FromSegment(k))'
      BY <3>1, <3>2, <3>5
    <3>11. QED
      BY <3>7, <3>8, <3>9, <3>10 DEF ReadState
  <2>10. ReadExact'
    BY <2>2 DEF ReadExact
  <2>11. QED
    BY <1>2, <2>7, <2>9, <2>10 DEF BundleInv
<1>11. CASE LoopOver
  <2>1. reach = RequestEnd
    <3>1. SUFFICES ASSUME reach # RequestEnd PROVE FALSE
      OBVIOUS
    <3>2. ~Held(reach)
      BY <1>1, <1>11, <3>1, GapFound
    <3>3. QED
      BY <1>4, <1>8, <3>1, <3>2
  <2>2. phase' = "loaded" /\ result' = "ok" /\ UNCHANGED <<at, reach, output>>
    BY <1>11, <2>1 DEF Copy, Return
  <2>3. BundleTypes'
    BY <1>1, <1>3, <2>2 DEF BundleInv, BundleTypes
  <2>4. ReadState'
    BY <2>2 DEF ReadState
  <2>5. \A a \in Requested : a < Limit /\ Held(a)
    BY <1>1, <1>4, <1>8, RequestedFacts, Sizes
  <2>6. (\A a \in Requested : a < Limit /\ \E i \in DOMAIN segments : Covers(segments[i], a))'
    BY <1>3, <1>5, <2>5 DEF Held, Covers, End
  <2>7. \A k \in 1..request.length : FromSegment(k)
    BY <1>4, <1>8, <2>1
  <2>8. (\A k \in DOMAIN output : FromSegment(k))'
    BY <1>1, <1>3, <1>9, <2>2, <2>7 DEF FromSegment, Covers, End, Offset
  <2>9. ReadExact'
    BY <2>2, <2>6, <2>8 DEF ReadExact, FromSegment
  <2>10. QED
    BY <1>2, <2>3, <2>4, <2>9 DEF BundleInv
<1>12. QED
  BY <1>10, <1>11

\* The start, and the steps together.
LEMMA BundleInitial == BundleInit => BundleInv
<1> SUFFICES ASSUME BundleInit PROVE BundleInv
  OBVIOUS
<1>1. /\ table = <<>> /\ segments = <<>> /\ payload = 0 /\ total = 0 /\ phase = "loading"
      /\ request = [address |-> 0, length |-> 0] /\ at = 0 /\ reach = 0 /\ output = <<>>
      /\ result = "none" /\ format \in Formats /\ fileLength \in Nat /\ fileLength <= MaxFile
      /\ declared \in Nat
  BY SizeAssumption DEF BundleInit
<1>2. BundleTypes
  BY <1>1, Sizes DEF BundleTypes
<1>3. TableLayout
  BY <1>1 DEF TableLayout
<1>4. LoadingState
  <2>1. CoveredCells(segments) = {}
    BY <1>1 DEF CoveredCells
  <2>2. 0 * PageSize = 0
    BY Sizes
  <2>3. Len(segments) = 0 /\ Len(table) = 0
    BY <1>1
  <2>4. IsFiniteSet(CoveredCells(segments)) /\ Cardinality(CoveredCells(segments)) = total * PageSize
    BY <1>1, <2>1, <2>2, FS_EmptySet
  <2>5. QED
    BY <2>3, <2>4 DEF LoadingState
<1>5. SegmentsExact /\ ReadState /\ ReadExact
  BY <1>1 DEF SegmentsExact, SegmentsDisjoint, SegmentsAreTable, Loaded, ReadState, ReadExact
<1>6. QED
  BY <1>2, <1>3, <1>4, <1>5 DEF BundleInv

\* A stuttering step.
LEMMA BundleUnchanged == BundleInv /\ UNCHANGED bundleVars => BundleInv'
<1> SUFFICES ASSUME BundleInv, UNCHANGED bundleVars PROVE BundleInv'
  OBVIOUS
<1>1. /\ UNCHANGED <<format, fileLength, declared, table, payload, total, segments, phase>>
      /\ UNCHANGED <<request, at, reach, output, result>>
  BY DEF bundleVars, loadVars, readVars
<1>2. BundleTypes' /\ TableLayout'
  BY <1>1 DEF BundleInv, BundleTypes, TableLayout, Following, Counting, PayloadInPlace
<1>3. CoveredCells(segments)' = CoveredCells(segments)
  BY <1>1 DEF CoveredCells, Covers, End
<1>4. LoadingState'
  BY <1>1, <1>3 DEF BundleInv, LoadingState, Counting, Segment, Bytes
<1>5. SegmentsDisjoint'
  BY <1>1 DEF BundleInv, SegmentsExact, SegmentsDisjoint, Covers, End, Loaded
<1>6. SegmentsAreTable'
  <2>1. \A k : (Segment(table[k])' = Segment(table[k]))
    BY <1>1 DEF Segment, Bytes
  <2>2. \A k : (PayloadInPlace(k)' <=> PayloadInPlace(k))
    BY <1>1 DEF PayloadInPlace
  <2>3. QED
    BY <1>1, <1>3, <2>1, <2>2 DEF BundleInv, SegmentsExact, SegmentsAreTable, Loaded
<1>7. ReadState'
  <2>1. \A k : (FromSegment(k)' <=> FromSegment(k))
    BY <1>1 DEF FromSegment, Covers, End, Offset
  <2>2. \A a : (Held(a)' <=> Held(a))
    BY <1>1 DEF Held, Covers, End
  <2>3. RequestEnd' = RequestEnd /\ \A i : End(segments[i])' = End(segments[i])
    BY <1>1 DEF RequestEnd, End
  <2>4. QED
    BY <1>1, <2>1, <2>2, <2>3 DEF BundleInv, ReadState
<1>8. ReadExact'
  BY <1>1 DEF BundleInv, ReadExact, Requested, Covers, End, Offset
<1>9. QED
  BY <1>2, <1>4, <1>5, <1>6, <1>7, <1>8 DEF BundleInv, SegmentsExact

\* Every step of the parsers and of read_into keeps the invariant of the bundle.
THEOREM BundleInvariant == BundleSpec => []BundleInv
<1>1. BundleInv /\ [BundleNext]_bundleVars => BundleInv'
  <2> SUFFICES ASSUME BundleInv, [BundleNext]_bundleVars PROVE BundleInv'
    OBVIOUS
  <2>1. CASE BundleNext
    BY <2>1, RejectKeeps, ElfKeeps, LimeKeeps, KdmpKeeps, RdmpKeeps, BitmapKeeps, ManifestKeeps,
       RawKeeps, FinishKeeps, BeginReadKeeps, CoverKeeps, CopyKeeps DEF BundleNext
  <2>2. CASE UNCHANGED bundleVars
    BY <2>2, BundleUnchanged
  <2>3. QED
    BY <2>1, <2>2
<1>2. QED
  BY <1>1, BundleInitial, PTL DEF BundleSpec

\* In a bundle a parser returned, segments are disjoint up to empty ones, are those
\* of the table, have the payload their format puts there, and are as many pages as
\* the header declares, for every table and every file length.
THEOREM BundleSegmentsExact == BundleSpec => []SegmentsExact
<1>1. BundleInv => SegmentsExact
  BY DEF BundleInv
<1>2. QED
  BY <1>1, BundleInvariant, PTL

\* read_into fails without touching the buffer exactly when a requested address is in
\* no segment, and otherwise fills the buffer from the segments.
THEOREM BundleReadExact == BundleSpec => []ReadExact
<1>1. BundleInv => ReadExact
  BY DEF BundleInv
<1>2. QED
  BY <1>1, BundleInvariant, PTL

=============================================================================
