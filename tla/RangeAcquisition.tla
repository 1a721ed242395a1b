-------------------------- MODULE RangeAcquisition --------------------------
(***************************************************************************)
(* save_physical_range and save_snapshot of every provider that can        *)
(* acquire (driver-xen, driver-virtualbox, driver-libvirt, driver-qemu and *)
(* the testkit's fake provider), and VirtualBox's read_into through a      *)
(* core.  Several sessions, and others, use one directory.                 *)
(*                                                                         *)
(* A range of the command providers is read from a core in a temporary     *)
(* file and published: by Xen and VirtualBox through a second temporary    *)
(* file and a hard link, by libvirt in place.  The fake provider publishes *)
(* its memory as they do.  A snapshot, and either acquisition of QEMU, is  *)
(* written by the tool, or by QEMU, under the destination's own name,      *)
(* after a look whether the name is free.  One action is one file system   *)
(* call (or one external command); each can fail.                          *)
(*                                                                         *)
(* A command provider kills its tool when it gives up on it.  QEMU's       *)
(* monitor is not told: a command that timed out is executed, or goes on   *)
(* being executed, after the acquisition has returned its error.           *)
(***************************************************************************)
EXTENDS Naturals

CONSTANTS Sessions,
          Providers,    \* of the providers below
          Stranger,     \* somebody else who may create the destination
          None,
          LastSequence, \* the last value of the sequence counters, u64::MAX
          MaxLate       \* bound: the commands of a session that timed out and
                        \* that the monitor has not finished

ASSUME AcquisitionAssumption ==
  /\ Providers \subseteq {"xen", "virtualbox", "libvirt", "qemu", "fake"}
  /\ LastSequence \in Nat /\ MaxLate \in Nat
  /\ Stranger \notin Sessions /\ None \notin Sessions \cup {Stranger}

Dest == <<"destination", 0>>
Core(n) == <<"core", n>>
Temp(n) == <<"range", n>>
Names == {Dest} \cup ({"core", "range"} \X (0..LastSequence))

\* A file: who created it, and whether all of its bytes are in it.
Files == [by : Sessions \cup {Stranger}, complete : BOOLEAN]

ASSUME NoneAssumption == None \notin Names /\ None \notin Files

VARIABLES
  provider,  \* the provider of the sessions
  dir,       \* the directory
  coreNext,  \* the sequence counter of temporary_core_path
  rangeNext, \* the sequence counter of publish_range
  pc,        \* where each session is
  op,        \* what it does: acquire a range or a snapshot, or read through a core
  core,      \* the name of its core, None before it has one
  temp,      \* the name of its temporary range
  outcome,   \* the result so far, and the one it returned
  stuck,     \* history: "dump" left a core, a "tool" part of a destination, or
             \* a file could not be removed ("remove")
  replaced,  \* history: a tool replaced a destination that appeared after the look
  late,      \* the commands of each session that timed out before the monitor
             \* had finished them; it executes the commands of a session in order
  lateOpen   \* the sessions of which the monitor is writing such a command's file

vars == <<provider, dir, coreNext, rangeNext, pc, op, core, temp, outcome, stuck, replaced, late, lateOpen>>

Init ==
  /\ provider \in Providers
  /\ dir = [n \in Names |-> None]
  /\ coreNext = 0
  /\ rangeNext = 0
  /\ pc = [s \in Sessions |-> "idle"]
  /\ op = [s \in Sessions |-> "range"]
  /\ core = [s \in Sessions |-> None]
  /\ temp = [s \in Sessions |-> None]
  /\ outcome = [s \in Sessions |-> "none"]
  /\ stuck = [s \in Sessions |-> {}]
  /\ replaced = FALSE
  /\ late = [s \in Sessions |-> 0]
  /\ lateOpen = {}

Exists(n) == dir[n] # None

Goto(s, l) == pc' = [pc EXCEPT ![s] = l]

Finish(s, result) ==
  /\ Goto(s, "done")
  /\ outcome' = [outcome EXCEPT ![s] = result]

\* The result is known, the core is still to be removed; the fake has none.
Cleanup(s, result) ==
  /\ Goto(s, IF provider = "fake" THEN "done" ELSE "cleanup")
  /\ outcome' = [outcome EXCEPT ![s] = result]

Create(n, s, complete) == dir' = [dir EXCEPT ![n] = [by |-> s, complete |-> complete]]
\* The destination that s has opened is written, wherever its name is by now.
WrittenBy(s, ok) ==
  IF Exists(Dest) /\ dir[Dest].by = s THEN dir' = [dir EXCEPT ![Dest].complete = ok]
  ELSE UNCHANGED dir

RemoveFile(n) == dir' = [dir EXCEPT ![n] = None]
Stuck(s, why) == stuck' = [stuck EXCEPT ![s] = @ \cup {why}]

-----------------------------------------------------------------------------
(* The core.                                                               *)

\* Whether the destination is written under its own name.
Direct(what) == provider = "qemu" \/ (what = "snapshot" /\ provider # "fake")

\* The fake reads its memory at once: a range with a hole, one that does not
\* fit into memory, and a fault set for the read make the acquisition fail.
FakeReadFails(s) == provider = "fake" /\ Finish(s, "error")

\* A direct acquisition looks at the destination first, and so does libvirt; a
\* range of the others begins with its core.
Start(s, what) ==
  /\ pc[s] \in {"idle", "done"}
  /\ what = "read" => provider = "virtualbox"
  /\ op' = [op EXCEPT ![s] = what]
  /\ \/ /\ Exists(Dest) /\ (Direct(what) \/ provider = "libvirt")
        /\ Finish(s, "error")
     \/ FakeReadFails(s)
     \/ /\ ~(Exists(Dest) /\ (Direct(what) \/ provider = "libvirt"))
        /\ Goto(s, IF Direct(what) THEN "tool" ELSE IF provider = "fake" THEN "publish" ELSE "name")
        /\ outcome' = [outcome EXCEPT ![s] = "none"]
  /\ UNCHANGED <<provider, dir, coreNext, rangeNext, core, temp, stuck, replaced, late, lateOpen>>

\* Mutant: the sequence wraps around.
SuccessorWraps(n) == IF n = LastSequence THEN 0 ELSE n + 1

\* next_sequence: the last value is never handed out, the counter stays there.
Successor(n) == IF n = LastSequence THEN None ELSE n + 1

\* temporary_core_path
NameCore(s) ==
  /\ pc[s] = "name"
  /\ IF Successor(coreNext) = None
     THEN Finish(s, "error") /\ UNCHANGED <<core, coreNext>>
     ELSE /\ core' = [core EXCEPT ![s] = Core(coreNext)]
          /\ coreNext' = Successor(coreNext)
          /\ Goto(s, "dump")
          /\ UNCHANGED outcome
  /\ UNCHANGED <<provider, dir, rangeNext, op, temp, stuck, replaced, late, lateOpen>>

\* The file is absent before the tool is started, and the tool succeeds.
DumpSucceeds(s) ==
  /\ pc[s] = "dump" /\ ~Exists(core[s])
  /\ Create(core[s], s, TRUE)
  /\ Goto(s, "read")
  /\ UNCHANGED <<provider, coreNext, rangeNext, op, core, temp, outcome, stuck, replaced, late, lateOpen>>

\* The tool fails, is killed at its deadline or floods its output, and leaves
\* part of a core or none.  libvirt goes on to its cleanup, the others return.
DumpFails(s) ==
  /\ pc[s] = "dump"
  /\ IF Exists(core[s]) THEN UNCHANGED <<dir, stuck>>
     ELSE \/ UNCHANGED <<dir, stuck>>
          \/ /\ Create(core[s], s, FALSE)
             /\ IF provider = "libvirt" THEN UNCHANGED stuck ELSE Stuck(s, "dump")
  /\ IF provider = "libvirt" THEN Cleanup(s, "error") ELSE Finish(s, "error")
  /\ UNCHANGED <<provider, coreNext, rangeNext, op, core, temp, replaced, late, lateOpen>>

\* The core is parsed and the range read from it.
ReadCore(s, ok) ==
  /\ pc[s] = "read"
  /\ IF ~ok THEN Cleanup(s, "error")
     ELSE IF op[s] = "read" THEN Cleanup(s, "ok")
     ELSE Goto(s, "publish") /\ UNCHANGED outcome
  /\ UNCHANGED <<provider, dir, coreNext, rangeNext, op, core, temp, stuck, replaced, late, lateOpen>>

-----------------------------------------------------------------------------
(* publish_range of Xen and VirtualBox, publish_atomically of the fake.    *)

\* The destination must be absent, which the fake leaves to the link; then the temporary range gets its name.
NameRange(s) ==
  /\ pc[s] = "publish" /\ provider # "libvirt"
  /\ IF (provider # "fake" /\ Exists(Dest)) \/ Successor(rangeNext) = None
     THEN Cleanup(s, "error") /\ UNCHANGED <<temp, rangeNext>>
     ELSE /\ temp' = [temp EXCEPT ![s] = Temp(rangeNext)]
          /\ rangeNext' = Successor(rangeNext)
          /\ Goto(s, "create")
          /\ UNCHANGED outcome
  /\ UNCHANGED <<provider, dir, coreNext, op, core, stuck, replaced, late, lateOpen>>

\* create_new; a failure goes on to remove the temporary range.
CreateRange(s, ok) ==
  /\ pc[s] = "create"
  /\ IF ok /\ ~Exists(temp[s])
     THEN /\ Create(temp[s], s, FALSE)
          /\ Goto(s, "write")
     ELSE /\ Goto(s, "discard")
          /\ UNCHANGED dir
  /\ UNCHANGED <<provider, coreNext, rangeNext, op, core, temp, outcome, stuck, replaced, late, lateOpen>>

\* Mutant: a failed write is published all the same.
WriteRangeIgnoresFailure(s, ok) ==
  /\ pc[s] = "write"
  /\ dir' = [dir EXCEPT ![temp[s]].complete = ok]
  /\ Goto(s, "link")
  /\ UNCHANGED <<provider, coreNext, rangeNext, op, core, temp, outcome, stuck, replaced, late, lateOpen>>

\* write_all and sync_all
WriteRange(s, ok) ==
  /\ pc[s] = "write"
  /\ IF ok /\ Exists(temp[s])
     THEN /\ dir' = [dir EXCEPT ![temp[s]].complete = TRUE]
          /\ Goto(s, "link")
     ELSE Goto(s, "discard") /\ UNCHANGED dir
  /\ UNCHANGED <<provider, coreNext, rangeNext, op, core, temp, outcome, stuck, replaced, late, lateOpen>>

\* Mutant: the temporary range is renamed, which replaces the destination.
LinkReplaces(s, ok) ==
  /\ pc[s] = "link"
  /\ IF ok /\ Exists(temp[s])
     THEN /\ dir' = [dir EXCEPT ![Dest] = dir[temp[s]]]
          /\ Goto(s, "unlink")
     ELSE Goto(s, "discard") /\ UNCHANGED dir
  /\ UNCHANGED <<provider, coreNext, rangeNext, op, core, temp, outcome, stuck, replaced, late, lateOpen>>

\* hard_link fails if the destination has appeared meanwhile.
Link(s, ok) ==
  /\ pc[s] = "link"
  /\ IF ok /\ Exists(temp[s]) /\ ~Exists(Dest)
     THEN /\ dir' = [dir EXCEPT ![Dest] = dir[temp[s]]]
          /\ Goto(s, "unlink")
     ELSE Goto(s, "discard") /\ UNCHANGED dir
  /\ UNCHANGED <<provider, coreNext, rangeNext, op, core, temp, outcome, stuck, replaced, late, lateOpen>>

\* remove_file after the publication; its failure is reported.
Unlink(s, ok) ==
  /\ pc[s] = "unlink"
  /\ IF ok /\ Exists(temp[s]) THEN RemoveFile(temp[s]) /\ Cleanup(s, "ok")
     ELSE Goto(s, "discard") /\ UNCHANGED <<dir, outcome>>
  /\ UNCHANGED <<provider, coreNext, rangeNext, op, core, temp, stuck, replaced, late, lateOpen>>

\* After a failure the temporary range is removed, its own failure ignored.
Discard(s, ok) ==
  /\ pc[s] = "discard"
  /\ IF ok \/ ~Exists(temp[s])
     THEN RemoveFile(temp[s]) /\ UNCHANGED stuck
     ELSE UNCHANGED dir /\ Stuck(s, "remove")
  /\ Cleanup(s, "error")
  /\ UNCHANGED <<provider, coreNext, rangeNext, op, core, temp, replaced, late, lateOpen>>

-----------------------------------------------------------------------------
(* publish_new of libvirt.                                                 *)

\* create_new under the destination's own name
CreateInPlace(s, ok) ==
  /\ pc[s] = "publish" /\ provider = "libvirt"
  /\ IF ok /\ ~Exists(Dest)
     THEN /\ Create(Dest, s, FALSE)
          /\ Goto(s, "inplace")
          /\ UNCHANGED outcome
     ELSE Cleanup(s, "error") /\ UNCHANGED dir
  /\ UNCHANGED <<provider, coreNext, rangeNext, op, core, temp, stuck, replaced, late, lateOpen>>

\* A failed write removes the destination, if it can, also one that a tool has
\* put in its place.
WriteInPlace(s, ok, removed) ==
  /\ pc[s] = "inplace"
  /\ \/ /\ ok
        /\ WrittenBy(s, TRUE)
        /\ Cleanup(s, "ok")
        /\ UNCHANGED stuck
     \/ /\ ~ok
        /\ Cleanup(s, "error")
        /\ IF removed THEN RemoveFile(Dest) /\ UNCHANGED stuck
           ELSE UNCHANGED dir /\ Stuck(s, "remove")
  /\ UNCHANGED <<provider, coreNext, rangeNext, op, core, temp, replaced, late, lateOpen>>

-----------------------------------------------------------------------------
(* A direct acquisition: the tool, or QEMU, writes the destination.        *)

\* The tool, or the monitor for a session, opens the destination, and replaces
\* one that has appeared since the session looked.
OpenDest(s) ==
  /\ Create(Dest, s, FALSE)
  /\ replaced' = (replaced \/ Exists(Dest))

\* It succeeds, or fails with part of the file written, which stays.  Of
\* two that write one file, the last to open it counts as its writer.
EndWriting(s, ok) ==
  /\ WrittenBy(s, ok)
  /\ IF ok THEN UNCHANGED stuck ELSE Stuck(s, "tool")

\* The monitor turns to a command after those before it.
ToolOpens(s) ==
  /\ pc[s] = "tool" /\ late[s] = 0
  /\ OpenDest(s)
  /\ Goto(s, "writing")
  /\ UNCHANGED <<provider, coreNext, rangeNext, op, core, temp, outcome, stuck, late, lateOpen>>

\* pmemsave fails with a text, which save_physical_range of QEMU does not read.
ToolReports(s, ok) ==
  Finish(s, IF ok \/ (provider = "qemu" /\ op[s] = "range") THEN "ok" ELSE "error")

\* It does not get as far, or cannot be asked.
ToolFails(s) ==
  /\ pc[s] = "tool"
  /\ (late[s] = 0 /\ ToolReports(s, FALSE)) \/ Finish(s, "error")
  /\ UNCHANGED <<provider, dir, coreNext, rangeNext, op, core, temp, stuck, replaced, late, lateOpen>>

\* Mutant: what the tool says is not looked at.
ToolEndsUnchecked(s, ok) ==
  /\ pc[s] = "writing"
  /\ EndWriting(s, ok)
  /\ Finish(s, "ok")
  /\ UNCHANGED <<provider, coreNext, rangeNext, op, core, temp, replaced, late, lateOpen>>

ToolEnds(s, ok) ==
  /\ pc[s] = "writing"
  /\ EndWriting(s, ok)
  /\ ToolReports(s, ok)
  /\ UNCHANGED <<provider, coreNext, rangeNext, op, core, temp, replaced, late, lateOpen>>

\* execute times out, or its connection fails, when the monitor has the command:
\* before the monitor begins with it, or while it writes.
GiveUp(s) ==
  /\ provider = "qemu" /\ pc[s] \in {"tool", "writing"} /\ late[s] < MaxLate
  /\ Finish(s, "error")
  /\ late' = [late EXCEPT ![s] = @ + 1]
  /\ lateOpen' = IF pc[s] = "writing" THEN lateOpen \cup {s} ELSE lateOpen
  /\ UNCHANGED <<provider, dir, coreNext, rangeNext, op, core, temp, stuck, replaced>>

\* The monitor begins with the oldest command that timed out.
LateOpens(s) ==
  /\ late[s] > 0 /\ s \notin lateOpen
  /\ OpenDest(s)
  /\ lateOpen' = lateOpen \cup {s}
  /\ UNCHANGED <<provider, coreNext, rangeNext, pc, op, core, temp, outcome, stuck, late>>

\* It ends it, or does not get as far.
LateEnds(s, ok) ==
  /\ late[s] > 0
  /\ IF s \in lateOpen THEN EndWriting(s, ok) ELSE ~ok /\ UNCHANGED <<dir, stuck>>
  /\ late' = [late EXCEPT ![s] = @ - 1]
  /\ lateOpen' = lateOpen \ {s}
  /\ UNCHANGED <<provider, coreNext, rangeNext, pc, op, core, temp, outcome, replaced>>

-----------------------------------------------------------------------------
(* The end.                                                                *)

\* finish_temporary_core: an error of the acquisition takes precedence over one
\* of the removal; libvirt does not mind a core that is absent.
RemoveCore(s, ok) ==
  /\ pc[s] = "cleanup"
  /\ IF ok /\ Exists(core[s])
     THEN RemoveFile(core[s]) /\ UNCHANGED <<outcome, stuck>>
     ELSE /\ UNCHANGED dir
          /\ IF Exists(core[s]) THEN Stuck(s, "remove") ELSE UNCHANGED stuck
          /\ outcome' = [outcome EXCEPT ![s] =
               IF provider = "libvirt" /\ ~Exists(core[s]) THEN @ ELSE "error"]
  /\ Goto(s, "done")
  /\ UNCHANGED <<provider, coreNext, rangeNext, op, core, temp, replaced, late, lateOpen>>

\* Somebody else creates the destination.
Appear ==
  /\ ~Exists(Dest)
  /\ Create(Dest, Stranger, TRUE)
  /\ UNCHANGED <<provider, coreNext, rangeNext, pc, op, core, temp, outcome, stuck, replaced, late, lateOpen>>

Step(s) ==
  \/ \E what \in {"range", "snapshot", "read"} : Start(s, what)
  \/ NameCore(s)
  \/ DumpSucceeds(s)
  \/ DumpFails(s)
  \/ NameRange(s)
  \/ ToolOpens(s)
  \/ ToolFails(s)
  \/ GiveUp(s)
  \/ LateOpens(s)
  \/ \E ok \in BOOLEAN :
       \/ ReadCore(s, ok)
       \/ CreateRange(s, ok)
       \/ WriteRange(s, ok)
       \/ Link(s, ok)
       \/ Unlink(s, ok)
       \/ Discard(s, ok)
       \/ CreateInPlace(s, ok)
       \/ \E removed \in BOOLEAN : WriteInPlace(s, ok, removed)
       \/ ToolEnds(s, ok)
       \/ LateEnds(s, ok)
       \/ RemoveCore(s, ok)

Next == Appear \/ \E s \in Sessions : Step(s)

Spec == Init /\ [][Next]_vars

-----------------------------------------------------------------------------
(* Properties.                                                             *)

\* Every variable has its type: the sequence counters stop at their last value.
TypeOK ==
  /\ provider \in Providers
  /\ dir \in [Names -> Files \cup {None}]
  /\ coreNext \in 0..LastSequence /\ rangeNext \in 0..LastSequence
  /\ pc \in [Sessions -> {"idle", "name", "dump", "read", "publish", "create", "write", "link",
                          "unlink", "discard", "inplace", "tool", "writing", "cleanup", "done"}]
  /\ op \in [Sessions -> {"range", "snapshot", "read"}]
  /\ core \in [Sessions -> Names \cup {None}]
  /\ temp \in [Sessions -> Names \cup {None}]
  /\ outcome \in [Sessions -> {"none", "ok", "error"}]
  /\ stuck \in [Sessions -> SUBSET {"dump", "tool", "remove"}]
  /\ replaced \in BOOLEAN
  /\ late \in [Sessions -> 0..MaxLate] /\ lateOpen \in SUBSET Sessions

\* Session s is writing the destination under its own name, as libvirt does, or
\* did so when a tool replaced it.
InPlace(s) == provider = "libvirt" /\ pc[s] = "inplace" /\ (dir[Dest].by = s \/ replaced)

\* Session s has asked a tool to write the destination, and the tool may still do
\* so, whether or not the session waits for it.
ToolBusy(s) == pc[s] \in {"tool", "writing"} \/ late[s] > 0

\* An existing destination is never changed nor removed, whoever created it and
\* whenever it appeared, except by the libvirt session that is still writing it
\* and by a tool whose session saw no file there before it started the tool.
\* QEMU's monitor may do so long after the session returned an error.
NoClobber ==
  [][Exists(Dest) =>
       \/ dir'[Dest] = dir[Dest]
       \/ \E s \in Sessions :
            InPlace(s) \/ (ToolBusy(s) /\ dir'[Dest] # None /\ dir'[Dest].by = s)]_vars

\* What is under the destination's name is a complete file.  The exceptions are
\* libvirt's, while it writes in place or after it failed to write and to
\* remove, and those of a tool that writes it, or failed to; QEMU's monitor may
\* still be writing what an acquisition that timed out has asked for.
DestinationComplete ==
  Exists(Dest) =>
    \/ dir[Dest].complete
    \/ InPlace(dir[Dest].by)
    \/ provider = "libvirt" /\ "remove" \in stuck[dir[Dest].by]
    \/ pc[dir[Dest].by] = "writing" \/ dir[Dest].by \in lateOpen
    \/ "tool" \in stuck[dir[Dest].by]

\* An acquisition that succeeds has published its own file: of several for one
\* destination at most one succeeds, unless a tool replaced what had appeared
\* after its session looked.  A range of QEMU says nothing: it also succeeds
\* when pmemsave failed.
SuccessIsPublished ==
  \A s \in Sessions :
    /\ pc[s] = "done" /\ op[s] # "read" /\ outcome[s] = "ok"
    /\ ~replaced /\ ~(provider = "qemu" /\ op[s] = "range")
    => Exists(Dest) /\ dir[Dest] = [by |-> s, complete |-> TRUE]

Left(s) == \E n \in Names \ {Dest} : Exists(n) /\ dir[n].by = s

\* An acquisition that is over has left no temporary file, unless the file
\* system refused to remove one.
NoTemporaryLeft ==
  \A s \in Sessions : pc[s] = "done" /\ "remove" \notin stuck[s] => ~Left(s)

\* A session removes none of another's temporary files and all of its own:
\* while it works with one that it has created, the file is there, and when it
\* is done none is left, except the core of a dump that failed and one that the
\* file system refused to remove.
TemporariesExact ==
  \A s \in Sessions :
    /\ /\ pc[s] \in {"read", "publish", "create", "write", "link", "unlink"}
       /\ provider # "fake"
       => Exists(core[s]) /\ dir[core[s]].by = s
    /\ pc[s] \in {"write", "link", "unlink"} => Exists(temp[s]) /\ dir[temp[s]].by = s
    /\ pc[s] = "done" /\ stuck[s] \cap {"dump", "remove"} = {} => ~Left(s)

=============================================================================
