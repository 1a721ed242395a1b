------------------------------ MODULE MCObjects -------------------------------
(***************************************************************************)
(* Three objects that live in one process, each behind a mutex of its own: *)
(* the handle table of the C interface (SnapshotHandles), the manager of   *)
(* memory views (MemoryViews) and the GDB client of a QEMU session         *)
(* (GdbClient).  They share no state, so that a behaviour uses one of them *)
(* while the others stay as they are.                                      *)
(***************************************************************************)
EXTENDS SnapshotHandles, MemoryViews, GdbClient, TLC

VARIABLE object    \* the object in use

allVars == <<object, vars, viewsVars, gdbVars>>

NoGdb ==
  /\ access = NoAccess /\ phase = "ready" /\ wire = <<>> /\ inbox = <<>>
  /\ thread = Absent /\ regs = Absent /\ sent = 0 /\ inSync = TRUE /\ last = Nothing

MCInit ==
  /\ Init /\ ViewsInit
  /\ \/ object \in {"handles", "views"} /\ NoGdb
     \/ object = "gdb" /\ GdbInit

MCNext ==
  /\ UNCHANGED object
  /\ \/ object = "handles" /\ Next /\ UNCHANGED <<viewsVars, gdbVars>>
     \/ object = "views" /\ ViewsNext /\ UNCHANGED <<vars, gdbVars>>
     \/ object = "gdb" /\ GdbNext /\ UNCHANGED <<vars, viewsVars>>

MCSpec == MCInit /\ [][MCNext]_allVars

MCSymmetry == Permutations(Threads) \cup Permutations(Vcpus) \cup Permutations(Values)

=============================================================================
