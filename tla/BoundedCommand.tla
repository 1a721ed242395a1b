--------------------------- MODULE BoundedCommand ---------------------------
(***************************************************************************)
(* run_bounded_command of the command providers: a child process whose two *)
(* output pipes are drained by reader threads that share one byte budget,  *)
(* while the caller polls for the child's exit, an exceeded budget and the *)
(* deadline.  A descendant of the child may keep the pipes open after the  *)
(* child is gone.  driver-libvirt differs in how it starts the readers and *)
(* in how it reaps.                                                        *)
(***************************************************************************)
EXTENDS Naturals

CONSTANTS Providers,  \* of "xen", "virtualbox" and "libvirt"
          Capacity,   \* COMMAND_OUTPUT_CAPACITY
          MaxOutput   \* bound on what is written to each pipe

ASSUME CommandAssumption ==
  /\ Providers \subseteq {"xen", "virtualbox", "libvirt"}
  /\ Capacity \in Nat \ {0}
  /\ MaxOutput \in Nat

Streams == {"stdout", "stderr"}

VARIABLES
  provider,    \* the driver whose command runner this is
  child,       \* the child process: none, running, exited, reaped
  descendant,  \* a descendant holds the pipes open
  written,     \* bytes written to each pipe
  taken,       \* bytes read from each pipe
  reader,      \* where each reader thread is
  chunk,       \* the bytes a reader holds but has not reserved yet
  seen,        \* the budget a reader has loaded
  bytes,       \* what a reader has kept
  captured,    \* the shared byte counter
  exceeded,    \* the shared flag
  pc,          \* where the caller is
  deadline,    \* "future" or "past"
  killFailed,  \* kill returned an error
  result       \* how the call ended

process == <<provider, child, descendant, written>>
readers == <<taken, reader, chunk, seen, bytes, captured, exceeded>>
vars == <<process, readers, pc, deadline, killFailed, result>>

Zero == [s \in Streams |-> 0]

Init ==
  /\ provider \in Providers
  /\ child = "none"
  /\ descendant = FALSE
  /\ written = Zero /\ taken = Zero
  /\ reader = [s \in Streams |-> "none"]
  /\ chunk = Zero /\ seen = Zero /\ bytes = Zero
  /\ captured = 0
  /\ exceeded = FALSE
  /\ pc = "spawn"
  /\ deadline = "future"
  /\ killFailed = FALSE
  /\ result = "none"

PipesOpen == child = "running" \/ descendant

-----------------------------------------------------------------------------
(* The child and its descendant.                                           *)

Write(s) ==
  /\ PipesOpen
  /\ written[s] < MaxOutput
  /\ written' = [written EXCEPT ![s] = @ + 1]
  /\ UNCHANGED <<provider, child, descendant, readers, pc, deadline, killFailed, result>>

Fork ==
  /\ child = "running" /\ ~descendant
  /\ descendant' = TRUE
  /\ UNCHANGED <<provider, child, written, readers, pc, deadline, killFailed, result>>

Exit ==
  /\ child = "running"
  /\ child' = "exited"
  /\ UNCHANGED <<provider, descendant, written, readers, pc, deadline, killFailed, result>>

DescendantExits ==
  /\ descendant
  /\ descendant' = FALSE
  /\ UNCHANGED <<provider, child, written, readers, pc, deadline, killFailed, result>>

DeadlinePasses ==
  /\ pc \notin {"spawn", "done"} /\ deadline = "future"
  /\ deadline' = "past"
  /\ UNCHANGED <<process, readers, pc, killFailed, result>>

-----------------------------------------------------------------------------
(* The reader threads.                                                     *)

\* read returns some of the bytes in the pipe.
Read(s) ==
  /\ reader[s] = "read" /\ taken[s] < written[s]
  /\ \E n \in 1..(written[s] - taken[s]) :
       /\ chunk' = [chunk EXCEPT ![s] = n]
       /\ taken' = [taken EXCEPT ![s] = @ + n]
  /\ reader' = [reader EXCEPT ![s] = "load"]
  /\ UNCHANGED <<process, seen, bytes, captured, exceeded, pc, deadline, killFailed, result>>

\* End of file: nobody holds the other end of the pipe.
EndOfPipe(s) ==
  /\ reader[s] = "read"
  /\ ~PipesOpen /\ taken[s] = written[s]
  /\ reader' = [reader EXCEPT ![s] = "done"]
  /\ UNCHANGED <<process, taken, chunk, seen, bytes, captured, exceeded, pc, deadline, killFailed,
                 result>>

PipeFails(s) ==
  /\ reader[s] = "read"
  /\ reader' = [reader EXCEPT ![s] = "failed"]
  /\ UNCHANGED <<process, taken, chunk, seen, bytes, captured, exceeded, pc, deadline, killFailed,
                 result>>

Load(s) ==
  /\ reader[s] = "load"
  /\ seen' = [seen EXCEPT ![s] = captured]
  /\ reader' = [reader EXCEPT ![s] = "reserve"]
  /\ UNCHANGED <<process, taken, chunk, bytes, captured, exceeded, pc, deadline, killFailed,
                 result>>

\* Mutant: the counter is stored without a comparison.
ReserveStores(s) ==
  /\ reader[s] = "reserve"
  /\ IF seen[s] + chunk[s] > Capacity
     THEN /\ exceeded' = TRUE
          /\ reader' = [reader EXCEPT ![s] = "done"]
          /\ UNCHANGED <<captured, bytes, seen, chunk>>
     ELSE /\ captured' = seen[s] + chunk[s]
          /\ bytes' = [bytes EXCEPT ![s] = @ + chunk[s]]
          /\ chunk' = [chunk EXCEPT ![s] = 0]
          /\ seen' = [seen EXCEPT ![s] = 0]
          /\ reader' = [reader EXCEPT ![s] = "read"]
          /\ UNCHANGED exceeded
  /\ UNCHANGED <<process, taken, pc, deadline, killFailed, result>>

\* reserve_captured_bytes past its load: give up when the chunk does not fit,
\* else compare and exchange, with a fresh value when that fails.  Then the
\* reader keeps the chunk, unless its buffer cannot grow.
Reserve(s) ==
  /\ reader[s] = "reserve"
  /\ \/ /\ seen[s] + chunk[s] > Capacity
        /\ exceeded' = TRUE
        /\ reader' = [reader EXCEPT ![s] = "done"]
        /\ UNCHANGED <<captured, bytes, seen, chunk>>
     \/ /\ seen[s] + chunk[s] <= Capacity /\ captured = seen[s]
        /\ captured' = seen[s] + chunk[s]
        /\ bytes' = [bytes EXCEPT ![s] = @ + chunk[s]]
        /\ chunk' = [chunk EXCEPT ![s] = 0]
        /\ seen' = [seen EXCEPT ![s] = 0]
        /\ reader' = [reader EXCEPT ![s] = "read"]
        /\ UNCHANGED exceeded
     \/ /\ seen[s] + chunk[s] <= Capacity /\ captured = seen[s]
        /\ captured' = seen[s] + chunk[s]
        /\ reader' = [reader EXCEPT ![s] = "failed"]
        /\ UNCHANGED <<bytes, seen, chunk, exceeded>>
     \/ /\ seen[s] + chunk[s] <= Capacity /\ captured # seen[s]
        /\ seen' = [seen EXCEPT ![s] = captured]
        /\ UNCHANGED <<captured, bytes, chunk, reader, exceeded>>
  /\ UNCHANGED <<process, taken, pc, deadline, killFailed, result>>

ReaderStep(s) == Read(s) \/ EndOfPipe(s) \/ Load(s) \/ Reserve(s)

-----------------------------------------------------------------------------
(* The caller.                                                             *)

Return(r) ==
  /\ pc' = "done"
  /\ result' = r

Spawn(ok) ==
  /\ pc = "spawn"
  /\ IF ok THEN child' = "running" /\ pc' = "stdout" /\ UNCHANGED result
     ELSE Return("error") /\ UNCHANGED child
  /\ UNCHANGED <<provider, descendant, written, readers, deadline, killFailed>>

\* Mutant: the child is killed but not waited for.
TerminateWithoutReaping(killed, r) ==
  /\ child' = IF killed THEN "exited" ELSE child
  /\ killFailed' = ~killed
  /\ Return(r)

\* terminate_and_reap, and the call ends: kill, and wait unless the kill failed.
\* libvirt waits for the child even then.
TerminateAndReap(killed, r) ==
  /\ killFailed' = ~killed
  /\ \/ killed /\ child' = "reaped" /\ Return(r)
     \/ ~killed /\ provider # "libvirt" /\ Return(r) /\ UNCHANGED child
     \/ ~killed /\ provider = "libvirt" /\ pc' = "reap" /\ result' = r /\ UNCHANGED child

Reap ==
  /\ pc = "reap" /\ child = "exited"
  /\ child' = "reaped"
  /\ pc' = "done"
  /\ UNCHANGED <<provider, descendant, written, readers, deadline, killFailed, result>>

\* A reader thread is started.  When that fails, libvirt returns at once.
StartReader(s, ok, killed) ==
  /\ pc = s
  /\ \/ /\ ok
        /\ reader' = [reader EXCEPT ![s] = "read"]
        /\ pc' = IF s = "stdout" THEN "stderr" ELSE "poll"
        /\ UNCHANGED <<child, killFailed, result>>
     \/ /\ ~ok /\ provider = "libvirt"
        /\ Return("error")
        /\ UNCHANGED <<reader, child, killFailed>>
     \/ /\ ~ok /\ provider # "libvirt"
        /\ TerminateAndReap(killed, "error")
        /\ UNCHANGED reader
  /\ UNCHANGED <<provider, descendant, written, taken, chunk, seen, bytes, captured, exceeded, deadline>>

\* Mutant: the polling loop does not look at the deadline.
PollWithoutDeadline(killed) ==
  /\ pc = "poll"
  /\ \/ /\ child = "exited"
        /\ child' = "reaped"
        /\ pc' = "joinout"
        /\ UNCHANGED <<killFailed, result>>
     \/ /\ child # "exited" /\ exceeded
        /\ TerminateAndReap(killed, "exceeded")
  /\ UNCHANGED <<provider, descendant, written, readers, deadline>>

\* A turn of the polling loop: try_wait, the budget, the deadline.
Poll(killed) ==
  /\ pc = "poll"
  /\ \/ /\ child = "exited"
        /\ child' = "reaped"
        /\ pc' = "joinout"
        /\ UNCHANGED <<killFailed, result>>
     \/ /\ child # "exited" /\ exceeded
        /\ TerminateAndReap(killed, "exceeded")
     \/ /\ child # "exited" /\ ~exceeded /\ deadline = "past"
        /\ TerminateAndReap(killed, "timeout")
  /\ UNCHANGED <<provider, descendant, written, readers, deadline>>

\* try_wait fails.
WaitFails(killed) ==
  /\ pc = "poll"
  /\ TerminateAndReap(killed, "error")
  /\ UNCHANGED <<provider, descendant, written, readers, deadline>>

\* join blocks until the reader thread has ended.
Join(s) ==
  /\ pc = (IF s = "stdout" THEN "joinout" ELSE "joinerr")
  /\ \/ /\ reader[s] = "failed"
        /\ Return("error")
     \/ /\ reader[s] = "done"
        /\ pc' = IF s = "stdout" THEN "joinerr" ELSE "check"
        /\ UNCHANGED result
  /\ UNCHANGED <<process, readers, deadline, killFailed>>

\* The budget again, for a child that exited before the flag was seen.
Check ==
  /\ pc = "check"
  /\ Return(IF \/ exceeded
               \/ provider # "libvirt" /\ bytes["stdout"] + bytes["stderr"] > Capacity
            THEN "exceeded" ELSE "ok")
  /\ UNCHANGED <<process, readers, deadline, killFailed>>

Caller ==
  \/ \E ok \in BOOLEAN : Spawn(ok)
  \/ \E ok, killed \in BOOLEAN, s \in Streams : StartReader(s, ok, killed)
  \/ \E killed \in BOOLEAN : Poll(killed)
  \/ Reap
  \/ \E s \in Streams : Join(s)
  \/ Check

Next ==
  \/ Caller
  \/ \E killed \in BOOLEAN : WaitFails(killed)
  \/ \E s \in Streams : ReaderStep(s) \/ PipeFails(s) \/ Write(s)
  \/ Fork \/ Exit \/ DescendantExits \/ DeadlinePasses

Spec == Init /\ [][Next]_vars

\* The caller's thread and the reader threads run, and time passes.  The child
\* and its descendant may live as long as they like, and no system call has to
\* fail.
FairSpec ==
  /\ Spec
  /\ WF_vars(Caller)
  /\ WF_vars(DeadlinePasses)
  /\ \A s \in Streams : WF_vars(ReaderStep(s))

-----------------------------------------------------------------------------
(* Properties.                                                             *)

\* Every variable has its type; the shared counter stays within the budget.
TypeOK ==
  /\ provider \in Providers
  /\ child \in {"none", "running", "exited", "reaped"}
  /\ descendant \in BOOLEAN
  /\ written \in [Streams -> 0..MaxOutput] /\ taken \in [Streams -> 0..MaxOutput]
  /\ reader \in [Streams -> {"none", "read", "load", "reserve", "done", "failed"}]
  /\ chunk \in [Streams -> Nat] /\ seen \in [Streams -> Nat] /\ bytes \in [Streams -> Nat]
  /\ captured \in 0..Capacity
  /\ exceeded \in BOOLEAN
  /\ pc \in {"spawn", "stdout", "stderr", "poll", "reap", "joinout", "joinerr", "check",
            "done"}
  /\ deadline \in {"future", "past"}
  /\ killFailed \in BOOLEAN
  /\ result \in {"none", "ok", "error", "exceeded", "timeout"}

\* What both readers keep is within the one budget, and the counter is exact
\* (unless a reader failed with a chunk it had reserved), however their loads
\* and exchanges interleave.  Output that is accepted is not truncated: a call
\* that succeeds returns every byte that went into the pipes while they were
\* open.
OutputExact ==
  LET kept == bytes["stdout"] + bytes["stderr"]
  IN  /\ kept <= captured /\ captured <= Capacity
      /\ (\A s \in Streams : reader[s] # "failed") => captured = kept
      /\ result = "ok" => bytes = written

\* A call that is over has reaped its child, unless the child could not be
\* killed, or libvirt could not start a reader for it.
ChildReaped ==
  /\ pc = "done" /\ ~killFailed
  /\ provider = "libvirt" => reader["stderr"] # "none"
  => child \in {"none", "reaped"}

\* The call ends, whatever the child writes and however long it would run.  It
\* can hang in two ways only: a descendant keeps a pipe open for ever, or libvirt
\* waits for a child that it could not kill and that does not end.
CallEnds ==
  \/ <>(pc = "done")
  \/ <>[]descendant
  \/ <>[](provider = "libvirt" /\ killFailed /\ child = "running")

=============================================================================
