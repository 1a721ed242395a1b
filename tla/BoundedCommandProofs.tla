------------------------ MODULE BoundedCommandProofs ------------------------
(***************************************************************************)
(* Proofs about BoundedCommand, for every budget and every amount of       *)
(* output.  OutputExact and ChildReaped are not inductive: the first needs *)
(* to know what a reader holds at each place of its loop and that a pipe   *)
(* which everybody has closed stays closed, the second where the caller is *)
(* when it has reaped.                                                     *)
(***************************************************************************)
EXTENDS BoundedCommand, TLAPS

\* What a reader has taken from its pipe is what it has kept and the chunk it
\* holds.  One that is done has seen the end of a pipe that nobody can write to
\* any more, or has raised the flag.
ReaderState ==
  \A s \in Streams :
    /\ taken[s] <= written[s]
    /\ reader[s] \in {"none", "read"} => taken[s] = bytes[s]
    /\ reader[s] \in {"load", "reserve"} => taken[s] = bytes[s] + chunk[s]
    /\ reader[s] = "done" => exceeded \/ (~PipesOpen /\ bytes[s] = written[s])

\* The shared counter against what the readers keep.
Budget ==
  /\ bytes["stdout"] + bytes["stderr"] <= captured
  /\ (\A s \in Streams : reader[s] # "failed") =>
       captured = bytes["stdout"] + bytes["stderr"]

\* What the caller knows at each place: which readers run, which have ended, and
\* whether the child is reaped.
CallerState ==
  /\ pc = "spawn" => child = "none" /\ ~descendant
  /\ pc \in {"spawn", "stdout"} => reader["stdout"] = "none"
  /\ pc \in {"spawn", "stdout", "stderr"} => reader["stderr"] = "none"
  /\ pc \in {"joinerr", "check"} => reader["stdout"] = "done"
  /\ pc = "check" => reader["stderr"] = "done"
  /\ pc \in {"joinout", "joinerr", "check"} => child = "reaped"

\* How the call may have ended.
Outcome ==
  /\ result = "ok" =>
       /\ pc = "done" /\ ~exceeded
       /\ \A s \in Streams : reader[s] = "done"
  /\ pc = "reap" => killFailed
  /\ ChildReaped

\* The parts of the type invariant that are Boolean, and the others.
FlagTypes == descendant \in BOOLEAN /\ exceeded \in BOOLEAN /\ killFailed \in BOOLEAN

DataTypes ==
  /\ provider \in Providers
  /\ child \in {"none", "running", "exited", "reaped"}
  /\ written \in [Streams -> 0..MaxOutput] /\ taken \in [Streams -> 0..MaxOutput]
  /\ reader \in [Streams -> {"none", "read", "load", "reserve", "done", "failed"}]
  /\ chunk \in [Streams -> Nat] /\ seen \in [Streams -> Nat] /\ bytes \in [Streams -> Nat]
  /\ captured \in 0..Capacity
  /\ pc \in {"spawn", "stdout", "stderr", "poll", "reap", "joinout", "joinerr", "check",
            "done"}
  /\ deadline \in {"future", "past"}
  /\ result \in {"none", "ok", "error", "exceeded", "timeout"}

CommandInv == TypeOK /\ ReaderState /\ Budget /\ CallerState /\ Outcome


\* Before the child is spawned nothing has been read or kept.
LEMMA InitCommand == Init => CommandInv
<1> SUFFICES ASSUME Init PROVE CommandInv
  OBVIOUS
<1>1. TypeOK
  <2>1. FlagTypes
    BY Zenon DEF Init, FlagTypes
  <2>2. DataTypes
    BY CommandAssumption DEF Init, DataTypes, Zero, Streams
  <2>3. QED
    BY <2>1, <2>2 DEF TypeOK, FlagTypes, DataTypes
<1>2. ReaderState /\ Budget
  BY DEF Init, ReaderState, Budget, Zero, Streams
<1>3. CallerState /\ Outcome
  BY DEF Init, CallerState, Outcome, ChildReaped, Streams
<1>4. QED
  BY <1>1, <1>2, <1>3 DEF CommandInv

-----------------------------------------------------------------------------
(* The child, its descendant and the clock.                                *)

\* A pipe that somebody writes to has no reader that saw its end.
LEMMA WriteKeeps == ASSUME NEW s \in Streams PROVE CommandInv /\ Write(s) => CommandInv'
<1> SUFFICES ASSUME CommandInv, Write(s) PROVE CommandInv'
  OBVIOUS
<1>1. TypeOK'
  BY CommandAssumption DEF CommandInv, TypeOK, Write, readers
<1>2. ReaderState'
  BY CommandAssumption DEF CommandInv, TypeOK, ReaderState, PipesOpen, Write, readers, Streams
<1>3. Budget' /\ CallerState' /\ Outcome'
  BY DEF CommandInv, Budget, CallerState, Outcome, ChildReaped, Write, readers
<1>4. QED
  BY <1>1, <1>2, <1>3 DEF CommandInv

\* Processes come and go, and only a running child opens a pipe again.
LEMMA ProcessKeeps == CommandInv /\ (Fork \/ Exit \/ DescendantExits) => CommandInv'
<1> SUFFICES ASSUME CommandInv, Fork \/ Exit \/ DescendantExits PROVE CommandInv'
  OBVIOUS
<1>1. TypeOK'
  <2>1. FlagTypes'
    BY Zenon DEF CommandInv, TypeOK, FlagTypes, Fork, Exit, DescendantExits, readers
  <2>2. DataTypes'
    BY DEF CommandInv, TypeOK, DataTypes, Fork, Exit, DescendantExits, readers
  <2>3. QED
    BY <2>1, <2>2 DEF TypeOK, FlagTypes, DataTypes
<1>2. ReaderState' /\ Budget'
  BY DEF CommandInv, ReaderState, Budget, PipesOpen, Fork, Exit, DescendantExits, readers
<1>3. CallerState' /\ Outcome'
  BY DEF CommandInv, CallerState, Outcome, ChildReaped, Fork, Exit, DescendantExits, readers
<1>4. QED
  BY <1>1, <1>2, <1>3 DEF CommandInv

\* The passing of the deadline concerns nobody but the polling loop.
LEMMA DeadlineKeeps == CommandInv /\ DeadlinePasses => CommandInv'
<1> SUFFICES ASSUME CommandInv, DeadlinePasses PROVE CommandInv'
  OBVIOUS
<1>1. TypeOK'
  BY DEF CommandInv, TypeOK, DeadlinePasses, process, readers
<1>2. ReaderState' /\ Budget'
  BY DEF CommandInv, ReaderState, Budget, PipesOpen, DeadlinePasses, process, readers
<1>3. CallerState' /\ Outcome'
  BY DEF CommandInv, CallerState, Outcome, ChildReaped, DeadlinePasses, process, readers
<1>4. QED
  BY <1>1, <1>2, <1>3 DEF CommandInv

-----------------------------------------------------------------------------
(* The readers.                                                            *)

\* A chunk is held, not yet kept.
LEMMA ReadKeeps == ASSUME NEW s \in Streams PROVE CommandInv /\ Read(s) => CommandInv'
<1> SUFFICES ASSUME CommandInv, Read(s) PROVE CommandInv'
  OBVIOUS
<1>1. PICK n \in 1..(written[s] - taken[s]) :
        /\ chunk' = [chunk EXCEPT ![s] = n]
        /\ taken' = [taken EXCEPT ![s] = @ + n]
  BY DEF Read
<1>2. n \in Nat /\ taken[s] + n \in 0..MaxOutput /\ taken[s] + n <= written[s]
  BY <1>1, CommandAssumption DEF CommandInv, TypeOK
<1>3. TypeOK'
  BY <1>1, <1>2 DEF CommandInv, TypeOK, Read, process
<1>4. ReaderState'
  BY <1>1, <1>2 DEF CommandInv, TypeOK, ReaderState, PipesOpen, Read, process
<1>5. Budget'
  BY DEF CommandInv, TypeOK, Budget, Read
<1>6. CallerState' /\ Outcome'
  BY DEF CommandInv, TypeOK, CallerState, Outcome, ChildReaped, Read, process, Streams
<1>7. QED
  BY <1>3, <1>4, <1>5, <1>6 DEF CommandInv

\* A reader ends at a closed pipe with everything kept, or fails.
LEMMA EndKeeps ==
  ASSUME NEW s \in Streams PROVE CommandInv /\ (EndOfPipe(s) \/ PipeFails(s)) => CommandInv'
<1> SUFFICES ASSUME CommandInv, EndOfPipe(s) \/ PipeFails(s) PROVE CommandInv'
  OBVIOUS
<1>1. TypeOK'
  BY DEF CommandInv, TypeOK, EndOfPipe, PipeFails, process
<1>2. ReaderState'
  BY DEF CommandInv, TypeOK, ReaderState, PipesOpen, EndOfPipe, PipeFails, process
<1>3. Budget'
  BY DEF CommandInv, TypeOK, Budget, EndOfPipe, PipeFails
<1>4. CallerState' /\ Outcome'
  BY DEF CommandInv, TypeOK, CallerState, Outcome, ChildReaped, EndOfPipe, PipeFails, process,
         Streams
<1>5. QED
  BY <1>1, <1>2, <1>3, <1>4 DEF CommandInv

\* The counter is loaded, and may be out of date at once.
LEMMA LoadKeeps == ASSUME NEW s \in Streams PROVE CommandInv /\ Load(s) => CommandInv'
<1> SUFFICES ASSUME CommandInv, Load(s) PROVE CommandInv'
  OBVIOUS
<1>1. TypeOK'
  BY CommandAssumption DEF CommandInv, TypeOK, Load, process
<1>2. ReaderState' /\ Budget'
  BY DEF CommandInv, TypeOK, ReaderState, Budget, PipesOpen, Load, process
<1>3. CallerState' /\ Outcome'
  BY DEF CommandInv, TypeOK, CallerState, Outcome, ChildReaped, Load, process, Streams
<1>4. QED
  BY <1>1, <1>2, <1>3 DEF CommandInv

\* The exchange succeeds only if the counter is the one that was loaded, so that
\* counter and buffers grow by the same amount.
LEMMA ReserveKeeps == ASSUME NEW s \in Streams PROVE CommandInv /\ Reserve(s) => CommandInv'
<1> SUFFICES ASSUME CommandInv, Reserve(s) PROVE CommandInv'
  OBVIOUS
<1>1. TypeOK'
  <2>1. FlagTypes'
    BY Zenon DEF CommandInv, TypeOK, FlagTypes, Reserve, process
  <2>2. DataTypes'
    BY CommandAssumption DEF CommandInv, TypeOK, DataTypes, Reserve, process
  <2>3. QED
    BY <2>1, <2>2 DEF TypeOK, FlagTypes, DataTypes
<1>2. ReaderState'
  BY DEF CommandInv, TypeOK, ReaderState, PipesOpen, Reserve, process
<1>3. Budget'
  BY CommandAssumption DEF CommandInv, TypeOK, Budget, Reserve, Streams
<1>4. CallerState' /\ Outcome'
  BY DEF CommandInv, TypeOK, CallerState, Outcome, ChildReaped, Reserve, process, Streams
<1>5. QED
  BY <1>1, <1>2, <1>3, <1>4 DEF CommandInv

-----------------------------------------------------------------------------
(* The caller.                                                             *)

\* Before the child there is nothing to reap.
LEMMA SpawnKeeps == ASSUME NEW ok \in BOOLEAN PROVE CommandInv /\ Spawn(ok) => CommandInv'
<1> SUFFICES ASSUME CommandInv, Spawn(ok) PROVE CommandInv'
  OBVIOUS
<1>1. TypeOK'
  BY DEF CommandInv, TypeOK, Spawn, Return, readers
<1>2. ReaderState' /\ Budget'
  BY DEF CommandInv, CallerState, ReaderState, Budget, PipesOpen, Spawn, Return, readers, Streams
<1>3. CallerState' /\ Outcome'
  BY DEF CommandInv, CallerState, Outcome, ChildReaped, Spawn, Return, readers, Streams
<1>4. QED
  BY <1>1, <1>2, <1>3 DEF CommandInv

\* A reader is started where none was; where that fails, only libvirt leaves
\* its child, and then without a reader for stderr.
LEMMA StartReaderKeeps ==
  ASSUME NEW s \in Streams, NEW ok \in BOOLEAN, NEW killed \in BOOLEAN
  PROVE  CommandInv /\ StartReader(s, ok, killed) => CommandInv'
<1> SUFFICES ASSUME CommandInv, StartReader(s, ok, killed) PROVE CommandInv'
  OBVIOUS
<1>1. TypeOK'
  BY DEF CommandInv, TypeOK, StartReader, TerminateAndReap, Return
<1>2. ReaderState'
  BY DEF CommandInv, TypeOK, CallerState, ReaderState, PipesOpen, StartReader, TerminateAndReap,
         Return, Streams
<1>3. Budget'
  BY DEF CommandInv, TypeOK, CallerState, Budget, StartReader, Streams
<1>4. CallerState' /\ Outcome'
  BY DEF CommandInv, TypeOK, CallerState, Outcome, ChildReaped, StartReader, TerminateAndReap,
         Return, Streams
<1>5. QED
  BY <1>1, <1>2, <1>3, <1>4 DEF CommandInv

\* The polling loop ends with the child reaped, killed and reaped, or not killed.
LEMMA PollKeeps ==
  ASSUME NEW killed \in BOOLEAN
  PROVE  CommandInv /\ (Poll(killed) \/ WaitFails(killed)) => CommandInv'
<1> SUFFICES ASSUME CommandInv, Poll(killed) \/ WaitFails(killed) PROVE CommandInv'
  OBVIOUS
<1>1. TypeOK'
  BY DEF CommandInv, TypeOK, Poll, WaitFails, TerminateAndReap, Return, readers
<1>2. ReaderState' /\ Budget'
  BY DEF CommandInv, ReaderState, Budget, PipesOpen, Poll, WaitFails, TerminateAndReap, Return,
         readers
<1>3. CallerState' /\ Outcome'
  BY DEF CommandInv, CallerState, Outcome, ChildReaped, Poll, WaitFails, TerminateAndReap, Return,
         readers
<1>4. QED
  BY <1>1, <1>2, <1>3 DEF CommandInv

\* libvirt waits for a child that it could not kill.
LEMMA ReapKeeps == CommandInv /\ Reap => CommandInv'
<1> SUFFICES ASSUME CommandInv, Reap PROVE CommandInv'
  OBVIOUS
<1>1. TypeOK'
  BY DEF CommandInv, TypeOK, Reap, readers
<1>2. ReaderState' /\ Budget'
  BY DEF CommandInv, ReaderState, Budget, PipesOpen, Reap, readers
<1>3. CallerState' /\ Outcome'
  BY DEF CommandInv, CallerState, Outcome, ChildReaped, Reap, readers
<1>4. QED
  BY <1>1, <1>2, <1>3 DEF CommandInv

\* A join tells that a reader has ended.
LEMMA JoinKeeps == ASSUME NEW s \in Streams PROVE CommandInv /\ Join(s) => CommandInv'
<1> SUFFICES ASSUME CommandInv, Join(s) PROVE CommandInv'
  OBVIOUS
<1>1. TypeOK'
  BY DEF CommandInv, TypeOK, Join, Return, process, readers
<1>2. ReaderState' /\ Budget'
  BY DEF CommandInv, ReaderState, Budget, PipesOpen, Join, Return, process, readers
<1>3. CallerState' /\ Outcome'
  BY DEF CommandInv, CallerState, Outcome, ChildReaped, Join, Return, process, readers, Streams
<1>4. QED
  BY <1>1, <1>2, <1>3 DEF CommandInv

\* The flag is looked at after both readers have ended.
LEMMA CheckKeeps == CommandInv /\ Check => CommandInv'
<1> SUFFICES ASSUME CommandInv, Check PROVE CommandInv'
  OBVIOUS
<1>1. TypeOK'
  BY DEF CommandInv, TypeOK, Check, Return, process, readers
<1>2. ReaderState' /\ Budget'
  BY DEF CommandInv, ReaderState, Budget, PipesOpen, Check, Return, process, readers
<1>3. CallerState' /\ Outcome'
  BY DEF CommandInv, TypeOK, CallerState, Outcome, ChildReaped, Check, Return, process, readers,
         Streams
<1>4. QED
  BY <1>1, <1>2, <1>3 DEF CommandInv

-----------------------------------------------------------------------------
\* Every step of the command keeps the invariant.
LEMMA NextKeeps == CommandInv /\ [Next]_vars => CommandInv'
<1> SUFFICES ASSUME CommandInv, [Next]_vars PROVE CommandInv'
  OBVIOUS
<1>1. CASE Caller
  BY <1>1, SpawnKeeps, StartReaderKeeps, PollKeeps, ReapKeeps, JoinKeeps, CheckKeeps DEF Caller
<1>2. CASE \E killed \in BOOLEAN : WaitFails(killed)
  BY <1>2, PollKeeps
<1>3. CASE \E s \in Streams : ReaderStep(s) \/ PipeFails(s) \/ Write(s)
  BY <1>3, ReadKeeps, EndKeeps, LoadKeeps, ReserveKeeps, WriteKeeps DEF ReaderStep
<1>4. CASE Fork \/ Exit \/ DescendantExits \/ DeadlinePasses
  BY <1>4, ProcessKeeps, DeadlineKeeps
<1>5. CASE UNCHANGED vars
  <2>1. TypeOK'
    BY <1>5 DEF CommandInv, TypeOK, vars, process, readers
  <2>2. ReaderState' /\ Budget'
    BY <1>5 DEF CommandInv, ReaderState, Budget, PipesOpen, vars, process, readers
  <2>3. CallerState' /\ Outcome'
    BY <1>5 DEF CommandInv, CallerState, Outcome, ChildReaped, vars, process, readers
  <2>4. QED
    BY <2>1, <2>2, <2>3 DEF CommandInv
<1>6. QED
  BY <1>1, <1>2, <1>3, <1>4, <1>5 DEF Next

\* Every reachable state of a command satisfies the invariant.
LEMMA CommandInvariant == Spec => []CommandInv
<1>1. QED
  BY InitCommand, NextKeeps, PTL DEF Spec

\* However the two readers interleave their loads and exchanges, what they keep
\* is within the one budget and exactly counted, and a call of
\* run_bounded_command that succeeds returns all that was written.
THEOREM CommandOutputExact == Spec => []OutputExact
<1>1. CommandInv => OutputExact
  <2> SUFFICES ASSUME CommandInv PROVE OutputExact
    OBVIOUS
  <2>1. bytes["stdout"] + bytes["stderr"] <= captured /\ captured <= Capacity
    BY CommandAssumption DEF CommandInv, TypeOK, Budget
  <2>2. result = "ok" => bytes = written
    <3> SUFFICES ASSUME result = "ok" PROVE bytes = written
      OBVIOUS
    <3>1. \A s \in Streams : bytes[s] = written[s]
      BY DEF CommandInv, ReaderState, Outcome
    <3>2. QED
      BY <3>1 DEF CommandInv, TypeOK
  <2>3. QED
    BY <2>1, <2>2 DEF CommandInv, Budget, OutputExact
<1>2. QED
  BY <1>1, CommandInvariant, PTL

\* A call of run_bounded_command that is over has reaped its child, unless the
\* kill failed, or libvirt could not start the reader of stderr.
THEOREM CommandChildReaped == Spec => []ChildReaped
<1>1. CommandInv => ChildReaped
  BY DEF CommandInv, Outcome
<1>2. QED
  BY <1>1, CommandInvariant, PTL

=============================================================================
