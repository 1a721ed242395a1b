--------------------------- MODULE SnapshotHandles ---------------------------
(***************************************************************************)
(* The handle table of crates/vmi-ffi.  C callers on several threads open  *)
(* artifacts, read through opaque tokens and close them, in any order and  *)
(* with tokens that are stale, closed or made up.  The table is a map from *)
(* tokens to reference-counted snapshots behind one mutex; a reader clones *)
(* the reference under the mutex and uses it outside.                      *)
(*                                                                         *)
(* A bundle is named by the number of the open that parsed it.             *)
(***************************************************************************)
EXTENDS Naturals, FiniteSets

CONSTANTS Threads,
          None,
          LastToken,  \* the last value of the token counter, usize::MAX
          MaxOpens    \* bound on the artifacts opened

ASSUME HandleAssumption ==
  /\ LastToken \in Nat \ {0}
  /\ MaxOpens \in Nat
  /\ None \notin Nat
  /\ IsFiniteSet(Threads)

\* What a caller may pass as a handle; 0 is the null pointer.
Handle == 0..LastToken
Token == 1..LastToken
Bundle == 1..MaxOpens

VARIABLES
  live,    \* LIVE_SNAPSHOTS, None where there is no entry
  next,    \* NEXT_SNAPSHOT
  opens,   \* artifacts parsed so far
  pc,      \* where each thread is
  held,    \* the bundle it has parsed, or whose reference it has cloned
  handle,  \* the handle it was called with
  refs,    \* the strong count of each bundle
  issued,  \* the bundles that were ever issued under a token
  closed   \* how often a token was closed successfully

vars == <<live, next, opens, pc, held, handle, refs, issued, closed>>

Init ==
  /\ live = [h \in Token |-> None]
  /\ next = 1
  /\ opens = 0
  /\ pc = [t \in Threads |-> "idle"]
  /\ held = [t \in Threads |-> None]
  /\ handle = [t \in Threads |-> 0]
  /\ refs = [b \in Bundle |-> 0]
  /\ issued = [h \in Token |-> {}]
  /\ closed = [h \in Token |-> 0]

\* vmi_snapshot_open up to the lock: the artifact is parsed.  (A file that does
\* not parse changes nothing.)
Parse(t) ==
  /\ pc[t] = "idle"
  /\ opens < MaxOpens
  /\ opens' = opens + 1
  /\ held' = [held EXCEPT ![t] = opens + 1]
  /\ refs' = [refs EXCEPT ![opens + 1] = 1]
  /\ pc' = [pc EXCEPT ![t] = "parsed"]
  /\ UNCHANGED <<live, next, handle, issued, closed>>

\* Mutant: the counter wraps around.
SuccessorWraps(n) == IF n = LastToken THEN 1 ELSE n + 1

\* next_snapshot_token: the counter stays at its last value, which is not issued.
Successor(n) == IF n = LastToken THEN None ELSE n + 1

\* The rest of vmi_snapshot_open, in the mutex: a token and an entry for the
\* bundle, which is dropped when the table cannot grow or the tokens are used up.
Register(t, grows) ==
  /\ pc[t] = "parsed"
  /\ IF grows /\ Successor(next) # None
     THEN /\ live' = [live EXCEPT ![next] = held[t]]
          /\ issued' = [issued EXCEPT ![next] = @ \cup {held[t]}]
          /\ next' = Successor(next)
          /\ UNCHANGED refs
     ELSE /\ refs' = [refs EXCEPT ![held[t]] = @ - 1]
          /\ UNCHANGED <<live, next, issued>>
  /\ held' = [held EXCEPT ![t] = None]
  /\ pc' = [pc EXCEPT ![t] = "idle"]
  /\ UNCHANGED <<opens, handle, closed>>

Live(h) == h \in Token /\ live[h] # None

\* Mutant: the reference is used without being cloned.
LookupBorrows(t, h) ==
  /\ pc[t] = "idle"
  /\ Live(h)
  /\ held' = [held EXCEPT ![t] = live[h]]
  /\ handle' = [handle EXCEPT ![t] = h]
  /\ pc' = [pc EXCEPT ![t] = "using"]
  /\ UNCHANGED <<live, next, opens, refs, issued, closed>>

\* validate_snapshot, for a read, a segment count or a segment.  A handle that
\* is not live is rejected, and nothing changes.
Lookup(t, h) ==
  /\ pc[t] = "idle"
  /\ Live(h)
  /\ held' = [held EXCEPT ![t] = live[h]]
  /\ handle' = [handle EXCEPT ![t] = h]
  /\ refs' = [refs EXCEPT ![live[h]] = @ + 1]
  /\ pc' = [pc EXCEPT ![t] = "using"]
  /\ UNCHANGED <<live, next, opens, issued, closed>>

\* The operation has read from the bundle, and the clone is dropped.
Release(t) ==
  /\ pc[t] = "using"
  /\ refs' = [refs EXCEPT ![held[t]] = @ - 1]
  /\ held' = [held EXCEPT ![t] = None]
  /\ handle' = [handle EXCEPT ![t] = 0]
  /\ pc' = [pc EXCEPT ![t] = "idle"]
  /\ UNCHANGED <<live, next, opens, issued, closed>>

\* Mutant: the handle is looked up in one critical section and removed in
\* another, with what was found dropped in any case.
CloseKeepsEntry(t, h) ==
  /\ pc[t] = "idle"
  /\ Live(h)
  /\ refs' = [refs EXCEPT ![live[h]] = @ - 1]
  /\ closed' = [closed EXCEPT ![h] = @ + 1]
  /\ UNCHANGED <<live, next, opens, pc, held, handle, issued>>

\* vmi_snapshot_close.  Null is accepted and a handle that is not live rejected;
\* neither changes anything.
Close(t, h) ==
  /\ pc[t] = "idle"
  /\ Live(h)
  /\ refs' = [refs EXCEPT ![live[h]] = @ - 1]
  /\ live' = [live EXCEPT ![h] = None]
  /\ closed' = [closed EXCEPT ![h] = @ + 1]
  /\ UNCHANGED <<next, opens, pc, held, handle, issued>>

Next ==
  \E t \in Threads :
    \/ Parse(t)
    \/ \E grows \in BOOLEAN : Register(t, grows)
    \/ \E h \in Handle : Lookup(t, h) \/ Close(t, h)
    \/ Release(t)

Spec == Init /\ [][Next]_vars

-----------------------------------------------------------------------------
(* Properties.                                                             *)

\* Every variable has its type: references are never dropped twice, and the
\* token counter stops at its last value.
TypeOK ==
  /\ live \in [Token -> Bundle \cup {None}]
  /\ next \in Token
  /\ opens \in 0..MaxOpens
  /\ pc \in [Threads -> {"idle", "parsed", "using"}]
  /\ held \in [Threads -> Bundle \cup {None}]
  /\ handle \in [Threads -> Handle]
  /\ refs \in [Bundle -> Nat]
  /\ issued \in [Token -> SUBSET Bundle]
  /\ closed \in [Token -> Nat]

\* A token stands for one bundle for good: what a thread reads through a handle
\* is the only bundle that was ever issued under it, also while other threads
\* close that handle and open others.
ReadsOwnArtifact ==
  \A t \in Threads : pc[t] = "using" => issued[handle[t]] = {held[t]}

\* A token is closed once, whatever threads race for it, and a closed token is
\* never live again: stale handles are rejected.
ClosedForGood == \A h \in Token : closed[h] <= 1 /\ (closed[h] = 1 => live[h] = None)

\* A bundle's references are the table's and those of the threads that hold it,
\* so that it is not freed under a thread that uses it, and is freed as soon as
\* its handle is closed and nobody uses it.
ReferencesExact ==
  \A b \in Bundle :
    refs[b] = Cardinality({h \in Token : live[h] = b})
              + Cardinality({t \in Threads : held[t] = b})

=============================================================================
