---------------------------- MODULE ObjectsProofs ----------------------------
(***************************************************************************)
(* Proofs about three objects that live in one process, each behind a      *)
(* mutex: the handle table of the C interface (SnapshotHandles), for any   *)
(* number of threads and tokens, the manager of memory views               *)
(* (MemoryViews), for every size of its identifier space, and the GDB      *)
(* client (GdbClient), for any number of vCPUs, registers and commands.    *)
(*                                                                         *)
(* The invariant of the table says what the monotonic counter buys: a      *)
(* token at or above the counter has no past, and a live one has exactly   *)
(* one.  Among the views, ViewsTypeOK needs CountMatches (view_count is    *)
(* decremented), and ExhaustedMeansFull needs PassedAreTaken, the loop     *)
(* invariant of create.  Of the GDB client, nothing but the position on    *)
(* the wire ties an answer to its command; the invariant says what that    *)
(* position is as long as no command was cut off: one command at a time is *)
(* under way, and what is on the wire is the rest of its acknowledgement   *)
(* and of its answer.                                                      *)
(***************************************************************************)
EXTENDS SnapshotHandles, MemoryViews, GdbClient, FiniteSetTheorems, SequenceTheorems, TLAPS

-----------------------------------------------------------------------------
(* The handle table.                                                       *)

TableTypes ==
  /\ live \in [Token -> Bundle \cup {None}]
  /\ next \in Token
  /\ opens \in 0..MaxOpens
  /\ pc \in [Threads -> {"idle", "parsed", "using"}]
  /\ held \in [Threads -> Bundle \cup {None}]
  /\ handle \in [Threads -> Handle]
  /\ issued \in [Token -> SUBSET Bundle]
  /\ closed \in [Token -> Nat]

\* A thread past its parse or its lookup holds a bundle.
HoldsBundle == \A t \in Threads : pc[t] # "idle" => held[t] \in Bundle

\* Tokens that the counter has not reached were never used.
FreshTokens ==
  \A h \in Token : h >= next => live[h] = None /\ issued[h] = {} /\ closed[h] = 0

\* A live token was issued once, for the bundle it stands for, and not closed.
LiveTokens ==
  \A h \in Token : live[h] # None => issued[h] = {live[h]} /\ closed[h] = 0

\* A thread uses a bundle through the token that was issued for it.
Users ==
  \A t \in Threads : pc[t] = "using" => handle[t] \in Token /\ issued[handle[t]] = {held[t]}

HandleInv ==
  /\ TableTypes /\ HoldsBundle /\ FreshTokens /\ LiveTokens /\ Users /\ ClosedForGood

\* The empty table satisfies the invariant.
LEMMA InitHandles == Init => HandleInv
<1> SUFFICES ASSUME Init PROVE HandleInv
  OBVIOUS
<1>1. TableTypes
  BY HandleAssumption DEF Init, TableTypes, Token, Handle, Bundle
<1>2. HoldsBundle /\ FreshTokens /\ LiveTokens /\ Users /\ ClosedForGood
  BY HandleAssumption DEF Init, HoldsBundle, FreshTokens, LiveTokens, Users, ClosedForGood,
                          Token
<1>3. QED
  BY <1>1, <1>2 DEF HandleInv

\* Parsing an artifact touches no token.
LEMMA ParseHandles == ASSUME NEW t \in Threads PROVE HandleInv /\ Parse(t) => HandleInv'
<1> SUFFICES ASSUME HandleInv, Parse(t) PROVE HandleInv'
  OBVIOUS
<1>1. opens + 1 \in Bundle /\ opens + 1 \in 0..MaxOpens
  BY HandleAssumption DEF HandleInv, TableTypes, Parse, Bundle
<1>2. TableTypes'
  BY <1>1 DEF HandleInv, TableTypes, Parse
<1>3. HoldsBundle' /\ Users'
  BY <1>1 DEF HandleInv, TableTypes, HoldsBundle, Users, Parse
<1>4. FreshTokens' /\ LiveTokens' /\ ClosedForGood'
  BY DEF HandleInv, FreshTokens, LiveTokens, ClosedForGood, Parse
<1>5. QED
  BY <1>2, <1>3, <1>4 DEF HandleInv

\* The new entry goes to the token under the counter, which has no past.
LEMMA RegisterHandles ==
  ASSUME NEW t \in Threads, NEW grows \in BOOLEAN
  PROVE  HandleInv /\ Register(t, grows) => HandleInv'
<1> SUFFICES ASSUME HandleInv, Register(t, grows) PROVE HandleInv'
  OBVIOUS
<1>0. held[t] \in Bundle /\ held[t] # None
  BY HandleAssumption DEF HandleInv, HoldsBundle, Register, Bundle
<1>1. CASE grows /\ Successor(next) # None
  <2>1. next \in Token /\ next' = next + 1 /\ next' \in Token
    BY <1>1, HandleAssumption DEF HandleInv, TableTypes, Register, Successor, Token
  <2>2. live' = [live EXCEPT ![next] = held[t]] /\ issued' = [issued EXCEPT ![next] = @ \cup {held[t]}]
    BY <1>1 DEF Register
  <2>3. issued[next] = {} /\ closed[next] = 0 /\ live[next] = None
    BY <2>1, HandleAssumption DEF HandleInv, FreshTokens, Token
  <2>4. TableTypes'
    <3>1. issued' \in [Token -> SUBSET Bundle]
      BY <2>1, <2>2, <1>0 DEF HandleInv, TableTypes
    <3>2. QED
      BY <3>1, <2>1, <2>2, <1>0 DEF HandleInv, TableTypes, Register
  <2>5. issued'[next] = {held[t]} /\ live'[next] = held[t]
    BY <2>1, <2>2, <2>3 DEF HandleInv, TableTypes
  <2>6. \A h \in Token : h # next => issued'[h] = issued[h] /\ live'[h] = live[h]
    BY <2>1, <2>2 DEF HandleInv, TableTypes
  <2>7. HoldsBundle'
    BY DEF HandleInv, TableTypes, HoldsBundle, Register
  <2>8. FreshTokens'
    BY <2>1, <2>6, HandleAssumption DEF HandleInv, TableTypes, FreshTokens, Register, Token
  <2>9. LiveTokens'
    BY <2>3, <2>5, <2>6 DEF HandleInv, LiveTokens, Register
  <2>10. Users'
    <3> SUFFICES ASSUME NEW u \in Threads, pc'[u] = "using"
                 PROVE  handle'[u] \in Token /\ issued'[handle'[u]] = {held'[u]}
      BY DEF Users
    <3>1. u # t /\ pc[u] = "using" /\ handle'[u] = handle[u] /\ held'[u] = held[u]
      BY DEF HandleInv, TableTypes, Register
    <3>2. handle[u] \in Token /\ issued[handle[u]] = {held[u]}
      BY <3>1 DEF HandleInv, Users
    <3>3. handle[u] # next
      BY <3>2, <2>3
    <3>4. QED
      BY <3>1, <3>2, <3>3, <2>6
  <2>11. ClosedForGood'
    BY <2>3, <2>5, <2>6 DEF HandleInv, ClosedForGood, Register
  <2>12. QED
    BY <2>4, <2>7, <2>8, <2>9, <2>10, <2>11 DEF HandleInv
<1>2. CASE ~(grows /\ Successor(next) # None)
  <2>1. UNCHANGED <<live, next, issued, closed, handle, opens>>
    BY <1>2 DEF Register
  <2>2. TableTypes' /\ HoldsBundle' /\ Users'
    BY <2>1 DEF HandleInv, TableTypes, HoldsBundle, Users, Register
  <2>3. FreshTokens' /\ LiveTokens' /\ ClosedForGood'
    BY <2>1 DEF HandleInv, FreshTokens, LiveTokens, ClosedForGood
  <2>4. QED
    BY <2>2, <2>3 DEF HandleInv
<1>3. QED
  BY <1>1, <1>2

\* A lookup clones what the token was issued for.
LEMMA LookupHandles ==
  ASSUME NEW t \in Threads, NEW h \in Handle
  PROVE  HandleInv /\ Lookup(t, h) => HandleInv'
<1> SUFFICES ASSUME HandleInv, Lookup(t, h) PROVE HandleInv'
  OBVIOUS
<1>1. h \in Token /\ live[h] \in Bundle /\ issued[h] = {live[h]}
  BY DEF HandleInv, TableTypes, LiveTokens, Lookup, Live
<1>2. TableTypes'
  BY <1>1 DEF HandleInv, TableTypes, Lookup
<1>3. HoldsBundle' /\ Users'
  BY <1>1 DEF HandleInv, TableTypes, HoldsBundle, Users, Lookup
<1>4. FreshTokens' /\ LiveTokens' /\ ClosedForGood'
  BY DEF HandleInv, FreshTokens, LiveTokens, ClosedForGood, Lookup
<1>5. QED
  BY <1>2, <1>3, <1>4 DEF HandleInv

\* Releasing a clone touches no token.
LEMMA ReleaseHandles == ASSUME NEW t \in Threads PROVE HandleInv /\ Release(t) => HandleInv'
<1> SUFFICES ASSUME HandleInv, Release(t) PROVE HandleInv'
  OBVIOUS
<1>1. TableTypes'
  BY HandleAssumption DEF HandleInv, TableTypes, Release, Handle
<1>2. HoldsBundle' /\ Users'
  BY DEF HandleInv, TableTypes, HoldsBundle, Users, Release
<1>3. FreshTokens' /\ LiveTokens' /\ ClosedForGood'
  BY DEF HandleInv, FreshTokens, LiveTokens, ClosedForGood, Release
<1>4. QED
  BY <1>1, <1>2, <1>3 DEF HandleInv

\* The entry goes, and the token below the counter is closed for the first time.
LEMMA CloseHandles ==
  ASSUME NEW t \in Threads, NEW h \in Handle
  PROVE  HandleInv /\ Close(t, h) => HandleInv'
<1> SUFFICES ASSUME HandleInv, Close(t, h) PROVE HandleInv'
  OBVIOUS
<1>1. h \in Token /\ live[h] # None /\ closed[h] = 0
  BY DEF HandleInv, LiveTokens, Close, Live
<1>2. ~(h >= next)
  BY <1>1 DEF HandleInv, FreshTokens
<1>3. /\ live' = [live EXCEPT ![h] = None]
      /\ closed' = [closed EXCEPT ![h] = @ + 1]
      /\ UNCHANGED <<next, opens, pc, held, handle, issued>>
  BY DEF Close
<1>4. live'[h] = None /\ closed'[h] = 1
  BY <1>1, <1>3 DEF HandleInv, TableTypes
<1>5. \A g \in Token : g # h => live'[g] = live[g] /\ closed'[g] = closed[g]
  BY <1>1, <1>3 DEF HandleInv, TableTypes
<1>6. TableTypes'
  BY <1>1, <1>3 DEF HandleInv, TableTypes
<1>7. HoldsBundle' /\ Users'
  BY <1>3 DEF HandleInv, HoldsBundle, Users
<1>8. FreshTokens' /\ LiveTokens'
  BY <1>2, <1>3, <1>4, <1>5 DEF HandleInv, FreshTokens, LiveTokens
<1>9. ClosedForGood'
  BY <1>4, <1>5 DEF HandleInv, ClosedForGood
<1>10. QED
  BY <1>6, <1>7, <1>8, <1>9 DEF HandleInv

\* Every step keeps the invariant.
LEMMA HandlesStep == HandleInv /\ [Next]_vars => HandleInv'
<1> SUFFICES ASSUME HandleInv, [Next]_vars PROVE HandleInv'
  OBVIOUS
<1>1. CASE UNCHANGED vars
  BY <1>1 DEF vars, HandleInv, TableTypes, HoldsBundle, FreshTokens, LiveTokens, Users,
              ClosedForGood
<1>2. CASE Next
  BY <1>2, ParseHandles, RegisterHandles, LookupHandles, ReleaseHandles, CloseHandles DEF Next
<1>3. QED
  BY <1>1, <1>2

\* Whatever C callers do with whatever handles, a read through a handle reads
\* the one artifact that was opened as that handle.
THEOREM HandlesReadOwnArtifact == Spec => []ReadsOwnArtifact
<1>1. HandleInv => ReadsOwnArtifact
  BY DEF HandleInv, Users, ReadsOwnArtifact
<1>2. QED
  BY <1>1, InitHandles, HandlesStep, PTL DEF Spec

\* A handle is closed at most once and is never live again.
THEOREM HandlesClosedForGood == Spec => []ClosedForGood
<1>1. HandleInv => ClosedForGood
  BY DEF HandleInv
<1>2. QED
  BY <1>1, InitHandles, HandlesStep, PTL DEF Spec

-----------------------------------------------------------------------------
(* The reference counts.                                                   *)

Entries(b) == {h \in Token : live[h] = b}
Holders(b) == {t \in Threads : held[t] = b}

\* An idle thread holds nothing: what it held was moved into the table or dropped.
IdleHoldsNothing == \A t \in Threads : pc[t] = "idle" => held[t] = None

\* Nobody refers to a bundle that was not parsed yet.
BundlesOpened ==
  \A b \in Bundle : b > opens => Entries(b) = {} /\ Holders(b) = {}

ReferenceInv ==
  /\ refs \in [Bundle -> Nat] /\ IdleHoldsNothing /\ BundlesOpened /\ ReferencesExact

\* The sizes of two finite sets that differ at most in s.
LEMMA CountUpdate ==
  ASSUME NEW F, IsFiniteSet(F), NEW G, IsFiniteSet(G), NEW s, F \ {s} = G \ {s}
  PROVE  /\ Cardinality(F) \in Nat /\ Cardinality(G) \in Nat
         /\ (s \in F <=> s \in G) => G = F
         /\ s \notin F /\ s \in G => Cardinality(G) = Cardinality(F) + 1
         /\ s \in F /\ s \notin G => Cardinality(F) = Cardinality(G) + 1
<1>1. Cardinality(F) \in Nat /\ Cardinality(G) \in Nat
  BY FS_CardinalityType
<1>2. ASSUME s \in F <=> s \in G PROVE G = F
  BY <1>2
<1>3. ASSUME s \notin F, s \in G PROVE Cardinality(G) = Cardinality(F) + 1
  <2>1. G = F \cup {s}
    BY <1>3
  <2>2. QED
    BY <1>3, <2>1, FS_AddElement
<1>4. ASSUME s \in F, s \notin G PROVE Cardinality(F) = Cardinality(G) + 1
  <2>1. F = G \cup {s}
    BY <1>4
  <2>2. QED
    BY <1>4, <2>1, FS_AddElement
<1>5. QED
  BY <1>1, <1>2, <1>3, <1>4

\* The tokens and the threads are finitely many.
LEMMA FiniteTable == IsFiniteSet(Token) /\ IsFiniteSet(Threads)
<1>1. IsFiniteSet(1..LastToken)
  BY HandleAssumption, FS_Interval
<1>2. QED
  BY <1>1, HandleAssumption DEF Token

\* A reference that is where it was: the count of its bundle is exact as before.
LEMMA SameReferences ==
  ASSUME NEW b \in Bundle, ReferencesExact, refs'[b] = refs[b], Entries(b)' = Entries(b),
         Holders(b)' = Holders(b)
  PROVE  refs'[b] = Cardinality(Entries(b)') + Cardinality(Holders(b)')
BY DEF ReferencesExact, Entries, Holders

\* The entries for a bundle when one entry changes.
LEMMA EntriesUpdate ==
  ASSUME NEW h \in Token, NEW b, \A g \in Token : g # h => live'[g] = live[g]
  PROVE  /\ Cardinality(Entries(b)) \in Nat /\ Cardinality(Entries(b)') \in Nat
         /\ (live[h] = b <=> live'[h] = b) => Entries(b)' = Entries(b)
         /\ live[h] # b /\ live'[h] = b =>
              Cardinality(Entries(b)') = Cardinality(Entries(b)) + 1
         /\ live[h] = b /\ live'[h] # b =>
              Cardinality(Entries(b)) = Cardinality(Entries(b)') + 1
<1>1. /\ Entries(b) \in SUBSET Token /\ Entries(b)' \in SUBSET Token
      /\ h \in Entries(b) <=> live[h] = b
      /\ h \in Entries(b)' <=> live'[h] = b
      /\ Entries(b) \ {h} = Entries(b)' \ {h}
  BY DEF Entries
<1>2. IsFiniteSet(Entries(b)) /\ IsFiniteSet(Entries(b)')
  BY <1>1, FiniteTable, FS_Subset
<1>3. QED
  BY <1>1, <1>2, CountUpdate

\* The holders of a bundle when one thread takes or drops something.
LEMMA HoldersUpdate ==
  ASSUME NEW t \in Threads, NEW b, \A u \in Threads : u # t => held'[u] = held[u]
  PROVE  /\ Cardinality(Holders(b)) \in Nat /\ Cardinality(Holders(b)') \in Nat
         /\ (held[t] = b <=> held'[t] = b) => Holders(b)' = Holders(b)
         /\ held[t] # b /\ held'[t] = b =>
              Cardinality(Holders(b)') = Cardinality(Holders(b)) + 1
         /\ held[t] = b /\ held'[t] # b =>
              Cardinality(Holders(b)) = Cardinality(Holders(b)') + 1
<1>1. /\ Holders(b) \in SUBSET Threads /\ Holders(b)' \in SUBSET Threads
      /\ t \in Holders(b) <=> held[t] = b
      /\ t \in Holders(b)' <=> held'[t] = b
      /\ Holders(b) \ {t} = Holders(b)' \ {t}
  BY DEF Holders
<1>2. IsFiniteSet(Holders(b)) /\ IsFiniteSet(Holders(b)')
  BY <1>1, FiniteTable, FS_Subset
<1>3. QED
  BY <1>1, <1>2, CountUpdate

\* No bundle, no reference.
LEMMA InitReferences == Init => ReferenceInv
<1> SUFFICES ASSUME Init PROVE ReferenceInv
  OBVIOUS
<1>1. \A b \in Bundle : Entries(b) = {} /\ Holders(b) = {}
  BY HandleAssumption DEF Init, Entries, Holders, Bundle
<1>2. ReferencesExact
  BY <1>1, FS_EmptySet DEF Init, ReferencesExact, Entries, Holders
<1>3. QED
  BY <1>1, <1>2 DEF Init, ReferenceInv, IdleHoldsNothing, BundlesOpened

\* The parsed bundle is new, and its one reference is the thread's.
LEMMA ParseReferences ==
  ASSUME NEW t \in Threads, HandleInv, ReferenceInv, Parse(t)
  PROVE  ReferenceInv'
<1>0. PICK n \in Bundle : n = opens + 1
  BY HandleAssumption DEF HandleInv, TableTypes, Parse, Bundle
<1>1. /\ n \in Bundle /\ opens \in Nat /\ held[t] = None /\ None \notin Bundle
      /\ held \in [Threads -> Bundle \cup {None}] /\ pc \in [Threads -> {"idle", "parsed", "using"}]
      /\ refs \in [Bundle -> Nat]
  BY <1>0, HandleAssumption DEF HandleInv, TableTypes, ReferenceInv, IdleHoldsNothing, Parse, Bundle
<1>2. /\ opens' = n /\ held'[t] = n /\ refs'[n] = 1 /\ refs' \in [Bundle -> Nat] /\ live' = live
      /\ \A u \in Threads : u # t => held'[u] = held[u] /\ pc'[u] = pc[u]
      /\ \A b \in Bundle : b # n => refs'[b] = refs[b]
      /\ pc'[t] = "parsed"
  BY <1>0, <1>1 DEF Parse
<1>3. \A b \in Bundle : Entries(b)' = Entries(b)
  BY <1>2 DEF Entries
<1>4. \A b \in Bundle : b # n => Holders(b)' = Holders(b)
  BY <1>0, <1>1, <1>2, HoldersUpdate
<1>5. Entries(n) = {} /\ Holders(n) = {}
  BY <1>0, <1>1 DEF ReferenceInv, BundlesOpened
<1>6. Cardinality(Holders(n)') = 1 /\ Cardinality(Entries(n)') = 0
  <2>1. Cardinality(Holders(n)') = Cardinality(Holders(n)) + 1
    BY <1>0, <1>1, <1>2, HoldersUpdate
  <2>2. QED
    BY <1>1, <1>3, <1>5, <2>1, FS_EmptySet
<1>7. ReferencesExact'
  <2> SUFFICES ASSUME NEW b \in Bundle
               PROVE  refs'[b] = Cardinality(Entries(b)') + Cardinality(Holders(b)')
    BY DEF ReferencesExact, Entries, Holders
  <2>1. CASE b = n
    BY <1>2, <1>6, <2>1
  <2>2. CASE b # n
    BY <1>2, <1>3, <1>4, <2>2, SameReferences DEF ReferenceInv
  <2>3. QED
    BY <2>1, <2>2
<1>8. BundlesOpened'
  <2> SUFFICES ASSUME NEW b \in Bundle, b > opens' PROVE Entries(b)' = {} /\ Holders(b)' = {}
    BY DEF BundlesOpened
  <2>1. b > opens /\ b # n
    BY <1>0, <1>1, <1>2 DEF Bundle
  <2>2. QED
    BY <1>3, <1>4, <2>1 DEF ReferenceInv, BundlesOpened
<1>9. IdleHoldsNothing'
  BY <1>2 DEF ReferenceInv, IdleHoldsNothing
<1>10. QED
  BY <1>2, <1>7, <1>8, <1>9 DEF ReferenceInv

\* The thread's reference moves into the table, or is dropped.
LEMMA RegisterReferences ==
  ASSUME NEW t \in Threads, NEW grows \in BOOLEAN, HandleInv, ReferenceInv, Register(t, grows)
  PROVE  ReferenceInv'
<1>0. PICK n \in Bundle : n = held[t]
  BY DEF HandleInv, HoldsBundle, Register
<1>1. /\ n \in Bundle /\ None \notin Bundle /\ next \in Token /\ live[next] = None
      /\ held \in [Threads -> Bundle \cup {None}] /\ pc \in [Threads -> {"idle", "parsed", "using"}]
      /\ live \in [Token -> Bundle \cup {None}]
      /\ refs \in [Bundle -> Nat] /\ opens \in Nat
  BY HandleAssumption DEF HandleInv, TableTypes, ReferenceInv, FreshTokens, Register, Bundle,
                          Token
<1>2. /\ held'[t] = None /\ opens' = opens /\ pc'[t] = "idle"
      /\ \A u \in Threads : u # t => held'[u] = held[u] /\ pc'[u] = pc[u]
  BY <1>1 DEF Register
<1>3. \A b \in Bundle : b # n => Holders(b)' = Holders(b)
  BY <1>0, <1>1, <1>2, HoldersUpdate
<1>4. /\ Cardinality(Holders(n)) = Cardinality(Holders(n)') + 1
      /\ Cardinality(Holders(n)) \in Nat /\ Cardinality(Holders(n)') \in Nat
  BY <1>0, <1>1, <1>2, HoldersUpdate
<1>5. IdleHoldsNothing'
  BY <1>2 DEF ReferenceInv, IdleHoldsNothing
<1>6. n <= opens
  <2>1. t \in Holders(n)
    BY <1>0 DEF Holders
  <2>2. QED
    BY <1>1, <2>1 DEF ReferenceInv, BundlesOpened, Bundle
<1>7. refs[n] = Cardinality(Entries(n)) + Cardinality(Holders(n))
  BY <1>1 DEF ReferenceInv, ReferencesExact, Entries, Holders
<1>8. CASE grows /\ Successor(next) # None
  <2>1. /\ live'[next] = n /\ refs' = refs
        /\ \A g \in Token : g # next => live'[g] = live[g]
    BY <1>0, <1>1, <1>8 DEF Register
  <2>2. \A b \in Bundle : b # n => Entries(b)' = Entries(b)
    BY <1>1, <2>1, EntriesUpdate
  <2>3. /\ Cardinality(Entries(n)') = Cardinality(Entries(n)) + 1
        /\ Cardinality(Entries(n)) \in Nat
    BY <1>1, <2>1, EntriesUpdate
  <2>4. ReferencesExact'
    <3> SUFFICES ASSUME NEW b \in Bundle
                 PROVE  refs'[b] = Cardinality(Entries(b)') + Cardinality(Holders(b)')
      BY DEF ReferencesExact, Entries, Holders
    <3>1. CASE b = n
      BY <1>4, <1>7, <2>1, <2>3, <3>1
    <3>2. CASE b # n
      BY <1>3, <2>1, <2>2, <3>2, SameReferences DEF ReferenceInv
    <3>3. QED
      BY <3>1, <3>2
  <2>5. BundlesOpened'
    BY <1>1, <1>2, <1>3, <1>6, <2>2 DEF ReferenceInv, BundlesOpened, Bundle
  <2>6. QED
    BY <1>1, <1>5, <2>1, <2>4, <2>5 DEF ReferenceInv
<1>9. CASE ~(grows /\ Successor(next) # None)
  <2>1. refs' = [refs EXCEPT ![n] = @ - 1] /\ live' = live
    BY <1>0, <1>9 DEF Register
  <2>2. \A b \in Bundle : Entries(b)' = Entries(b)
    BY <2>1 DEF Entries
  <2>3. Cardinality(Entries(n)) \in Nat
    BY <1>1, <2>1, EntriesUpdate
  <2>4. refs'[n] = refs[n] - 1 /\ \A b \in Bundle : b # n => refs'[b] = refs[b]
    BY <1>1, <2>1
  <2>5. refs' \in [Bundle -> Nat]
    BY <1>1, <1>4, <1>7, <2>1, <2>3
  <2>6. ReferencesExact'
    <3> SUFFICES ASSUME NEW b \in Bundle
                 PROVE  refs'[b] = Cardinality(Entries(b)') + Cardinality(Holders(b)')
      BY DEF ReferencesExact, Entries, Holders
    <3>1. CASE b = n
      <4>1. Entries(n)' = Entries(n)
        BY <1>1, <2>2
      <4>2. QED
        BY <1>4, <1>7, <2>3, <2>4, <3>1, <4>1
    <3>2. CASE b # n
      BY <1>3, <2>2, <2>4, <3>2, SameReferences DEF ReferenceInv
    <3>3. QED
      BY <3>1, <3>2
  <2>7. BundlesOpened'
    BY <1>1, <1>2, <1>3, <1>6, <2>2 DEF ReferenceInv, BundlesOpened, Bundle
  <2>8. QED
    BY <1>5, <2>5, <2>6, <2>7 DEF ReferenceInv
<1>10. QED
  BY <1>8, <1>9

\* A lookup adds a reference to a bundle that the table keeps alive.
LEMMA LookupReferences ==
  ASSUME NEW t \in Threads, NEW h \in Handle, HandleInv, ReferenceInv, Lookup(t, h)
  PROVE  ReferenceInv'
<1>0. h \in Token /\ live[h] \in Bundle
  BY DEF HandleInv, TableTypes, Lookup, Live
<1>1. PICK n \in Bundle : n = live[h]
  BY <1>0
<1>2. /\ None \notin Bundle /\ held[t] = None /\ opens \in Nat
      /\ held \in [Threads -> Bundle \cup {None}] /\ pc \in [Threads -> {"idle", "parsed", "using"}]
      /\ refs \in [Bundle -> Nat]
  BY HandleAssumption DEF HandleInv, TableTypes, ReferenceInv, IdleHoldsNothing, Lookup, Bundle
<1>3. /\ held'[t] = n /\ opens' = opens /\ pc'[t] = "using" /\ live' = live
      /\ \A u \in Threads : u # t => held'[u] = held[u] /\ pc'[u] = pc[u]
      /\ refs' \in [Bundle -> Nat] /\ refs'[n] = refs[n] + 1
      /\ \A b \in Bundle : b # n => refs'[b] = refs[b]
  BY <1>1, <1>2 DEF Lookup
<1>4. \A b \in Bundle : Entries(b)' = Entries(b)
  BY <1>3 DEF Entries
<1>5. \A b \in Bundle : b # n => Holders(b)' = Holders(b)
  BY <1>2, <1>3, HoldersUpdate
<1>6. /\ Cardinality(Holders(n)') = Cardinality(Holders(n)) + 1
      /\ Cardinality(Holders(n)) \in Nat
  BY <1>2, <1>3, HoldersUpdate
<1>7. Cardinality(Entries(n)) \in Nat
  BY <1>0, <1>3, EntriesUpdate
<1>8. ReferencesExact'
  <2> SUFFICES ASSUME NEW b \in Bundle
               PROVE  refs'[b] = Cardinality(Entries(b)') + Cardinality(Holders(b)')
    BY DEF ReferencesExact, Entries, Holders
  <2>1. CASE b = n
    <3>1. refs[n] = Cardinality(Entries(n)) + Cardinality(Holders(n))
      BY DEF ReferenceInv, ReferencesExact, Entries, Holders
    <3>2. Entries(n)' = Entries(n)
      BY <1>4
    <3>3. QED
      BY <1>3, <1>6, <1>7, <2>1, <3>1, <3>2
  <2>2. CASE b # n
    BY <1>3, <1>4, <1>5, <2>2, SameReferences DEF ReferenceInv
  <2>3. QED
    BY <2>1, <2>2
<1>9. BundlesOpened'
  <2>1. n <= opens
    <3>1. h \in Entries(n)
      BY <1>0, <1>1 DEF Entries
    <3>2. QED
      BY <1>2, <3>1 DEF ReferenceInv, BundlesOpened, Bundle
  <2>2. QED
    BY <1>2, <1>3, <1>4, <1>5, <2>1 DEF ReferenceInv, BundlesOpened, Bundle
<1>10. IdleHoldsNothing'
  BY <1>3 DEF ReferenceInv, IdleHoldsNothing
<1>11. QED
  BY <1>3, <1>8, <1>9, <1>10 DEF ReferenceInv

\* A release drops the reference that the thread had cloned.
LEMMA ReleaseReferences ==
  ASSUME NEW t \in Threads, HandleInv, ReferenceInv, Release(t)
  PROVE  ReferenceInv'
<1>1. PICK n \in Bundle : n = held[t]
  BY DEF HandleInv, HoldsBundle, Release
<1>2. /\ None \notin Bundle /\ opens \in Nat
      /\ held \in [Threads -> Bundle \cup {None}] /\ pc \in [Threads -> {"idle", "parsed", "using"}]
      /\ refs \in [Bundle -> Nat] /\ 1 \in Token
  BY HandleAssumption DEF HandleInv, TableTypes, ReferenceInv, Bundle, Token
<1>3. /\ held'[t] = None /\ opens' = opens /\ pc'[t] = "idle" /\ live' = live
      /\ \A u \in Threads : u # t => held'[u] = held[u] /\ pc'[u] = pc[u]
      /\ refs' = [refs EXCEPT ![n] = @ - 1] /\ refs'[n] = refs[n] - 1
      /\ \A b \in Bundle : b # n => refs'[b] = refs[b]
  BY <1>1, <1>2 DEF Release
<1>4. \A b \in Bundle : Entries(b)' = Entries(b)
  BY <1>3 DEF Entries
<1>5. \A b \in Bundle : b # n => Holders(b)' = Holders(b)
  BY <1>1, <1>2, <1>3, HoldersUpdate
<1>6. /\ Cardinality(Holders(n)) = Cardinality(Holders(n)') + 1
      /\ Cardinality(Holders(n)) \in Nat /\ Cardinality(Holders(n)') \in Nat
  BY <1>1, <1>2, <1>3, HoldersUpdate
<1>7. Cardinality(Entries(n)) \in Nat
  BY <1>2, <1>3, EntriesUpdate
<1>8. refs[n] = Cardinality(Entries(n)) + Cardinality(Holders(n))
  BY DEF ReferenceInv, ReferencesExact, Entries, Holders
<1>9. refs' \in [Bundle -> Nat]
  BY <1>2, <1>3, <1>6, <1>7, <1>8
<1>10. ReferencesExact'
  <2> SUFFICES ASSUME NEW b \in Bundle
               PROVE  refs'[b] = Cardinality(Entries(b)') + Cardinality(Holders(b)')
    BY DEF ReferencesExact, Entries, Holders
  <2>1. CASE b = n
    <3>1. Entries(n)' = Entries(n)
      BY <1>4
    <3>2. QED
      BY <1>3, <1>6, <1>7, <1>8, <2>1, <3>1
  <2>2. CASE b # n
    BY <1>3, <1>4, <1>5, <2>2, SameReferences DEF ReferenceInv
  <2>3. QED
    BY <2>1, <2>2
<1>11. BundlesOpened'
  <2>1. n <= opens
    <3>1. t \in Holders(n)
      BY <1>1 DEF Holders
    <3>2. QED
      BY <1>2, <3>1 DEF ReferenceInv, BundlesOpened, Bundle
  <2>2. QED
    BY <1>2, <1>3, <1>4, <1>5, <2>1 DEF ReferenceInv, BundlesOpened, Bundle
<1>12. IdleHoldsNothing'
  BY <1>3 DEF ReferenceInv, IdleHoldsNothing
<1>13. QED
  BY <1>9, <1>10, <1>11, <1>12 DEF ReferenceInv

\* A close drops the table's reference, whoever else uses the bundle.
LEMMA CloseReferences ==
  ASSUME NEW t \in Threads, NEW h \in Handle, HandleInv, ReferenceInv, Close(t, h)
  PROVE  ReferenceInv'
<1>0. h \in Token /\ live[h] \in Bundle
  BY DEF HandleInv, TableTypes, Close, Live
<1>1. PICK n \in Bundle : n = live[h]
  BY <1>0
<1>2. /\ None \notin Bundle /\ opens \in Nat
      /\ live \in [Token -> Bundle \cup {None}] /\ refs \in [Bundle -> Nat]
  BY HandleAssumption DEF HandleInv, TableTypes, ReferenceInv, Bundle
<1>3. /\ live'[h] = None /\ opens' = opens /\ pc' = pc /\ held' = held
      /\ \A g \in Token : g # h => live'[g] = live[g]
      /\ refs' = [refs EXCEPT ![n] = @ - 1] /\ refs'[n] = refs[n] - 1
      /\ \A b \in Bundle : b # n => refs'[b] = refs[b]
  BY <1>0, <1>1, <1>2 DEF Close
<1>4. \A b \in Bundle : Holders(b)' = Holders(b)
  BY <1>3 DEF Holders
<1>5. \A b \in Bundle : b # n => Entries(b)' = Entries(b)
  BY <1>0, <1>1, <1>2, <1>3, EntriesUpdate
<1>6. /\ Cardinality(Entries(n)) = Cardinality(Entries(n)') + 1
      /\ Cardinality(Entries(n)) \in Nat /\ Cardinality(Entries(n)') \in Nat
  BY <1>0, <1>1, <1>2, <1>3, EntriesUpdate
<1>7. Cardinality(Holders(n)) \in Nat
  BY <1>3, HoldersUpdate
<1>8. refs[n] = Cardinality(Entries(n)) + Cardinality(Holders(n))
  BY DEF ReferenceInv, ReferencesExact, Entries, Holders
<1>9. refs' \in [Bundle -> Nat]
  BY <1>2, <1>3, <1>6, <1>7, <1>8
<1>10. ReferencesExact'
  <2> SUFFICES ASSUME NEW b \in Bundle
               PROVE  refs'[b] = Cardinality(Entries(b)') + Cardinality(Holders(b)')
    BY DEF ReferencesExact, Entries, Holders
  <2>1. CASE b = n
    <3>1. Holders(n)' = Holders(n)
      BY <1>4
    <3>2. QED
      BY <1>3, <1>6, <1>7, <1>8, <2>1, <3>1
  <2>2. CASE b # n
    BY <1>3, <1>4, <1>5, <2>2, SameReferences DEF ReferenceInv
  <2>3. QED
    BY <2>1, <2>2
<1>11. BundlesOpened'
  <2>1. n <= opens
    <3>1. h \in Entries(n)
      BY <1>0, <1>1 DEF Entries
    <3>2. QED
      BY <1>2, <3>1 DEF ReferenceInv, BundlesOpened, Bundle
  <2>2. QED
    BY <1>2, <1>3, <1>4, <1>5, <2>1 DEF ReferenceInv, BundlesOpened, Bundle
<1>12. IdleHoldsNothing'
  BY <1>3 DEF ReferenceInv, IdleHoldsNothing
<1>13. QED
  BY <1>9, <1>10, <1>11, <1>12 DEF ReferenceInv

\* Every step keeps the counts exact.
LEMMA ReferencesStep == HandleInv /\ ReferenceInv /\ [Next]_vars => ReferenceInv'
<1> SUFFICES ASSUME HandleInv, ReferenceInv, [Next]_vars PROVE ReferenceInv'
  OBVIOUS
<1>1. CASE UNCHANGED vars
  BY <1>1 DEF vars, ReferenceInv, IdleHoldsNothing, BundlesOpened, ReferencesExact, Entries,
              Holders
<1>2. CASE Next
  BY <1>2, ParseReferences, RegisterReferences, LookupReferences, ReleaseReferences,
     CloseReferences DEF Next
<1>3. QED
  BY <1>1, <1>2

\* The strong count of a bundle is the number of its entries in LIVE_SNAPSHOTS and
\* of the threads between validate_snapshot and the end of their operation: it is
\* not freed under a reader, and nobody keeps it alive after the last of them.
THEOREM HandlesReferencesExact == Spec => []ReferencesExact
<1>1. ReferenceInv => ReferencesExact
  BY DEF ReferenceInv
<1>2. QED
  BY <1>1, InitHandles, InitReferences, HandlesStep, ReferencesStep, PTL DEF Spec

-----------------------------------------------------------------------------
(* The memory views.                                                       *)

ViewsInv == ViewsTypeOK /\ CountMatches /\ ActiveExists /\ PassedAreTaken /\ ExhaustedMeansFull

\* A set of views is finite, and its cardinality follows insert and remove.
LEMMA ViewSets ==
  ASSUME NEW S \in SUBSET View
  PROVE  /\ IsFiniteSet(S)
         /\ Cardinality(S) \in Nat
         /\ \A v : v \notin S => Cardinality(S \cup {v}) = Cardinality(S) + 1
         /\ \A v : v \in S => /\ Cardinality(S \ {v}) = Cardinality(S) - 1
                              /\ Cardinality(S) # 0
<1>1. IsFiniteSet(View)
  BY FS_Interval, IdsAssumption DEF View
<1>2. IsFiniteSet(S)
  BY <1>1, FS_Subset
<1>3. Cardinality(S) \in Nat
  BY <1>2, FS_CardinalityType
<1>4. \A v : v \notin S => Cardinality(S \cup {v}) = Cardinality(S) + 1
  BY <1>2, FS_AddElement
<1>5. ASSUME NEW v \in S PROVE /\ Cardinality(S \ {v}) = Cardinality(S) - 1
                               /\ Cardinality(S) # 0
  <2>1. Cardinality(S \ {v}) = Cardinality(S) - 1
    BY <1>2, FS_RemoveElement
  <2>2. Cardinality(S) # 0
    BY <1>2, FS_EmptySet
  <2>3. QED
    BY <2>1, <2>2
<1>6. QED
  BY <1>2, <1>3, <1>4, <1>5

\* Both ways a turn of create's loop advances: the passed identifiers grow by
\* the candidate, and the loop is back at its start when it has passed all.
LEMMA PassedGrows ==
  ASSUME ViewsTypeOK, nextView' = WrappingSucc(nextView), start' = start
  PROVE  /\ nextView' # start => Passed' = Passed \cup {nextView}
         /\ nextView' = start => View = Passed \cup {nextView}
<1> USE IdsAssumption DEF ViewsTypeOK, View, WrappingSucc, Passed
<1>1. CASE nextView = Ids - 1
  <2>1. nextView' = 0
    BY <1>1
  <2>2. CASE start = 0
    BY <1>1, <2>1, <2>2
  <2>3. CASE start # 0
    BY <1>1, <2>1, <2>3
  <2>4. QED
    BY <2>2, <2>3
<1>2. CASE nextView # Ids - 1
  <2>1. nextView' = nextView + 1
    BY <1>2
  <2>2. CASE start <= nextView
    BY <1>2, <2>1, <2>2
  <2>3. CASE start > nextView
    BY <1>2, <2>1, <2>3
  <2>4. QED
    BY <2>2, <2>3
<1>3. QED
  BY <1>1, <1>2

\* The views are consistent initially.
LEMMA InitInv == ViewsInit => ViewsInv
<1> SUFFICES ASSUME ViewsInit PROVE ViewsInv
  OBVIOUS
<1>1. Cardinality(views) = 0
  BY FS_EmptySet DEF ViewsInit
<1>2. ViewsTypeOK
  <2>1. scanning \in BOOLEAN
    BY Zenon DEF ViewsInit
  <2>2. QED
    BY <2>1, IdsAssumption DEF ViewsInit, ViewsTypeOK, View
<1>3. QED
  BY <1>1, <1>2 DEF ViewsInit, ViewsInv, CountMatches, ActiveExists, Contains, PassedAreTaken,
                    ExhaustedMeansFull

\* insert through create: the identifier is new and not 0.
LEMMA CreateFoundInv == ViewsInv /\ CreateFound => ViewsInv'
<1> SUFFICES ASSUME ViewsInv, CreateFound PROVE ViewsInv'
  OBVIOUS
<1>1. ViewsTypeOK'
  <2>1. scanning' \in BOOLEAN
    BY Zenon DEF CreateFound
  <2>2. QED
    BY <2>1, IdsAssumption DEF ViewsInv, ViewsTypeOK, View, WrappingSucc, CreateFound
<1>2. CountMatches'
  <2>1. Cardinality(views') = Cardinality(views) + 1
    BY ViewSets DEF ViewsInv, ViewsTypeOK, CreateFound
  <2>2. QED
    BY <2>1, ViewSets DEF ViewsInv, ViewsTypeOK, CreateFound, CountMatches
<1>3. ActiveExists' /\ PassedAreTaken' /\ ExhaustedMeansFull'
  BY DEF ViewsInv, CreateFound, ActiveExists, Contains, PassedAreTaken, ExhaustedMeansFull
<1>4. QED
  BY <1>1, <1>2, <1>3 DEF ViewsInv

\* A skipped candidate is in use, so what the loop has passed stays taken.
LEMMA CreateSkipInv == ViewsInv /\ CreateSkip => ViewsInv'
<1> SUFFICES ASSUME ViewsInv, CreateSkip PROVE ViewsInv'
  OBVIOUS
<1>1. ViewsTypeOK'
  BY IdsAssumption DEF ViewsInv, ViewsTypeOK, View, WrappingSucc, CreateSkip
<1>2. CountMatches' /\ ActiveExists'
  BY DEF ViewsInv, CreateSkip, CountMatches, ActiveExists, Contains
<1>3. Contains(nextView) /\ \A v \in Passed : Contains(v)
  BY DEF ViewsInv, CreateSkip, Contains, PassedAreTaken
<1>4. views' = views
  BY DEF CreateSkip
<1>5. /\ nextView' # start => Passed' = Passed \cup {nextView}
      /\ nextView' = start => View = Passed \cup {nextView}
  BY PassedGrows DEF ViewsInv, CreateSkip
<1>6. PassedAreTaken'
  <2>1. CASE nextView' = start
    <3>1. scanning' = FALSE
      BY <2>1 DEF CreateSkip
    <3>2. QED
      BY <3>1 DEF PassedAreTaken
  <2>2. CASE nextView' # start
    BY <2>2, <1>3, <1>4, <1>5 DEF PassedAreTaken, Contains
  <2>3. QED
    BY <2>1, <2>2
<1>7. ExhaustedMeansFull'
  <2>1. outcome' = "exhausted" => nextView' = start
    BY DEF CreateSkip
  <2>2. QED
    BY <2>1, <1>3, <1>4, <1>5 DEF ExhaustedMeansFull, Contains
<1>8. QED
  BY <1>1, <1>2, <1>6, <1>7 DEF ViewsInv

\* destroy keeps the views consistent.
LEMMA DestroyInv == ASSUME NEW v \in View PROVE ViewsInv /\ Destroy(v) => ViewsInv'
<1> SUFFICES ASSUME ViewsInv, Destroy(v) PROVE ViewsInv'
  OBVIOUS
<1>1. /\ Cardinality(views') = Cardinality(views) - 1
      /\ Cardinality(views) # 0
      /\ Cardinality(views) \in Nat
  BY ViewSets DEF ViewsInv, ViewsTypeOK, Destroy
<1>2. ViewsTypeOK'
  BY <1>1 DEF ViewsInv, ViewsTypeOK, CountMatches, Destroy
<1>3. CountMatches'
  BY <1>1 DEF ViewsInv, ViewsTypeOK, CountMatches, Destroy
<1>4. ActiveExists' /\ PassedAreTaken' /\ ExhaustedMeansFull'
  BY DEF ViewsInv, Destroy, ActiveExists, Contains, PassedAreTaken, ExhaustedMeansFull
<1>5. QED
  BY <1>2, <1>3, <1>4 DEF ViewsInv

\* Every step keeps the views consistent.
LEMMA InvStep == ViewsInv /\ [ViewsNext]_viewsVars => ViewsInv'
<1> SUFFICES ASSUME ViewsInv, [ViewsNext]_viewsVars PROVE ViewsInv'
  OBVIOUS
<1>1. CASE CreateBegin
  <2>1. ViewsTypeOK' /\ CountMatches' /\ ActiveExists' /\ ExhaustedMeansFull'
    BY <1>1 DEF ViewsInv, ViewsTypeOK, CreateBegin, CountMatches, ActiveExists, Contains,
                ExhaustedMeansFull
  <2>2. Passed' = {}
    BY <1>1, IdsAssumption DEF ViewsInv, ViewsTypeOK, View, CreateBegin, Passed
  <2>3. QED
    BY <2>1, <2>2 DEF ViewsInv, PassedAreTaken
<1>2. ASSUME NEW v \in View, SwitchView(v) PROVE ViewsInv'
  <2>1. ViewsTypeOK' /\ CountMatches' /\ ActiveExists' /\ ExhaustedMeansFull'
    BY <1>2 DEF ViewsInv, ViewsTypeOK, SwitchView, CountMatches, ActiveExists, Contains,
                ExhaustedMeansFull
  <2>2. PassedAreTaken'
    BY <1>2 DEF ViewsInv, SwitchView, PassedAreTaken
  <2>3. QED
    BY <2>1, <2>2 DEF ViewsInv
<1>3. CASE UNCHANGED viewsVars
  BY <1>3 DEF ViewsInv, viewsVars, ViewsTypeOK, CountMatches, ActiveExists, Contains, ExhaustedMeansFull,
              PassedAreTaken, Passed
<1>4. QED
  BY <1>1, <1>2, <1>3, CreateFoundInv, CreateSkipInv, DestroyInv DEF ViewsNext

\* MemoryViewManager keeps its types and its count: view_count never
\* underflows and always is the number of views that views() will list, and
\* the active view exists after any sequence of create, destroy and
\* switch_view.
THEOREM ViewsConsistent == ViewsSpec => [](ViewsTypeOK /\ CountMatches /\ ActiveExists)
<1>1. ViewsInv => ViewsTypeOK /\ CountMatches /\ ActiveExists
  BY DEF ViewsInv
<1>2. QED
  BY <1>1, InitInv, InvStep, PTL DEF ViewsSpec

\* create reports exhaustion only when no identifier is free, wherever the
\* search began and however often it wrapped around.
THEOREM ViewsExhaustion == ViewsSpec => []ExhaustedMeansFull
<1>1. ViewsInv => ExhaustedMeansFull
  BY DEF ViewsInv
<1>2. QED
  BY <1>1, InitInv, InvStep, PTL DEF ViewsSpec

-----------------------------------------------------------------------------
(* The GDB client.                                                         *)

Ack == [kind |-> "ack"]
Rest == [kind |-> "rest"]
Error == [kind |-> "error"]
OK == [kind |-> "OK"]
Value(t, r) == [kind |-> "value", val |-> regs[t][r], from |-> <<t, r>>]

\* What the stub may have answered to the current command.
Answers ==
  {Error} \cup
  (IF access.stage \in {"select", "write"}
   THEN IF thread = access.vcpu THEN {OK} ELSE {}
   ELSE {Value(thread, access.reg)})

\* A register access in progress, and where it can be.
Working ==
  [op : {"read", "write"}, vcpu : Vcpus, reg : Registers, val : Values \cup {Absent, Wide},
   stage : {"select", "read", "write", "verify"}]

AccessState ==
  /\ thread \in Vcpus
  /\ regs \in [Vcpus -> [Registers -> Values]]
  /\ access # NoAccess =>
       /\ access \in Working
       /\ access.op = "write" => access.val \in Values \cup {Wide}
       /\ access.stage = "read" => access.op = "read"
       /\ access.stage \in {"write", "verify"} => access.op = "write"
       /\ access.stage # "select" => thread = access.vcpu
       /\ last = Nothing

\* What is under way at each place of a command.
WireState ==
  /\ phase \in {"ready", "ack", "start"}
  /\ access = NoAccess => phase = "ready"
  /\ phase # "ready" /\ access.stage = "write" => access.val \in Values
  /\ phase = "ready" => wire = <<>> /\ inbox = <<>>
  /\ phase = "ack" =>
       \/ inbox = <<access>> /\ wire = <<>>
       \/ inbox = <<>> /\ \E p \in Answers : wire = <<Ack, p>> \/ wire = <<Ack, Rest, p>>
  /\ phase = "start" =>
       inbox = <<>> /\ \E p \in Answers : wire = <<p>> \/ wire = <<Rest, p>>

Synchronous == AccessState /\ WireState /\ AnswerOfAccess /\ WriteVerified

GdbInv == inSync => Synchronous

\* The parts of short sequences.
LEMMA ShortSequences ==
  ASSUME NEW x, NEW y, NEW z
  PROVE  /\ Head(<<x>>) = x /\ Head(<<x, y>>) = x /\ Head(<<x, y, z>>) = x
         /\ Tail(<<x>>) = <<>> /\ Tail(<<x, y>>) = <<y>> /\ Tail(<<x, y, z>>) = <<y, z>>
         /\ Append(<<>>, x) = <<x>>
OBVIOUS

\* Concatenations of short sequences.
LEMMA ShortConcatenations ==
  ASSUME NEW x, NEW y, NEW z
  PROVE  /\ <<>> \o <<x>> = <<x>> /\ <<x>> \o <<>> = <<x>>
         /\ <<x>> \o <<y>> = <<x, y>> /\ <<x, y>> \o <<z>> = <<x, y, z>>
<1> DEFINE T == {x, y, z}
<1>1. /\ <<>> \in Seq(T) /\ <<x>> \in Seq(T) /\ <<y>> \in Seq(T) /\ <<z>> \in Seq(T)
      /\ <<x, y>> \in Seq(T)
  OBVIOUS
<1>2. <<>> \o <<x>> = <<x>> /\ <<x>> \o <<>> = <<x>>
  BY <1>1, ConcatEmptySeq
<1>3. <<x>> \o <<y>> = <<x, y>>
  <2> DEFINE c == <<x>> \o <<y>>
  <2>1. /\ c \in Seq(T) /\ Len(c) = Len(<<x>>) + Len(<<y>>)
        /\ \A i \in 1 .. Len(<<x>>) + Len(<<y>>) :
             c[i] = IF i <= Len(<<x>>) THEN <<x>>[i] ELSE <<y>>[i - Len(<<x>>)]
    BY <1>1, ConcatProperties
  <2>2. Len(<<x>>) = 1 /\ Len(<<y>>) = 1 /\ <<x>>[1] = x /\ <<y>>[1] = y
    OBVIOUS
  <2>3. Len(c) = 2 /\ c[1] = x /\ c[2] = y
    BY <2>1, <2>2
  <2>4. Len(<<x, y>>) = 2 /\ <<x, y>>[1] = x /\ <<x, y>>[2] = y
    OBVIOUS
  <2>5. \A i \in 1 .. Len(c) : c[i] = <<x, y>>[i]
    BY <2>3, <2>4
  <2>6. QED
    BY <1>1, <2>1, <2>3, <2>4, <2>5, SeqEqual
<1>4. <<x, y>> \o <<z>> = <<x, y, z>>
  <2> DEFINE c == <<x, y>> \o <<z>>
  <2>1. /\ c \in Seq(T) /\ Len(c) = Len(<<x, y>>) + Len(<<z>>)
        /\ \A i \in 1 .. Len(<<x, y>>) + Len(<<z>>) :
             c[i] = IF i <= Len(<<x, y>>) THEN <<x, y>>[i] ELSE <<z>>[i - Len(<<x, y>>)]
    BY <1>1, ConcatProperties
  <2>2. Len(<<x, y>>) = 2 /\ Len(<<z>>) = 1 /\ <<x, y>>[1] = x /\ <<x, y>>[2] = y /\ <<z>>[1] = z
    OBVIOUS
  <2>3. Len(c) = 3 /\ c[1] = x /\ c[2] = y /\ c[3] = z
    BY <2>1, <2>2
  <2>4. /\ Len(<<x, y, z>>) = 3 /\ <<x, y, z>> \in Seq(T)
        /\ <<x, y, z>>[1] = x /\ <<x, y, z>>[2] = y /\ <<x, y, z>>[3] = z
    OBVIOUS
  <2>5. \A i \in 1 .. Len(c) : c[i] = <<x, y, z>>[i]
    BY <2>3, <2>4
  <2>6. QED
    BY <2>1, <2>3, <2>4, <2>5, SeqEqual
<1>5. QED
  BY <1>2, <1>3, <1>4

\* What an execution adds to an empty wire.
LEMMA Answered ==
  ASSUME NEW p
  PROVE  /\ <<>> \o <<Ack>> \o <<>> \o <<p>> = <<Ack, p>>
         /\ <<>> \o <<Ack>> \o <<Rest>> \o <<p>> = <<Ack, Rest, p>>
BY ShortConcatenations

\* The kinds of answers.
LEMMA AnswerKinds ==
  /\ \A p \in Answers : p.kind \in {"OK", "value", "error"}
  /\ Ack.kind = "ack" /\ Rest.kind = "rest"
BY DEF Answers, Ack, Rest, Error, OK, Value

\* A call that is over has returned what it had, and its caller may begin anew.
LEMMA Returned ==
  ASSUME Synchronous, access # NoAccess, NEW status, NEW val, NEW from, Return(status, val, from),
         UNCHANGED stub, wire' = <<>>, inbox = <<>>,
         status = "ok" =>
           /\ from = <<access.vcpu, access.reg>>
           /\ access.op = "write" => regs[access.vcpu][access.reg] = access.val
  PROVE  Synchronous'
<1>1. /\ access' = NoAccess /\ phase' = "ready" /\ UNCHANGED <<inbox, thread, regs>>
      /\ last' = [status |-> status, access |-> access, val |-> val, from |-> from]
  BY DEF Return, stub
<1>2. AccessState' /\ WireState'
  BY <1>1 DEF Synchronous, AccessState, WireState
<1>3. last'.status = status /\ last'.access = access /\ last'.from = from
  BY <1>1
<1>4. AnswerOfAccess' /\ WriteVerified'
  BY <1>1, <1>3 DEF AnswerOfAccess, WriteVerified
<1>5. QED
  BY <1>2, <1>4 DEF Synchronous

\* An access that goes on to its next command.
LEMMA Advanced ==
  ASSUME Synchronous, access # NoAccess, NEW stage \in {"read", "write", "verify"}, Advance(stage),
         UNCHANGED stub, wire' = <<>>, inbox = <<>>, thread = access.vcpu,
         stage = "read" => access.op = "read",
         stage \in {"write", "verify"} => access.op = "write"
  PROVE  Synchronous'
<1>1. /\ access' = [access EXCEPT !.stage = stage] /\ phase' = "ready"
      /\ UNCHANGED <<inbox, thread, regs, last>>
  BY DEF Advance, stub
<1>2. /\ access' \in Working /\ access'.op = access.op /\ access'.vcpu = access.vcpu
      /\ access'.reg = access.reg /\ access'.val = access.val /\ access'.stage = stage
  BY <1>1 DEF Synchronous, AccessState, Working
<1>3. access' # NoAccess
  BY <1>2 DEF NoAccess, Working
<1>4. AccessState' /\ WireState'
  BY <1>1, <1>2, <1>3 DEF Synchronous, AccessState, WireState
<1>5. AnswerOfAccess' /\ WriteVerified'
  BY <1>1 DEF Synchronous, AccessState, AnswerOfAccess, WriteVerified, Nothing
<1>6. QED
  BY <1>4, <1>5 DEF Synchronous

\* A caller gets the mutex.
LEMMA BeginKeeps ==
  ASSUME Synchronous, NEW op, NEW v \in Vcpus, NEW r \in Registers, NEW x, Begin(op, v, r, x),
         (op = "read" /\ x = Absent) \/ (op = "write" /\ x \in Values \cup {Wide})
  PROVE  Synchronous'
<1>1. /\ access = NoAccess /\ last' = Nothing
      /\ access' = [op |-> op, vcpu |-> v, reg |-> r, val |-> x, stage |-> "select"]
      /\ UNCHANGED <<phase, wire, inbox, thread, regs>>
  BY DEF Begin, stub
<1>2. /\ access' \in Working /\ access'.op = op /\ access'.val = x
      /\ access'.stage = "select"
  BY <1>1 DEF Working
<1>3. AccessState'
  BY <1>1, <1>2 DEF Synchronous, AccessState
<1>4. WireState'
  BY <1>1, <1>2 DEF Synchronous, WireState, NoAccess
<1>5. AnswerOfAccess' /\ WriteVerified'
  BY <1>1 DEF AnswerOfAccess, WriteVerified, Nothing
<1>6. QED
  BY <1>3, <1>4, <1>5 DEF Synchronous

\* The command is all that is under way when it has been sent.
LEMMA SendCommandKeeps ==
  ASSUME Synchronous, SendCommand
  PROVE  Synchronous'
<1>1. /\ access # NoAccess /\ phase = "ready" /\ phase' = "ack"
      /\ inbox' = Append(inbox, access) /\ UNCHANGED <<access, wire, thread, regs, last>>
  BY DEF SendCommand
<1>2. inbox' = <<access>> /\ wire' = <<>>
  BY <1>1, ShortSequences DEF Synchronous, WireState
<1>3. AccessState'
  BY <1>1 DEF Synchronous, AccessState
<1>4. WireState'
  <2>1. access.stage = "write" => access.val \in Values
    BY <1>1 DEF Synchronous, AccessState, SendCommand, TooWide
  <2>2. QED
    BY <1>1, <1>2, <2>1 DEF WireState
<1>5. AnswerOfAccess' /\ WriteVerified'
  BY <1>1 DEF Synchronous, AccessState, AnswerOfAccess, WriteVerified, Nothing
<1>6. QED
  BY <1>3, <1>4, <1>5 DEF Synchronous

\* A value that does not fit is refused between two commands, with nothing under
\* way.
LEMMA RefuseValueKeeps ==
  ASSUME Synchronous, RefuseValue
  PROVE  Synchronous'
<1>1. /\ Return("error", Absent, <<Absent, Absent>>) /\ UNCHANGED stub
      /\ phase = "ready" /\ wire' = wire /\ access # NoAccess
  BY DEF RefuseValue, Fail, TooWide, NoAccess
<1>2. wire' = <<>> /\ inbox = <<>>
  BY <1>1 DEF Synchronous, WireState
<1>3. QED
  BY <1>1, <1>2, Returned

\* The first thing read is the acknowledgement of the command.
LEMMA ReadAckKeeps ==
  ASSUME Synchronous, ReadAck, inSync'
  PROVE  Synchronous'
<1>1. PICK p \in Answers : inbox = <<>> /\ (wire = <<Ack, p>> \/ wire = <<Ack, Rest, p>>)
  BY DEF Synchronous, WireState, ReadAck
<1>2. Head(wire) = Ack /\ (Tail(wire) = <<p>> \/ Tail(wire) = <<Rest, p>>)
  <2>1. CASE wire = <<Ack, p>>
    BY <2>1, ShortSequences
  <2>2. CASE wire = <<Ack, Rest, p>>
    BY <2>2, ShortSequences
  <2>3. QED
    BY <1>1, <2>1, <2>2
<1>3. Head(wire).kind = "ack"
  BY <1>2, AnswerKinds
<1>4. /\ wire' = Tail(wire) /\ phase' = "start"
      /\ UNCHANGED <<access, last, inbox, thread, regs>> /\ phase = "ack"
  BY <1>3 DEF ReadAck, stub
<1>5. Answers' = Answers
  BY <1>4 DEF Answers, Value
<1>6. access # NoAccess
  BY <1>4 DEF Synchronous, WireState
<1>7. WireState'
  BY <1>1, <1>2, <1>4, <1>5, <1>6 DEF Synchronous, WireState
<1>8. AccessState' /\ AnswerOfAccess' /\ WriteVerified'
  BY <1>4, <1>6 DEF Synchronous, AccessState, AnswerOfAccess, WriteVerified, Nothing
<1>9. QED
  BY <1>7, <1>8 DEF Synchronous

\* A stray byte is skipped, and the answer is behind it.
LEMMA SkipKeeps ==
  ASSUME Synchronous, SkipToPacket
  PROVE  Synchronous'
<1>1. PICK p \in Answers : inbox = <<>> /\ (wire = <<p>> \/ wire = <<Rest, p>>)
  BY DEF Synchronous, WireState, SkipToPacket
<1>2. CASE wire = <<p>>
  <2>1. Head(wire) = p
    BY <1>2, ShortSequences
  <2>2. p.kind \in {"OK", "value", "error"} /\ p.kind \in {"ack", "rest"}
    BY <1>1, <2>1, AnswerKinds DEF SkipToPacket
  <2>3. QED
    BY <2>2
<1>3. CASE wire = <<Rest, p>>
  <2>1. wire' = <<p>>
    BY <1>3, ShortSequences DEF SkipToPacket
  <2>2. phase = "start" /\ UNCHANGED <<access, phase, inbox, thread, regs, last>>
    BY DEF SkipToPacket, stub
  <2>3. Answers' = Answers /\ access # NoAccess
    BY <2>2 DEF Answers, Value, Synchronous, WireState
  <2>4. WireState'
    BY <1>1, <2>1, <2>2, <2>3 DEF Synchronous, WireState
  <2>5. AccessState' /\ AnswerOfAccess' /\ WriteVerified'
    BY <2>2, <2>3 DEF Synchronous, AccessState, AnswerOfAccess, WriteVerified, Nothing
  <2>6. QED
    BY <2>4, <2>5 DEF Synchronous
<1>4. QED
  BY <1>1, <1>2, <1>3

\* What is read as a packet is the answer to the command, and nothing is left.
LEMMA ReadPacketKeeps ==
  ASSUME Synchronous, NEW intact \in BOOLEAN, ReadPacket(intact)
  PROVE  Synchronous'
<1>1. PICK p \in Answers : inbox = <<>> /\ (wire = <<p>> \/ wire = <<Rest, p>>)
  BY DEF Synchronous, WireState, ReadPacket
<1>2. wire = <<p>>
  <2>1. Head(wire).kind \in {"OK", "value", "error"}
    BY DEF ReadPacket, IsPacket
  <2>2. ASSUME wire = <<Rest, p>> PROVE FALSE
    <3>1. Head(wire) = Rest
      BY <2>2, ShortSequences
    <3>2. QED
      BY <2>1, <3>1, AnswerKinds
  <2>3. QED
    BY <1>1, <2>2
<1>3. Head(wire) = p /\ wire' = <<>>
  BY <1>2, ShortSequences DEF ReadPacket
<1>4. UNCHANGED stub /\ access # NoAccess
  BY DEF ReadPacket, Synchronous, WireState
<1>5. IF intact THEN Accept(p) ELSE Fail
  BY <1>3 DEF ReadPacket
<1>6. ASSUME Fail PROVE Synchronous'
  <2>1. Return("error", Absent, <<Absent, Absent>>)
    BY <1>6 DEF Fail
  <2>2. QED
    BY <1>1, <1>3, <1>4, <2>1, Returned
<1>7. ASSUME access.stage \in {"select", "write"}, p.kind = "OK" PROVE thread = access.vcpu
  BY <1>1, <1>7 DEF Answers, Error
<1>8. ASSUME access.stage \in {"read", "verify"}, p.kind = "value"
      PROVE  /\ p.val = regs[access.vcpu][access.reg]
             /\ p.from = <<access.vcpu, access.reg>>
  <2>1. thread = access.vcpu
    BY <1>4, <1>8 DEF Synchronous, AccessState
  <2>2. p = Value(thread, access.reg)
    BY <1>1, <1>8 DEF Answers, Error
  <2>3. QED
    BY <2>1, <2>2 DEF Value
<1>9. /\ access.op \in {"read", "write"}
      /\ access.stage = "read" => access.op = "read"
      /\ access.stage = "write" => access.op = "write"
  BY <1>4 DEF Synchronous, AccessState, Working
<1>10. CASE intact /\ access.stage = "select"
  <2>1. (p.kind = "OK" /\ Advance(access.op)) \/ Fail
    BY <1>5, <1>10 DEF Accept
  <2>2. ASSUME p.kind = "OK", Advance(access.op) PROVE Synchronous'
    <3>1. thread = access.vcpu
      BY <1>7, <1>10, <2>2
    <3>2. QED
      BY <1>1, <1>3, <1>4, <1>9, <2>2, <3>1, Advanced
  <2>3. QED
    BY <1>6, <2>1, <2>2
<1>11. CASE intact /\ access.stage = "read"
  <2>1. (p.kind = "value" /\ Return("ok", p.val, p.from)) \/ Fail
    BY <1>5, <1>11 DEF Accept
  <2>2. ASSUME p.kind = "value", Return("ok", p.val, p.from) PROVE Synchronous'
    <3>1. p.from = <<access.vcpu, access.reg>> /\ access.op = "read"
      BY <1>8, <1>9, <1>11, <2>2
    <3>2. QED
      BY <1>1, <1>3, <1>4, <2>2, <3>1, Returned
  <2>3. QED
    BY <1>6, <2>1, <2>2
<1>12. CASE intact /\ access.stage = "write"
  <2>1. (p.kind = "OK" /\ Advance("verify")) \/ Fail
    BY <1>5, <1>12 DEF Accept
  <2>2. ASSUME p.kind = "OK", Advance("verify") PROVE Synchronous'
    <3>1. thread = access.vcpu /\ access.op = "write"
      BY <1>7, <1>9, <1>12, <2>2
    <3>2. QED
      BY <1>1, <1>3, <1>4, <2>2, <3>1, Advanced
  <2>3. QED
    BY <1>6, <2>1, <2>2
<1>13. CASE intact /\ access.stage = "verify"
  <2>1. (p.kind = "value" /\ p.val = access.val /\ Return("ok", p.val, p.from)) \/ Fail
    BY <1>5, <1>13 DEF Accept, Verify
  <2>2. ASSUME p.kind = "value", p.val = access.val, Return("ok", p.val, p.from)
        PROVE  Synchronous'
    <3>1. /\ p.from = <<access.vcpu, access.reg>>
          /\ regs[access.vcpu][access.reg] = access.val
      BY <1>8, <1>13, <2>2
    <3>2. QED
      BY <1>1, <1>3, <1>4, <2>2, <3>1, Returned
  <2>3. QED
    BY <1>6, <2>1, <2>2
<1>14. QED
  <2>1. access.stage \in {"select", "read", "write", "verify"}
    BY <1>4 DEF Synchronous, AccessState, Working
  <2>2. QED
    BY <1>5, <1>6, <1>10, <1>11, <1>12, <1>13, <2>1

\* The stub executes the command under way.  It runs between two steps of the
\* access that sent it, and answers for the thread that access selected.
LEMMA ExecuteKeeps ==
  ASSUME Synchronous, NEW ok \in BOOLEAN, NEW effective \in BOOLEAN,
         NEW stray \in Strays, Execute(ok, effective, stray)
  PROVE  Synchronous'
<1> DEFINE answer ==
      IF ~ok THEN Error
      ELSE IF access.stage \in {"select", "write"} THEN OK
      ELSE Value(thread, access.reg)
<1>1. phase = "ack" /\ inbox = <<access>> /\ wire = <<>> /\ access # NoAccess
  BY DEF Synchronous, WireState, Execute
<1>2. Head(inbox) = access /\ Tail(inbox) = <<>>
  BY <1>1, ShortSequences
<1>3. /\ inbox' = <<>>
      /\ thread' = IF ok /\ access.stage = "select" THEN access.vcpu ELSE thread
      /\ regs' = IF ok /\ effective /\ access.stage = "write"
                 THEN [regs EXCEPT ![thread][access.reg] = access.val] ELSE regs
      /\ wire' = wire \o <<Ack>> \o stray \o <<answer>>
      /\ UNCHANGED <<access, phase, sent, inSync, last>>
  BY <1>2 DEF Execute, Ack, Error, OK, Value
<1>4. wire' = <<Ack, answer>> \/ wire' = <<Ack, Rest, answer>>
  <2>1. CASE stray = <<>>
    BY <1>1, <1>3, <2>1, Answered
  <2>2. CASE stray = <<Rest>>
    BY <1>1, <1>3, <2>2, Answered
  <2>3. QED
    BY <2>1, <2>2 DEF Rest, Strays
<1>5. /\ access \in Working
      /\ access.stage = "write" => access.val \in Values
      /\ access.stage = "write" => access.op = "write"
      /\ access.stage # "select" => thread = access.vcpu
      /\ last = Nothing /\ thread \in Vcpus
      /\ regs \in [Vcpus -> [Registers -> Values]]
  BY <1>1 DEF Synchronous, AccessState, WireState
<1>6. thread' \in Vcpus /\ (access.stage # "select" => thread' = access.vcpu)
  BY <1>3, <1>5 DEF Working
<1>7. regs' \in [Vcpus -> [Registers -> Values]]
  BY <1>3, <1>5 DEF Working
<1>8. AccessState'
  BY <1>1, <1>3, <1>6, <1>7 DEF Synchronous, AccessState
<1>9. answer \in Answers'
  <2>1. CASE ~ok
    BY <2>1 DEF Answers
  <2>2. CASE ok /\ access.stage \in {"select", "write"}
    <3>1. thread' = access'.vcpu /\ access'.stage \in {"select", "write"}
      BY <1>3, <1>5, <2>2
    <3>2. QED
      BY <2>2, <3>1 DEF Answers
  <2>3. CASE ok /\ access.stage \notin {"select", "write"}
    <3>1. /\ thread' = thread /\ regs' = regs /\ access' = access
      BY <1>3, <2>3
    <3>2. QED
      BY <2>3, <3>1 DEF Answers, Value
  <2>4. QED
    BY <2>1, <2>2, <2>3
<1>10. WireState'
  BY <1>1, <1>3, <1>4, <1>5, <1>9 DEF WireState
<1>11. AnswerOfAccess' /\ WriteVerified'
  BY <1>3, <1>5 DEF AnswerOfAccess, WriteVerified, Nothing
<1>12. QED
  BY <1>8, <1>10, <1>11 DEF Synchronous

\* Every step keeps the invariant, and none puts a client back in step.
LEMMA GdbInvStep ==
  ASSUME GdbInv, [GdbNext]_gdbVars
  PROVE  GdbInv'
<1> SUFFICES ASSUME inSync' PROVE Synchronous'
  BY DEF GdbInv
<1>1. CASE UNCHANGED gdbVars
  <2>1. UNCHANGED <<access, phase, wire, inbox, thread, regs, inSync, last>>
    BY <1>1 DEF gdbVars, stub
  <2>2. Synchronous
    BY <2>1 DEF GdbInv
  <2>3. Answers' = Answers
    BY <2>1 DEF Answers, Value
  <2>4. AccessState' /\ WireState'
    BY <2>1, <2>2, <2>3 DEF Synchronous, AccessState, WireState
  <2>5. AnswerOfAccess' /\ WriteVerified'
    BY <2>1, <2>2 DEF Synchronous, AnswerOfAccess, WriteVerified
  <2>6. QED
    BY <2>4, <2>5 DEF Synchronous
<1>2. ASSUME NEW v \in Vcpus, NEW r \in Registers, Begin("read", v, r, Absent)
      PROVE  Synchronous'
  <2>1. Synchronous
    BY <1>2 DEF Begin, GdbInv
  <2>2. ("read" = "read" /\ Absent = Absent) \/ ("read" = "write" /\ Absent \in Values \cup {Wide})
    OBVIOUS
  <2>3. QED
    BY <1>2, <2>1, <2>2, BeginKeeps
<1>3. ASSUME NEW v \in Vcpus, NEW r \in Registers, NEW x \in Values \cup {Wide},
             Begin("write", v, r, x)
      PROVE  Synchronous'
  <2>1. Synchronous
    BY <1>3 DEF Begin, GdbInv
  <2>2. ("write" = "read" /\ x = Absent) \/ ("write" = "write" /\ x \in Values \cup {Wide})
    BY <1>3
  <2>3. QED
    BY <1>3, <2>1, <2>2, BeginKeeps
<1>4. CASE SendCommand
  <2>1. Synchronous
    BY <1>4 DEF SendCommand, GdbInv
  <2>2. QED
    BY <1>4, <2>1, SendCommandKeeps
<1>5. CASE ReadAck
  <2>1. Synchronous
    BY <1>5 DEF ReadAck, GdbInv
  <2>2. QED
    BY <1>5, <2>1, ReadAckKeeps
<1>6. CASE SkipToPacket
  <2>1. Synchronous
    BY <1>6 DEF SkipToPacket, GdbInv
  <2>2. QED
    BY <1>6, <2>1, SkipKeeps
<1>7. ASSUME NEW intact \in BOOLEAN, ReadPacket(intact) PROVE Synchronous'
  <2>1. Synchronous
    BY <1>7 DEF ReadPacket, GdbInv
  <2>2. QED
    BY <1>7, <2>1, ReadPacketKeeps
<1>8. ASSUME Timeout \/ \E told \in Strays : SendFails(told) PROVE Synchronous'
  BY <1>8 DEF Timeout, SendFails
<1>9. ASSUME NEW ok \in BOOLEAN, NEW effective \in BOOLEAN,
             NEW stray \in Strays, Execute(ok, effective, stray)
      PROVE  Synchronous'
  <2>1. Synchronous
    BY <1>9 DEF Execute, GdbInv
  <2>2. QED
    BY <1>9, <2>1, ExecuteKeeps
<1>10. CASE RefuseValue
  <2>1. Synchronous
    BY <1>10 DEF RefuseValue, GdbInv
  <2>2. QED
    BY <1>10, <2>1, RefuseValueKeeps
<1>11. QED
  BY <1>1, <1>2, <1>3, <1>4, <1>5, <1>6, <1>7, <1>8, <1>9, <1>10 DEF GdbNext

\* The invariant holds of every reachable state.
LEMMA GdbInvariant == GdbSpec => []GdbInv
<1>1. ASSUME GdbInit PROVE GdbInv
  <2>1. AccessState /\ WireState
    BY <1>1 DEF GdbInit, AccessState, WireState
  <2>2. AnswerOfAccess /\ WriteVerified
    BY <1>1 DEF GdbInit, AnswerOfAccess, WriteVerified, Nothing
  <2>3. QED
    BY <2>1, <2>2 DEF GdbInv, Synchronous
<1>2. GdbInv /\ [GdbNext]_gdbVars => GdbInv'
  BY GdbInvStep
<1>3. QED
  BY <1>1, <1>2, PTL DEF GdbSpec

\* As long as no command was cut off by its deadline or by a byte that was not the
\* acknowledgement, a register access that succeeds was answered for the vCPU it
\* selected and the register it names: GdbClient::command reads exactly the
\* answer to the command it sent.
THEOREM GdbAnswerOfAccess == GdbSpec => []AnswerOfAccessInSync
<1>1. GdbInv => AnswerOfAccessInSync
  BY DEF GdbInv, Synchronous, AnswerOfAccessInSync
<1>2. QED
  BY <1>1, GdbInvariant, PTL

\* As long as no command was cut off, write_register returns success only when the
\* register of the vCPU holds the value: a write that the stub acknowledged without
\* carrying it out is found by the read-back.
THEOREM GdbWriteVerified == GdbSpec => []WriteVerified
<1>1. GdbInv => WriteVerified
  BY DEF GdbInv, Synchronous, WriteVerified
<1>2. QED
  BY <1>1, GdbInvariant, PTL

=============================================================================
