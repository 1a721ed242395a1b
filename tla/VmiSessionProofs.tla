-------------------------- MODULE VmiSessionProofs --------------------------
(***************************************************************************)
(* Proofs about VmiSession, for every number of threads, pages, roots and  *)
(* translators, every cache capacity and every depth of the page tables;   *)
(* and about VirtualRange, for every width of an address, every page of    *)
(* the session, every translator's geometry, every guest's tables and      *)
(* every range.                                                            *)
(***************************************************************************)
EXTENDS VmiSession, VirtualRange, FiniteSetTheorems, SequenceTheorems,
        WellFoundedInduction, TLAPS

\* The typing and the loop state are preserved together.
Typed == TypeOK /\ LoopState

\* A completed walk yields a frame or a fault.
LEMMA WalkResult ==
  ASSUME Typed, NEW t \in Threads, pc[t] = "walk",
         Len(words[t]) = Len(WalkPath(t))
  PROVE  Decode(req[t].tag, words[t]) \in Frames \cup {Fault}
<1>1. req[t] \in Operations
  BY DEF Typed, TypeOK, LoopState
<1>2. todo[t] \in Seq(Pages) /\ Len(todo[t]) > 0
  BY DEF Typed, TypeOK, LoopState
<1>3. Head(todo[t]) \in Pages
  BY <1>2
<1>4. req[t].root \in Roots /\ req[t].tag \in Tags
  BY <1>1 DEF Operations
<1>5. words[t] \in [1..Len(WalkPath(t)) -> Words]
  BY DEF Typed, TypeOK
<1> QED
  BY <1>3, <1>4, <1>5, DecodeAssumption DEF WalkPath

\* The key of a thread inside the page loop is a key.
LEMMA KeyType ==
  ASSUME Typed, NEW t \in Threads, pc[t] \in {"lookup", "walk", "access"}
  PROVE  /\ CacheKey(t) \in Keys
         /\ WalkPath(t) \in Seq(Locs)
<1>1. req[t] \in Operations
  BY DEF Typed, TypeOK, LoopState
<1>2. todo[t] \in Seq(Pages) /\ Len(todo[t]) > 0
  BY DEF Typed, TypeOK, LoopState
<1> QED
  BY <1>1, <1>2, SessionAssumption DEF CacheKey, Keys, Operations, WalkPath

\* Dropping the loop variables of a thread keeps their types.
LEMMA DropLocalsType ==
  ASSUME Typed, NEW t \in Threads, DropLocals(t)
  PROVE  /\ req' = [req EXCEPT ![t] = Idle]
         /\ req' \in [Threads -> {Idle} \cup Operations]
         /\ todo' \in [Threads -> Seq(Pages)]
         /\ words' \in [Threads -> Seq(Words)]
         /\ frame' \in [Threads -> Frames \cup {Fault}]
         /\ start' \in [Threads -> Nat]
BY DEF Typed, TypeOK, DropLocals

\* What an insertion does to the map and the order, by type.
LEMMA InsertType ==
  ASSUME Typed, NEW k \in Keys, NEW f \in Frames, CacheInsert(k, f)
  PROVE  /\ entries' \in [Keys -> Frames \cup {Absent}]
         /\ order' \in Seq(Keys)
<1>0. order \in Seq(Keys)
  BY DEF Typed, TypeOK
<1>1. /\ Append(order, k) \in Seq(Keys)
      /\ Append(order, k) # <<>>
  BY <1>0, AppendProperties
<1>2. Tail(Append(order, k)) \in Seq(Keys) /\ Head(Append(order, k)) \in Keys
  BY <1>1
<1> QED
  BY <1>1, <1>2 DEF Typed, TypeOK, CacheInsert

\* A step of t that leaves the locals of the other threads alone keeps the loop
\* state if it does so for t.
LEMMA LoopStateStep ==
  ASSUME LoopState, NEW t \in Threads,
         \A u \in Threads \ {t} :
           /\ pc'[u] = pc[u] /\ req'[u] = req[u] /\ todo'[u] = todo[u]
           /\ words'[u] = words[u] /\ frame'[u] = frame[u] /\ wrote'[u] = wrote[u],
         pc'[t] \in {"lookup", "walk", "access"} => req'[t] # Idle /\ Len(todo'[t]) > 0,
         pc'[t] = "walk" => Len(words'[t]) <= Len(WalkPath(t)'),
         pc'[t] = "access" => frame'[t] \in Frames,
         wrote'[t] => pc'[t] = "clear" \/ req'[t].op = "write",
         req'[t] # Idle => pc'[t] \in {"lookup", "walk", "access"}
  PROVE  LoopState'
<1> SUFFICES ASSUME NEW u \in Threads
    PROVE  /\ pc'[u] \in {"lookup", "walk", "access"} => req'[u] # Idle /\ Len(todo'[u]) > 0
           /\ pc'[u] = "walk" => Len(words'[u]) <= Len(WalkPath(u)')
           /\ pc'[u] = "access" => frame'[u] \in Frames
           /\ wrote'[u] => pc'[u] = "clear" \/ req'[u].op = "write"
           /\ req'[u] # Idle => pc'[u] \in {"lookup", "walk", "access"}
  BY DEF LoopState
<1>1. CASE u = t
  BY <1>1
<1>2. CASE u # t
  <2>1. WalkPath(u)' = WalkPath(u)
    BY <1>2 DEF WalkPath
  <2> QED
    BY <1>2, <2>1 DEF LoopState
<1> QED
  BY <1>1, <1>2

\* The initial states are well typed.
LEMMA TypedInit == Init => Typed
BY SessionAssumption DEF Init, Typed, TypeOK, LoopState

\* Every step keeps the types and the loop state.
LEMMA TypedNext == Typed /\ [Next]_vars => Typed'
<1> SUFFICES ASSUME Typed, [Next]_vars PROVE Typed'
  OBVIOUS
<1> USE DEF Typed
<1>1. ASSUME NEW t \in Threads, NEW op \in {"translate", "read", "write"},
             NEW tag \in Tags, NEW root \in Roots, NEW pages \in Requests,
             Begin(t, op, tag, root, pages)
      PROVE  Typed'
  <2> DEFINE r == [op |-> op, tag |-> tag, root |-> root]
  <2>1. pages \in Seq(Pages)
    BY SessionAssumption
  <2>2. r # Idle /\ r \in Operations
    BY DEF Idle, Operations
  <2>3. \/ pc' = [pc EXCEPT ![t] = "clear"] /\ UNCHANGED <<req, todo>>
        \/ /\ Len(pages) > 0
           /\ pc' = [pc EXCEPT ![t] = "lookup"]
           /\ req' = [req EXCEPT ![t] = r]
           /\ todo' = [todo EXCEPT ![t] = pages]
    <3>1. CASE op = "write" /\ (Len(pages) = 0 \/ ~writable)
      BY <1>1, <3>1 DEF Begin
    <3>2. CASE ~(op = "write" /\ (Len(pages) = 0 \/ ~writable))
      <4>1. Len(pages) \in Nat
        BY <2>1
      <4>2. Len(pages) > 0
        BY <1>1, <3>2, <4>1 DEF Begin
      <4> QED
        BY <1>1, <3>2, <4>2 DEF Begin
    <3> QED
      BY <3>1, <3>2
  <2>4. UNCHANGED <<cache, guest, words, frame, start, wrote, writable>> /\ pc[t] = "idle"
    BY <1>1 DEF Begin
  <2> HIDE DEF r
  <2>5. TypeOK'
    <3>0. pc' \in [Threads -> {"idle", "lookup", "walk", "access", "clear"}]
      BY <2>3 DEF TypeOK
    <3>1. todo' \in [Threads -> Seq(Pages)]
      <4>1. todo' = todo \/ todo' = [todo EXCEPT ![t] = pages]
        BY <2>3
      <4> QED
        BY <2>1, <4>1 DEF TypeOK
    <3>2. req' \in [Threads -> {Idle} \cup Operations]
      BY <2>2, <2>3 DEF TypeOK
    <3> QED
      BY <2>4, <3>0, <3>1, <3>2 DEF TypeOK, cache, guest
  <2>6. req[t] = Idle /\ ~wrote[t]
    <3>1. req[t] = Idle
      BY <2>4 DEF LoopState
    <3>2. Idle.op # "write"
      BY DEF Idle
    <3> QED
      BY <2>4, <3>1, <3>2 DEF LoopState
  <2>7. LoopState'
    <3>1. UNCHANGED <<words, frame, wrote>>
      BY <2>4
    <3>2. CASE pc' = [pc EXCEPT ![t] = "clear"] /\ UNCHANGED <<req, todo>>
      <4>1. pc'[t] = "clear" /\ \A u \in Threads \ {t} : pc'[u] = pc[u]
        BY <3>2 DEF TypeOK
      <4> QED
        BY <2>6, <3>1, <3>2, <4>1, LoopStateStep
    <3>3. CASE /\ Len(pages) > 0
               /\ pc' = [pc EXCEPT ![t] = "lookup"]
               /\ req' = [req EXCEPT ![t] = r]
               /\ todo' = [todo EXCEPT ![t] = pages]
      <4>1. /\ pc'[t] = "lookup" /\ req'[t] = r /\ todo'[t] = pages
            /\ \A u \in Threads \ {t} : /\ pc'[u] = pc[u] /\ req'[u] = req[u]
                                         /\ todo'[u] = todo[u]
        BY <3>3 DEF TypeOK
      <4> QED
        BY <2>2, <2>6, <3>1, <3>3, <4>1, LoopStateStep
    <3> QED
      BY <2>3, <3>2, <3>3
  <2> QED
    BY <2>5, <2>7
<1>2. ASSUME NEW t \in Threads, LookupHit(t) PROVE Typed'
  <2>1. TypeOK'
    BY <1>2, KeyType DEF LookupHit, TypeOK, cache, guest
  <2>2. LoopState'
    BY <1>2, KeyType, SMTT(30) DEF LookupHit, TypeOK, LoopState, cache, guest, WalkPath
  <2> QED
    BY <2>1, <2>2
<1>3. ASSUME NEW t \in Threads, LookupMiss(t) PROVE Typed'
  <2>1. Len(WalkPath(t)) \in Nat
    BY <1>3, KeyType DEF LookupMiss
  <2>2. TypeOK'
    BY <1>3 DEF LookupMiss, TypeOK, cache, guest
  <2>3. LoopState'
    BY <1>3, <2>1 DEF LookupMiss, TypeOK, LoopState, cache, guest, WalkPath
  <2> QED
    BY <2>2, <2>3
<1>4. ASSUME NEW t \in Threads, WalkRead(t) PROVE Typed'
  <2>1. WalkPath(t) \in Seq(Locs)
    BY <1>4, KeyType DEF WalkRead
  <2>2. words[t] \in Seq(Words)
    BY DEF TypeOK
  <2>3. mem[WalkPath(t)[Len(words[t]) + 1]] \in Words
    BY <1>4, <2>1, <2>2 DEF WalkRead, TypeOK
  <2>4. TypeOK'
    BY <1>4, <2>2, <2>3 DEF WalkRead, TypeOK, cache, guest
  <2>5. LoopState'
    BY <1>4, <2>1, <2>2, <2>3, SMTT(30) DEF WalkRead, TypeOK, LoopState, cache, guest, WalkPath
  <2> QED
    BY <2>4, <2>5
<1>5. ASSUME NEW t \in Threads, LeaveLoop(t), pc[t] # "idle",
             UNCHANGED <<cache, writable>>,
             mem' \in [Locs -> Words], version' \in Nat, held' \in [Locs -> SUBSET Words],
             wrote' = wrote \/ (wrote' = [wrote EXCEPT ![t] = TRUE] /\ req[t].op = "write"),
             wrote[t] => req[t].op = "write"
      PROVE  Typed'
  <2>1. DropLocals(t)
    BY <1>5 DEF LeaveLoop
  <2>a. wrote' \in [Threads -> BOOLEAN]
    BY <1>5, Zenon DEF TypeOK
  <2>b. pc' \in [Threads -> {"idle", "lookup", "walk", "access", "clear"}]
    BY <1>5 DEF LeaveLoop, TypeOK
  <2>c. raced' \in SUBSET Keys /\ entries' = entries /\ order' = order
    BY <1>5 DEF cache, TypeOK
  <2>2. TypeOK'
    BY <1>5, <2>1, <2>a, <2>b, <2>c, DropLocalsType DEF TypeOK
  <2>3. LoopState'
    BY <1>5, <2>1, SMTT(30) DEF LeaveLoop, TypeOK, LoopState, cache, WalkPath, DropLocals
  <2> QED
    BY <2>2, <2>3
<1>6. ASSUME NEW t \in Threads, WalkFail(t) PROVE Typed'
  BY <1>5, <1>6 DEF WalkFail, TypeOK, LoopState, guest
<1>7. ASSUME NEW t \in Threads, Insert(t) PROVE Typed'
  <2> DEFINE f == Decode(req[t].tag, words[t])
  <2>1. f \in Frames
    BY <1>7, WalkResult DEF Insert
  <2>2. CacheKey(t) \in Keys
    BY <1>7, KeyType DEF Insert
  <2>3. CacheInsert(CacheKey(t), f)
    BY <1>7 DEF Insert
  <2>4. entries' \in [Keys -> Frames \cup {Absent}] /\ order' \in Seq(Keys)
    BY <2>1, <2>2, <2>3, InsertType
  <2>5. raced' \in SUBSET Keys
    BY <1>7, <2>2 DEF Insert, TypeOK
  <2>6. frame' = [frame EXCEPT ![t] = f]
    BY <1>7 DEF Insert
  <2> HIDE DEF f
  <2>7. TypeOK'
    BY <1>7, <2>1, <2>4, <2>5, <2>6 DEF Insert, TypeOK, guest
  <2>8. LoopState'
    BY <1>7, <2>1, <2>6 DEF Insert, TypeOK, LoopState, guest, WalkPath
  <2> QED
    BY <2>7, <2>8
<1>8. ASSUME NEW t \in Threads, Advance(t), pc[t] = "access",
             UNCHANGED <<cache, writable>>,
             mem' \in [Locs -> Words], version' \in Nat, held' \in [Locs -> SUBSET Words],
             wrote' = wrote \/ (wrote' = [wrote EXCEPT ![t] = TRUE] /\ req[t].op = "write")
      PROVE  Typed'
  <2>1. CASE Len(todo[t]) > 1
    <3>0. todo[t] \in Seq(Pages)
      BY DEF TypeOK
    <3>1. Tail(todo[t]) \in Seq(Pages) /\ Len(Tail(todo[t])) = Len(todo[t]) - 1
      BY <2>1, <3>0
    <3>2. Len(Tail(todo[t])) > 0
      BY <2>1, <3>0, <3>1
    <3>a. wrote' \in [Threads -> BOOLEAN]
      BY <1>8, Zenon DEF TypeOK
    <3>b. pc' \in [Threads -> {"idle", "lookup", "walk", "access", "clear"}]
      BY <1>8, <2>1 DEF Advance, TypeOK
    <3>c. todo' \in [Threads -> Seq(Pages)]
      BY <1>8, <2>1, <3>1 DEF Advance, TypeOK
    <3>d. /\ frame' \in [Threads -> Frames \cup {Fault}]
          /\ UNCHANGED <<req, words, start, entries, order, raced>>
      BY <1>8, <2>1 DEF Advance, TypeOK, cache
    <3>3. TypeOK'
      BY <1>8, <3>a, <3>b, <3>c, <3>d DEF TypeOK
    <3>4. LoopState'
      BY <1>8, <2>1, <3>1, <3>2, SMTT(30) DEF Advance, TypeOK, LoopState, cache, WalkPath
    <3> QED
      BY <3>3, <3>4
  <2>2. CASE ~(Len(todo[t]) > 1)
    BY <1>5, <1>8, <2>2 DEF Advance, LoopState
  <2> QED
    BY <2>1, <2>2
<1>9. ASSUME NEW t \in Threads, ReadChunk(t) PROVE Typed'
  BY <1>5, <1>8, <1>9 DEF ReadChunk, TypeOK, LoopState, guest, cache
<1>10. ASSUME NEW l \in Locs, NEW w \in Words, Store(l, w)
       PROVE  mem' \in [Locs -> Words] /\ version' \in Nat /\ held' \in [Locs -> SUBSET Words]
  <2>1. CASE UNCHANGED guest
    BY <2>1 DEF guest, TypeOK
  <2>2. CASE mem' = [mem EXCEPT ![l] = w] /\ version' = version + 1
             /\ held' = [held EXCEPT ![l] = @ \cup {w}]
    BY <2>2 DEF TypeOK
  <2> QED
    BY <1>10, <2>1, <2>2 DEF Store
<1>11. ASSUME NEW t \in Threads, WriteChunk(t) PROVE Typed'
  <2>1. frame[t] \in Locs
    BY <1>11, SessionAssumption DEF WriteChunk, LoopState
  <2>2. mem' \in [Locs -> Words] /\ version' \in Nat /\ held' \in [Locs -> SUBSET Words]
    BY <1>10, <1>11, <2>1 DEF WriteChunk
  <2> QED
    BY <1>5, <1>8, <1>11, <2>2 DEF WriteChunk, cache
<1>12. ASSUME NEW t \in Threads, NEW l \in Locs, WriteBytes(t, l) PROVE Typed'
  <2>1. mem' \in [Locs -> Words] /\ version' \in Nat /\ held' \in [Locs -> SUBSET Words]
    BY <1>10, <1>12 DEF WriteBytes
  <2>2. TypeOK'
    BY <1>12, <2>1 DEF WriteBytes, TypeOK, cache, local
  <2>3. LoopState'
    BY <1>12 DEF WriteBytes, TypeOK, LoopState, cache, local, WalkPath
  <2> QED
    BY <2>2, <2>3
<1>13. ASSUME NEW t \in Threads, Clear(t) PROVE Typed'
  <2>1. TypeOK'
    BY <1>13, EmptySeq DEF Clear, CacheClear, TypeOK, local, guest
  <2>2. LoopState'
    BY <1>13 DEF Clear, TypeOK, LoopState, local, WalkPath
  <2> QED
    BY <2>1, <2>2
<1>14. ASSUME NEW t \in Threads, ClearTranslationCache(t) PROVE Typed'
  <2>1. TypeOK'
    BY <1>14, EmptySeq DEF ClearTranslationCache, CacheClear, TypeOK, local, guest
  <2>2. LoopState'
    BY <1>14 DEF ClearTranslationCache, LoopState, local, WalkPath
  <2> QED
    BY <2>1, <2>2
<1>15. CASE UNCHANGED vars
  BY <1>15 DEF vars, TypeOK, LoopState, WalkPath
<1> QED
  BY <1>1, <1>2, <1>3, <1>4, <1>6, <1>7, <1>9, <1>11, <1>12, <1>13, <1>14, <1>15
  DEF Next, Step

\* Every reachable state of the session is well typed.
THEOREM SessionTypeCorrect == Spec => []TypeOK
<1>1. Typed => TypeOK
  BY DEF Typed
<1> QED
  BY <1>1, TypedInit, TypedNext, PTL DEF Spec

-----------------------------------------------------------------------------
(* The cache bookkeeping.  CacheConsistent is made inductive by adding that *)
(* the map is finite and as large as the order is long, which is what ties  *)
(* the eviction test on the map's size to the order it pops from.           *)

CacheInv ==
  /\ CacheConsistent
  /\ IsFiniteSet(Cached)
  /\ Cardinality(Cached) = Len(order)

\* An insertion keeps the map and the order in step.
LEMMA InsertKeepsCacheInv ==
  ASSUME Typed, CacheInv, NEW k \in Keys, NEW f \in Frames, CacheInsert(k, f)
  PROVE  CacheInv'
<1> DEFINE grown == Append(order, k)
<1>1. order \in Seq(Keys) /\ entries \in [Keys -> Frames \cup {Absent}]
  BY DEF Typed, TypeOK
<1>2. f # Absent
  BY SessionAssumption
<1>3. /\ grown \in Seq(Keys)
      /\ Len(grown) = Len(order) + 1
      /\ \A i \in 1..Len(order) : grown[i] = order[i]
      /\ grown[Len(order) + 1] = k
  BY <1>1, AppendProperties
<1>4. CASE entries[k] # Absent
  <2>1. Cached' = Cached /\ order' = order
    BY <1>1, <1>2, <1>4 DEF CacheInsert, Cached
  <2> QED
    BY <2>1 DEF CacheInv, CacheConsistent
<1>5. CASE entries[k] = Absent
  <2>1. k \notin Cached /\ \A i \in 1..Len(order) : order[i] \in Cached
    BY <1>5 DEF Cached, CacheInv, CacheConsistent
  <2>2. \A i, j \in 1..Len(grown) : grown[i] = grown[j] => i = j
    BY <1>1, <1>3, <2>1 DEF CacheInv, CacheConsistent
  <2>3. \A c \in Cached \cup {k} : \E i \in 1..Len(grown) : grown[i] = c
    BY <1>1, <1>3 DEF CacheInv, CacheConsistent
  <2>4. \A i \in 1..Len(grown) : grown[i] \in Cached \cup {k}
    BY <1>1, <1>3, <2>1
  <2>5. /\ IsFiniteSet(Cached \cup {k})
        /\ Cardinality(Cached \cup {k}) = Len(order) + 1
    BY <2>1, FS_AddElement DEF CacheInv
  <2>6. CASE Cardinality(Cached) + 1 > Capacity
    <3>1. order' = Tail(grown) /\ entries' = [entries EXCEPT ![k] = f, ![Head(grown)] = Absent]
      BY <1>5, <2>6 DEF CacheInsert
    <3>2. Len(order) = Capacity /\ Len(order) >= 1
      BY <1>1, <2>6, SessionAssumption DEF CacheInv, CacheConsistent
    <3>3. Head(grown) = grown[1] /\ grown[1] # k /\ grown[1] \in Cached
      BY <1>1, <1>3, <2>1, <3>2
    <3>4. /\ Tail(grown) \in Seq(Keys)
          /\ Len(Tail(grown)) = Len(order)
          /\ \A i \in 1..Len(order) : Tail(grown)[i] = grown[i + 1]
      BY <1>3, <3>2, HeadTailProperties, AppendProperties, <1>1
    <3>5. Cached' = (Cached \cup {k}) \ {grown[1]}
      BY <1>1, <1>2, <3>1, <3>3 DEF Cached
    <3>6. IsFiniteSet(Cached') /\ Cardinality(Cached') + 1 = Len(order) + 1
      <4> DEFINE S == Cached \cup {k}
      <4>1. IsFiniteSet(S) /\ grown[1] \in S
        BY <2>5, <3>3
      <4> HIDE DEF S
      <4>2. /\ IsFiniteSet(S \ {grown[1]})
            /\ Cardinality(S \ {grown[1]}) = Cardinality(S) - 1
        BY <4>1, FS_RemoveElement
      <4>3. Cardinality(S) = Len(order) + 1 /\ Cached' = S \ {grown[1]} /\ Len(order) \in Nat
        BY <1>1, <2>5, <3>5 DEF S
      <4>4. IsFiniteSet(Cached')
        BY <4>2, <4>3, Zenon
      <4>5. Cardinality(Cached') = Cardinality(S) - 1
        BY <4>2, <4>3, Zenon
      <4>6. Cardinality(S) \in Nat /\ Cardinality(S) = Len(order) + 1
        BY <4>3
      <4>7. Cardinality(S) - 1 + 1 = Len(order) + 1
        BY <4>6
      <4> QED
        BY <4>4, <4>5, <4>7, Zenon
    <3>7. \A i, j \in 1..Len(order') : order'[i] = order'[j] => i = j
      <4> SUFFICES ASSUME NEW i \in 1..Len(order'), NEW j \in 1..Len(order'),
                          order'[i] = order'[j]
                   PROVE  i = j
        OBVIOUS
      <4> HIDE DEF grown
      <4>1. i \in 1..Len(order) /\ j \in 1..Len(order) /\ Len(order) \in Nat
        BY <1>1, <3>1, <3>4
      <4>2. i + 1 \in 1..Len(grown) /\ j + 1 \in 1..Len(grown)
        BY <1>3, <4>1
      <4>3. grown[i + 1] = grown[j + 1]
        BY <3>1, <3>4, <4>1
      <4>4. i + 1 = j + 1
        BY <2>2, <4>2, <4>3
      <4> QED
        BY <4>1, <4>4
    <3>8. {order'[i] : i \in 1..Len(order')} = Cached'
      <4>1. ASSUME NEW i \in 1..Len(order') PROVE order'[i] \in Cached'
        BY <1>1, <1>3, <2>2, <2>4, <3>1, <3>2, <3>4, <3>5, SMTT(30)
      <4>2. ASSUME NEW c \in Cached' PROVE \E i \in 1..Len(order') : order'[i] = c
        <5>1. PICK i \in 1..Len(grown) : grown[i] = c
          BY <2>3, <3>5
        <5>2. i # 1
          BY <3>5, <5>1
        <5>3. i - 1 \in 1..Len(order') /\ order'[i - 1] = c
          BY <1>1, <1>3, <3>1, <3>4, <5>1, <5>2
        <5> QED
          BY <5>3
      <4> QED
        BY <4>1, <4>2
    <3>9. Len(order') <= Capacity /\ Cardinality(Cached') = Len(order')
      <4>1. Cardinality(Cached') \in Nat /\ Len(order) \in Nat
        BY <1>1, <3>6, FS_CardinalityType
      <4> QED
        BY <4>1, <3>1, <3>2, <3>4, <3>6, SessionAssumption
    <3> QED
      BY <3>6, <3>7, <3>8, <3>9 DEF CacheInv, CacheConsistent
  <2>7. CASE ~(Cardinality(Cached) + 1 > Capacity)
    <3>1. order' = grown /\ entries' = [entries EXCEPT ![k] = f]
      BY <1>5, <2>7 DEF CacheInsert
    <3>2. Cached' = Cached \cup {k}
      BY <1>1, <1>2, <3>1 DEF Cached
    <3>3. Len(grown) <= Capacity
      BY <1>1, <1>3, <2>7, SessionAssumption DEF CacheInv
    <3>4. {grown[i] : i \in 1..Len(grown)} = Cached \cup {k}
      BY <2>3, <2>4
    <3> QED
      BY <1>3, <2>2, <2>5, <3>1, <3>2, <3>3, <3>4 DEF CacheInv, CacheConsistent
  <2> QED
    BY <2>6, <2>7
<1> QED
  BY <1>4, <1>5

\* An invalidation empties the map and the order together.
LEMMA ClearKeepsCacheInv == ASSUME CacheClear PROVE CacheInv' /\ Cached' = {}
<1>1. Cached' = {} /\ order' = <<>>
  BY DEF CacheClear, Cached
<1> QED
  BY <1>1, FS_EmptySet, EmptySeq, SessionAssumption DEF CacheInv, CacheConsistent

\* The empty cache is consistent.
LEMMA CacheInvInit == Init => CacheInv
<1> SUFFICES ASSUME Init PROVE CacheInv
  OBVIOUS
<1>1. Cached = {} /\ order = <<>>
  BY DEF Init, Cached
<1> QED
  BY <1>1, FS_EmptySet, EmptySeq, SessionAssumption DEF CacheInv, CacheConsistent

\* Every step keeps the map and the order in step.
LEMMA CacheInvNext == Typed /\ CacheInv /\ [Next]_vars => CacheInv'
<1> SUFFICES ASSUME Typed, CacheInv, [Next]_vars PROVE CacheInv'
  OBVIOUS
<1>1. CASE UNCHANGED cache
  BY <1>1 DEF cache, CacheInv, CacheConsistent, Cached
<1>2. CASE CacheClear
  BY <1>2, ClearKeepsCacheInv
<1>3. ASSUME NEW t \in Threads, Insert(t) PROVE CacheInv'
  BY <1>3, KeyType, WalkResult, InsertKeepsCacheInv DEF Insert
<1> QED
  BY <1>1, <1>2, <1>3
  DEF Next, Step, vars, cache, Begin, LookupHit, LookupMiss, WalkRead, WalkFail,
      ReadChunk, WriteChunk, WriteBytes, Clear, ClearTranslationCache

\* The eviction order and the map of the translation cache stay in step and
\* within the capacity, for any number of threads and any capacity.
THEOREM SessionCacheConsistent == Spec => []CacheConsistent
<1>2. CacheInv => CacheConsistent
  BY DEF CacheInv
<1> QED
  BY <1>2, CacheInvInit, TypedInit, TypedNext, CacheInvNext, PTL DEF Spec

-----------------------------------------------------------------------------
(* Freshness.  The inductive invariant adds what a walk in progress knows:   *)
(* as long as memory has not changed since it began, the words it has read   *)
(* are the ones memory still holds.                                          *)

FreshInv == WalkIsCurrent /\ FreshUnlessRaced

\* A completed walk over unchanged memory found the current translation.
LEMMA UnracedWalk ==
  ASSUME Typed, WalkIsCurrent, NEW t \in Threads, pc[t] = "walk",
         Len(words[t]) = Len(WalkPath(t)), start[t] = version
  PROVE  Decode(req[t].tag, words[t]) = Walk(mem, CacheKey(t))
<1>1. words[t] \in Seq(Words) /\ WalkPath(t) \in Seq(Locs)
  BY KeyType DEF Typed, TypeOK
<1>2. \A i \in 1..Len(WalkPath(t)) : words[t][i] = mem[WalkPath(t)[i]]
  BY <1>1 DEF WalkIsCurrent
<1>3. words[t] = [i \in 1..Len(WalkPath(t)) |-> mem[WalkPath(t)[i]]]
  BY <1>1, <1>2
<1> QED
  BY <1>3 DEF Walk, WalkPath, CacheKey

\* A step that leaves memory and the cache alone and ends no pending
\* invalidation keeps cached translations fresh.
LEMMA QuietKeepsFresh ==
  ASSUME Typed, FreshUnlessRaced, UNCHANGED <<mem, entries, raced>>,
         \A t \in Threads : InvalidationPending(t) => InvalidationPending(t)'
  PROVE  FreshUnlessRaced'
BY DEF FreshUnlessRaced, Cached, Walk

\* While an invalidation is pending nothing is claimed about the cache.
LEMMA PendingIsFresh ==
  ASSUME NEW t \in Threads, InvalidationPending(t)' PROVE FreshUnlessRaced'
BY DEF FreshUnlessRaced

\* A step of t that starts or continues no walk of t, and does not change
\* memory, keeps the other walks current.
LEMMA WalksKept ==
  ASSUME Typed, WalkIsCurrent, NEW t \in Threads,
         \/ UNCHANGED <<mem, version>>
         \/ version' = version + 1,
         \A u \in Threads \ {t} : /\ pc'[u] = pc[u] /\ words'[u] = words[u]
                                  /\ start'[u] = start[u] /\ req'[u] = req[u]
                                  /\ todo'[u] = todo[u],
         pc'[t] # "walk"
  PROVE  WalkIsCurrent'
<1> SUFFICES ASSUME NEW u \in Threads, pc'[u] = "walk"
             PROVE  /\ start'[u] <= version'
                    /\ start'[u] = version' =>
                         \A i \in 1..Len(words'[u]) : words'[u][i] = mem'[WalkPath(u)'[i]]
  BY DEF WalkIsCurrent
<1>1. u # t /\ pc[u] = "walk" /\ WalkPath(u)' = WalkPath(u)
  BY DEF WalkPath
<1>2. version \in Nat /\ start[u] \in Nat
  BY DEF Typed, TypeOK
<1> QED
  BY <1>1, <1>2 DEF WalkIsCurrent

\* Every step keeps walks current and cached translations fresh.
LEMMA FreshNext == Typed /\ Typed' /\ CacheInv /\ FreshInv /\ [Next]_vars => FreshInv'
<1> SUFFICES ASSUME Typed, Typed', CacheInv, FreshInv, [Next]_vars PROVE FreshInv'
  OBVIOUS
<1> USE DEF FreshInv
<1>1. ASSUME NEW t \in Threads, NEW op \in {"translate", "read", "write"},
             NEW tag \in Tags, NEW root \in Roots, NEW pages \in Requests,
             Begin(t, op, tag, root, pages)
      PROVE  FreshInv'
  <2>0. /\ UNCHANGED <<mem, version, words, start>>
        /\ pc' = [pc EXCEPT ![t] = "clear"] \/ pc' = [pc EXCEPT ![t] = "lookup"]
        /\ \A u \in Threads \ {t} : req'[u] = req[u] /\ todo'[u] = todo[u]
    BY <1>1 DEF Begin, guest, Typed, TypeOK
  <2>a. /\ \A u \in Threads \ {t} : pc'[u] = pc[u]
        /\ pc'[t] # "walk"
    BY <2>0 DEF Typed, TypeOK
  <2>1. WalkIsCurrent'
    BY <2>0, <2>a, WalksKept
  <2>2. FreshUnlessRaced'
    BY <1>1, QuietKeepsFresh DEF Begin, guest, cache, InvalidationPending, Typed, TypeOK
  <2> QED
    BY <2>1, <2>2
<1>2. ASSUME NEW t \in Threads, LookupHit(t) PROVE FreshInv'
  <2>1. WalkIsCurrent'
    BY <1>2, WalksKept DEF LookupHit, guest, Typed, TypeOK
  <2>2. FreshUnlessRaced'
    BY <1>2, QuietKeepsFresh DEF LookupHit, guest, cache, InvalidationPending, Typed, TypeOK
  <2> QED
    BY <2>1, <2>2
<1>3. ASSUME NEW t \in Threads, LookupMiss(t) PROVE FreshInv'
  <2>0. /\ UNCHANGED <<mem, version, req, todo>>
        /\ pc' = [pc EXCEPT ![t] = "walk"]
        /\ words' = [words EXCEPT ![t] = <<>>]
        /\ start' = [start EXCEPT ![t] = version]
    BY <1>3 DEF LookupMiss, guest
  <2>1. WalkIsCurrent'
    <3> SUFFICES ASSUME NEW u \in Threads, pc'[u] = "walk"
                 PROVE  /\ start'[u] <= version'
                        /\ start'[u] = version' =>
                             \A i \in 1..Len(words'[u]) : words'[u][i] = mem'[WalkPath(u)'[i]]
      BY DEF WalkIsCurrent
    <3>1. version \in Nat /\ WalkPath(u)' = WalkPath(u)
      BY <2>0 DEF Typed, TypeOK, WalkPath
    <3>2. CASE u = t
      <4>1. start'[u] = version /\ words'[u] = <<>>
        BY <2>0, <3>2 DEF Typed, TypeOK
      <4> QED
        BY <2>0, <3>1, <4>1
    <3>3. CASE u # t
      <4>1. pc[u] = "walk" /\ start'[u] = start[u] /\ words'[u] = words[u]
        BY <2>0, <3>3 DEF Typed, TypeOK
      <4> QED
        BY <2>0, <3>1, <4>1 DEF WalkIsCurrent
    <3> QED
      BY <3>2, <3>3
  <2>2. FreshUnlessRaced'
    BY <1>3, QuietKeepsFresh DEF LookupMiss, guest, cache, InvalidationPending, Typed, TypeOK
  <2> QED
    BY <2>1, <2>2
<1>4. ASSUME NEW t \in Threads, WalkRead(t) PROVE FreshInv'
  <2>0. words[t] \in Seq(Words) /\ WalkPath(t) \in Seq(Locs) /\ words \in [Threads -> Seq(Words)]
    BY <1>4, KeyType DEF WalkRead, Typed, TypeOK
  <2> DEFINE next == mem[WalkPath(t)[Len(words[t]) + 1]]
  <2>1. words' = [words EXCEPT ![t] = Append(words[t], next)] /\ next \in Words
    BY <1>4, <2>0 DEF WalkRead, Typed, TypeOK
  <2>2. UNCHANGED <<mem, version, pc, req, todo, start>>
    BY <1>4 DEF WalkRead, guest
  <2>3. \A u \in Threads : WalkPath(u)' = WalkPath(u)
    BY <2>2 DEF WalkPath
  <2>4. /\ Len(Append(words[t], next)) = Len(words[t]) + 1
        /\ \A i \in 1..Len(words[t]) : Append(words[t], next)[i] = words[t][i]
        /\ Append(words[t], next)[Len(words[t]) + 1] = next
    BY <2>0, <2>1, AppendProperties
  <2>5. ASSUME NEW u \in Threads, pc'[u] = "walk"
        PROVE  /\ start'[u] <= version'
               /\ start'[u] = version' =>
                    \A i \in 1..Len(words'[u]) : words'[u][i] = mem'[WalkPath(u)'[i]]
    <3>1. CASE u = t
      BY <2>0, <2>1, <2>2, <2>3, <2>4, <2>5, <3>1 DEF WalkIsCurrent
    <3>2. CASE u # t
      BY <2>0, <2>1, <2>2, <2>3, <2>5, <3>2 DEF WalkIsCurrent
    <3> QED
      BY <3>1, <3>2
  <2>6. WalkIsCurrent'
    BY <2>5 DEF WalkIsCurrent
  <2>7. FreshUnlessRaced'
    BY <1>4, QuietKeepsFresh DEF WalkRead, guest, cache, InvalidationPending
  <2> QED
    BY <2>6, <2>7
<1>5. ASSUME NEW t \in Threads, Insert(t) PROVE FreshInv'
  <2> DEFINE k == CacheKey(t)
             f == Decode(req[t].tag, words[t])
  <2>1. WalkIsCurrent'
    BY <1>5, WalksKept DEF Insert, guest, Typed, TypeOK
  <2>2. k \in Keys /\ f \in Frames /\ f # Absent /\ entries \in [Keys -> Frames \cup {Absent}]
    BY <1>5, KeyType, WalkResult, SessionAssumption DEF Insert, Typed, TypeOK
  <2>3. CacheInsert(k, f) /\ UNCHANGED <<mem, wrote>>
    BY <1>5 DEF Insert, guest
  <2>4. \A c \in Keys : \/ entries'[c] = Absent
                        \/ c = k /\ entries'[c] = f
                        \/ c # k /\ entries'[c] = entries[c]
    BY <2>2, <2>3 DEF CacheInsert
  <2>5. start[t] = version => f = Walk(mem, k)
    BY <1>5, UnracedWalk DEF Insert
  <2>6. /\ k \notin raced' => start[t] = version
        /\ \A c \in Keys \ {k} : c \in raced => c \in raced'
    BY <1>5 DEF Insert
  <2>7. \A c \in Keys : Walk(mem', c) = Walk(mem, c)
    BY <2>3
  <2>8. \A u \in Threads : InvalidationPending(u)' = InvalidationPending(u)
    BY <1>5 DEF Insert, InvalidationPending, Typed, TypeOK
  <2> HIDE DEF k, f
  <2> QED
    BY <2>1, <2>2, <2>4, <2>5, <2>6, <2>7, <2>8 DEF FreshUnlessRaced, Cached
<1>6. ASSUME NEW t \in Threads, WalkFail(t) \/ ReadChunk(t) PROVE FreshInv'
  <2>1. /\ UNCHANGED <<mem, version, entries, raced, wrote>>
        /\ pc' = [pc EXCEPT ![t] = "lookup"] \/ LeaveLoop(t)
        /\ \A u \in Threads \ {t} : /\ pc'[u] = pc[u] /\ words'[u] = words[u]
                                     /\ start'[u] = start[u] /\ req'[u] = req[u]
                                     /\ todo'[u] = todo[u]
        /\ pc'[t] # "walk"
    <3>1. UNCHANGED <<mem, version, entries, raced, wrote>> /\ (Advance(t) \/ LeaveLoop(t))
      BY <1>6 DEF WalkFail, ReadChunk, guest, cache
    <3>2. CASE LeaveLoop(t)
      BY <3>1, <3>2 DEF LeaveLoop, DropLocals, Typed, TypeOK
    <3>3. CASE Len(todo[t]) > 1 /\ Advance(t)
      BY <3>1, <3>3 DEF Advance, Typed, TypeOK
    <3> QED
      BY <3>1, <3>2, <3>3 DEF Advance
  <2>2. WalkIsCurrent'
    BY <2>1, WalksKept
  <2>3. wrote[t] => pc'[t] # "idle"
    BY <1>6, <2>1 DEF LeaveLoop, Typed, TypeOK, LoopState, WalkFail, ReadChunk
  <2>4. FreshUnlessRaced'
    BY <2>1, <2>3, QuietKeepsFresh DEF LeaveLoop, InvalidationPending, Typed, TypeOK
  <2> QED
    BY <2>2, <2>4
<1>7. ASSUME NEW l, NEW w, Store(l, w)
      PROVE  UNCHANGED <<mem, version>> \/ version' = version + 1
  BY <1>7 DEF Store, guest
<1>8. ASSUME NEW t \in Threads, WriteChunk(t) PROVE FreshInv'
  <2>0. UNCHANGED <<mem, version>> \/ version' = version + 1
    BY <1>7, <1>8 DEF WriteChunk
  <2>1. /\ pc' = [pc EXCEPT ![t] = "lookup"] \/ LeaveLoop(t)
        /\ \A u \in Threads \ {t} : /\ pc'[u] = pc[u] /\ words'[u] = words[u]
                                     /\ start'[u] = start[u] /\ req'[u] = req[u]
                                     /\ todo'[u] = todo[u]
        /\ pc'[t] # "walk"
    <3>1. Advance(t) \/ LeaveLoop(t)
      BY <1>8 DEF WriteChunk
    <3>2. CASE LeaveLoop(t)
      BY <3>2 DEF LeaveLoop, DropLocals, Typed, TypeOK
    <3>3. CASE Len(todo[t]) > 1 /\ Advance(t)
      BY <3>3 DEF Advance, Typed, TypeOK
    <3> QED
      BY <3>1, <3>2, <3>3 DEF Advance
  <2>2. WalkIsCurrent'
    BY <2>0, <2>1, WalksKept
  <2>3. InvalidationPending(t)'
    BY <1>8, <2>1 DEF WriteChunk, LeaveLoop, InvalidationPending, Typed, TypeOK
  <2> QED
    BY <2>2, <2>3, PendingIsFresh
<1>9. ASSUME NEW t \in Threads, NEW l \in Locs, WriteBytes(t, l) PROVE FreshInv'
  <2>1. WalkIsCurrent'
    BY <1>7, <1>9, WalksKept DEF WriteBytes, local, Typed, TypeOK
  <2>2. InvalidationPending(t)'
    BY <1>9 DEF WriteBytes, InvalidationPending, Typed, TypeOK
  <2> QED
    BY <2>1, <2>2, PendingIsFresh
<1>10. ASSUME NEW t \in Threads, Clear(t) \/ ClearTranslationCache(t) PROVE FreshInv'
  <2>1. WalkIsCurrent'
    BY <1>10, WalksKept DEF Clear, ClearTranslationCache, local, guest, Typed, TypeOK
  <2>2. Cached' = {}
    BY <1>10, ClearKeepsCacheInv DEF Clear, ClearTranslationCache
  <2> QED
    BY <2>1, <2>2 DEF FreshUnlessRaced
<1>11. CASE UNCHANGED vars
  BY <1>11, SMTT(30) DEF vars, WalkIsCurrent, FreshUnlessRaced, Cached, Walk, WalkPath, InvalidationPending
<1> QED
  BY <1>1, <1>2, <1>3, <1>4, <1>5, <1>6, <1>8, <1>9, <1>10, <1>11, SMTT(30) DEF Next, Step

\* Whenever no write is between its memory access and its invalidation, every
\* cached translation is current, unless memory changed during its own walk.
THEOREM SessionFresh == Spec => []FreshUnlessRaced
<1>2. Init => FreshInv
  BY DEF Init, FreshInv, WalkIsCurrent, FreshUnlessRaced, Cached
<1>3. FreshInv => FreshUnlessRaced
  BY DEF FreshInv
<1> QED
  BY <1>2, <1>3, CacheInvInit, TypedInit, TypedNext, CacheInvNext, FreshNext, PTL DEF Spec

-----------------------------------------------------------------------------
(* Whose translations these are.  The inductive invariant adds that every   *)
(* word a walk in progress has read was really held by the location on the  *)
(* path of its own root and page; a location never loses a word it has held *)
(* (held is history), so a translation that was plausible stays so.         *)

\* Plausible, with the words that locations have held as a parameter.
PlausibleIn(h, k, f) ==
  LET p == Path[k[2]][k[3]]
  IN  \E ws \in [1..Len(p) -> Words] :
        /\ \A i \in 1..Len(p) : ws[i] \in h[p[i]]
        /\ f = Decode(k[1], ws)

\* The words that thread t has read were held by the locations of its path.
WordsHeld(t) == \A i \in 1..Len(words[t]) : words[t][i] \in held[WalkPath(t)[i]]

KeyInv ==
  /\ \A l \in Locs : mem[l] \in held[l]
  /\ \A t \in Threads : pc[t] = "walk" => WordsHeld(t)
  /\ \A k \in Keys : entries[k] # Absent => PlausibleIn(held, k, entries[k])
  /\ \A t \in Threads : pc[t] = "access" => PlausibleIn(held, CacheKey(t), frame[t])

\* Locations only gain words, and hold what is in memory.
HeldGrows == \A l \in Locs : held[l] \subseteq held'[l] /\ mem'[l] \in held'[l]

\* Every store, and every step without one, adds the word it writes.
LEMMA StoreGrows ==
  ASSUME Typed, KeyInv, NEW l \in Locs, NEW w \in Words, Store(l, w) \/ UNCHANGED guest
  PROVE  HeldGrows
BY DEF Typed, TypeOK, KeyInv, Store, guest, HeldGrows

\* What was plausible stays so when locations gain words.
LEMMA PlausibleStays ==
  ASSUME HeldGrows, NEW k \in Keys, NEW f, PlausibleIn(held, k, f)
  PROVE  PlausibleIn(held', k, f)
<1>1. Path[k[2]][k[3]] \in Seq(Locs)
  BY SessionAssumption DEF Keys
<1>2. PICK ws \in [1..Len(Path[k[2]][k[3]]) -> Words] :
        /\ \A i \in 1..Len(Path[k[2]][k[3]]) : ws[i] \in held[Path[k[2]][k[3]][i]]
        /\ f = Decode(k[1], ws)
  BY DEF PlausibleIn
<1>3. \A i \in 1..Len(Path[k[2]][k[3]]) : ws[i] \in held'[Path[k[2]][k[3]][i]]
  BY <1>1, <1>2 DEF HeldGrows
<1> QED
  BY <1>2, <1>3 DEF PlausibleIn

\* A completed walk has found a plausible translation of its own key.
LEMMA WalkPlausible ==
  ASSUME Typed, NEW t \in Threads, pc[t] = "walk", WordsHeld(t),
         Len(words[t]) = Len(WalkPath(t))
  PROVE  PlausibleIn(held, CacheKey(t), Decode(req[t].tag, words[t]))
<1>1. words[t] \in [1..Len(WalkPath(t)) -> Words]
  BY DEF Typed, TypeOK
<1>2. WalkPath(t) = Path[CacheKey(t)[2]][CacheKey(t)[3]] /\ CacheKey(t)[1] = req[t].tag
  BY DEF WalkPath, CacheKey
<1> QED
  BY <1>1, <1>2 DEF PlausibleIn, WordsHeld

\* A step of t keeps the invariant if it does so for t and for the entries that
\* it changes.
LEMMA KeyStep ==
  ASSUME Typed, KeyInv, NEW t \in Threads, HeldGrows,
         \A u \in Threads \ {t} :
           /\ pc'[u] = pc[u] /\ req'[u] = req[u] /\ todo'[u] = todo[u]
           /\ words'[u] = words[u] /\ frame'[u] = frame[u],
         \A k \in Keys : \/ entries'[k] = Absent \/ entries'[k] = entries[k]
                         \/ PlausibleIn(held', k, entries'[k]),
         pc'[t] = "walk" => WordsHeld(t)',
         pc'[t] = "access" => PlausibleIn(held', CacheKey(t)', frame'[t])
  PROVE  KeyInv'
<1>1. \A l \in Locs : mem'[l] \in held'[l]
  BY DEF HeldGrows
<1>2. ASSUME NEW u \in Threads, pc'[u] = "walk" PROVE WordsHeld(u)'
  <2>1. CASE u # t
    <3>1. /\ pc[u] = "walk" /\ words'[u] = words[u] /\ WalkPath(u)' = WalkPath(u)
          /\ WordsHeld(u)
      BY <1>2, <2>1 DEF WalkPath, KeyInv
    <3>2. WalkPath(u) \in Seq(Locs) /\ Len(words[u]) <= Len(WalkPath(u)) /\ words[u] \in Seq(Words)
      BY <3>1, KeyType DEF Typed, TypeOK, LoopState
    <3>3. \A i \in 1..Len(words[u]) : words[u][i] \in held'[WalkPath(u)[i]]
      BY <3>1, <3>2 DEF HeldGrows, WordsHeld
    <3> QED
      BY <3>1, <3>3 DEF WordsHeld
  <2> QED
    BY <1>2, <2>1
<1>3. ASSUME NEW k \in Keys, entries'[k] # Absent PROVE PlausibleIn(held', k, entries'[k])
  <2>1. CASE entries'[k] = entries[k]
    <3>1. PlausibleIn(held, k, entries[k])
      BY <1>3, <2>1 DEF KeyInv
    <3> QED
      BY <2>1, <3>1, PlausibleStays
  <2> QED
    BY <1>3, <2>1
<1>4. ASSUME NEW u \in Threads, pc'[u] = "access"
      PROVE  PlausibleIn(held', CacheKey(u)', frame'[u])
  <2>1. CASE u # t
    <3>1. pc[u] = "access" /\ CacheKey(u)' = CacheKey(u) /\ frame'[u] = frame[u]
      BY <1>4, <2>1 DEF CacheKey
    <3>2. PlausibleIn(held, CacheKey(u), frame[u]) /\ CacheKey(u) \in Keys
      BY <3>1, KeyType DEF KeyInv
    <3>3. PlausibleIn(held', CacheKey(u), frame[u])
      BY <3>2, PlausibleStays
    <3> QED
      BY <3>1, <3>3
  <2> QED
    BY <1>4, <2>1
<1> QED
  BY <1>1, <1>2, <1>3, <1>4 DEF KeyInv

\* Every step keeps translations with the key they were computed for.
LEMMA KeyNext == Typed /\ KeyInv /\ [Next]_vars => KeyInv'
<1> SUFFICES ASSUME Typed, KeyInv, [Next]_vars PROVE KeyInv'
  OBVIOUS
<1>0. UNCHANGED guest => HeldGrows
  BY DEF Typed, TypeOK, KeyInv, guest, HeldGrows
<1>1. ASSUME NEW t \in Threads, NEW op \in {"translate", "read", "write"},
             NEW tag \in Tags, NEW root \in Roots, NEW pages \in Requests,
             Begin(t, op, tag, root, pages)
      PROVE  KeyInv'
  <2>1. /\ UNCHANGED <<entries, words, frame>> /\ HeldGrows
        /\ pc' = [pc EXCEPT ![t] = "clear"] \/ pc' = [pc EXCEPT ![t] = "lookup"]
        /\ \A u \in Threads \ {t} : req'[u] = req[u] /\ todo'[u] = todo[u]
    BY <1>0, <1>1 DEF Begin, cache, Typed, TypeOK
  <2>2. \A u \in Threads \ {t} : pc'[u] = pc[u]
    BY <2>1 DEF Typed, TypeOK
  <2>3. pc'[t] # "walk" /\ pc'[t] # "access"
    BY <2>1 DEF Typed, TypeOK
  <2> QED
    BY <2>1, <2>2, <2>3, KeyStep
<1>2. ASSUME NEW t \in Threads, LookupHit(t) PROVE KeyInv'
  <2>1. /\ UNCHANGED <<entries, req, todo, words>> /\ HeldGrows
        /\ pc' = [pc EXCEPT ![t] = "access"]
        /\ frame' = [frame EXCEPT ![t] = entries[CacheKey(t)]]
    BY <1>0, <1>2 DEF LookupHit, cache
  <2>2. \A u \in Threads \ {t} : pc'[u] = pc[u] /\ frame'[u] = frame[u]
    BY <2>1 DEF Typed, TypeOK
  <2>3. /\ pc'[t] = "access" /\ frame'[t] = entries[CacheKey(t)] /\ CacheKey(t)' = CacheKey(t)
        /\ CacheKey(t) \in Keys
    BY <1>2, <2>1, KeyType DEF LookupHit, CacheKey, Typed, TypeOK
  <2>4. PlausibleIn(held', CacheKey(t), entries[CacheKey(t)])
    <3>1. PlausibleIn(held, CacheKey(t), entries[CacheKey(t)])
      BY <1>2, <2>3 DEF LookupHit, KeyInv
    <3> QED
      BY <2>1, <2>3, <3>1, PlausibleStays
  <2> QED
    BY <2>1, <2>2, <2>3, <2>4, KeyStep
<1>3. ASSUME NEW t \in Threads, LookupMiss(t) PROVE KeyInv'
  <2>1. /\ UNCHANGED <<entries, req, todo, frame>> /\ HeldGrows
        /\ pc' = [pc EXCEPT ![t] = "walk"]
        /\ words' = [words EXCEPT ![t] = <<>>]
    BY <1>0, <1>3 DEF LookupMiss, cache
  <2>2. \A u \in Threads \ {t} : pc'[u] = pc[u] /\ words'[u] = words[u]
    BY <2>1 DEF Typed, TypeOK
  <2>3. pc'[t] = "walk" /\ words'[t] = <<>>
    BY <2>1 DEF Typed, TypeOK
  <2>4. WordsHeld(t)'
    BY <2>3 DEF WordsHeld
  <2> QED
    BY <2>1, <2>2, <2>3, <2>4, KeyStep
<1>4. ASSUME NEW t \in Threads, WalkRead(t) PROVE KeyInv'
  <2>0. words[t] \in Seq(Words) /\ WalkPath(t) \in Seq(Locs) /\ words \in [Threads -> Seq(Words)]
    BY <1>4, KeyType DEF WalkRead, Typed, TypeOK
  <2> DEFINE next == mem[WalkPath(t)[Len(words[t]) + 1]]
  <2>1. /\ words' = [words EXCEPT ![t] = Append(words[t], next)] /\ next \in Words
        /\ UNCHANGED <<pc, req, todo, frame, entries, mem, held>> /\ HeldGrows
    BY <1>0, <1>4, <2>0 DEF WalkRead, Typed, TypeOK, guest, cache
  <2>2. WalkPath(t)' = WalkPath(t) /\ \A u \in Threads \ {t} : words'[u] = words[u]
    BY <2>0, <2>1 DEF WalkPath
  <2>3. /\ Len(Append(words[t], next)) = Len(words[t]) + 1
        /\ \A i \in 1..Len(words[t]) : Append(words[t], next)[i] = words[t][i]
        /\ Append(words[t], next)[Len(words[t]) + 1] = next
    BY <2>0, <2>1, AppendProperties
  <2>4. next \in held[WalkPath(t)[Len(words[t]) + 1]]
    BY <1>4, <2>0 DEF WalkRead, KeyInv
  <2>5. WordsHeld(t) /\ words'[t] = Append(words[t], next)
    BY <1>4, <2>0, <2>1 DEF WalkRead, KeyInv
  <2> HIDE DEF next
  <2>6. WordsHeld(t)'
    BY <2>0, <2>1, <2>2, <2>3, <2>4, <2>5 DEF WordsHeld
  <2>7. pc'[t] # "access"
    BY <1>4, <2>1 DEF WalkRead
  <2> QED
    BY <2>1, <2>2, <2>6, <2>7, KeyStep
<1>5. ASSUME NEW t \in Threads, Insert(t) PROVE KeyInv'
  <2> DEFINE k == CacheKey(t)
             f == Decode(req[t].tag, words[t])
  <2>1. /\ UNCHANGED <<req, todo>> /\ HeldGrows /\ CacheInsert(k, f)
        /\ pc' = [pc EXCEPT ![t] = "access"]
        /\ frame' = [frame EXCEPT ![t] = f] /\ words' = [words EXCEPT ![t] = <<>>]
    BY <1>0, <1>5 DEF Insert
  <2>2. k \in Keys /\ entries \in [Keys -> Frames \cup {Absent}]
    BY <1>5, KeyType DEF Insert, Typed, TypeOK
  <2>3. \A c \in Keys : \/ entries'[c] = Absent
                        \/ c = k /\ entries'[c] = f
                        \/ c # k /\ entries'[c] = entries[c]
    BY <2>1, <2>2 DEF CacheInsert
  <2>4. PlausibleIn(held', k, f)
    <3>1. PlausibleIn(held, k, f)
      BY <1>5, WalkPlausible DEF Insert, KeyInv
    <3> QED
      BY <2>1, <2>2, <3>1, PlausibleStays
  <2>5. /\ \A u \in Threads \ {t} : pc'[u] = pc[u] /\ words'[u] = words[u] /\ frame'[u] = frame[u]
        /\ pc'[t] = "access" /\ frame'[t] = f /\ CacheKey(t)' = k
    BY <2>1 DEF Typed, TypeOK, CacheKey
  <2> HIDE DEF k, f
  <2> QED
    BY <2>1, <2>3, <2>4, <2>5, KeyStep
<1>6. ASSUME NEW t \in Threads, WalkFail(t) \/ ReadChunk(t) \/ WriteChunk(t) PROVE KeyInv'
  <2>1. UNCHANGED entries /\ (Advance(t) \/ LeaveLoop(t))
    BY <1>6 DEF WalkFail, ReadChunk, WriteChunk, cache
  <2>2. HeldGrows
    <3>1. CASE UNCHANGED guest
      BY <1>0, <3>1
    <3>2. CASE WriteChunk(t)
      <4>1. frame[t] \in Locs
        BY <3>2, SessionAssumption DEF WriteChunk, Typed, LoopState
      <4> QED
        BY <3>2, <4>1, StoreGrows DEF WriteChunk
    <3> QED
      BY <1>6, <3>1, <3>2 DEF WalkFail, ReadChunk
  <2>3. /\ \A u \in Threads \ {t} : /\ pc'[u] = pc[u] /\ req'[u] = req[u] /\ todo'[u] = todo[u]
                                    /\ words'[u] = words[u] /\ frame'[u] = frame[u]
        /\ pc'[t] # "walk" /\ pc'[t] # "access"
    <3>1. CASE LeaveLoop(t)
      BY <3>1 DEF LeaveLoop, DropLocals, Typed, TypeOK
    <3>2. CASE Len(todo[t]) > 1 /\ Advance(t)
      BY <3>2 DEF Advance, Typed, TypeOK
    <3> QED
      BY <2>1, <3>1, <3>2 DEF Advance
  <2> QED
    BY <2>1, <2>2, <2>3, KeyStep
<1>7. ASSUME NEW t \in Threads, NEW l \in Locs, WriteBytes(t, l) PROVE KeyInv'
  <2>1. HeldGrows
    BY <1>7, StoreGrows DEF WriteBytes
  <2>2. UNCHANGED <<entries, req, todo, words, frame>> /\ pc' = [pc EXCEPT ![t] = "clear"]
    BY <1>7 DEF WriteBytes, cache, local
  <2>3. pc'[t] = "clear" /\ \A u \in Threads \ {t} : pc'[u] = pc[u]
    BY <2>2 DEF Typed, TypeOK
  <2> QED
    BY <2>1, <2>2, <2>3, KeyStep
<1>8. ASSUME NEW t \in Threads, Clear(t) \/ ClearTranslationCache(t) PROVE KeyInv'
  <2>1. HeldGrows /\ UNCHANGED <<req, todo, words, frame>> /\ CacheClear
    BY <1>0, <1>8 DEF Clear, ClearTranslationCache, local
  <2>2. pc'[t] = "idle" /\ \A u \in Threads \ {t} : pc'[u] = pc[u]
    BY <1>8 DEF Clear, ClearTranslationCache, Typed, TypeOK
  <2>3. \A k \in Keys : entries'[k] = Absent
    BY <2>1 DEF CacheClear
  <2> QED
    BY <2>1, <2>2, <2>3, KeyStep
<1>9. CASE UNCHANGED vars
  BY <1>9 DEF vars, KeyInv, WordsHeld, WalkPath, CacheKey
<1> QED
  BY <1>1, <1>2, <1>3, <1>4, <1>5, <1>6, <1>7, <1>8, <1>9, SMTT(30) DEF Next, Step

\* Callers with different translators, roots or pages never see each other's
\* translations, however the threads' lookups, walks, stores and insertions
\* interleave: what is cached or handed out under a key was decoded by the
\* key's translator from words that the entries on the key's path have held.
THEOREM SessionTranslationsBelongToKey == Spec => []TranslationsBelongToKey
<1>1. Init => KeyInv
  BY DEF Init, KeyInv
<1>2. KeyInv => TranslationsBelongToKey
  BY DEF KeyInv, TranslationsBelongToKey, PlausibleIn, Plausible, Cached
<1> QED
  BY <1>1, <1>2, TypedInit, TypedNext, KeyNext, PTL DEF Spec


-----------------------------------------------------------------------------
(* VirtualRange.  Pow2 is a recursive function: what it is follows from    *)
(* the least number at which it would not be.                              *)

\* A non-empty set of naturals has a least element.
LEMMA LeastNat ==
  ASSUME NEW S \in SUBSET Nat, S # {}
  PROVE  \E m \in S : \A k \in S : m <= k
<1>1. PICK R : R = OpToRel(<, Nat)
  OBVIOUS
<1>2. \A x, y \in Nat : x < y => <<x, y>> \in R
  BY <1>1 DEF OpToRel
<1>3. IsWellFoundedOn(R, Nat)
  BY <1>1, NatLessThanWellFounded
<1>4. PICK m \in S : \A k \in S : ~(<<k, m>> \in R)
  BY <1>3, WFMin
<1>5. ASSUME NEW k \in S PROVE m <= k
  <2>1. k \in Nat /\ m \in Nat
    OBVIOUS
  <2>2. ~(k < m)
    BY <1>2, <1>4, <2>1
  <2>3. QED
    BY <2>1, <2>2
<1>6. QED
  BY <1>5

\* g is the table of the powers of two up to 2^k.
PowersTo(g, k) ==
  /\ g \in [0..k -> Nat]
  /\ g[0] = 1
  /\ \A n \in 1..k : g[n] = 2 * g[n - 1]

\* There are powers up to every number.
LEMMA PowersExist == \A k \in Nat : \E g : PowersTo(g, k)
<1>1. SUFFICES ASSUME NEW S, S = {k \in Nat : ~\E g : PowersTo(g, k)}, S # {} PROVE FALSE
  OBVIOUS
<1>2. S \in SUBSET Nat
  BY <1>1
<1>3. PICK m \in S : \A k \in S : m <= k
  BY <1>1, <1>2, LeastNat
<1>4. m \in Nat /\ ~\E g : PowersTo(g, m)
  BY <1>1
<1>5. CASE m = 0
  <2>1. PICK g : g = [n \in 0..0 |-> 1]
    OBVIOUS
  <2>2. g \in [0..0 -> Nat] /\ g[0] = 1
    BY <2>1
  <2>3. PowersTo(g, 0)
    BY <2>2 DEF PowersTo
  <2>4. QED
    BY <1>4, <1>5, <2>3
<1>6. CASE m # 0
  <2>1. m - 1 \in Nat /\ ~(m <= m - 1)
    BY <1>4, <1>6
  <2>2. m - 1 \notin S
    BY <1>3, <2>1
  <2>3. PICK g : PowersTo(g, m - 1)
    BY <1>1, <2>1, <2>2
  <2>4. /\ g \in [0..(m - 1) -> Nat] /\ g[0] = 1 /\ \A n \in 1..(m - 1) : g[n] = 2 * g[n - 1]
    BY <2>3 DEF PowersTo
  <2>5. PICK h : h = [n \in 0..m |-> IF n = m THEN 2 * g[m - 1] ELSE g[n]]
    OBVIOUS
  <2>6. \A n \in 0..m : n # m => n \in 0..(m - 1) /\ h[n] = g[n]
    BY <1>4, <2>5
  <2>7. h[m] = 2 * g[m - 1] /\ g[m - 1] \in Nat /\ m \in 0..m
    BY <1>4, <2>1, <2>4, <2>5
  <2>8. \A n \in 0..m : h[n] \in Nat
    BY <2>4, <2>6, <2>7
  <2>9. h \in [0..m -> Nat] /\ h[0] = 1
    BY <1>4, <1>6, <2>4, <2>5, <2>6, <2>8
  <2>10. ASSUME NEW n \in 1..m PROVE h[n] = 2 * h[n - 1]
    <3>1. n - 1 \in 0..m /\ n - 1 # m /\ n \in 0..m
      BY <1>4
    <3>2. h[n - 1] = g[n - 1]
      BY <2>6, <3>1
    <3>3. CASE n = m
      BY <2>7, <3>2, <3>3
    <3>4. CASE n # m
      <4>1. n \in 1..(m - 1)
        BY <1>4, <3>4
      <4>2. QED
        BY <2>4, <2>6, <3>1, <3>2, <3>4, <4>1
    <3>5. QED
      BY <3>3, <3>4
  <2>11. PowersTo(h, m)
    BY <2>9, <2>10 DEF PowersTo
  <2>12. QED
    BY <1>4, <2>11
<1>7. QED
  BY <1>5, <1>6

\* There is one such table.
LEMMA PowersAgree ==
  ASSUME NEW j \in Nat, NEW k \in Nat, NEW g, NEW h, PowersTo(g, j), PowersTo(h, k)
  PROVE  \A n \in Nat : n <= j /\ n <= k => g[n] = h[n]
<1>1. SUFFICES ASSUME NEW S, S = {n \in Nat : n <= j /\ n <= k /\ g[n] # h[n]}, S # {} PROVE FALSE
  OBVIOUS
<1>2. S \in SUBSET Nat
  BY <1>1
<1>3. PICK m \in S : \A i \in S : m <= i
  BY <1>1, <1>2, LeastNat
<1>4. m \in Nat /\ m <= j /\ m <= k /\ g[m] # h[m]
  BY <1>1
<1>5. m # 0
  BY <1>4 DEF PowersTo
<1>6. m - 1 \in Nat /\ ~(m <= m - 1) /\ m - 1 <= j /\ m - 1 <= k /\ m \in 1..j /\ m \in 1..k
  BY <1>4, <1>5
<1>7. g[m - 1] = h[m - 1]
  BY <1>1, <1>3, <1>6
<1>8. g[m] = 2 * g[m - 1] /\ h[m] = 2 * h[m - 1]
  BY <1>6 DEF PowersTo
<1>9. QED
  BY <1>4, <1>7, <1>8

\* The recursive definition of Pow2 defines a function.
LEMMA Pow2Def == Pow2 = [n \in Nat |-> IF n = 0 THEN 1 ELSE 2 * Pow2[n - 1]]
<1>1. PICK F : F = [k \in Nat |-> CHOOSE g : PowersTo(g, k)]
  OBVIOUS
<1>2. ASSUME NEW k \in Nat PROVE PowersTo(F[k], k)
  <2>1. \E g : PowersTo(g, k)
    BY PowersExist
  <2>2. PowersTo(CHOOSE g : PowersTo(g, k), k)
    BY <2>1
  <2>3. F[k] = CHOOSE g : PowersTo(g, k)
    BY <1>1
  <2>4. QED
    BY <2>2, <2>3
<1>3. PICK f : f = [n \in Nat |-> F[n][n]]
  OBVIOUS
<1>4. ASSUME NEW n \in Nat PROVE f[n] = IF n = 0 THEN 1 ELSE 2 * f[n - 1]
  <2>1. PowersTo(F[n], n) /\ f[n] = F[n][n]
    BY <1>2, <1>3
  <2>2. CASE n = 0
    BY <2>1, <2>2 DEF PowersTo
  <2>3. CASE n # 0
    <3>1. n - 1 \in Nat /\ n \in 1..n /\ n - 1 <= n
      BY <2>3
    <3>2. PowersTo(F[n - 1], n - 1) /\ f[n - 1] = F[n - 1][n - 1]
      BY <1>2, <1>3, <3>1
    <3>3. F[n][n - 1] = F[n - 1][n - 1]
      BY <2>1, <3>1, <3>2, PowersAgree
    <3>4. F[n][n] = 2 * F[n][n - 1]
      BY <2>1, <3>1 DEF PowersTo
    <3>5. QED
      BY <2>1, <2>3, <3>2, <3>3, <3>4
  <2>4. QED
    BY <2>2, <2>3
<1>5. f = [n \in Nat |-> IF n = 0 THEN 1 ELSE 2 * f[n - 1]]
  BY <1>3, <1>4
<1>6. \E p : p = [n \in Nat |-> IF n = 0 THEN 1 ELSE 2 * p[n - 1]]
  BY <1>5
<1>7. QED
  BY <1>6, Zenon DEF Pow2

\* Powers of two multiply.
LEMMA Powers ==
  /\ Pow2[0] = 1
  /\ \A n \in Nat : Pow2[n] \in Nat /\ Pow2[n] > 0 /\ Pow2[n + 1] = 2 * Pow2[n]
<1>1. Pow2[0] = 1
  BY Pow2Def
<1>2. ASSUME NEW n \in Nat PROVE Pow2[n + 1] = 2 * Pow2[n]
  <2>1. n + 1 \in Nat /\ n + 1 # 0 /\ (n + 1) - 1 = n
    OBVIOUS
  <2>2. PICK i \in Nat : i = n + 1
    BY <2>1
  <2>3. Pow2[i] = 2 * Pow2[i - 1]
    BY <2>1, <2>2, Pow2Def
  <2>4. QED
    BY <2>1, <2>2, <2>3
<1>3. \A n \in Nat : Pow2[n] \in Nat /\ Pow2[n] > 0
  <2>1. SUFFICES ASSUME NEW S, S = {n \in Nat : ~(Pow2[n] \in Nat /\ Pow2[n] > 0)}, S # {} PROVE FALSE
    OBVIOUS
  <2>2. S \in SUBSET Nat
    BY <2>1
  <2>3. PICK m \in S : \A i \in S : m <= i
    BY <2>1, <2>2, LeastNat
  <2>4. m \in Nat /\ ~(Pow2[m] \in Nat /\ Pow2[m] > 0)
    BY <2>1
  <2>5. m # 0
    BY <1>1, <2>4
  <2>6. PICK k \in Nat : m = k + 1
    BY <2>4, <2>5
  <2>7. k \notin S
    BY <2>3, <2>6
  <2>8. Pow2[k] \in Nat /\ Pow2[k] > 0
    BY <2>1, <2>7
  <2>9. Pow2[m] = 2 * Pow2[k]
    BY <1>2, <2>6
  <2>10. QED
    BY <2>4, <2>8, <2>9
<1>4. QED
  BY <1>1, <1>2, <1>3

\* Exponents add up.
LEMMA PowersMultiply ==
  ASSUME NEW a \in Nat
  PROVE  \A b \in Nat : Pow2[a + b] = Pow2[a] * Pow2[b]
<1>1. SUFFICES ASSUME NEW S, S = {b \in Nat : Pow2[a + b] # Pow2[a] * Pow2[b]}, S # {} PROVE FALSE
  OBVIOUS
<1>2. S \in SUBSET Nat
  BY <1>1
<1>3. PICK m \in S : \A i \in S : m <= i
  BY <1>1, <1>2, LeastNat
<1>4. m \in Nat /\ Pow2[a + m] # Pow2[a] * Pow2[m]
  BY <1>1
<1>5. m # 0
  <2>1. Pow2[a + 0] = Pow2[a] * Pow2[0]
    <3>1. a + 0 = a /\ Pow2[a] \in Nat /\ Pow2[0] = 1
      BY Powers
    <3>2. QED
      BY <3>1
  <2>2. QED
    BY <1>4, <2>1
<1>6. PICK k \in Nat : m = k + 1
  BY <1>4, <1>5
<1>7. k \notin S
  BY <1>3, <1>6
<1>8. PICK p \in Nat, q \in Nat, r \in Nat : p = Pow2[a] /\ q = Pow2[k] /\ r = Pow2[a + k]
  <2>1. a + k \in Nat
    OBVIOUS
  <2>2. Pow2[a] \in Nat /\ Pow2[k] \in Nat /\ Pow2[a + k] \in Nat
    BY <2>1, Powers
  <2>3. QED
    BY <2>2
<1>9. r = p * q
  BY <1>1, <1>7, <1>8
<1>10. Pow2[m] = 2 * q /\ Pow2[a + m] = 2 * r
  <2>1. a + k \in Nat /\ a + m = (a + k) + 1
    BY <1>6
  <2>2. Pow2[(a + k) + 1] = 2 * Pow2[a + k] /\ Pow2[k + 1] = 2 * Pow2[k]
    BY <2>1, Powers
  <2>3. QED
    BY <1>6, <1>8, <2>1, <2>2
<1>11. 2 * (p * q) = p * (2 * q)
  OBVIOUS
<1>12. QED
  BY <1>4, <1>8, <1>9, <1>10, <1>11

-----------------------------------------------------------------------------
(* Division by powers of two.                                              *)

\* A larger power is a multiple of a smaller one.
LEMMA PowerDivides ==
  ASSUME NEW a \in Nat, NEW b \in Nat, a <= b
  PROVE  \E k \in Nat : k > 0 /\ Pow2[b] = Pow2[a] * k
<1>1. PICK c \in Nat : b = a + c
  <2>1. b - a \in Nat /\ b = a + (b - a)
    OBVIOUS
  <2>2. QED
    BY <2>1
<1>2. Pow2[c] \in Nat /\ Pow2[c] > 0
  BY Powers
<1>3. QED
  BY <1>1, <1>2, PowersMultiply

\* Quotient and remainder.
LEMMA Division ==
  ASSUME NEW a \in Nat, NEW b \in Nat, b > 0
  PROVE  /\ a \div b \in Nat /\ a % b \in Nat /\ a % b < b
         /\ a = b * (a \div b) + (a % b)
OBVIOUS

\* They are the only ones.
LEMMA DivisionUnique ==
  ASSUME NEW a \in Nat, NEW b \in Nat, b > 0, NEW q \in Nat, NEW r \in Nat, r < b, a = b * q + r
  PROVE  a \div b = q /\ a % b = r
<1>1. PICK p \in Nat : p = a \div b
  BY Division
<1>2. PICK s \in Nat : s = a % b
  BY Division
<1>3. s < b /\ b * p + s = b * q + r
  BY <1>1, <1>2, Division
<1>4. CASE p < q
  <2>1. PICK d \in Nat : q = p + 1 + d
    <3>1. q - p - 1 \in Nat /\ q = p + 1 + (q - p - 1)
      BY <1>4
    <3>2. QED
      BY <3>1
  <2>2. b * q = b * p + b + b * d /\ b * d \in Nat /\ b * p \in Nat
    BY <2>1
  <2>3. QED
    BY <1>3, <2>2
<1>5. CASE q < p
  <2>1. PICK d \in Nat : p = q + 1 + d
    <3>1. p - q - 1 \in Nat /\ p = q + 1 + (p - q - 1)
      BY <1>5
    <3>2. QED
      BY <3>1
  <2>2. b * p = b * q + b + b * d /\ b * d \in Nat /\ b * q \in Nat
    BY <2>1
  <2>3. QED
    BY <1>3, <2>2
<1>6. CASE p = q
  <2>1. b * q \in Nat
    OBVIOUS
  <2>2. s = r
    BY <1>3, <1>6, <2>1
  <2>3. QED
    BY <1>1, <1>2, <1>6, <2>2
<1>7. QED
  BY <1>4, <1>5, <1>6

\* A multiple of a page below a multiple of a page is a whole page below it.
LEMMA PageBelow ==
  ASSUME NEW p \in Nat, p > 0, NEW a \in Nat, a % p = 0, NEW m \in Nat, a < p * m
  PROVE  a + p <= p * m
<1>1. PICK t \in Nat : t = a \div p /\ a = p * t + 0
  BY Division
<1>2. t < m
  <2>1. SUFFICES ASSUME m <= t PROVE FALSE
    OBVIOUS
  <2>2. PICK d \in Nat : t = m + d
    <3>1. t - m \in Nat /\ t = m + (t - m)
      BY <2>1
    <3>2. QED
      BY <3>1
  <2>3. p * t = p * m + p * d /\ p * d \in Nat /\ p * m \in Nat
    BY <2>2
  <2>4. QED
    BY <1>1, <2>3
<1>3. PICK d \in Nat : m = t + 1 + d
  <2>1. m - t - 1 \in Nat /\ m = t + 1 + (m - t - 1)
    BY <1>2
  <2>2. QED
    BY <2>1
<1>4. p * m = p * t + p + p * d /\ p * d \in Nat /\ p * t \in Nat
  BY <1>3
<1>5. QED
  BY <1>1, <1>4

\* n is a multiple of p.
IsMultiple(n, p) == \E m \in Nat : m > 0 /\ n = p * m

\* a is the first byte of a page of p bytes, and o the number of a byte of it.
InPage(a, o, p) == a % p = 0 /\ o < p

\* The bytes of a page differ in the bits below the page only.
LEMMA SamePage ==
  ASSUME NEW p \in Nat, p > 0, NEW a \in Nat, NEW o \in Nat, NEW n \in Nat,
         InPage(a, o, p), IsMultiple(n, p)
  PROVE  /\ (a + o) \div n = a \div n
         /\ (a + o) % n = (a % n) + o
         /\ (a % n) + o < n
<1>1. a % p = 0 /\ o < p
  BY DEF InPage
<1>2. PICK m \in Nat : m > 0 /\ n = p * m
  BY DEF IsMultiple
<1>3. n > 0
  BY <1>2
<1>4. PICK q \in Nat : q = a \div n
  BY <1>3, Division
<1>5. PICK r \in Nat : r = a % n
  BY <1>3, Division
<1>6. r < n /\ a = n * q + r
  BY <1>3, <1>4, <1>5, Division
<1>7. r % p = 0
  <2>1. PICK t \in Nat : t = a \div p /\ a = p * t + 0
    BY <1>1, Division
  <2>2. n * q = p * (m * q) /\ m * q \in Nat
    BY <1>2
  <2>3. r = p * t - p * (m * q)
    BY <1>6, <2>1, <2>2
  <2>4. m * q <= t
    <3>1. SUFFICES ASSUME t < m * q PROVE FALSE
      BY <2>2
    <3>2. PICK x \in Nat : x = m * q
      BY <2>2
    <3>3. PICK d \in Nat : x = t + 1 + d
      <4>1. x - t - 1 \in Nat /\ x = t + 1 + (x - t - 1)
        BY <3>1, <3>2
      <4>2. QED
        BY <4>1
    <3>4. p * x = p * t + p + p * d /\ p * d \in Nat /\ p * t \in Nat
      BY <3>3
    <3>5. QED
      BY <2>3, <3>2, <3>4
  <2>5. PICK u \in Nat : u = t - m * q
    BY <2>2, <2>4
  <2>6. PICK x \in Nat : x = m * q
    BY <2>2
  <2>7. t = u + x /\ p * t = p * u + p * x
    BY <2>5, <2>6
  <2>8. r = p * u + 0 /\ p * u \in Nat
    <3>1. p * t \in Nat /\ p * x \in Nat /\ p * u \in Nat
      OBVIOUS
    <3>2. QED
      BY <2>3, <2>6, <2>7, <3>1
  <2>9. QED
    BY <2>8, DivisionUnique
<1>8. r + p <= n
  BY <1>2, <1>3, <1>6, <1>7, PageBelow
<1>9. r + o < n /\ r + o \in Nat
  BY <1>1, <1>8
<1>10. a + o = n * q + (r + o)
  <2>1. n * q \in Nat
    OBVIOUS
  <2>2. QED
    BY <1>6, <2>1
<1>11. (a + o) \div n = q /\ (a + o) % n = r + o
  <2>1. a + o \in Nat
    OBVIOUS
  <2>2. QED
    BY <1>3, <1>9, <1>10, <2>1, DivisionUnique
<1>12. QED
  BY <1>4, <1>5, <1>9, <1>11

\* An index within the low bits is not changed by dropping the others.
LEMMA MaskedIndex ==
  ASSUME NEW e \in Nat, e > 0, NEW i \in Nat, i > 0, NEW k \in Nat, k > 0, NEW a \in Nat,
         NEW n, n = e * (i * k)
  PROVE  ((a % n) \div e) % i = (a \div e) % i
<1>1. n \in Nat /\ n > 0 /\ i * k \in Nat
  <2>1. i * k \in Nat /\ i * k > 0
    OBVIOUS
  <2>2. PICK z \in Nat : z = i * k
    BY <2>1
  <2>3. e * z \in Nat /\ e * z > 0
    BY <2>1, <2>2
  <2>4. QED
    BY <2>1, <2>2, <2>3
<1>2. PICK q \in Nat : q = a \div n
  BY <1>1, Division
<1>3. PICK r \in Nat : r = a % n
  BY <1>1, Division
<1>4. a = n * q + r
  BY <1>1, <1>2, <1>3, Division
<1>5. PICK s \in Nat : s = r \div e
  BY Division
<1>6. PICK t \in Nat : t = r % e /\ t < e /\ r = e * s + t
  BY <1>5, Division
<1>7. PICK y \in Nat : y = s % i
  BY Division
<1>8. PICK x \in Nat : x = s \div i /\ y < i /\ s = i * x + y
  BY <1>7, Division
<1>9. n * q = e * (i * (k * q)) /\ k * q \in Nat /\ i * (k * q) \in Nat
  BY SMTT(30)
<1>10. PICK u \in Nat : u = i * (k * q)
  BY <1>9
<1>11. a = e * (u + s) + t
  <2>1. e * (u + s) = e * u + e * s /\ e * u \in Nat /\ e * s \in Nat
    OBVIOUS
  <2>2. QED
    BY <1>4, <1>6, <1>9, <1>10, <2>1
<1>12. a \div e = u + s
  <2>1. u + s \in Nat
    OBVIOUS
  <2>2. QED
    BY <1>6, <1>11, <2>1, DivisionUnique
<1>13. PICK v \in Nat : v = k * q
  BY <1>9
<1>14. u + s = i * (v + x) + y /\ v + x \in Nat /\ u + s \in Nat
  <2>1. i * (v + x) = i * v + i * x /\ i * v \in Nat /\ i * x \in Nat
    OBVIOUS
  <2>2. QED
    BY <1>8, <1>10, <1>13, <2>1
<1>15. (u + s) % i = y
  BY <1>8, <1>14, DivisionUnique
<1>16. QED
  BY <1>3, <1>5, <1>7, <1>12, <1>15

-----------------------------------------------------------------------------
(* The geometry of a translator.                                           *)

\* The parameters as numbers.
LEMMA GeometryFacts ==
  ASSUME geometry \in Geometries
  PROVE  /\ AddressBits \in Nat /\ PageShift \in Nat /\ IndexBits \in Nat /\ IndexBits > 0
         /\ CoreShift \in Nat /\ Width \in Nat
         /\ CoreShift <= PageShift /\ PageShift < AddressBits /\ AddressBits < Width
         /\ Page \in Nat /\ Page > 0 /\ Granule \in Nat /\ Granule > 0
         /\ FrameCount \in Nat /\ FrameCount > 0 /\ LargeLevels \in Nat
<1>1. /\ AddressBits \in Nat /\ PageShift \in Nat /\ IndexBits \in Nat /\ IndexBits > 0
      /\ CoreShift <= PageShift /\ PageShift < AddressBits /\ AddressBits < Width
  BY WalkAssumption DEF AddressBits, PageShift, IndexBits
<1>2. /\ CoreShift \in Nat /\ Width \in Nat /\ FrameCount \in Nat /\ FrameCount > 0
      /\ LargeLevels \in Nat
  BY WalkAssumption
<1>3. QED
  BY <1>1, <1>2, Powers DEF Page, Granule

\* Every level's bits lie between the page and the highest bit, and only the first
\* index may reach beyond it.
LEMMA LevelFacts ==
  ASSUME geometry \in Geometries
  PROVE  /\ LevelCount \in Nat /\ LevelCount >= 1
         /\ \A l \in 1..LevelCount :
              /\ EntryShift(l) \in Nat /\ CoreShift <= EntryShift(l) /\ EntryShift(l) < AddressBits
              /\ (AddressBits - PageShift) % IndexBits = 0 =>
                   EntryShift(l) + IndexBits <= AddressBits
<1>1. PICK i \in Nat : i = IndexBits /\ i > 0
  BY GeometryFacts
<1>2. PICK d \in Nat : d = AddressBits - PageShift /\ d > 0
  <2>1. AddressBits - PageShift \in Nat /\ AddressBits - PageShift > 0
    BY GeometryFacts
  <2>2. QED
    BY <2>1
<1>3. PICK s \in Nat : s = PageShift /\ CoreShift <= s /\ AddressBits = s + d /\ CoreShift \in Nat
  BY <1>2, GeometryFacts
<1>4. d + i - 1 \in Nat
  BY <1>1, <1>2
<1>5. LevelCount = (d + i - 1) \div i
  BY <1>1, <1>2 DEF LevelCount
<1>6. PICK c \in Nat : c = (d + i - 1) \div i
  BY <1>1, <1>4, Division
<1>7. PICK r \in Nat : r < i /\ d + i - 1 = i * c + r
  BY <1>1, <1>4, <1>6, Division
<1>8. c >= 1
  <2>1. c = 0 => i * c = 0
    OBVIOUS
  <2>2. c # 0
    BY <1>1, <1>2, <1>7, <2>1
  <2>3. QED
    BY <2>2
<1>9. PICK b \in Nat : c = b + 1
  <2>1. c - 1 \in Nat /\ c = (c - 1) + 1
    BY <1>8
  <2>2. QED
    BY <2>1
<1>10. i * b < d /\ i * b \in Nat
  <2>1. i * c = i * b + i /\ i * b \in Nat
    BY <1>9
  <2>2. QED
    BY <1>1, <1>2, <1>7, <2>1
<1>11. ASSUME NEW l \in 1..c
       PROVE  /\ EntryShift(l) \in Nat /\ CoreShift <= EntryShift(l) /\ EntryShift(l) < AddressBits
              /\ d % i = 0 => EntryShift(l) + i <= AddressBits
  <2>1. PICK k \in Nat : l = k + 1
    <3>1. l - 1 \in Nat /\ l = (l - 1) + 1
      BY <1>8
    <3>2. QED
      BY <3>1
  <2>2. l - 1 = k /\ k <= b
    BY <1>9, <2>1
  <2>3. EntryShift(l) = s + k * i
    BY <1>1, <1>3, <2>2 DEF EntryShift
  <2>4. PICK x \in Nat : b = k + x
    <3>1. b - k \in Nat /\ b = k + (b - k)
      BY <2>2
    <3>2. QED
      BY <3>1
  <2>5. k * i \in Nat /\ i * b = k * i + i * x /\ i * x \in Nat
    BY <2>4
  <2>6. k * i <= i * b
    BY <2>5
  <2>7. EntryShift(l) \in Nat /\ CoreShift <= EntryShift(l) /\ EntryShift(l) < AddressBits
    BY <1>3, <1>10, <2>3, <2>5, <2>6
  <2>8. ASSUME d % i = 0 PROVE EntryShift(l) + i <= AddressBits
    <3>1. PICK q \in Nat : q = d \div i /\ d = i * q + 0
      BY <1>1, <2>8, Division
    <3>2. i * q \in Nat /\ d + i - 1 = i * q + (i - 1) /\ i - 1 \in Nat /\ i - 1 < i
      BY <1>1, <3>1
    <3>3. c = q
      BY <1>1, <1>4, <1>6, <3>2, DivisionUnique
    <3>4. i * c = i * b + i
      BY <1>9
    <3>5. k * i + i <= d
      BY <1>10, <2>5, <2>6, <3>1, <3>2, <3>3, <3>4
    <3>6. QED
      BY <1>3, <2>3, <2>5, <3>5
  <2>9. QED
    BY <2>7, <2>8
<1>12. LevelCount = c
  BY <1>5, <1>6
<1>13. QED
  BY <1>1, <1>2, <1>8, <1>11, <1>12

\* The entry for byte va: the architecture's, and the session's from the address of
\* the page that va lies in.  They differ only for IndexBeyondTable.
GuestIndex(va, l) == ((va % Pow2[AddressBits]) \div Pow2[EntryShift(l)]) % Pow2[IndexBits]

\* A canonical page: where its bytes lie.
LEMMA CanonicalPage ==
  ASSUME geometry \in Geometries, NEW a \in Nat, a % Page = 0, NEW o \in Nat, o < Page
  PROVE  /\ IsCanonical(a) <=> IsCanonical(a + o)
         /\ IsCanonical(a) /\ a + o < Pow2[Width - 1] =>
              a + o < Pow2[AddressBits]
<1>1. PICK h \in Nat : h = Pow2[AddressBits - 1] /\ h > 0 /\ Pow2[AddressBits] = 2 * h
  <2>1. AddressBits - 1 \in Nat /\ (AddressBits - 1) + 1 = AddressBits
    BY GeometryFacts
  <2>2. QED
    BY <2>1, Powers
<1>2. PICK w \in Nat : w = Pow2[Width - 1] /\ Pow2[Width] = 2 * w
  <2>1. Width - 1 \in Nat /\ (Width - 1) + 1 = Width
    BY GeometryFacts
  <2>2. QED
    BY <2>1, Powers
<1>3. PICK k \in Nat : h = Page * k
  <2>1. AddressBits - 1 \in Nat /\ CoreShift \in Nat /\ CoreShift <= AddressBits - 1
    BY GeometryFacts
  <2>2. QED
    BY <1>1, <2>1, PowerDivides DEF Page
<1>4. PICK j \in Nat : w = h * j /\ j > 0
  <2>1. AddressBits - 1 \in Nat /\ Width - 1 \in Nat /\ AddressBits - 1 <= Width - 1
    BY GeometryFacts
  <2>2. QED
    BY <1>1, <1>2, <2>1, PowerDivides
<1>5. h <= w
  <2>1. PICK i \in Nat : j = i + 1
    <3>1. j - 1 \in Nat /\ j = (j - 1) + 1
      BY <1>4
    <3>2. QED
      BY <3>1
  <2>2. h * j = h * i + h /\ h * i \in Nat
    BY <2>1
  <2>3. QED
    BY <1>4, <2>2
<1>6. \A v \in Nat : IsCanonical(v) <=> v < h \/ v >= 2 * w - h
  BY <1>1, <1>2 DEF IsCanonical
<1>7. Page \in Nat /\ Page > 0
  BY GeometryFacts
<1>8. a < h => a + Page <= h
  BY <1>3, <1>7, PageBelow
<1>9. a < 2 * w - h => a + Page <= 2 * w - h
  <2>1. PICK z \in Int : z = 2 * j - 1
    OBVIOUS
  <2>2. z \in Nat
    BY <1>4, <2>1
  <2>3. 2 * w - h = h * z
    BY <1>4, <2>1
  <2>4. h * z = Page * (k * z) /\ k * z \in Nat
    BY <1>3, <1>7, <2>2
  <2>5. a < Page * (k * z) => a + Page <= Page * (k * z)
    BY <1>7, <2>4, PageBelow
  <2>6. QED
    BY <2>3, <2>4, <2>5
<1>10. a + o \in Nat
  OBVIOUS
<1>11. IsCanonical(a) <=> IsCanonical(a + o)
  BY <1>5, <1>6, <1>7, <1>8, <1>9, <1>10
<1>12. ASSUME IsCanonical(a), a + o < w PROVE a + o < 2 * h
  <2>1. a < h
    BY <1>5, <1>6, <1>12
  <2>2. QED
    BY <1>7, <1>8, <2>1
<1>13. QED
  BY <1>1, <1>2, <1>11, <1>12

\* The session's index for a page is the architecture's for each of its bytes.
LEMMA ByteIndex ==
  ASSUME geometry \in Geometries, NEW a \in Nat, a % Page = 0, NEW o \in Nat, o < Page,
         IsCanonical(a), ~IndexBeyondTable(a + o), NEW l \in 1..LevelCount
  PROVE  GuestIndex(a + o, l) = Index(a, l)
<1>1. /\ EntryShift(l) \in Nat /\ CoreShift <= EntryShift(l) /\ EntryShift(l) < AddressBits
      /\ (AddressBits - PageShift) % IndexBits = 0 => EntryShift(l) + IndexBits <= AddressBits
  BY LevelFacts
<1>2. /\ CoreShift \in Nat /\ AddressBits \in Nat /\ IndexBits \in Nat /\ Page \in Nat /\ Page > 0
      /\ Width - 1 \in Nat
  BY GeometryFacts
<1>3. PICK e \in Nat : e = Pow2[EntryShift(l)] /\ e > 0
  BY <1>1, Powers
<1>4. PICK i \in Nat : i = Pow2[IndexBits] /\ i > 0
  BY <1>2, Powers
<1>5. PICK v \in Nat : v = a + o
  OBVIOUS
<1>6. v \div e = a \div e
  <2>1. IsMultiple(e, Page)
    BY <1>1, <1>2, <1>3, PowerDivides DEF Page, IsMultiple
  <2>2. InPage(a, o, Page)
    BY DEF InPage
  <2>3. (a + o) \div e = a \div e
    BY <1>2, <2>1, <2>2, SamePage
  <2>4. QED
    BY <1>5, <2>3
<1>7. Index(a, l) = (v \div e) % i
  BY <1>3, <1>4, <1>6 DEF Index
<1>8. GuestIndex(a + o, l) = ((v % Pow2[AddressBits]) \div e) % i
  BY <1>3, <1>4, <1>5 DEF GuestIndex
<1>9. CASE (AddressBits - PageShift) % IndexBits = 0
  <2>1. EntryShift(l) + IndexBits \in Nat /\ EntryShift(l) + IndexBits <= AddressBits
    BY <1>1, <1>2, <1>9
  <2>2. PICK k \in Nat : k > 0 /\ Pow2[AddressBits] = Pow2[EntryShift(l) + IndexBits] * k
    BY <1>2, <2>1, PowerDivides
  <2>3. Pow2[EntryShift(l) + IndexBits] = e * i
    BY <1>1, <1>2, <1>3, <1>4, PowersMultiply
  <2>4. (e * i) * k = e * (i * k)
    OBVIOUS
  <2>5. Pow2[AddressBits] = e * (i * k)
    BY <2>2, <2>3, <2>4
  <2>6. QED
    BY <1>3, <1>4, <1>7, <1>8, <2>2, <2>5, MaskedIndex
<1>10. CASE (AddressBits - PageShift) % IndexBits # 0
  <2>1. PICK w \in Nat : w = Pow2[Width - 1]
    BY <1>2, Powers
  <2>2. v < w
    BY <1>5, <1>10, <2>1 DEF IndexBeyondTable
  <2>3. PICK n \in Nat : n = Pow2[AddressBits] /\ n > 0
    BY <1>2, Powers
  <2>4. v < n
    BY <1>5, <2>1, <2>2, <2>3, CanonicalPage
  <2>5. v = n * 0 + v
    OBVIOUS
  <2>6. v % n = v
    BY <2>3, <2>4, <2>5, DivisionUnique
  <2>7. QED
    BY <1>7, <1>8, <2>3, <2>6
<1>11. QED
  BY <1>9, <1>10

-----------------------------------------------------------------------------
(* The invariant.                                                          *)

\* What the variables hold.
RangeTypes ==
  /\ geometry \in Geometries
  /\ address \in Nat /\ address < Pow2[Width]
  /\ length \in Nat /\ length > 0
  /\ completed \in Nat /\ completed <= length
  /\ phase \in {"chunk", "walk", "access", "ok", "fault", "error", "overflow"}
  /\ level \in Nat /\ table \in 0..(FrameCount - 1) /\ physical \in Nat
  /\ \A s \in DOMAIN pte : pte[s] \in Entry
  /\ accessed \in Seq(Nat) /\ Len(accessed) = completed

\* w is the way of the session's walk for the page at a, down to level l.
SessionWalk(a, l, w) ==
  /\ w \in [l..LevelCount -> 0..(FrameCount - 1)]
  /\ w[LevelCount] = 0
  /\ \A k \in (l + 1)..LevelCount :
       /\ <<w[k], Index(a, k)>> \in DOMAIN pte
       /\ pte[<<w[k], Index(a, k)>>] = [kind |-> "table", frame |-> w[k - 1]]

\* The walk is at level, at table.
Walking ==
  /\ level \in 1..LevelCount
  /\ \E w : SessionWalk(PageAddress, level, w) /\ w[level] = table

\* The range is inside the address space, and where the current page's walk is.
Progress ==
  /\ Current <= Pow2[Width]
  /\ phase = "ok" => completed = length
  /\ phase = "overflow" => completed < length /\ Current >= Pow2[Width]
  /\ phase \in {"walk", "access"} =>
       completed < length /\ Current < Pow2[Width] /\ IsCanonical(PageAddress) /\ Walking
  /\ phase = "access" =>
       /\ Slot \in DOMAIN pte /\ IsLeaf(level, pte[Slot])
       /\ physical = Mapped(PageAddress, level, pte[Slot].frame)
  /\ phase = "fault" =>
       \/ ~IsCanonical(PageAddress)
       \/ /\ IsCanonical(PageAddress) /\ Walking
          /\ Slot \in DOMAIN pte /\ ~IsLeaf(level, pte[Slot])
          /\ pte[Slot].kind = "table" => level = 1

\* The inductive invariant of a range.
RangeInv == RangeTypes /\ Progress /\ EachByteTranslated

\* The current page.
LEMMA PageFacts ==
  ASSUME RangeTypes
  PROVE  /\ Current \in Nat /\ Page \in Nat /\ Page > 0
         /\ Current % Page \in Nat /\ Current % Page < Page
         /\ PageAddress \in Nat /\ PageAddress % Page = 0
         /\ Current = PageAddress + (Current % Page)
<1>1. Current \in Nat /\ Page \in Nat /\ Page > 0
  BY GeometryFacts DEF RangeTypes, Current
<1>2. PICK c \in Nat : c = Current
  BY <1>1
<1>3. PICK p \in Nat : p = Page /\ p > 0
  BY <1>1
<1>4. PICK q \in Nat : q = c \div p
  BY <1>3, Division
<1>5. PICK r \in Nat : r = c % p
  BY <1>3, Division
<1>6. r < p /\ c = p * q + r
  BY <1>3, <1>4, <1>5, Division
<1>7. PageAddress = c - r
  BY <1>2, <1>3, <1>5 DEF PageAddress
<1>8. p * q \in Nat
  OBVIOUS
<1>9. PageAddress = p * q + 0 /\ PageAddress \in Nat
  BY <1>6, <1>7, <1>8
<1>10. PageAddress % p = 0
  BY <1>3, <1>9, DivisionUnique
<1>11. c = PageAddress + r
  BY <1>6, <1>7, <1>8
<1>12. QED
  BY <1>1, <1>2, <1>3, <1>5, <1>6, <1>9, <1>10, <1>11

\* The guest's entry, by its index.
LEMMA GuestEntryAt ==
  ASSUME NEW va, NEW l, NEW f
  PROVE  GuestEntry(va, l, f) = IF <<f, GuestIndex(va, l)>> \in DOMAIN pte
                                THEN pte[<<f, GuestIndex(va, l)>>] ELSE [kind |-> "absent"]
BY DEF GuestEntry, GuestIndex

\* The session's walk for a page is the architecture's for each of its bytes.
LEMMA WalkOfByte ==
  ASSUME RangeTypes, NEW a \in Nat, a % Page = 0, NEW o \in Nat, o < Page, IsCanonical(a),
         ~IndexBeyondTable(a + o), NEW l \in 1..LevelCount, NEW w, SessionWalk(a, l, w)
  PROVE  /\ w \in Walks(a + o, l)
         /\ <<w[l], Index(a, l)>> \in DOMAIN pte =>
              GuestEntry(a + o, l, w[l]) = pte[<<w[l], Index(a, l)>>]
<1>1. geometry \in Geometries /\ LevelCount \in Nat
  BY LevelFacts DEF RangeTypes
<1>2. \A k \in 1..LevelCount : GuestIndex(a + o, k) = Index(a, k)
  BY <1>1, ByteIndex
<1>3. /\ w \in [l..LevelCount -> 0..(FrameCount - 1)] /\ w[LevelCount] = 0
      /\ \A k \in (l + 1)..LevelCount :
           /\ <<w[k], Index(a, k)>> \in DOMAIN pte
           /\ pte[<<w[k], Index(a, k)>>] = [kind |-> "table", frame |-> w[k - 1]]
  BY DEF SessionWalk
<1>4. ASSUME NEW k \in (l + 1)..LevelCount
      PROVE  GuestEntry(a + o, k, w[k]) = [kind |-> "table", frame |-> w[k - 1]]
  <2>1. k \in 1..LevelCount
    BY <1>1
  <2>2. GuestIndex(a + o, k) = Index(a, k)
    BY <1>2, <2>1
  <2>3. QED
    BY <1>3, <2>2, GuestEntryAt
<1>5. w \in Walks(a + o, l)
  BY <1>3, <1>4 DEF Walks
<1>6. QED
  BY <1>2, <1>5, GuestEntryAt

\* A byte has one walk.
LEMMA WalksAgree ==
  ASSUME RangeTypes, NEW va, NEW l \in 1..LevelCount, NEW m \in 1..LevelCount,
         NEW w \in Walks(va, l), NEW v \in Walks(va, m)
  PROVE  \A k \in 1..LevelCount : l <= k /\ m <= k => w[k] = v[k]
<1>1. LevelCount \in Nat
  BY LevelFacts DEF RangeTypes
<1>2. PICK c \in Nat : c = LevelCount
  BY <1>1
<1>3. SUFFICES ASSUME NEW S, S # {},
                      S = {n \in Nat : \E k \in 1..c : n = c - k /\ l <= k /\ m <= k /\ w[k] # v[k]}
               PROVE  FALSE
  <2>1. SUFFICES ASSUME NEW k \in 1..c, l <= k, m <= k, w[k] # v[k] PROVE FALSE
    BY <1>2
  <2>2. c - k \in Nat
    BY <1>2
  <2>3. PICK T : T = {n \in Nat : \E i \in 1..c : n = c - i /\ l <= i /\ m <= i /\ w[i] # v[i]}
    OBVIOUS
  <2>4. c - k \in T
    BY <2>1, <2>2, <2>3
  <2>5. QED
    BY <1>3, <2>3, <2>4
<1>4. S \in SUBSET Nat
  BY <1>3
<1>5. PICK n \in S : \A i \in S : n <= i
  BY <1>3, <1>4, LeastNat
<1>6. PICK k \in 1..c : n = c - k /\ l <= k /\ m <= k /\ w[k] # v[k]
  BY <1>3
<1>7. k # c
  BY <1>2, <1>6 DEF Walks
<1>8. k + 1 \in 1..c /\ l <= k + 1 /\ m <= k + 1 /\ c - (k + 1) \in Nat /\ ~(n <= c - (k + 1))
  BY <1>2, <1>6, <1>7
<1>9. w[k + 1] = v[k + 1]
  <2>1. c - (k + 1) \notin S
    BY <1>5, <1>8
  <2>2. QED
    BY <1>3, <1>8, <2>1
<1>10. /\ k + 1 \in (l + 1)..LevelCount /\ k + 1 \in (m + 1)..LevelCount /\ (k + 1) - 1 = k
  BY <1>2, <1>6, <1>8
<1>11. /\ GuestEntry(va, k + 1, w[k + 1]) = [kind |-> "table", frame |-> w[k]]
       /\ GuestEntry(va, k + 1, v[k + 1]) = [kind |-> "table", frame |-> v[k]]
  BY <1>10 DEF Walks
<1>12. [kind |-> "table", frame |-> w[k]].frame = [kind |-> "table", frame |-> v[k]].frame
  BY <1>9, <1>11
<1>13. QED
  BY <1>6, <1>12

\* Reading an entry changes none that was read before.
LEMMA WalksStay ==
  ASSUME RangeTypes, geometry' = geometry, DOMAIN pte \subseteq DOMAIN pte',
         \A s \in DOMAIN pte : pte'[s] = pte[s],
         NEW va, NEW l, NEW w \in Walks(va, l)
  PROVE  /\ w \in Walks(va, l)'
         /\ GuestEntry(va, l, w[l]).kind # "absent" =>
              GuestEntry(va, l, w[l])' = GuestEntry(va, l, w[l])
<1>1. /\ LevelCount' = LevelCount /\ \A k : GuestIndex(va, k)' = GuestIndex(va, k)
  BY DEF LevelCount, GuestIndex, EntryShift, AddressBits, PageShift, IndexBits
<1>2. ASSUME NEW k, NEW f, GuestEntry(va, k, f).kind # "absent"
      PROVE  GuestEntry(va, k, f)' = GuestEntry(va, k, f)
  <2>1. <<f, GuestIndex(va, k)>> \in DOMAIN pte
    <3>1. [kind |-> "absent"].kind = "absent"
      OBVIOUS
    <3>2. QED
      BY <1>2, <3>1, GuestEntryAt
  <2>2. GuestEntry(va, k, f) = pte[<<f, GuestIndex(va, k)>>]
    BY <2>1, GuestEntryAt
  <2>3. GuestEntry(va, k, f)' = IF <<f, GuestIndex(va, k)'>> \in DOMAIN pte'
                                THEN pte'[<<f, GuestIndex(va, k)'>>] ELSE [kind |-> "absent"]
    BY DEF GuestEntry, GuestIndex
  <2>4. QED
    BY <1>1, <2>1, <2>2, <2>3
<1>3. ASSUME NEW k \in (l + 1)..LevelCount
      PROVE  GuestEntry(va, k, w[k])' = [kind |-> "table", frame |-> w[k - 1]]
  <2>1. GuestEntry(va, k, w[k]) = [kind |-> "table", frame |-> w[k - 1]]
    BY DEF Walks
  <2>2. GuestEntry(va, k, w[k]).kind = "table"
    BY <2>1
  <2>3. QED
    BY <1>2, <2>1, <2>2
<1>4. w \in [l..LevelCount -> 0..(FrameCount - 1)] /\ w[LevelCount] = 0
  BY DEF Walks
<1>5. w \in Walks(va, l)'
  BY <1>1, <1>3, <1>4 DEF Walks
<1>6. QED
  BY <1>2, <1>5

\* Neither does a translation go away.
LEMMA TranslationStays ==
  ASSUME RangeTypes, geometry' = geometry, DOMAIN pte \subseteq DOMAIN pte',
         \A s \in DOMAIN pte : pte'[s] = pte[s], NEW va, NEW pa, Translates(va, pa)
  PROVE  Translates(va, pa)'
<1>1. PICK l \in 1..LevelCount : \E w \in Walks(va, l) :
        LET e == GuestEntry(va, l, w[l])
        IN  /\ IsLeaf(l, e)
            /\ pa % Pow2[EntryShift(l)] = va % Pow2[EntryShift(l)]
            /\ pa \div Pow2[EntryShift(l)] = (e.frame * Granule) \div Pow2[EntryShift(l)]
  BY DEF Translates
<1>2. PICK w \in Walks(va, l) :
        /\ IsLeaf(l, GuestEntry(va, l, w[l]))
        /\ pa % Pow2[EntryShift(l)] = va % Pow2[EntryShift(l)]
        /\ pa \div Pow2[EntryShift(l)]
             = (GuestEntry(va, l, w[l]).frame * Granule) \div Pow2[EntryShift(l)]
  BY <1>1
<1>3. GuestEntry(va, l, w[l]).kind # "absent"
  BY <1>2 DEF IsLeaf
<1>4. w \in Walks(va, l)' /\ GuestEntry(va, l, w[l])' = GuestEntry(va, l, w[l])
  BY <1>3, WalksStay
<1>5. LevelCount' = LevelCount /\ EntryShift(l)' = EntryShift(l) /\ Granule' = Granule
  BY DEF LevelCount, EntryShift, AddressBits, PageShift, IndexBits, Granule
<1>6. IsLeaf(l, GuestEntry(va, l, w[l]))'
  BY <1>2, <1>4 DEF IsLeaf
<1>7. QED
  BY <1>2, <1>4, <1>5, <1>6 DEF Translates

\* A mapping keeps the low bits of each byte of a page, and takes the others from its frame.
LEMMA MappedByte ==
  ASSUME geometry \in Geometries, NEW a \in Nat, a % Page = 0, NEW o \in Nat, o < Page,
         NEW l \in 1..LevelCount, NEW f \in Nat
  PROVE  /\ Mapped(a, l, f) \in Nat
         /\ (Mapped(a, l, f) + o) % Pow2[EntryShift(l)] = (a + o) % Pow2[EntryShift(l)]
         /\ (Mapped(a, l, f) + o) \div Pow2[EntryShift(l)]
              = (f * Granule) \div Pow2[EntryShift(l)]
<1>1. EntryShift(l) \in Nat /\ CoreShift <= EntryShift(l)
  BY LevelFacts
<1>2. CoreShift \in Nat /\ Page \in Nat /\ Page > 0 /\ Granule \in Nat
  BY GeometryFacts
<1>3. PICK e \in Nat : e = Pow2[EntryShift(l)] /\ e > 0
  BY <1>1, Powers
<1>4. IsMultiple(e, Page)
  BY <1>1, <1>2, <1>3, PowerDivides DEF Page, IsMultiple
<1>5. InPage(a, o, Page)
  BY DEF InPage
<1>6. (a + o) % e = (a % e) + o /\ (a % e) + o < e
  BY <1>2, <1>4, <1>5, SamePage
<1>7. PICK r \in Nat : r = a % e
  BY <1>3, Division
<1>8. PICK g \in Nat : g = f * Granule
  BY <1>2
<1>9. PICK q \in Nat : q = g \div e
  BY <1>3, Division
<1>10. q * e \in Nat /\ q * e = e * q
  OBVIOUS
<1>11. Mapped(a, l, f) = q * e + r
  BY <1>3, <1>7, <1>8, <1>9 DEF Mapped
<1>12. PICK s \in Nat : s = r + o /\ s < e /\ s = (a + o) % e
  BY <1>6, <1>7
<1>13. PICK pa \in Nat : pa = Mapped(a, l, f) + o /\ pa = e * q + s
  BY <1>10, <1>11, <1>12
<1>14. pa \div e = q /\ pa % e = s
  <2>1. pa = e * q + s /\ e > 0 /\ s < e
    BY <1>3, <1>12, <1>13
  <2>2. QED
    BY ONLY pa \in Nat, e \in Nat, q \in Nat, s \in Nat, <2>1, DivisionUnique
<1>15. Mapped(a, l, f) \in Nat
  BY <1>10, <1>11
<1>16. QED
  BY <1>3, <1>8, <1>9, <1>12, <1>13, <1>14, <1>15

\* An entry that was read, and ends a walk, has a frame.
LEMMA LeafFrame ==
  ASSUME RangeTypes, NEW s \in DOMAIN pte, NEW l, IsLeaf(l, pte[s])
  PROVE  pte[s].frame \in 0..(FrameCount - 1)
<1>1. pte[s] \in Entry
  BY DEF RangeTypes
<1>2. pte[s].kind # "absent"
  BY DEF IsLeaf
<1>3. QED
  BY <1>1, <1>2 DEF Entry

\* The bytes of the page whose walk has ended are translated where the session accesses them.
LEMMA PageTranslated ==
  ASSUME RangeTypes, Progress, phase = "access", NEW o \in Nat, o < Page,
         ~IndexBeyondTable(PageAddress + o)
  PROVE  Translates(PageAddress + o, physical + o)
<1>1. PageAddress \in Nat /\ PageAddress % Page = 0 /\ geometry \in Geometries
  BY PageFacts DEF RangeTypes
<1>2. /\ IsCanonical(PageAddress) /\ level \in 1..LevelCount
      /\ Slot \in DOMAIN pte /\ IsLeaf(level, pte[Slot])
      /\ physical = Mapped(PageAddress, level, pte[Slot].frame)
  BY DEF Progress, Walking
<1>3. PICK w : SessionWalk(PageAddress, level, w) /\ w[level] = table
  BY DEF Progress, Walking
<1>4. /\ w \in Walks(PageAddress + o, level)
      /\ <<w[level], Index(PageAddress, level)>> \in DOMAIN pte =>
           GuestEntry(PageAddress + o, level, w[level]) = pte[<<w[level], Index(PageAddress, level)>>]
  BY <1>1, <1>2, <1>3, WalkOfByte
<1>5. GuestEntry(PageAddress + o, level, w[level]) = pte[Slot]
  BY <1>2, <1>3, <1>4 DEF Slot
<1>6. pte[Slot].frame \in Nat
  <2>1. pte[Slot].frame \in 0..(FrameCount - 1)
    BY <1>2, LeafFrame
  <2>2. FrameCount \in Nat
    BY <1>1, GeometryFacts
  <2>3. QED
    BY <2>1, <2>2
<1>7. /\ (physical + o) % Pow2[EntryShift(level)] = (PageAddress + o) % Pow2[EntryShift(level)]
      /\ (physical + o) \div Pow2[EntryShift(level)]
           = (pte[Slot].frame * Granule) \div Pow2[EntryShift(level)]
  BY <1>1, <1>2, <1>6, MappedByte
<1>8. QED
  BY <1>2, <1>4, <1>5, <1>7 DEF Translates

\* The invariant says how a range may end.
LEMMA RangeEnds == RangeInv => RangeOutcome
<1>1. SUFFICES ASSUME RangeInv PROVE RangeOutcome
  OBVIOUS
<1>2. RangeTypes /\ Progress
  BY <1>1 DEF RangeInv
<1>3. /\ Current \in Nat /\ PageAddress \in Nat /\ PageAddress % Page = 0
      /\ Current % Page \in Nat /\ Current % Page < Page
      /\ Current = PageAddress + (Current % Page) /\ geometry \in Geometries
  BY <1>2, PageFacts DEF RangeTypes
<1>4. PICK n \in Nat : n = Pow2[Width]
  <2>1. Width \in Nat
    BY <1>3, GeometryFacts
  <2>2. QED
    BY <2>1, Powers
<1>5. phase = "ok" => completed = length /\ address + length <= Pow2[Width]
  BY <1>2 DEF Progress, Current
<1>6. ASSUME phase = "overflow"
      PROVE  address + length > Pow2[Width] /\ Current = Pow2[Width]
  <2>1. completed < length /\ Current >= n /\ Current <= n
    BY <1>2, <1>4, <1>6 DEF Progress
  <2>2. Current = n
    BY <1>3, <2>1
  <2>3. Current = address + completed /\ address \in Nat /\ completed \in Nat /\ length \in Nat
    BY <1>2 DEF Current, RangeTypes
  <2>4. address + length > n
    BY <2>1, <2>2, <2>3
  <2>5. QED
    BY <1>4, <2>2, <2>4
<1>7. ASSUME phase = "fault", IsCanonical(Current), ~IndexBeyondTable(Current)
      PROVE  Unmapped(Current)
  <2>1. IsCanonical(PageAddress)
    BY <1>3, <1>7, CanonicalPage
  <2>2. /\ Walking /\ Slot \in DOMAIN pte /\ ~IsLeaf(level, pte[Slot])
        /\ pte[Slot].kind = "table" => level = 1
    BY <1>2, <1>7, <2>1 DEF Progress
  <2>3. PICK w : SessionWalk(PageAddress, level, w) /\ w[level] = table
    BY <2>2 DEF Walking
  <2>4. level \in 1..LevelCount /\ LevelCount \in Nat
    BY <1>3, <2>2, LevelFacts DEF Walking
  <2>5. /\ w \in Walks(Current, level)
        /\ <<w[level], Index(PageAddress, level)>> \in DOMAIN pte =>
             GuestEntry(Current, level, w[level]) = pte[<<w[level], Index(PageAddress, level)>>]
    <3>1. PICK o \in Nat : o = Current % Page /\ o < Page /\ Current = PageAddress + o
      BY <1>3
    <3>2. ~IndexBeyondTable(PageAddress + o)
      BY <1>7, <3>1
    <3>3. /\ w \in Walks(PageAddress + o, level)
          /\ <<w[level], Index(PageAddress, level)>> \in DOMAIN pte =>
               GuestEntry(PageAddress + o, level, w[level])
                 = pte[<<w[level], Index(PageAddress, level)>>]
      BY <1>2, <1>3, <2>1, <2>3, <2>4, <3>1, <3>2, WalkOfByte
    <3>4. QED
      BY <3>1, <3>3
  <2>6. GuestEntry(Current, level, w[level]) = pte[Slot]
    BY <2>2, <2>3, <2>5 DEF Slot
  <2>7. ASSUME NEW l \in 1..LevelCount, NEW v \in Walks(Current, l)
        PROVE  ~IsLeaf(l, GuestEntry(Current, l, v[l]))
    <3>1. \A k \in 1..LevelCount : level <= k /\ l <= k => w[k] = v[k]
      BY <1>2, <2>4, <2>5, WalksAgree
    <3>2. CASE l = level
      <4>1. w[l] = v[l]
        BY <2>4, <3>1, <3>2
      <4>2. QED
        BY <2>2, <2>6, <3>2, <4>1
    <3>3. CASE l > level
      <4>1. w[l] = v[l] /\ l \in (level + 1)..LevelCount /\ l # 1
        BY <2>4, <3>1, <3>3
      <4>2. GuestEntry(Current, l, w[l]) = [kind |-> "table", frame |-> w[l - 1]]
        BY <2>5, <4>1 DEF Walks
      <4>3. GuestEntry(Current, l, v[l]).kind = "table"
        BY <4>1, <4>2
      <4>4. QED
        BY <4>1, <4>3 DEF IsLeaf
    <3>4. CASE l < level
      <4>1. w[level] = v[level] /\ level \in (l + 1)..LevelCount /\ level # 1
        BY <2>4, <3>1, <3>4
      <4>2. GuestEntry(Current, level, v[level]) = [kind |-> "table", frame |-> v[level - 1]]
        BY <2>7, <4>1 DEF Walks
      <4>3. pte[Slot].kind = "table"
        BY <2>6, <4>1, <4>2
      <4>4. QED
        BY <2>2, <4>1, <4>3
    <3>5. QED
      BY <2>4, <3>2, <3>3, <3>4
  <2>8. QED
    BY <2>7 DEF Unmapped
<1>8. QED
  BY <1>5, <1>6, <1>7 DEF RangeOutcome

\* What depends on the range and the translator only.
LEMMA GeometryStays ==
  ASSUME geometry' = geometry
  PROVE  /\ LevelCount' = LevelCount /\ Granule' = Granule
         /\ \A l : EntryShift(l)' = EntryShift(l)
         /\ \A a : IsCanonical(a)' <=> IsCanonical(a)
         /\ \A a : IndexBeyondTable(a)' <=> IndexBeyondTable(a)
         /\ \A a, l : Index(a, l)' = Index(a, l)
         /\ \A a, l, f : Mapped(a, l, f)' = Mapped(a, l, f)
BY DEF LevelCount, Granule, EntryShift, IsCanonical, IndexBeyondTable, Index, Mapped,
       AddressBits, PageShift, IndexBits

\* The current page stays where it is.
LEMMA PageStays ==
  ASSUME address' = address, completed' = completed
  PROVE  Current' = Current /\ PageAddress' = PageAddress
BY DEF Current, PageAddress, Page

\* What was accessed stays translated.
LEMMA TranslatedStay ==
  ASSUME RangeTypes, EachByteTranslated, geometry' = geometry, address' = address,
         accessed' = accessed, DOMAIN pte \subseteq DOMAIN pte',
         \A s \in DOMAIN pte : pte'[s] = pte[s]
  PROVE  EachByteTranslated'
<1>1. SUFFICES ASSUME NEW i \in DOMAIN accessed, ~IndexBeyondTable(address + i - 1)
               PROVE  Translates(address + i - 1, accessed[i])'
  BY GeometryStays DEF EachByteTranslated
<1>2. Translates(address + i - 1, accessed[i])
  BY <1>1 DEF EachByteTranslated
<1>3. PICK va : va = address + i - 1
  OBVIOUS
<1>4. PICK pa : pa = accessed[i]
  OBVIOUS
<1>5. Translates(va, pa)'
  BY <1>2, <1>3, <1>4, TranslationStays
<1>6. address' + i - 1 = va /\ accessed'[i] = pa
  BY <1>3, <1>4
<1>7. QED
  BY <1>5, <1>6

\* A range begins with nothing accessed.
LEMMA RangeInits == RangeInit => RangeInv
<1>1. SUFFICES ASSUME RangeInit PROVE RangeInv
  OBVIOUS
<1>2. geometry \in Geometries /\ Width \in Nat /\ FrameCount \in Nat /\ FrameCount > 0
  BY <1>1, GeometryFacts DEF RangeInit
<1>3. PICK n \in Nat : n = Pow2[Width]
  BY <1>2, Powers
<1>4. address \in 0..(n - 1)
  BY <1>1, <1>3, WalkAssumption DEF RangeInit
<1>5. address \in Nat /\ address < Pow2[Width] /\ Current <= Pow2[Width]
  BY <1>1, <1>3, <1>4 DEF RangeInit, Current
<1>6. length \in Nat /\ length > 0
  BY <1>1, WalkAssumption DEF RangeInit
<1>7. pte = <<>> /\ accessed = <<>> /\ accessed \in Seq(Nat) /\ Len(accessed) = 0
  BY <1>1 DEF RangeInit
<1>8. RangeTypes
  BY <1>1, <1>2, <1>5, <1>6, <1>7 DEF RangeInit, RangeTypes
<1>9. Progress
  BY <1>1, <1>5 DEF RangeInit, Progress
<1>10. EachByteTranslated
  BY <1>7 DEF EachByteTranslated
<1>11. QED
  BY <1>8, <1>9, <1>10 DEF RangeInv

\* The head of the loop keeps the invariant.
LEMMA ChunkKeeps == RangeInv /\ Chunk => RangeInv'
<1>1. SUFFICES ASSUME RangeInv, Chunk PROVE RangeInv'
  OBVIOUS
<1>2. RangeTypes /\ Progress /\ EachByteTranslated
  BY <1>1 DEF RangeInv
<1>3. /\ geometry' = geometry /\ address' = address /\ length' = length
      /\ completed' = completed /\ physical' = physical /\ pte' = pte /\ accessed' = accessed
  BY <1>1 DEF Chunk
<1>4. EachByteTranslated'
  BY <1>2, <1>3, TranslatedStay
<1>5. /\ Current' = Current /\ PageAddress' = PageAddress
      /\ LevelCount' = LevelCount /\ \A a : IsCanonical(a)' <=> IsCanonical(a)
  BY <1>3, PageStays, GeometryStays
<1>6. /\ LevelCount \in Nat /\ LevelCount >= 1 /\ FrameCount \in Nat /\ FrameCount > 0
  BY <1>2, LevelFacts, GeometryFacts DEF RangeTypes
<1>7. \/ completed = length /\ phase' = "ok" /\ level' = level /\ table' = table
      \/ /\ completed < length /\ Current >= Pow2[Width] /\ phase' = "overflow"
         /\ level' = level /\ table' = table
      \/ /\ completed < length /\ Current < Pow2[Width]
         /\ phase' = IF IsCanonical(PageAddress) THEN "walk" ELSE "fault"
         /\ level' = LevelCount /\ table' = 0
  BY <1>1 DEF Chunk
<1>8. RangeTypes'
  <2>1. level' \in Nat /\ table' \in 0..(FrameCount - 1)
    BY <1>2, <1>6, <1>7 DEF RangeTypes
  <2>2. phase' \in {"ok", "overflow", "walk", "fault"}
    BY <1>7
  <2>3. QED
    BY <1>2, <1>3, <2>1, <2>2 DEF RangeTypes
<1>9. level' = LevelCount /\ table' = 0 => Walking'
  <2>1. SUFFICES ASSUME level' = LevelCount, table' = 0 PROVE Walking'
    OBVIOUS
  <2>2. PICK c \in Nat : c = LevelCount /\ c >= 1
    BY <1>6
  <2>3. PICK w : w = [k \in c..c |-> 0]
    OBVIOUS
  <2>4. w \in [c..c -> 0..(FrameCount - 1)] /\ w[c] = 0 /\ (c + 1)..c = {}
    BY <1>6, <2>2, <2>3
  <2>5. SessionWalk(PageAddress, level, w)'
    BY <1>5, <2>1, <2>2, <2>4 DEF SessionWalk
  <2>6. QED
    BY <1>5, <2>1, <2>2, <2>4, <2>5 DEF Walking
<1>10. Progress'
  <2>1. Current' <= Pow2[Width]
    BY <1>2, <1>5 DEF Progress
  <2>2. phase' = "ok" => completed' = length'
    BY <1>3, <1>7
  <2>3. phase' = "overflow" => completed' < length' /\ Current' >= Pow2[Width]
    BY <1>3, <1>5, <1>7
  <2>4. phase' \in {"walk", "access"} =>
          completed' < length' /\ Current' < Pow2[Width] /\ IsCanonical(PageAddress)' /\ Walking'
    BY <1>3, <1>5, <1>7, <1>9
  <2>5. phase' # "access"
    BY <1>7
  <2>6. phase' = "fault" => ~IsCanonical(PageAddress)'
    BY <1>5, <1>7
  <2>7. QED
    BY <2>1, <2>2, <2>3, <2>4, <2>5, <2>6 DEF Progress
<1>11. QED
  BY <1>4, <1>8, <1>10 DEF RangeInv

\* A failed access ends the range.
LEMMA AccessFailsKeeps == RangeInv /\ AccessFails => RangeInv'
<1>1. SUFFICES ASSUME RangeInv, AccessFails PROVE RangeInv'
  OBVIOUS
<1>2. RangeTypes /\ Progress /\ EachByteTranslated
  BY <1>1 DEF RangeInv
<1>3. /\ geometry' = geometry /\ address' = address /\ length' = length
      /\ completed' = completed /\ level' = level /\ table' = table /\ physical' = physical
      /\ pte' = pte /\ accessed' = accessed /\ phase' = "error"
  BY <1>1 DEF AccessFails
<1>4. EachByteTranslated'
  BY <1>2, <1>3, TranslatedStay
<1>5. RangeTypes'
  BY <1>2, <1>3 DEF RangeTypes
<1>6. Current' = Current
  BY <1>3, PageStays
<1>7. Progress'
  BY <1>2, <1>3, <1>6 DEF Progress
<1>8. QED
  BY <1>4, <1>5, <1>7 DEF RangeInv

\* A step that changes nothing keeps the invariant.
LEMMA RangeStutterKeeps == RangeInv /\ UNCHANGED rangeVars => RangeInv'
<1>1. SUFFICES ASSUME RangeInv, UNCHANGED rangeVars PROVE RangeInv'
  OBVIOUS
<1>2. RangeTypes /\ Progress /\ EachByteTranslated
  BY <1>1 DEF RangeInv
<1>3. /\ geometry' = geometry /\ address' = address /\ length' = length
      /\ completed' = completed /\ level' = level /\ table' = table /\ physical' = physical
      /\ pte' = pte /\ accessed' = accessed /\ phase' = phase
  BY <1>1 DEF rangeVars
<1>4. EachByteTranslated'
  BY <1>2, <1>3, TranslatedStay
<1>5. RangeTypes'
  BY <1>2, <1>3 DEF RangeTypes
<1>6. /\ Current' = Current /\ PageAddress' = PageAddress /\ LevelCount' = LevelCount
      /\ IsCanonical(PageAddress)' <=> IsCanonical(PageAddress)
      /\ \A a, l : Index(a, l)' = Index(a, l)
      /\ \A a, l, f : Mapped(a, l, f)' = Mapped(a, l, f)
  BY <1>3, PageStays, GeometryStays
<1>7. Slot' = Slot
  BY <1>3, <1>6 DEF Slot
<1>8. Walking => Walking'
  BY <1>3, <1>6 DEF Walking, SessionWalk
<1>9. IsLeaf(level, pte[Slot])' <=> IsLeaf(level, pte[Slot])
  BY <1>3, <1>7 DEF IsLeaf
<1>10. Mapped(PageAddress, level, pte[Slot].frame)' = Mapped(PageAddress, level, pte[Slot].frame)
  BY <1>3, <1>6, <1>7
<1>11. Progress'
  BY <1>2, <1>3, <1>6, <1>7, <1>8, <1>9, <1>10 DEF Progress
<1>12. QED
  BY <1>4, <1>5, <1>11 DEF RangeInv

\* A read fixes the entry of the slot, and changes no other.
LEMMA ReadKeeps ==
  ASSUME RangeTypes, NEW e \in Entry, Read(e)
  PROVE  /\ DOMAIN pte \subseteq DOMAIN pte' /\ \A s \in DOMAIN pte : pte'[s] = pte[s]
         /\ Slot \in DOMAIN pte' /\ pte'[Slot] = e
         /\ \A s \in DOMAIN pte' : pte'[s] \in Entry
<1>1. \A s \in DOMAIN pte : pte[s] \in Entry
  BY DEF RangeTypes
<1>2. CASE Slot \in DOMAIN pte
  BY <1>1, <1>2 DEF Read
<1>3. CASE Slot \notin DOMAIN pte
  <2>1. pte' = [s \in (DOMAIN pte) \cup {Slot} |-> IF s = Slot THEN e ELSE pte[s]]
    BY <1>3 DEF Read
  <2>2. QED
    BY <1>1, <1>3, <2>1
<1>4. QED
  BY <1>2, <1>3

\* The way of the walk so far stays.
LEMMA SessionWalkStays ==
  ASSUME geometry' = geometry, DOMAIN pte \subseteq DOMAIN pte',
         \A s \in DOMAIN pte : pte'[s] = pte[s],
         NEW a, NEW l, NEW w, SessionWalk(a, l, w)
  PROVE  SessionWalk(a, l, w)'
<1>1. LevelCount' = LevelCount /\ \A k : Index(a, k)' = Index(a, k)
  BY GeometryStays
<1>2. QED
  BY <1>1 DEF SessionWalk

\* A table entry leads the walk one level down.
LEMMA SessionWalkDown ==
  ASSUME NEW a, NEW l \in 1..LevelCount', LevelCount' \in Nat, NEW w, SessionWalk(a, l, w)', l > 1,
         NEW f \in 0..(FrameCount - 1), <<w[l], Index(a, l)'>> \in DOMAIN pte',
         pte'[<<w[l], Index(a, l)'>>] = [kind |-> "table", frame |-> f]
  PROVE  \E v : SessionWalk(a, l - 1, v)' /\ v[l - 1] = f
<1>1. PICK c \in Nat : c = LevelCount'
  OBVIOUS
<1>2. PICK v : v = [k \in (l - 1)..c |-> IF k = l - 1 THEN f ELSE w[k]]
  OBVIOUS
<1>3. w \in [l..c -> 0..(FrameCount - 1)] /\ w[c] = 0
  BY <1>1 DEF SessionWalk
<1>4. /\ v \in [(l - 1)..c -> 0..(FrameCount - 1)] /\ v[l - 1] = f
      /\ \A k \in l..c : v[k] = w[k]
  BY <1>1, <1>2, <1>3
<1>5. v[c] = 0
  BY <1>1, <1>3, <1>4
<1>6. ASSUME NEW k \in ((l - 1) + 1)..c
      PROVE  /\ <<v[k], Index(a, k)'>> \in DOMAIN pte'
             /\ pte'[<<v[k], Index(a, k)'>>] = [kind |-> "table", frame |-> v[k - 1]]
  <2>1. CASE k = l
    <3>1. v[k] = w[l] /\ v[k - 1] = f
      BY <1>1, <1>4, <2>1
    <3>2. QED
      BY <2>1, <3>1
  <2>2. CASE k # l
    <3>1. k \in (l + 1)..c /\ k \in l..c /\ k - 1 \in l..c
      BY <1>1, <2>2
    <3>2. v[k] = w[k] /\ v[k - 1] = w[k - 1]
      BY <1>4, <3>1
    <3>3. QED
      BY <1>1, <3>1, <3>2 DEF SessionWalk
  <2>3. QED
    BY <2>1, <2>2
<1>7. SessionWalk(a, l - 1, v)'
  BY <1>1, <1>4, <1>5, <1>6 DEF SessionWalk
<1>8. QED
  BY <1>4, <1>7

\* A level of the walk keeps the invariant.
LEMMA WalkLevelKeeps ==
  ASSUME RangeInv, NEW e \in Entry, WalkLevel(e)
  PROVE  RangeInv'
<1>1. RangeTypes /\ Progress /\ EachByteTranslated
  BY DEF RangeInv
<1>2. /\ geometry' = geometry /\ address' = address /\ length' = length
      /\ completed' = completed /\ accessed' = accessed /\ phase = "walk" /\ Read(e)
  BY DEF WalkLevel
<1>3. /\ DOMAIN pte \subseteq DOMAIN pte' /\ \A s \in DOMAIN pte : pte'[s] = pte[s]
      /\ Slot \in DOMAIN pte' /\ pte'[Slot] = e
      /\ \A s \in DOMAIN pte' : pte'[s] \in Entry
  BY <1>1, <1>2, ReadKeeps
<1>4. EachByteTranslated'
  BY <1>1, <1>2, <1>3, TranslatedStay
<1>5. /\ Current' = Current /\ PageAddress' = PageAddress /\ LevelCount' = LevelCount
      /\ IsCanonical(PageAddress)' <=> IsCanonical(PageAddress)
      /\ \A a, l : Index(a, l)' = Index(a, l)
      /\ \A a, l, f : Mapped(a, l, f)' = Mapped(a, l, f)
  BY <1>2, PageStays, GeometryStays
<1>6. /\ completed < length /\ Current < Pow2[Width] /\ Current <= Pow2[Width]
      /\ IsCanonical(PageAddress) /\ level \in 1..LevelCount
  BY <1>1, <1>2 DEF Progress, Walking
<1>7. PICK w : SessionWalk(PageAddress, level, w) /\ w[level] = table
  BY <1>1, <1>2 DEF Progress, Walking
<1>8. PICK a \in Nat : a = PageAddress /\ a % Page = 0
  BY <1>1, PageFacts
<1>9. SessionWalk(a, level, w) /\ Slot = <<table, Index(a, level)>>
  BY <1>7, <1>8 DEF Slot
<1>10. PICK l \in 1..LevelCount : l = level
  BY <1>6
<1>11. SessionWalk(a, l, w)'
  BY <1>2, <1>3, <1>9, <1>10, SessionWalkStays
<1>12. /\ geometry \in Geometries /\ LevelCount \in Nat /\ FrameCount \in Nat
       /\ Page \in Nat /\ Page > 0
  BY <1>1, LevelFacts, GeometryFacts DEF RangeTypes
<1>13. ASSUME phase' \in {"fault", "access", "walk"}, level' \in Nat,
              table' \in 0..(FrameCount - 1), physical' \in Nat
       PROVE  RangeTypes'
  BY <1>1, <1>2, <1>3, <1>13 DEF RangeTypes
<1>14. level \in Nat /\ table \in 0..(FrameCount - 1) /\ physical \in Nat
  BY <1>1 DEF RangeTypes
<1>15. ASSUME level' = level, table' = table
       PROVE  Walking' /\ Slot' = Slot
  <2>1. SessionWalk(PageAddress, level, w)'
    BY <1>5, <1>8, <1>10, <1>11, <1>15
  <2>2. QED
    BY <1>5, <1>6, <1>7, <1>15, <2>1 DEF Walking, Slot
<1>16. ASSUME phase' = "fault", level' = level, table' = table, physical' = physical,
              ~IsLeaf(level, e), e.kind # "table"
       PROVE  RangeInv'
  <2>1. RangeTypes'
    BY <1>13, <1>14, <1>16
  <2>2. Walking' /\ Slot' = Slot
    BY <1>15, <1>16
  <2>3. ~IsLeaf(level, pte[Slot])'
    BY <1>3, <1>16, <2>2 DEF IsLeaf
  <2>4. Progress'
    BY <1>3, <1>5, <1>6, <1>16, <2>2, <2>3 DEF Progress
  <2>5. QED
    BY <1>4, <2>1, <2>4 DEF RangeInv
<1>17. ASSUME phase' = "access", level' = level, table' = table,
              physical' = Mapped(PageAddress, level, e.frame), IsLeaf(level, e)
       PROVE  RangeInv'
  <2>1. e.frame \in 0..(FrameCount - 1)
    <3>1. e.kind # "absent"
      BY <1>17 DEF IsLeaf
    <3>2. QED
      BY <3>1 DEF Entry
  <2>2. physical' \in Nat
    <3>1. PICK f \in Nat : f = e.frame
      BY <1>12, <2>1
    <3>2. 0 \in Nat /\ 0 < Page
      BY <1>12
    <3>3. Mapped(a, l, f) \in Nat
      BY <1>8, <1>12, <3>2, MappedByte
    <3>4. QED
      BY <1>8, <1>10, <1>17, <3>1, <3>3
  <2>3. RangeTypes'
    BY <1>13, <1>14, <1>17, <2>2
  <2>4. Walking' /\ Slot' = Slot
    BY <1>15, <1>17
  <2>5. IsLeaf(level, pte[Slot])'
    BY <1>3, <1>17, <2>4 DEF IsLeaf
  <2>6. physical' = Mapped(PageAddress, level, pte[Slot].frame)'
    BY <1>3, <1>5, <1>17, <2>4
  <2>7. Progress'
    BY <1>2, <1>3, <1>5, <1>6, <1>17, <2>4, <2>5, <2>6 DEF Progress
  <2>8. QED
    BY <1>4, <2>3, <2>7 DEF RangeInv
<1>18. CASE e.kind = "absent" /\ phase' = "fault" /\ UNCHANGED <<level, table, physical>>
  <2>1. ~IsLeaf(level, e)
    BY <1>18 DEF IsLeaf
  <2>2. QED
    BY <1>16, <1>18, <2>1
<1>19. CASE /\ e.kind = "large" /\ (level = 1 \/ level > LargeLevels)
            /\ phase' = "fault" /\ UNCHANGED <<level, table, physical>>
  <2>1. LargeLevels \in Nat
    BY <1>12, GeometryFacts
  <2>2. ~IsLeaf(level, e)
    BY <1>14, <1>19, <2>1 DEF IsLeaf
  <2>3. QED
    BY <1>16, <1>19, <2>2
<1>20. CASE /\ e.kind = "large" /\ level > 1 /\ level <= LargeLevels /\ phase' = "access"
            /\ physical' = Mapped(PageAddress, level, e.frame) /\ UNCHANGED <<level, table>>
  <2>1. IsLeaf(level, e)
    BY <1>14, <1>20 DEF IsLeaf
  <2>2. QED
    BY <1>17, <1>20, <2>1
<1>21. CASE /\ e.kind = "table" /\ level = 1 /\ phase' = "access"
            /\ physical' = Mapped(PageAddress, 1, e.frame) /\ UNCHANGED <<level, table>>
  <2>1. IsLeaf(level, e)
    BY <1>21 DEF IsLeaf
  <2>2. QED
    BY <1>17, <1>21, <2>1
<1>22. CASE /\ e.kind = "table" /\ level > 1 /\ level' = level - 1 /\ table' = e.frame
            /\ UNCHANGED <<phase, physical>>
  <2>1. e.frame \in 0..(FrameCount - 1) /\ e = [kind |-> "table", frame |-> e.frame]
    BY <1>22 DEF Entry
  <2>2. RangeTypes'
    <3>1. level' \in Nat
      BY <1>14, <1>22
    <3>2. QED
      BY <1>2, <1>13, <1>14, <1>22, <2>1, <3>1
  <2>3. \E v : SessionWalk(a, l - 1, v)' /\ v[l - 1] = e.frame
    <3>1. /\ <<w[l], Index(a, l)'>> \in DOMAIN pte'
          /\ pte'[<<w[l], Index(a, l)'>>] = [kind |-> "table", frame |-> e.frame]
      BY <1>3, <1>5, <1>7, <1>9, <1>10, <2>1
    <3>2. l \in 1..LevelCount' /\ LevelCount' \in Nat /\ l > 1
      BY <1>5, <1>10, <1>12, <1>22
    <3>3. PICK f \in 0..(FrameCount - 1) : f = e.frame
      BY <2>1
    <3>4. \E v : SessionWalk(a, l - 1, v)' /\ v[l - 1] = f
      BY <1>11, <3>1, <3>2, <3>3, SessionWalkDown
    <3>5. QED
      BY <3>3, <3>4
  <2>4. Walking'
    <3>1. level' \in 1..LevelCount' /\ level' = l - 1
      BY <1>5, <1>6, <1>10, <1>12, <1>22
    <3>2. QED
      BY <1>5, <1>8, <1>22, <2>3, <3>1 DEF Walking
  <2>5. Progress'
    BY <1>2, <1>5, <1>6, <1>22, <2>4 DEF Progress
  <2>6. QED
    BY <1>4, <2>2, <2>5 DEF RangeInv
<1>23. QED
  BY <1>18, <1>19, <1>20, <1>21, <1>22 DEF WalkLevel

\* The chunk ends with the page or with the range.
LEMMA ChunkFacts ==
  ASSUME RangeTypes, completed < length
  PROVE  /\ ChunkLength \in Nat /\ ChunkLength <= length - completed
         /\ (Current % Page) + ChunkLength <= Page
<1>1. PICK r \in Nat : r = Current % Page /\ r < Page
  BY PageFacts
<1>2. Page \in Nat /\ length \in Nat /\ completed \in Nat
  BY PageFacts DEF RangeTypes
<1>3. ChunkLength = IF Page - r < length - completed THEN Page - r ELSE length - completed
  BY <1>1 DEF ChunkLength
<1>4. QED
  BY <1>1, <1>2, <1>3

\* The access of a chunk keeps the invariant: its bytes are at their translations.
LEMMA AccessChunkKeeps == RangeInv /\ AccessChunk => RangeInv'
<1>1. SUFFICES ASSUME RangeInv, AccessChunk PROVE RangeInv'
  OBVIOUS
<1>2. RangeTypes /\ Progress /\ EachByteTranslated
  BY <1>1 DEF RangeInv
<1>3. /\ geometry' = geometry /\ address' = address /\ length' = length /\ level' = level
      /\ table' = table /\ physical' = physical /\ pte' = pte
      /\ phase = "access" /\ phase' = "chunk"
  BY <1>1 DEF AccessChunk
<1>4. completed < length /\ Current < Pow2[Width] /\ geometry \in Geometries
  BY <1>2, <1>3 DEF Progress, RangeTypes
<1>5. PICK n \in Nat : n = ChunkLength
  BY <1>2, <1>4, ChunkFacts
<1>6. PICK r \in Nat : r = Current % Page
  BY <1>2, PageFacts
<1>7. PICK c \in Nat : c = Current
  BY <1>2, PageFacts
<1>8. PICK d \in Nat : d = completed /\ d = Len(accessed)
  BY <1>2 DEF RangeTypes
<1>9. /\ completed' = d + n
      /\ accessed' = accessed \o [i \in 1..n |-> physical + r + i - 1]
  BY <1>1, <1>5, <1>6, <1>8 DEF AccessChunk
<1>10. /\ address \in Nat /\ length \in Nat /\ physical \in Nat /\ accessed \in Seq(Nat)
  BY <1>2 DEF RangeTypes
<1>11. /\ n <= length - d /\ r + n <= Page /\ c = PageAddress + r /\ c = address + d
       /\ PageAddress \in Nat /\ PageAddress % Page = 0 /\ Page \in Nat /\ Page > 0
  BY <1>2, <1>4, <1>5, <1>6, <1>7, <1>8, ChunkFacts, PageFacts DEF Current
<1>12. PICK s : s = [i \in 1..n |-> physical + r + i - 1]
  OBVIOUS
<1>13. /\ s \in Seq(Nat) /\ Len(s) = n /\ \A i \in 1..n : s[i] = physical + r + i - 1
  <2>1. \A i \in 1..n : physical + r + i - 1 \in Nat
    BY <1>10
  <2>2. QED
    BY <1>12, <2>1
<1>14. /\ accessed' \in Seq(Nat) /\ Len(accessed') = d + n
       /\ \A i \in 1..(d + n) : accessed'[i] = IF i <= d THEN accessed[i] ELSE s[i - d]
  BY <1>8, <1>9, <1>10, <1>12, <1>13
<1>15. RangeTypes'
  <2>1. completed' \in Nat /\ completed' <= length /\ Len(accessed') = completed'
    BY <1>8, <1>9, <1>10, <1>11, <1>14
  <2>2. QED
    BY <1>2, <1>3, <1>14, <2>1 DEF RangeTypes
<1>16. Current' <= Pow2[Width]
  <2>1. CoreShift \in Nat /\ Width \in Nat /\ CoreShift <= Width
    BY <1>4, GeometryFacts
  <2>2. PICK k \in Nat : Pow2[Width] = Page * k
    BY <2>1, PowerDivides DEF Page
  <2>3. PICK a \in Nat : a = PageAddress /\ a % Page = 0
    BY <1>11
  <2>4. PICK z \in Nat : z = Pow2[Width] /\ z = Page * k
    BY <1>11, <2>2
  <2>5. a < Page * k
    BY <1>4, <1>7, <1>11, <2>3, <2>4
  <2>6. a + Page <= z
    BY <1>11, <2>3, <2>4, <2>5, PageBelow
  <2>7. Current' = c + n
    BY <1>3, <1>9, <1>10, <1>11 DEF Current
  <2>8. QED
    BY <1>11, <2>3, <2>4, <2>6, <2>7
<1>17. Progress'
  BY <1>3, <1>16 DEF Progress
<1>18. EachByteTranslated'
  <2>1. SUFFICES ASSUME NEW i \in 1..(d + n), ~IndexBeyondTable(address + i - 1)
                 PROVE  Translates(address + i - 1, accessed[i])'
    <3>1. DOMAIN accessed' = 1..(d + n)
      BY <1>14
    <3>2. QED
      BY <1>3, <3>1, GeometryStays DEF EachByteTranslated
  <2>2. PICK va : va = address + i - 1
    OBVIOUS
  <2>3. PICK pa : pa = accessed'[i]
    OBVIOUS
  <2>4. Translates(va, pa)
    <3>1. CASE i <= d
      <4>1. i \in DOMAIN accessed /\ accessed'[i] = accessed[i]
        BY <1>8, <1>10, <1>14, <3>1
      <4>2. QED
        BY <1>2, <2>1, <2>2, <2>3, <4>1 DEF EachByteTranslated
    <3>2. CASE i > d
      <4>1. PICK o \in Nat : o = r + (i - d) - 1 /\ o < Page
        BY <1>11, <3>2
      <4>2. accessed'[i] = physical + o
        <5>1. accessed'[i] = s[i - d] /\ i - d \in 1..n
          BY <1>14, <3>2
        <5>2. QED
          BY <1>10, <1>13, <4>1, <5>1
      <4>3. address + i - 1 = PageAddress + o
        BY <1>10, <1>11, <4>1
      <4>4. Translates(PageAddress + o, physical + o)
        BY <1>2, <1>3, <2>1, <4>1, <4>3, PageTranslated
      <4>5. QED
        BY <2>2, <2>3, <4>2, <4>3, <4>4
    <3>3. QED
      BY <3>1, <3>2
  <2>5. Translates(va, pa)'
    BY <1>2, <1>3, <2>4, TranslationStays
  <2>6. address' + i - 1 = va /\ accessed'[i] = pa
    BY <1>3, <2>2, <2>3
  <2>7. QED
    BY <2>5, <2>6
<1>19. QED
  BY <1>15, <1>17, <1>18 DEF RangeInv

\* Every step of read_virtual's and write_virtual's loop keeps the invariant.
THEOREM RangeInvariant == RangeSpec => []RangeInv
<1>1. RangeInv /\ [RangeNext]_rangeVars => RangeInv'
  <2>1. SUFFICES ASSUME RangeInv, [RangeNext]_rangeVars PROVE RangeInv'
    OBVIOUS
  <2>2. CASE Chunk
    BY <2>1, <2>2, ChunkKeeps
  <2>3. CASE \E e \in Entry : WalkLevel(e)
    BY <2>1, <2>3, WalkLevelKeeps
  <2>4. CASE AccessChunk
    BY <2>1, <2>4, AccessChunkKeeps
  <2>5. CASE AccessFails
    BY <2>1, <2>5, AccessFailsKeeps
  <2>6. CASE UNCHANGED rangeVars
    BY <2>1, <2>6, RangeStutterKeeps
  <2>7. QED
    BY <2>1, <2>2, <2>3, <2>4, <2>5, <2>6 DEF RangeNext
<1>2. QED
  BY <1>1, RangeInits, PTL DEF RangeSpec

\* Every byte read_virtual or write_virtual accesses is accessed at its own
\* translation, although the session translates one address per 4 KiB page: for
\* every word width, every granule not smaller than the session's page, every
\* number of levels, every guest's tables and every range.
THEOREM RangeEachByteTranslated == RangeSpec => []EachByteTranslated
<1>1. RangeInv => EachByteTranslated
  BY DEF RangeInv
<1>2. QED
  BY <1>1, RangeInvariant, PTL

\* A range succeeds only whole, and faults only at a byte that the guest's
\* tables leave without a translation.
THEOREM RangeOutcomeExact == RangeSpec => []RangeOutcome
BY RangeEnds, RangeInvariant, PTL

=============================================================================
