----------------------------- MODULE VmiSession -----------------------------
(***************************************************************************)
(* The session core of crates/vmi-core: virtual reads and writes through   *)
(* a shared, bounded translation cache, used by several threads.           *)
(*                                                                         *)
(* VmiSession is Sync; the only lock is the mutex around the cache, and it *)
(* is released between the lookup, the page-table walk and the insertion.  *)
(* One action is one critical section of that mutex, or one access to      *)
(* guest memory.  Guest memory holds the page tables that the walks read,  *)
(* so the writes of one thread can change the translations another thread  *)
(* is in the middle of computing.                                          *)
(*                                                                         *)
(* A location stands for one page of guest-physical memory (or one page-   *)
(* table entry) and a word for its contents; the arithmetic that splits a  *)
(* byte range into pages is in VirtualRange.  The address translators are  *)
(* a parameter: the locations a walk reads and what it makes of the words. *)
(***************************************************************************)
EXTENDS Naturals, Sequences, FiniteSets

CONSTANTS Threads,        \* callers that share the session
          Tags,           \* AddressTranslator::cache_tag values
          Roots,          \* translation roots
          Pages,          \* guest-virtual pages
          Locs, Words,    \* guest-physical locations and their contents
          Frames,         \* the locations a translation may designate
          Path,           \* Path[root][page]: the locations a walk reads
          Decode(_, _),   \* Decode(tag, words): what a walk concludes
          Requests,       \* page ranges that callers ask for
          Fault,          \* a walk that ends in a fault
          Absent,         \* no cache entry
          Capacity,       \* TranslationCache::capacity
          InitialMemory,
          MaxWrites       \* bound on the number of memory changes

Keys == Tags \X Roots \X Pages

ASSUME SessionAssumption ==
  /\ Capacity \in Nat \ {0}
  /\ MaxWrites \in Nat
  /\ Frames \subseteq Locs
  /\ Path \in [Roots -> [Pages -> Seq(Locs)]]
  /\ Requests \subseteq Seq(Pages)
  /\ InitialMemory \in [Locs -> Words]
  /\ Absent \notin Frames
  /\ Fault \notin Frames

ASSUME DecodeAssumption ==
  \A tag \in Tags, root \in Roots, page \in Pages :
    \A ws \in [1..Len(Path[root][page]) -> Words] :
      Decode(tag, ws) \in Frames \cup {Fault}

VARIABLES
  mem,      \* guest-physical memory
  entries,  \* TranslationCache::entries, Absent where there is no entry
  order,    \* TranslationCache::order, oldest first
  pc,       \* where each thread is
  req,      \* the operation a thread executes: kind, translator tag, root
  todo,     \* the pages it still has to visit, the current one first
  words,    \* the words its walk has read
  frame,    \* the translation it is about to use
  wrote,    \* history: it attempted a memory write and has not invalidated yet
  writable, \* the session offers the memory_write facet
  version,  \* history: number of changes of guest memory
  start,    \* history: the version at which a thread's walk began
  raced,    \* history: keys cached by a walk during which memory changed
  held      \* history: every word a location has held

cache == <<entries, order, raced>>
guest == <<mem, version, held>>
local == <<req, todo, words, frame, start>>
vars == <<mem, entries, order, pc, req, todo, words, frame, wrote, writable,
          version, start, raced, held>>

-----------------------------------------------------------------------------
(* The translation cache.                                                  *)

Cached == {k \in Keys : entries[k] # Absent}

Idle == [op |-> "none", tag |-> Absent, root |-> Absent]

\* Mutant: the key leaves out the translator's tag.
CacheKeyWithoutTag(t) ==
  <<CHOOSE tag \in Tags : TRUE, req[t].root, Head(todo[t])>>

\* The key of the page that thread t is at.
CacheKey(t) == <<req[t].tag, req[t].root, Head(todo[t])>>

\* A walk of key k over unchanging memory m.
Walk(m, k) ==
  LET p == Path[k[2]][k[3]]
  IN  Decode(k[1], [i \in 1..Len(p) |-> m[p[i]]])

\* Mutant: insert queues a key again although it replaced its entry.
CacheInsertRequeues(k, f) ==
  /\ entries' = [entries EXCEPT ![k] = f]
  /\ order' = Append(order, k)

\* insert: an existing key keeps its place in the order; a new one is
\* appended, and then the oldest is evicted if the map outgrew the capacity.
CacheInsert(k, f) ==
  IF entries[k] # Absent
  THEN /\ entries' = [entries EXCEPT ![k] = f]
       /\ UNCHANGED order
  ELSE LET grown == Append(order, k)
       IN  IF Cardinality(Cached) + 1 > Capacity
           THEN /\ order' = Tail(grown)
                /\ entries' = [entries EXCEPT ![k] = f, ![Head(grown)] = Absent]
           ELSE /\ order' = grown
                /\ entries' = [entries EXCEPT ![k] = f]

CacheClear ==
  /\ entries' = [k \in Keys |-> Absent]
  /\ order' = <<>>
  /\ raced' = {}

-----------------------------------------------------------------------------
Init ==
  /\ mem = InitialMemory
  /\ entries = [k \in Keys |-> Absent]
  /\ order = <<>>
  /\ pc = [t \in Threads |-> "idle"]
  /\ req = [t \in Threads |-> Idle]
  /\ todo = [t \in Threads |-> <<>>]
  /\ words = [t \in Threads |-> <<>>]
  /\ frame = [t \in Threads |-> Fault]
  /\ wrote = [t \in Threads |-> FALSE]
  /\ writable \in BOOLEAN
  /\ version = 0
  /\ start = [t \in Threads |-> 0]
  /\ raced = {}
  /\ held = [l \in Locs |-> {InitialMemory[l]}]

\* MemoryWriteAccess::write of one location: it succeeds, or it fails with or
\* without having changed memory.
Store(l, w) ==
  \/ UNCHANGED guest
  \/ /\ version < MaxWrites
     /\ mem' = [mem EXCEPT ![l] = w]
     /\ version' = version + 1
     /\ held' = [held EXCEPT ![l] = @ \cup {w}]

\* The thread drops its loop variables.
DropLocals(t) ==
  /\ req' = [req EXCEPT ![t] = Idle]
  /\ todo' = [todo EXCEPT ![t] = <<>>]
  /\ words' = [words EXCEPT ![t] = <<>>]
  /\ frame' = [frame EXCEPT ![t] = Fault]
  /\ start' = [start EXCEPT ![t] = 0]

\* Mutant: write_virtual propagates the loop's error before it invalidates.
LeaveLoopPropagatesError(t) ==
  /\ DropLocals(t)
  /\ IF req[t].op = "write" /\ Len(todo[t]) <= 1
     THEN pc' = [pc EXCEPT ![t] = "clear"]
     ELSE pc' = [pc EXCEPT ![t] = "idle"]

\* Leaving the page loop: a virtual write goes on to its invalidation whatever
\* the loop's result was, everything else returns.
LeaveLoop(t) ==
  /\ DropLocals(t)
  /\ IF req[t].op = "write"
     THEN pc' = [pc EXCEPT ![t] = "clear"]
     ELSE pc' = [pc EXCEPT ![t] = "idle"]

\* translate, read_virtual and write_virtual up to their first lookup.  A write
\* of no bytes skips the loop, and so does a write without the write facet; a
\* read of no bytes returns at once and is left out.
Begin(t, op, tag, root, pages) ==
  /\ pc[t] = "idle"
  /\ op = "read" => Len(pages) > 0
  /\ op = "translate" => Len(pages) = 1
  /\ IF op = "write" /\ (Len(pages) = 0 \/ ~writable)
     THEN /\ pc' = [pc EXCEPT ![t] = "clear"]
          /\ UNCHANGED <<req, todo>>
     ELSE /\ pc' = [pc EXCEPT ![t] = "lookup"]
          /\ req' = [req EXCEPT ![t] = [op |-> op, tag |-> tag, root |-> root]]
          /\ todo' = [todo EXCEPT ![t] = pages]
  /\ UNCHANGED <<cache, guest, words, frame, start, wrote, writable>>

\* translate, first critical section: a hit ends the translation.
LookupHit(t) ==
  /\ pc[t] = "lookup"
  /\ entries[CacheKey(t)] # Absent
  /\ frame' = [frame EXCEPT ![t] = entries[CacheKey(t)]]
  /\ pc' = [pc EXCEPT ![t] = "access"]
  /\ UNCHANGED <<cache, guest, req, todo, words, start, wrote, writable>>

\* A miss releases the lock and starts a walk.
LookupMiss(t) ==
  /\ pc[t] = "lookup"
  /\ entries[CacheKey(t)] = Absent
  /\ words' = [words EXCEPT ![t] = <<>>]
  /\ start' = [start EXCEPT ![t] = version]
  /\ pc' = [pc EXCEPT ![t] = "walk"]
  /\ UNCHANGED <<cache, guest, req, todo, frame, wrote, writable>>

WalkPath(t) == Path[req[t].root][Head(todo[t])]

\* The walk reads its next page-table entry.
WalkRead(t) ==
  /\ pc[t] = "walk"
  /\ Len(words[t]) < Len(WalkPath(t))
  /\ words' = [words EXCEPT ![t] = Append(@, mem[WalkPath(t)[Len(@) + 1]])]
  /\ UNCHANGED <<cache, guest, pc, req, todo, frame, start, wrote, writable>>

\* The walk fails: the entries decode to a fault (an absent upper entry ends it
\* early), or a read of them failed.
WalkFail(t) ==
  /\ pc[t] = "walk"
  /\ Len(words[t]) = Len(WalkPath(t)) => Decode(req[t].tag, words[t]) = Fault
  /\ LeaveLoop(t)
  /\ UNCHANGED <<cache, guest, wrote, writable>>

\* translate, second critical section: the walk's result enters the cache.
Insert(t) ==
  LET k == CacheKey(t)
      f == Decode(req[t].tag, words[t])
  IN  /\ pc[t] = "walk"
      /\ Len(words[t]) = Len(WalkPath(t))
      /\ f # Fault
      /\ CacheInsert(k, f)
      /\ raced' = IF start[t] = version THEN raced \ {k} ELSE raced \cup {k}
      /\ frame' = [frame EXCEPT ![t] = f]
      /\ words' = [words EXCEPT ![t] = <<>>]
      /\ start' = [start EXCEPT ![t] = 0]
      /\ pc' = [pc EXCEPT ![t] = "access"]
      /\ UNCHANGED <<guest, req, todo, wrote, writable>>

\* The loop goes on with the next page, or ends.
Advance(t) ==
  IF Len(todo[t]) > 1
  THEN /\ todo' = [todo EXCEPT ![t] = Tail(@)]
       /\ frame' = [frame EXCEPT ![t] = Fault]
       /\ pc' = [pc EXCEPT ![t] = "lookup"]
       /\ UNCHANGED <<req, words, start>>
  ELSE LeaveLoop(t)

\* translate returns its result, read_virtual reads the page and goes on.
ReadChunk(t) ==
  /\ pc[t] = "access"
  /\ req[t].op \in {"translate", "read"}
  /\ Advance(t) \/ LeaveLoop(t)
  /\ UNCHANGED <<cache, guest, wrote, writable>>

\* write_virtual writes the page and goes on, or stops at the failed write.
WriteChunk(t) ==
  /\ pc[t] = "access"
  /\ req[t].op = "write"
  /\ \E w \in Words : Store(frame[t], w)
  /\ wrote' = [wrote EXCEPT ![t] = TRUE]
  /\ Advance(t) \/ LeaveLoop(t)
  /\ UNCHANGED <<cache, writable>>

\* write_bytes up to its invalidation.  Without the facet it returns at once.
WriteBytes(t, l) ==
  /\ pc[t] = "idle"
  /\ writable
  /\ \E w \in Words : Store(l, w)
  /\ wrote' = [wrote EXCEPT ![t] = TRUE]
  /\ pc' = [pc EXCEPT ![t] = "clear"]
  /\ UNCHANGED <<cache, local, writable>>

\* The invalidation that ends write_bytes and write_virtual, whatever the
\* write's result was.
Clear(t) ==
  /\ pc[t] = "clear"
  /\ CacheClear
  /\ wrote' = [wrote EXCEPT ![t] = FALSE]
  /\ pc' = [pc EXCEPT ![t] = "idle"]
  /\ UNCHANGED <<guest, local, writable>>

\* clear_translation_cache called for its own sake.
ClearTranslationCache(t) ==
  /\ pc[t] = "idle"
  /\ CacheClear
  /\ UNCHANGED <<guest, local, pc, wrote, writable>>

Step(t) ==
  \/ LookupHit(t)
  \/ LookupMiss(t)
  \/ WalkRead(t)
  \/ WalkFail(t)
  \/ Insert(t)
  \/ ReadChunk(t)
  \/ WriteChunk(t)
  \/ Clear(t)

Next ==
  \E t \in Threads :
    \/ \E op \in {"translate", "read", "write"}, tag \in Tags, root \in Roots,
          pages \in Requests : Begin(t, op, tag, root, pages)
    \/ \E l \in Locs : WriteBytes(t, l)
    \/ ClearTranslationCache(t)
    \/ Step(t)

Spec == Init /\ [][Next]_vars

-----------------------------------------------------------------------------
(* Properties.                                                             *)

Operations == [op : {"translate", "read", "write"}, tag : Tags, root : Roots]

\* Every variable has its type: the cache and the threads hold frames, never the
\* fault of a failed walk.
TypeOK ==
  /\ mem \in [Locs -> Words]
  /\ entries \in [Keys -> Frames \cup {Absent}]
  /\ order \in Seq(Keys)
  /\ pc \in [Threads -> {"idle", "lookup", "walk", "access", "clear"}]
  /\ req \in [Threads -> {Idle} \cup Operations]
  /\ todo \in [Threads -> Seq(Pages)]
  /\ words \in [Threads -> Seq(Words)]
  /\ frame \in [Threads -> Frames \cup {Fault}]
  /\ wrote \in [Threads -> BOOLEAN]
  /\ writable \in BOOLEAN
  /\ version \in Nat
  /\ start \in [Threads -> Nat]
  /\ raced \in SUBSET Keys
  /\ held \in [Locs -> SUBSET Words]

\* The eviction order of TranslationCache lists exactly the cached keys, each
\* once, and never more than the capacity, whatever mix of insertions by
\* several threads, re-insertions, evictions and clears led there.
CacheConsistent ==
  /\ \A i, j \in 1..Len(order) : order[i] = order[j] => i = j
  /\ {order[i] : i \in 1..Len(order)} = Cached
  /\ Len(order) <= Capacity

\* Thread t is between a memory write and the invalidation that follows it.
InvalidationPending(t) == wrote[t] /\ pc[t] # "idle"

\* A thread inside the page loop has an operation and a page, a walk has read a
\* prefix of its path, and a translation in use is a frame.
LoopState ==
  \A t \in Threads :
    /\ pc[t] \in {"lookup", "walk", "access"} => req[t] # Idle /\ Len(todo[t]) > 0
    /\ pc[t] = "walk" => Len(words[t]) <= Len(WalkPath(t))
    /\ pc[t] = "access" => frame[t] \in Frames
    /\ wrote[t] => pc[t] = "clear" \/ req[t].op = "write"
    /\ req[t] # Idle => pc[t] \in {"lookup", "walk", "access"}

\* The words a walk has read are the current ones as long as memory has not
\* changed since the walk began.
WalkIsCurrent ==
  \A t \in Threads : pc[t] = "walk" =>
    /\ start[t] <= version
    /\ start[t] = version =>
         \A i \in 1..Len(words[t]) : words[t][i] = mem[WalkPath(t)[i]]

\* What the invalidation of write_bytes and write_virtual achieves.  Whenever no
\* write is between its memory access and its invalidation, every cached
\* translation is what a walk of the page tables would find now, unless memory
\* changed during the very walk that produced it.
FreshUnlessRaced ==
  (\A t \in Threads : ~InvalidationPending(t)) =>
    \A k \in Cached \ raced : entries[k] = Walk(mem, k)

\* A frame f that some walk of key k could have produced from words that the
\* entries on its path really held.
Plausible(k, f) ==
  LET p == Path[k[2]][k[3]]
  IN  \E ws \in [1..Len(p) -> Words] :
        /\ \A i \in 1..Len(p) : ws[i] \in held[p[i]]
        /\ f = Decode(k[1], ws)

\* A translation that is cached, or that translate hands out, was computed for
\* its own translator, root and page: callers with different translators or
\* roots never see each other's entries through the shared cache.
TranslationsBelongToKey ==
  /\ \A k \in Cached : Plausible(k, entries[k])
  /\ \A t \in Threads : pc[t] = "access" => Plausible(CacheKey(t), frame[t])

=============================================================================
