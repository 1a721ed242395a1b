----------------------------- MODULE GuestLists -----------------------------
(***************************************************************************)
(* The walks over linked lists of a guest kernel, in vmi-os-linux and      *)
(* vmi-os-windows.  The lists live in the memory of a guest that may be    *)
(* running: between two reads of a walk the guest can relink any node, and *)
(* a pointer may lead anywhere, also back.  A walk defends itself with the *)
(* set of nodes it has seen and with the caller's limit.                   *)
(*                                                                         *)
(* The three shapes of loop in the code:                                   *)
(*   "tasks"  LinuxIntrospector::processes, which starts at init_task,     *)
(*            itself an entry, and stops when it meets its node again;     *)
(*   "list"   LinuxIntrospector::modules and sockets_from_list,            *)
(*            WindowsIntrospector::processes and modules, whose head is    *)
(*            not an entry;                                                *)
(*   "hash"   sockets_from_hash_table: null-terminated chains, one per     *)
(*            bucket, with one set of seen nodes for the whole table.      *)
(* The content of an entry (a process, a module, a socket) is left out: an *)
(* entry is its node.  A read of it can fail.                              *)
(***************************************************************************)
EXTENDS Integers, Sequences, FiniteSets

CONSTANTS
    Nodes,        \* the list nodes of the guest
    Anchor,       \* the list head; the node of init_task for "tasks"
    Null,         \* the null pointer
    Buckets,      \* bucket_count
    Walks,        \* the walks considered
    MaxLimit      \* the largest limit a caller passes

ASSUME ListAssumption ==
    /\ Buckets \in Nat \ {0} /\ MaxLimit \in Nat \ {0}
    /\ Walks \subseteq {"tasks", "list", "hash"}
    /\ Anchor \notin Nodes /\ Null \notin Nodes \cup {Anchor}

VARIABLES
    walk,         \* the walk under way
    limit,        \* its limit, never zero
    next,         \* guest memory: the pointer in every node, head and bucket
    changed,      \* whether the guest wrote a pointer since the walk began
    phase,        \* "start", "walking", "done", "failed" or "unreadable"
    node,         \* the local variable node (current_task)
    bucket,       \* the local variable bucket, from 1
    seen,         \* the local variable seen
    output        \* the entries pushed so far

vars == <<walk, limit, next, changed, phase, node, bucket, seen, output>>

Cells(w) == IF w = "hash" THEN Nodes \cup (1 .. Buckets) ELSE Nodes \cup {Anchor}
Pointers(w) == IF w = "hash" THEN Nodes \cup {Null} ELSE Nodes \cup {Anchor, Null}

Init ==
    /\ walk \in Walks
    /\ limit \in 1 .. MaxLimit
    /\ next \in [Cells(walk) -> Pointers(walk)]
    /\ changed = FALSE
    /\ phase = "start"
    /\ node = Null /\ bucket = 1 /\ seen = {} /\ output = <<>>

End(outcome) ==
    /\ phase' = outcome
    /\ UNCHANGED <<walk, limit, next, changed, node, bucket, seen, output>>

(* The reads before the loop.                                              *)
Start ==
    /\ phase = "start"
    /\ phase' = "walking"
    /\ node' = CASE walk = "tasks" -> Anchor
                 [] walk = "list"  -> next[Anchor]
                 [] walk = "hash"  -> next[1]
    /\ UNCHANGED <<walk, limit, next, changed, bucket, seen, output>>

(* Mutant: the loop passes over a node it has seen.                        *)
RepeatedContinues ==
    /\ node \in seen
    /\ node' = IF next[node] \in Nodes THEN next[node] ELSE node
    /\ UNCHANGED <<walk, limit, next, changed, phase, bucket, seen, output>>

(* seen.insert returned false.                                             *)
Repeated == node \in seen /\ End("failed")

(* The entry is pushed and the walk goes on.                               *)
Visit(following) ==
    /\ seen' = seen \cup {node}
    /\ output' = Append(output, node)
    /\ node' = following
    /\ UNCHANGED <<walk, limit, next, changed, phase, bucket>>

VisitLast(outcome) ==
    /\ seen' = seen \cup {node}
    /\ output' = Append(output, node)
    /\ phase' = outcome
    /\ UNCHANGED <<walk, limit, next, changed, node, bucket>>

(* Mutant: a list of exactly limit entries is refused.                     *)
FitsOneLess == Len(output) + 2 < limit

(* output.len() >= limit is an error when the list goes on.                *)
Fits == Len(output) + 1 < limit

(* One turn of the loop of LinuxIntrospector::processes: the limit is      *)
(* compared only when the list goes on; a pointer below the offset of the  *)
(* list field, here Null, is an error.                                     *)
TaskStep ==
    /\ phase = "walking" /\ walk = "tasks"
    /\ \/ Repeated
       \/ node \notin seen /\ next[node] = Anchor /\ VisitLast("done")
       \/ /\ node \notin seen /\ next[node] # Anchor
          /\ IF Fits /\ next[node] # Null THEN Visit(next[node]) ELSE VisitLast("failed")

(* One turn of the loops over a list with a separate head.                 *)
ListStep ==
    /\ phase = "walking" /\ walk = "list"
    /\ \/ node = Anchor /\ End("done")
       \/ node = Null /\ End("failed")
       \/ node \in Nodes /\ Repeated
       \/ /\ node \in Nodes \ seen
          /\ IF next[node] = Anchor \/ Fits
             THEN Visit(next[node]) ELSE VisitLast("failed")

(* One turn of the loops of sockets_from_hash_table: the limit is compared *)
(* after the push and whether or not the chain goes on.                    *)
HashStep ==
    /\ phase = "walking" /\ walk = "hash"
    /\ \/ /\ node = Null /\ bucket < Buckets
          /\ bucket' = bucket + 1
          /\ node' = next[bucket + 1]
          /\ UNCHANGED <<walk, limit, next, changed, phase, seen, output>>
       \/ node = Null /\ bucket = Buckets /\ End("done")
       \/ node # Null /\ Repeated
       \/ /\ node \in Nodes \ seen
          /\ IF Len(output) + 1 <= limit
             THEN Visit(next[node]) ELSE VisitLast("failed")

(* Any read of guest memory fails; so does an allocation.                  *)
ReadFails ==
    /\ phase \in {"start", "walking"}
    /\ End("unreadable")

(* The guest writes a pointer.                                             *)
GuestRelinks(cell, target) ==
    /\ phase = "walking"
    /\ next' = [next EXCEPT ![cell] = target]
    /\ next' # next
    /\ changed' = TRUE
    /\ UNCHANGED <<walk, limit, phase, node, bucket, seen, output>>

Step == Start \/ TaskStep \/ ListStep \/ HashStep

Next ==
    \/ Step
    \/ ReadFails
    \/ \E cell \in Cells(walk), target \in Pointers(walk) : GuestRelinks(cell, target)

Spec == Init /\ [][Next]_vars

-----------------------------------------------------------------------------
(* Every variable keeps its type; seen holds only nodes of the guest and   *)
(* output grows with it.                                                   *)
TypeOK ==
    /\ walk \in Walks /\ limit \in 1 .. MaxLimit
    /\ next \in [Cells(walk) -> Pointers(walk)]
    /\ changed \in BOOLEAN
    /\ phase \in {"start", "walking", "done", "failed", "unreadable"}
    /\ node \in Nodes \cup {Anchor, Null}
    /\ bucket \in 1 .. Buckets
    /\ seen \subseteq Nodes \cup {Anchor}
    /\ Len(output) = Cardinality(seen)

(* Whatever the guest writes meanwhile, no entry is reported twice, and a  *)
(* walk that succeeds reports no more entries than the caller's limit.     *)
OutputBounded ==
    /\ \A i, j \in DOMAIN output : output[i] = output[j] => i = j
    /\ phase = "done" => Len(output) <= limit

(* The lists in the guest's memory, written without a loop: one chain, or  *)
(* one per bucket, each from its first pointer to the one that ends it.    *)
Seqs == UNION {[1 .. n -> Nodes \cup {Anchor}] : n \in 0 .. MaxLimit}

Chains == IF walk = "hash" THEN Buckets ELSE 1
First(b) == IF walk = "tasks" THEN Anchor ELSE next[IF walk = "list" THEN Anchor ELSE b]
Terminator == IF walk = "hash" THEN Null ELSE Anchor

(* Only init_task is an entry at the head of its list.                     *)
AreEntries(s) == \A k \in 1 .. Len(s) : s[k] = Anchor <=> walk = "tasks" /\ k = 1

(* The entries i to j of s are the chain that pointer p leads to.          *)
Chain(s, i, j, p) ==
    /\ IF i > j THEN p = Terminator /\ walk # "tasks" ELSE p = s[i]
    /\ \A k \in i .. j : next[s[k]] = IF k = j THEN Terminator ELSE s[k + 1]

(* s is what is in memory, and its chains end at the indices in cut.       *)
ListedBy(s, cut) ==
    /\ AreEntries(s)
    /\ cut[0] = 0 /\ cut[Chains] = Len(s)
    /\ \A b \in 1 .. Chains : cut[b - 1] <= cut[b] /\ Chain(s, cut[b - 1] + 1, cut[b], First(b))

ListsInMemory ==
    {s \in Seqs : \E cut \in [0 .. Chains -> 0 .. Len(s)] : ListedBy(s, cut)}

WithoutRepetition(s) == \A i, j \in DOMAIN s : s[i] = s[j] => i = j

(* While the guest leaves the list alone, a walk succeeds exactly when the *)
(* list is closed, without repetition and within the limit, and then it    *)
(* reports the list and nothing else, in order.                            *)
QuietWalkExact ==
    ~changed =>
        /\ phase = "done" => output \in ListsInMemory
        /\ phase = "failed" =>
               ~\E s \in ListsInMemory : Len(s) <= limit /\ WithoutRepetition(s)

=============================================================================
