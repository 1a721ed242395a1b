---------------------------- MODULE GuestTables -----------------------------
(***************************************************************************)
(* The walks over tables of a guest kernel: LinuxIntrospector::open_files  *)
(* over a descriptor table ("fds") and WindowsIntrospector::handles over a *)
(* handle table of up to three levels ("handles").  A walk reads where the *)
(* table is and how long it is, and then entry after entry, while the      *)
(* guest opens and closes entries, makes the table larger and, on Linux,   *)
(* reuses the memory of the table it replaced.                             *)
(*                                                                         *)
(* Memory is a row of pages of two words: an object, a page or zero.  What *)
(* hangs on an object (a file's dentry and name, a handle's access mask)   *)
(* is left out.  Entry i of a handle table is in leaf i \div 2, page       *)
(* 1 + i \div 2; the directories are pages 5 and 6, the top is page 7.     *)
(***************************************************************************)
EXTENDS Integers, Sequences, FiniteSets

CONSTANTS
    Walks,        \* the walks considered
    Limits,       \* the limits callers pass
    Objects,      \* the addresses of objects, above every page
    MaxChanges    \* bound: how often the guest changes its table during a walk

Pages == 1 .. 7
Directory == 5
Second == 6
Top == 7

VARIABLES
    walk, limit, phase, output,  \* as in GuestLists; an entry is <<index, object>>
    changed,      \* how often the guest changed something since the walk began
    memory,       \* the words of each page
    code,         \* table_code, or where the fdtable's array is: level and page
    count,        \* next_handle_needing_pool / 4, or max_fds
    root,         \* the walk's copy of code
    known,        \* the walk's copy of count
    index,        \* the next entry to read
    reused,       \* history: the memory of the old descriptor table was reused
    ever,         \* history: the entries open at some time since the walk began
    always        \* history: the entries open all the time

tableVars == <<memory, code, count, root, known, index, reused, ever, always>>
vars == <<walk, limit, phase, output, changed, tableVars>>

\* How many entries a table of a level has room for.
Capacity(level) == IF level = 0 THEN 2 ELSE IF level = 1 THEN 4 ELSE 6

\* The pages that lead to the leaves.
Linked(level, p) ==
    CASE p = Directory /\ level >= 1 -> <<1, 2>>
      [] p = Second /\ level = 2 -> <<3, 0>>
      [] p = Top /\ level = 2 -> <<Directory, Second>>
      [] OTHER -> <<0, 0>>

RootPage(level) == IF level = 0 THEN 1 ELSE IF level = 1 THEN Directory ELSE Top

\* Where the guest keeps entry i.
Leaf(i) == IF walk = "fds" THEN code.page + (i \div 2) ELSE 1 + (i \div 2)
Entry(i) == memory[Leaf(i)][1 + (i % 2)]
OpenEntries == {<<i, Entry(i)>> : i \in {j \in 0 .. (count - 1) : Entry(j) # 0}}

\* A process that has no table.
NoTable == [level |-> 0, page |-> 0]

\* A table of any level and length, some of its entries open.
Init ==
    /\ walk \in Walks /\ limit \in Limits
    /\ code \in {[level |-> l, page |-> RootPage(l)] : l \in IF walk = "fds" THEN {0} ELSE 0 .. 2}
                  \cup {NoTable}
    /\ count \in IF code = NoTable THEN {0} ELSE 0 .. Capacity(code.level)
    /\ \E open \in SUBSET (0 .. (count - 1)), o \in Objects :
           memory = [p \in Pages |->
               IF p >= Directory THEN Linked(code.level, p)
               ELSE [s \in 1 .. 2 |-> IF 2 * p + s - 3 \in open THEN o ELSE 0]]
    /\ phase = "start" /\ output = <<>> /\ changed = 0
    /\ root = code /\ known = 0 /\ index = 0
    /\ reused = FALSE /\ ever = {} /\ always = {}

-----------------------------------------------------------------------------
(* The walk.                                                               *)

\* The table's place; history begins here.  The place and the length of a
\* descriptor table are in a structure that the guest replaces as a whole.
ReadRoot ==
    /\ phase = "start"
    /\ phase' = IF code = NoTable THEN "done" ELSE IF walk = "fds" THEN "walking" ELSE "counting"
    /\ root' = code
    /\ known' = IF walk = "fds" THEN count ELSE known
    /\ ever' = OpenEntries /\ always' = OpenEntries
    /\ UNCHANGED <<walk, limit, output, changed, memory, code, count, index, reused>>

\* The length of a handle table is read later than its level.
ReadCount ==
    /\ phase = "counting"
    /\ phase' = "walking"
    /\ known' = count
    /\ UNCHANGED <<walk, limit, output, changed, memory, code, count, root, index, reused,
                   ever, always>>

\* A word of the row of pages; a pointer must be that of a page.
Word(page, i) == memory[page + (i \div 2)][1 + (i % 2)]

\* handle_entry_address: the leaf of an entry, found through the levels.
HandleEntry(i) ==
    CASE root.level = 0 -> root.page
      [] root.level = 1 -> Word(root.page, i \div 2)
      [] OTHER -> LET d == Word(root.page, (i \div 2) \div 2)
                  IN  IF d \in Pages THEN Word(d, (i \div 2) % 2) ELSE 0

Finish(outcome) == phase' = outcome /\ UNCHANGED <<walk, limit, output, changed, tableVars>>

\* An entry that is zero is passed over.
ReadEntry ==
    /\ phase = "walking" /\ known <= limit /\ index < known
    /\ LET leaf == IF walk = "fds" THEN root.page + (index \div 2) ELSE HandleEntry(index)
       IN  IF leaf \notin Pages THEN Finish("failed")
           ELSE LET object == memory[leaf][1 + (index % 2)]
                IN  /\ output' = IF object = 0 THEN output ELSE Append(output, <<index, object>>)
                    /\ index' = index + 1
                    /\ UNCHANGED <<walk, limit, phase, changed, memory, code, count, root, known,
                                   reused, ever, always>>

\* A table longer than the limit is refused before the loop.
EndTable ==
    \/ phase = "walking" /\ known > limit /\ Finish("failed")
    \/ phase = "walking" /\ known <= limit /\ index = known /\ Finish("done")

\* A read of guest memory fails, or what was read is no table and is refused: a
\* null fdtable or array, a fourth level, an unaligned count.  The guest here
\* keeps its tables well formed, so that such a walk claims nothing.
ReadFails == phase \in {"start", "counting", "walking"} /\ Finish("unreadable")

-----------------------------------------------------------------------------
(* The guest.                                                              *)

Guest ==
    /\ phase \in {"counting", "walking"} /\ changed < MaxChanges
    /\ changed' = changed + 1
    /\ UNCHANGED <<walk, limit, phase, output, root, known, index>>

\* What the walk may have seen.
Remember ==
    /\ ever' = ever \cup OpenEntries'
    /\ always' = always \cap OpenEntries'

Store(p, slot, word) == memory' = [memory EXCEPT ![p][slot] = word]

GuestOpens(i, object) ==
    /\ Guest /\ i < count
    /\ Entry(i) = 0
    /\ Store(Leaf(i), 1 + (i % 2), object)
    /\ UNCHANGED <<code, count, reused>> /\ Remember

GuestCloses(i) ==
    /\ Guest /\ i < count
    /\ Entry(i) # 0
    /\ Store(Leaf(i), 1 + (i % 2), 0)
    /\ UNCHANGED <<code, count, reused>> /\ Remember

\* A handle table gets a directory, and later counts its new entries.
GuestAddsLevel ==
    /\ Guest /\ walk = "handles" /\ code.level < 2 /\ count = Capacity(code.level)
    /\ code' = [level |-> code.level + 1, page |-> RootPage(code.level + 1)]
    /\ memory' = [p \in Pages |-> IF p >= Directory THEN Linked(code'.level, p) ELSE memory[p]]
    /\ UNCHANGED <<count, reused>> /\ Remember

GuestCounts ==
    /\ Guest /\ walk = "handles" /\ count < Capacity(code.level)
    /\ count' = Capacity(code.level)
    /\ UNCHANGED <<memory, code, reused>> /\ Remember

\* A descriptor table is copied to a larger one, which is then published.
GuestExpands ==
    /\ Guest /\ walk = "fds" /\ code.page = 1 /\ count = 2
    /\ code' = [code EXCEPT !.page = 3]
    /\ count' = 4
    /\ memory' = [memory EXCEPT ![3] = memory[1]]
    /\ UNCHANGED reused /\ Remember

\* The old array is given to somebody else.
GuestReuses(object) ==
    /\ Guest /\ walk = "fds" /\ code.page = 3 /\ ~reused
    /\ reused' = TRUE
    /\ memory' = [memory EXCEPT ![1] = <<object, object>>]
    /\ UNCHANGED <<code, count>> /\ Remember

Step == ReadRoot \/ ReadCount \/ ReadEntry \/ EndTable

Next ==
    \/ Step
    \/ ReadFails
    \/ \E i \in 0 .. 5 : GuestCloses(i) \/ \E o \in Objects : GuestOpens(i, o)
    \/ GuestAddsLevel \/ GuestCounts \/ GuestExpands
    \/ \E o \in Objects : GuestReuses(o)

-----------------------------------------------------------------------------
(* No entry is reported twice, and not more than the limit.                *)
TableBounded ==
    /\ \A i, j \in DOMAIN output : output[i][1] = output[j][1] => i = j
    /\ Len(output) <= limit

(* The walk reads the table it began with: the handle table did not grow   *)
(* between the read of its level and that of its length, and the memory of *)
(* the descriptor table is still one.                                      *)
SameTable == IF walk = "fds" THEN root = code \/ ~reused ELSE known <= Capacity(root.level)

Reported == {output[i] : i \in DOMAIN output}

(* While the guest leaves the table alone, exactly its open entries are    *)
(* reported, and the walk fails only for a table longer than the limit.    *)
(* When the guest changes it, what is open all the time is reported, and   *)
(* what is reported was open at some time, as long as it is SameTable.     *)
TableExact ==
    /\ changed = 0 /\ phase = "done" => Reported = OpenEntries
    /\ changed = 0 /\ phase = "failed" => count > limit
    /\ phase = "done" /\ SameTable => always \subseteq Reported /\ Reported \subseteq ever

=============================================================================
