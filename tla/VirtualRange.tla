---------------------------- MODULE VirtualRange ----------------------------
(***************************************************************************)
(* One read_virtual or write_virtual of vmi-core down to the page tables:  *)
(* the loop that cuts a range of guest-virtual bytes at page boundaries,   *)
(* translate, which hands the page and not the byte to the translator, and *)
(* the translators of vmi-arch-amd64 and vmi-arch-aarch64, which walk the  *)
(* levels.  The session cuts at 4 KiB whatever the translator's granule    *)
(* is, and pages and blocks of the guest may be larger.  The cache is in   *)
(* VmiSession; here every page is walked.                                  *)
(*                                                                         *)
(* Masks and shifts become division by powers of two.  A page-table entry  *)
(* is "absent", a "table" (at the last level a page) or "large" (LARGE on  *)
(* AMD64, a block on AArch64) with a frame; its other bits are left out.   *)
(* The guest's tables are chosen as they are read.                         *)
(***************************************************************************)
EXTENDS Integers, Sequences

CONSTANTS
    Width,        \* bits of an address word, 64 in the code
    CoreShift,    \* the page the session cuts at, 12
    Geometries,   \* the translators considered, as records of
                  \*   addressBits  48 or 57 on AMD64, address_bits on AArch64
                  \*   pageShift    the granule, 12, 14 or 16
                  \*   indexBits    bits of an index into a table, 9, 11 or 13
    LargeLevels,  \* the highest level a large entry is valid at, 3
    FrameCount,   \* physical frames, 0 .. FrameCount - 1
    Addresses,    \* the addresses ranges begin at
    MaxLength     \* the longest range

(* 1 << n.                                                                 *)
Pow2[n \in Nat] == IF n = 0 THEN 1 ELSE 2 * Pow2[n - 1]

ASSUME WalkAssumption ==
    /\ Width \in Nat /\ CoreShift \in Nat
    /\ \A g \in Geometries :
           /\ g.addressBits \in Nat /\ g.pageShift \in Nat /\ g.indexBits \in Nat \ {0}
           /\ CoreShift <= g.pageShift
           /\ g.pageShift < g.addressBits /\ g.addressBits < Width
    /\ LargeLevels \in Nat /\ FrameCount \in Nat \ {0} /\ MaxLength \in Nat
    /\ Addresses \subseteq 0 .. (Pow2[Width] - 1)

VARIABLES
    geometry,          \* the translator's
    address, length,   \* the range asked for
    completed,         \* the local variable completed
    phase,             \* "chunk", "walk", "access", "ok", "fault",
                       \* "error" or "overflow"
    level,             \* the level of the walk, 1 is the last
    table,             \* the frame of the table the walk is at
    physical,          \* the translation of the current page
    pte,               \* the page-table entries read so far
    accessed           \* the physical address of every byte accessed, in order

rangeVars == <<geometry, address, length, completed, phase, level, table, physical, pte, accessed>>

AddressBits == geometry.addressBits
PageShift == geometry.pageShift
IndexBits == geometry.indexBits

Page == Pow2[CoreShift]
Granule == Pow2[PageShift]
Entry == [kind : {"absent"}] \cup [kind : {"table", "large"}, frame : 0 .. (FrameCount - 1)]

(* level_count: the bits above the page, rounded up to whole indexes.      *)
LevelCount == (AddressBits - PageShift + IndexBits - 1) \div IndexBits

(* is_canonical: the bits above AddressBits repeat the highest one below.  *)
IsCanonical(va) ==
    va < Pow2[AddressBits - 1] \/ va >= Pow2[Width] - Pow2[AddressBits - 1]

EntryShift(l) == PageShift + (l - 1) * IndexBits
Index(va, l) == (va \div Pow2[EntryShift(l)]) % Pow2[IndexBits]

(* Mutant: low bits taken as if every mapping were one page.               *)
MappedAsPage(va, l, frame) ==
    LET size == Pow2[EntryShift(l)]
    IN  ((frame * Granule) \div size) * size + (va % Granule)

(* What a page or a large entry at level l maps: its frame, aligned to its *)
(* size, with the low bits of the address.                                 *)
Mapped(va, l, frame) ==
    LET size == Pow2[EntryShift(l)]
    IN  ((frame * Granule) \div size) * size + (va % size)

Current == address + completed
PageAddress == Current - (Current % Page)

RangeInit ==
    /\ geometry \in Geometries
    /\ address \in Addresses
    /\ length \in 1 .. MaxLength
    /\ completed = 0
    /\ phase = "chunk"
    /\ level = 0 /\ table = 0 /\ physical = 0
    /\ pte = <<>>
    /\ accessed = <<>>

(* Mutant: the loop's address wraps around.                                *)
ChunkWraps ==
    /\ phase = "chunk"
    /\ IF Current % Pow2[Width] # Current
       THEN phase' = "ok" /\ UNCHANGED <<level, table>>
       ELSE /\ phase' = IF completed = length THEN "ok"
                        ELSE IF IsCanonical(PageAddress) THEN "walk" ELSE "fault"
            /\ level' = LevelCount /\ table' = 0
    /\ UNCHANGED <<geometry, address, length, completed, physical, pte, accessed>>

(* The head of the loop: checked_add of the address, and the translator's  *)
(* check of the page's address.  The root is frame 0.                      *)
Chunk ==
    /\ phase = "chunk"
    /\ \/ /\ completed = length
          /\ phase' = "ok"
          /\ UNCHANGED <<level, table>>
       \/ /\ completed < length /\ Current >= Pow2[Width]
          /\ phase' = "overflow"
          /\ UNCHANGED <<level, table>>
       \/ /\ completed < length /\ Current < Pow2[Width]
          /\ phase' = IF IsCanonical(PageAddress) THEN "walk" ELSE "fault"
          /\ level' = LevelCount /\ table' = 0
    /\ UNCHANGED <<geometry, address, length, completed, physical, pte, accessed>>

Slot == <<table, Index(PageAddress, level)>>

(* The first read of an entry fixes it.                                    *)
Read(e) ==
    IF Slot \in DOMAIN pte THEN e = pte[Slot] /\ UNCHANGED pte
    ELSE pte' = [s \in (DOMAIN pte) \cup {Slot} |-> IF s = Slot THEN e ELSE pte[s]]

(* One level of translate_levels and of Aarch64Translator::translate.      *)
WalkLevel(e) ==
    /\ phase = "walk"
    /\ Read(e)
    /\ \/ /\ e.kind = "absent"
          /\ phase' = "fault"
          /\ UNCHANGED <<level, table, physical>>
       \/ /\ e.kind = "large" /\ (level = 1 \/ level > LargeLevels)
          /\ phase' = "fault"
          /\ UNCHANGED <<level, table, physical>>
       \/ /\ e.kind = "large" /\ level > 1 /\ level <= LargeLevels
          /\ phase' = "access"
          /\ physical' = Mapped(PageAddress, level, e.frame)
          /\ UNCHANGED <<level, table>>
       \/ /\ e.kind = "table" /\ level = 1
          /\ phase' = "access"
          /\ physical' = Mapped(PageAddress, 1, e.frame)
          /\ UNCHANGED <<level, table>>
       \/ /\ e.kind = "table" /\ level > 1
          /\ level' = level - 1 /\ table' = e.frame
          /\ UNCHANGED <<phase, physical>>
    /\ UNCHANGED <<geometry, address, length, completed, accessed>>

(* min(page_remaining, remaining).                                         *)
ChunkLength ==
    LET remaining == Page - (Current % Page)
    IN  IF remaining < length - completed THEN remaining ELSE length - completed

(* offset_translation, and the read or write of the chunk.                 *)
AccessChunk ==
    /\ phase = "access"
    /\ accessed' = accessed \o [i \in 1 .. ChunkLength |-> physical + (Current % Page) + i - 1]
    /\ completed' = completed + ChunkLength
    /\ phase' = "chunk"
    /\ UNCHANGED <<geometry, address, length, level, table, physical, pte>>

(* The provider fails to read an entry, or to access the chunk.            *)
AccessFails ==
    /\ phase \in {"walk", "access"}
    /\ phase' = "error"
    /\ UNCHANGED <<geometry, address, length, completed, level, table, physical, pte, accessed>>

RangeNext == Chunk \/ (\E e \in Entry : WalkLevel(e)) \/ AccessChunk \/ AccessFails

RangeSpec == RangeInit /\ [][RangeNext]_rangeVars

-----------------------------------------------------------------------------
(* Every variable keeps its type; no byte lies outside physical memory as  *)
(* the tables can express it.                                              *)
RangeTypeOK ==
    /\ geometry \in Geometries
    /\ address \in Addresses /\ length \in 1 .. MaxLength
    /\ completed \in 0 .. length
    /\ phase \in {"chunk", "walk", "access", "ok", "fault", "error", "overflow"}
    /\ level \in 0 .. LevelCount /\ table \in 0 .. (FrameCount - 1)
    /\ \A s \in DOMAIN pte : pte[s] \in Entry
    /\ Len(accessed) = completed

(* The entry of the guest for byte va at level l: the architecture indexes *)
(* a table with the bits below AddressBits only.                           *)
GuestEntry(va, l, frame) ==
    LET slot == <<frame, ((va % Pow2[AddressBits]) \div Pow2[EntryShift(l)]) % Pow2[IndexBits]>>
    IN  IF slot \in DOMAIN pte THEN pte[slot] ELSE [kind |-> "absent"]

(* The tables a walk of the single byte va comes through down to level l:  *)
(* one sequence of them, or none.                                          *)
Walks(va, l) ==
    {w \in [l .. LevelCount -> 0 .. (FrameCount - 1)] :
        /\ w[LevelCount] = 0
        /\ \A k \in (l + 1) .. LevelCount :
               GuestEntry(va, k, w[k]) = [kind |-> "table", frame |-> w[k - 1]]}

(* An entry that ends a walk at level l with a translation.                *)
IsLeaf(l, e) ==
    /\ e.kind = (IF l = 1 THEN "table" ELSE "large")
    /\ l <= LargeLevels \/ l = 1

(* pa is the architecture's translation of the single byte va.             *)
Translates(va, pa) ==
    \E l \in 1 .. LevelCount : \E w \in Walks(va, l) :
        LET e == GuestEntry(va, l, w[l])
        IN  /\ IsLeaf(l, e)
            /\ pa % Pow2[EntryShift(l)] = va % Pow2[EntryShift(l)]
            /\ pa \div Pow2[EntryShift(l)] = (e.frame * Granule) \div Pow2[EntryShift(l)]

(* va has no translation.                                                  *)
Unmapped(va) ==
    \A l \in 1 .. LevelCount : \A w \in Walks(va, l) : ~IsLeaf(l, GuestEntry(va, l, w[l]))

(* The index of va into the first table takes in bits above AddressBits,   *)
(* which the mask keeps when the first index is narrower than the others.  *)
IndexBeyondTable(va) ==
    /\ (AddressBits - PageShift) % IndexBits # 0
    /\ va >= Pow2[Width - 1]

(* Every byte of a range is accessed at its own translation, although the  *)
(* session translates once per 4 KiB page and adds the offset itself: with *)
(* larger granules, with large pages, and across page boundaries.  The     *)
(* exception is the upper half of an address space whose first index is    *)
(* narrower than the others.                                               *)
EachByteTranslated ==
    \A i \in DOMAIN accessed :
        ~IndexBeyondTable(address + i - 1) => Translates(address + i - 1, accessed[i])

(* A range succeeds only after its last byte, and fails only at a byte     *)
(* that has no translation or lies beyond the last address; a range that   *)
(* ends exactly at the last address is not an overflow.  The exception of  *)
(* EachByteTranslated applies to faults too.                               *)
RangeOutcome ==
    /\ phase = "ok" => completed = length /\ address + length <= Pow2[Width]
    /\ phase = "overflow" => address + length > Pow2[Width] /\ Current = Pow2[Width]
    /\ phase = "fault" =>
           \/ ~IsCanonical(Current)
           \/ IndexBeyondTable(Current)
           \/ Unmapped(Current)

=============================================================================
