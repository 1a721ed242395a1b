--------------------------- MODULE SnapshotBundle ---------------------------
(***************************************************************************)
(* SnapshotBundle of vmi-artifact: the parsers that turn the range table   *)
(* of a memory artifact into segments, and read_into, which serves guest-  *)
(* physical reads from them.  A bundle is immutable once loaded; what is   *)
(* hard is that every format has its own loop, its own way of finding the  *)
(* payload of an entry and its own end-of-table checks, while read_into    *)
(* relies on what all of them should have established.                     *)
(*                                                                         *)
(* A byte of a segment is the position in the artifact it was copied from, *)
(* or Zero for the tail an ELF segment is padded with.  Positions count    *)
(* from the first byte after the fixed header.  Addresses are 64-bit in    *)
(* the code and run to Limit - 1 here; a page is PageSize positions.       *)
(***************************************************************************)
EXTENDS Integers, Sequences, FiniteSets, SequencesExt

CONSTANTS
    Formats,      \* the formats an artifact may have
    Limit,        \* one more than the largest u64
    PageSize,     \* 4096 in the code
    MaxFile,      \* the longest payload area considered
    FileLengths,  \* the lengths of payload areas considered
    MaxMemory,    \* max_memory_size / max_total_bytes
    MaxEntries,   \* bound on the entries of a table
    ElfOffsets,   \* the file offsets of the program headers considered
    MaxLength     \* bound on the length of an entry and of a read

ASSUME SizeAssumption ==
    /\ Limit \in Nat \ {0} /\ PageSize \in Nat \ {0} /\ MaxFile \in Nat
    /\ MaxMemory \in Nat \ {0} /\ MaxEntries \in Nat \ {0} /\ MaxLength \in Nat
    /\ ElfOffsets \subseteq Nat /\ FileLengths \subseteq 0 .. MaxFile
    /\ Formats \subseteq {"raw", "elf", "lime", "kdmp", "bitmap", "rdmp", "manifest"}

VARIABLES
    format,       \* the format the artifact's magic selected
    fileLength,   \* positions in the payload area
    declared,     \* the number of pages the header declares (kdmp, bitmap)
    phase,        \* "loading", "loaded", "rejected", "covering", "copying"
    table,        \* the entries read so far, [start, from, stored, length]
    payload,      \* the position the next entry's bytes are taken from
    total,        \* total_memory_size, total_bytes, actual_pages or found
    segments,     \* the segments, [start, bytes]
    request,      \* the read under way, [address, length]
    at,           \* the segment the read's loop looks at
    reach,        \* covered in the first loop, current in the second
    output,       \* the caller's buffer
    result        \* "none", "ok" or "failed", of the last read

loadVars == <<format, fileLength, declared, table, payload, total, segments>>
readVars == <<request, at, reach, output, result>>
bundleVars == <<loadVars, phase, readVars>>

Zero == -1
Untouched == -2

Address == 0 .. (Limit - 1)

(* The whole range of a segment: its length is the length of its bytes.    *)
End(s) == s.start + Len(s.bytes)
Covers(s, a) == s.start <= a /\ a < End(s)

(* The bytes an entry stands for: stored ones, then zeroes up to length.   *)
Bytes(entry) ==
    [i \in 1 .. entry.length |-> IF i <= entry.stored THEN entry.from + i - 1 ELSE Zero]

Segment(entry) == [start |-> entry.start, bytes |-> Bytes(entry)]

RangesOverlap(left, right) == left.start < End(right) /\ right.start < End(left)

BundleInit ==
    /\ format \in Formats
    /\ fileLength \in FileLengths
    /\ declared \in (IF format \in {"kdmp", "bitmap"} THEN 0 .. MaxFile ELSE {0})
    /\ phase = "loading"
    /\ table = <<>> /\ payload = 0 /\ total = 0 /\ segments = <<>>
    /\ request = [address |-> 0, length |-> 0]
    /\ at = 0 /\ reach = 0 /\ output = <<>> /\ result = "none"

(***************************************************************************)
(* Loading.  Reject is every early return with an error: a bad magic, a    *)
(* truncated field, a failed allocation, an unusable path of a manifest.   *)
(***************************************************************************)
Reject ==
    /\ phase = "loading"
    /\ phase' = "rejected"
    /\ segments' = <<>>
    /\ UNCHANGED <<format, fileLength, declared, table, payload, total, readVars>>

(* reserve_segment and push, after the checks of the entry have passed.    *)
Push(entry, nextPayload, nextTotal) ==
    /\ table' = Append(table, entry)
    /\ segments' = Append(segments, Segment(entry))
    /\ payload' = nextPayload
    /\ total' = nextTotal
    /\ UNCHANGED <<format, fileLength, declared, phase, readVars>>

Loading(f) == phase = "loading" /\ format = f
Room == Len(table) < MaxEntries

(* An entry that fails one of the checks ends the parser.                  *)
Accepting(checks, push) == IF checks THEN push ELSE Reject

Entry(start, from, stored, length) ==
    [start |-> start, from |-> from, stored |-> stored, length |-> length]

(* from_elf_with_limits, one PT_LOAD header.                               *)
ElfEntry(start, offset, stored, length) ==
    /\ Loading("elf") /\ Room
    /\ Accepting(/\ stored <= length
                 /\ total + length <= MaxMemory
                 /\ offset + stored <= fileLength,
                 Push(Entry(start, offset, stored, length), payload, total + length))

(* from_lime: a header of one position, then end - start + 1 bytes.  The   *)
(* length of the range of every address does not fit the checked_add.      *)
LimeEntry(start, last) ==
    /\ Loading("lime") /\ Room
    /\ payload < fileLength
    /\ LET length == last - start + 1
       IN  Accepting(/\ start <= last
                     /\ length < Limit
                     /\ payload + 1 + length <= fileLength,
                     Push(Entry(start, payload + 1, length, length),
                          payload + 1 + length, total))

(* from_kdmp, one physical run: payloads follow one another.               *)
KdmpEntry(page, pages) ==
    /\ Loading("kdmp") /\ Room
    /\ LET length == pages * PageSize
       IN  Accepting(/\ pages # 0
                     /\ page * PageSize < Limit /\ length < Limit
                     /\ payload + length <= fileLength,
                     Push(Entry(page * PageSize, payload, length, length),
                          payload + length, total + pages))

(* from_rdmp_kdmp, one range; a zero page ends the table (see FinishTable) *)
RdmpEntry(page, pages) ==
    /\ Loading("rdmp") /\ Room
    /\ page # 0
    /\ LET length == pages * PageSize
       IN  Accepting(/\ pages # 0
                     /\ page * PageSize < Limit /\ length < Limit
                     /\ payload + length <= fileLength,
                     Push(Entry(page * PageSize, payload, length, length),
                          payload + length, total))

(* Mutant: the payload of a present page is found by its number.           *)
BitmapPageByNumber(page) ==
    /\ Loading("bitmap") /\ Room
    /\ table # <<>> => page * PageSize > Last(table).start
    /\ Accepting(/\ page * PageSize < Limit
                 /\ (page + 1) * PageSize <= fileLength,
                 Push(Entry(page * PageSize, page * PageSize, PageSize, PageSize),
                      payload + PageSize, total + 1))

(* from_bitmap_kdmp, one present page; absent pages below it are skipped   *)
(* without moving the payload.                                             *)
BitmapPage(page) ==
    /\ Loading("bitmap") /\ Room
    /\ table # <<>> => page * PageSize > Last(table).start
    /\ Accepting(/\ page * PageSize < Limit
                 /\ payload + PageSize <= fileLength,
                 Push(Entry(page * PageSize, payload, PageSize, PageSize),
                      payload + PageSize, total + 1))

(* manifest_file_with_limits, one segment.                                 *)
ManifestEntry(start, offset, length) ==
    /\ Loading("manifest") /\ Room
    /\ Accepting(/\ length # 0
                 /\ total + length <= MaxMemory
                 /\ offset + length <= fileLength
                 /\ start + length < Limit,
                 Push(Entry(start, offset, length, length), payload, total + length))

(* raw_file_with_limit and try_from_raw: one segment of the whole file.    *)
LoadRaw(base) ==
    /\ Loading("raw")
    /\ table = <<>>
    /\ Accepting(base + fileLength <= Limit,
                 Push(Entry(base, 0, fileLength, fileLength), payload, total))

(* The checks after the loop: an empty table and a wrong count are         *)
(* errors.  A bitmap without present pages is not.                         *)
TableComplete ==
    /\ format # "bitmap" => table # <<>>
    /\ format \in {"kdmp", "bitmap"} => total = declared

(* sort_by_key is stable: entries of one start keep their order.  Exactly  *)
(* one order of the positions of s is.                                     *)
StableOrders(s) ==
    {p \in Bijection(DOMAIN s, DOMAIN s) :
        \A i, j \in DOMAIN s :
            i < j => \/ s[p[i]].start < s[p[j]].start
                     \/ s[p[i]].start = s[p[j]].start /\ p[i] < p[j]}

Sorted(s) == {[i \in DOMAIN s |-> s[p[i]]] : p \in StableOrders(s)}

(* segments.windows(2): only neighbours are compared.                      *)
NeighboursOverlap(s) == \E i \in 1 .. (Len(s) - 1) : RangesOverlap(s[i], s[i + 1])

(* The end of the table: LiME at the end of the data, the others when the  *)
(* header's count of entries is used up, RDMP also at a zero page.  Raw    *)
(* and bitmap artifacts are neither sorted nor compared.                   *)
FinishTable ==
    /\ phase = "loading"
    /\ format = "lime" => payload >= fileLength
    /\ format = "raw" => table # <<>>
    /\ \E ordered \in IF format \in {"raw", "bitmap"} THEN {segments} ELSE Sorted(segments) :
           IF TableComplete /\ ~(format \notin {"raw", "bitmap"} /\ NeighboursOverlap(ordered))
           THEN /\ phase' = "loaded"
                /\ segments' = ordered
                /\ UNCHANGED <<format, fileLength, declared, table, payload, total, readVars>>
           ELSE Reject

(***************************************************************************)
(* Reading.  The first loop of read_into only measures how far the         *)
(* segments reach without a gap; the second copies.                        *)
(***************************************************************************)
RequestEnd == request.address + request.length

Return(outcome) ==
    /\ phase' = "loaded"
    /\ result' = outcome
    /\ UNCHANGED <<loadVars, request, at, reach, output>>

BeginRead(address, length) ==
    /\ phase = "loaded"
    /\ request' = [address |-> address, length |-> length]
    /\ output' = [i \in 1 .. length |-> Untouched]
    /\ at' = 1
    /\ reach' = address
    /\ \/ /\ length = 0
          /\ phase' = "loaded" /\ result' = "ok"
       \/ /\ length > 0 /\ address + length > Limit
          /\ phase' = "loaded" /\ result' = "failed"
       \/ /\ length > 0 /\ address + length <= Limit
          /\ phase' = "covering" /\ result' = "none"
    /\ UNCHANGED loadVars

(* The loops break at the end of the table, when the request is satisfied  *)
(* and at the first segment beyond a gap.                                  *)
LoopOver ==
    ~(at <= Len(segments) /\ reach # RequestEnd /\ reach >= segments[at].start)

Smaller(a, b) == IF a < b THEN a ELSE b

(* Mutant: no measuring loop, copying begins at once.                      *)
CoverTrusting ==
    /\ phase = "covering"
    /\ phase' = "copying" /\ at' = 1 /\ reach' = request.address
    /\ UNCHANGED <<loadVars, request, output, result>>

Cover ==
    /\ phase = "covering"
    /\ \/ /\ ~LoopOver
          /\ reach' = IF reach < End(segments[at])
                      THEN Smaller(End(segments[at]), RequestEnd) ELSE reach
          /\ at' = at + 1
          /\ UNCHANGED <<loadVars, phase, request, output, result>>
       \/ /\ LoopOver /\ reach # RequestEnd
          /\ Return("failed")
       \/ /\ LoopOver /\ reach = RequestEnd
          /\ phase' = "copying" /\ at' = 1 /\ reach' = request.address
          /\ UNCHANGED <<loadVars, request, output, result>>

(* The source index of the byte of segment s at address a.                 *)
Offset(s, a) == a - s.start + 1

Copy ==
    /\ phase = "copying"
    /\ \/ /\ ~LoopOver
          /\ LET s == segments[at]
                 stop == Smaller(End(s), RequestEnd)
             IN  /\ output' = [i \in DOMAIN output |->
                                  LET a == request.address + i - 1
                                  IN  IF reach <= a /\ a < stop
                                      THEN s.bytes[Offset(s, a)] ELSE output[i]]
                 /\ reach' = IF reach < stop THEN stop ELSE reach
          /\ at' = at + 1
          /\ UNCHANGED <<loadVars, phase, request, result>>
       \/ /\ LoopOver
          /\ Return(IF reach = RequestEnd THEN "ok" ELSE "failed")

Lengths == 0 .. MaxLength
Positions == 0 .. MaxFile

BundleNext ==
    \/ Reject
    \/ \E start \in Address, offset \in ElfOffsets, stored, length \in Lengths :
           ElfEntry(start, offset, stored, length)
    \/ \E start, last \in Address : LimeEntry(start, last)
    \/ \E page \in Address, pages \in Lengths : KdmpEntry(page, pages)
    \/ \E page \in Address, pages \in Lengths : RdmpEntry(page, pages)
    \/ \E page \in Address : BitmapPage(page)
    \/ \E start \in Address, offset \in Positions, length \in Lengths :
           ManifestEntry(start, offset, length)
    \/ \E base \in Address : LoadRaw(base)
    \/ FinishTable
    \/ \E address \in Address, length \in Lengths : BeginRead(address, length)
    \/ Cover
    \/ Copy

BundleSpec == BundleInit /\ [][BundleNext]_bundleVars

-----------------------------------------------------------------------------
(* Every variable keeps its type; in particular the loaders never build an *)
(* empty range out of a table whose format has none (SnapshotSegment::new  *)
(* takes the length from the bytes).                                       *)
BundleTypeOK ==
    /\ format \in Formats /\ fileLength \in Positions /\ declared \in Positions
    /\ phase \in {"loading", "loaded", "rejected", "covering", "copying"}
    /\ payload \in Positions /\ total \in 0 .. (MaxMemory + MaxFile)
    /\ \A i \in DOMAIN segments :
           /\ segments[i].start \in Address
           /\ format \in {"lime", "kdmp", "bitmap", "rdmp", "manifest"} =>
                  segments[i].bytes # <<>>
           /\ \A k \in DOMAIN segments[i].bytes :
                  segments[i].bytes[k] \in (0 .. (fileLength - 1)) \cup {Zero}
    /\ result \in {"none", "ok", "failed"}

Loaded == phase \in {"loaded", "covering", "copying"}

(* In a bundle that a parser returned, no guest-physical address lies in   *)
(* two segments, although the parsers compare only neighbours of the       *)
(* sorted table.  Only an empty segment, which only ELF has, can hide the  *)
(* overlap of the segments before and after it.                            *)
SegmentsDisjoint ==
    Loaded => \A i, j \in DOMAIN segments :
                  /\ i < j
                  /\ \E a \in Address : Covers(segments[i], a) /\ Covers(segments[j], a)
                  => format = "elf" /\ \E k \in (i + 1) .. (j - 1) : segments[k].bytes = <<>>

(* The payload of the k-th entry follows that of the entry before it, for  *)
(* LiME after a header.                                                    *)
PayloadInPlace(k) ==
    table[k].from = (IF format = "lime" THEN 1 ELSE 0)
                    + (IF k = 1 THEN 0 ELSE table[k - 1].from + table[k - 1].length)

(* The addresses that segments cover, each with the segment's position.    *)
CoveredCells(s) ==
    {c \in (DOMAIN s) \X (0 .. (Limit + MaxFile)) : Covers(s[c[1]], c[2])}

(* A bundle that a parser returned is its table: one segment per entry, in *)
(* the order of their addresses, each still with the payload of its own    *)
(* entry at the place the format's layout gives it, and in a crash dump as *)
(* many pages as the header declares.                                      *)
SegmentsAreTable ==
    Loaded =>
        /\ \A k \in DOMAIN table :
               /\ \E i \in DOMAIN segments : segments[i] = Segment(table[k])
               /\ format \in {"lime", "kdmp", "bitmap", "rdmp"} => PayloadInPlace(k)
        /\ Len(segments) = Len(table)
        /\ \A i, j \in DOMAIN segments :
               i < j => segments[i].start <= segments[j].start
        /\ format \in {"kdmp", "bitmap"} =>
               Cardinality(CoveredCells(segments)) = declared * PageSize

(* The bundle that a parser returned is its table, and unambiguous.        *)
SegmentsExact == SegmentsDisjoint /\ SegmentsAreTable

Requested == {request.address + i - 1 : i \in 1 .. request.length}

(* A read succeeds exactly when every requested address is in a segment,   *)
(* also across the boundary of two, and each byte it returns is then the   *)
(* byte of a segment that holds its address.  A read that fails has        *)
(* written nothing into the caller's buffer.                               *)
ReadExact ==
    phase = "loaded" /\ result # "none" =>
        /\ result = "ok" <=>
               \A a \in Requested : a < Limit /\ \E i \in DOMAIN segments : Covers(segments[i], a)
        /\ result = "failed" => \A k \in DOMAIN output : output[k] = Untouched
        /\ result = "ok" =>
               \A k \in DOMAIN output :
                   LET a == request.address + k - 1
                   IN  \E i \in DOMAIN segments :
                           /\ Covers(segments[i], a)
                           /\ output[k] = segments[i].bytes[Offset(segments[i], a)]

=============================================================================
