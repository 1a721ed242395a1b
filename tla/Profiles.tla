------------------------------ MODULE Profiles ------------------------------
(***************************************************************************)
(* crates/vmi-profile: the symbol and field-offset tables of a System.map, *)
(* a JSON profile or a PDB, loaded through FileLoads.  The text formats    *)
(* are read into memory and then parsed; a PDB is opened twice, once for   *)
(* its symbols and once for its types, and its field lists are linked by   *)
(* indices which may form a cycle.                                         *)
(*                                                                         *)
(* A unit of a text is a line (System.map) or an entry (JSON), a unit of a *)
(* PDB is a record, and a record's index is its position:                  *)
(*   <<"symbol", name, value>>    <<"offset", name, value>>                *)
(*   <<"class", class, list>>     <<"list", members, continuation>>        *)
(*   <<"skip">> (a comment, a record that is passed over), <<"bad">>       *)
(***************************************************************************)
EXTENDS FileLoads, FiniteSets

CONSTANTS
  SymbolNames,   \* symbol names, ordered like strings
  Values,        \* what a symbol or an offset may be; Junk is not a number
  FieldNames,    \* names of offsets and of members of classes
  Classes,       \* names of classes
  AddressTop,    \* the largest address
  Bases,         \* image bases of a PDB
  MaxEntries,    \* MAX_PROFILE_ENTRIES
  TextLimit,     \* MAX_TEXT_PROFILE_SIZE, well below Top
  PdbLimit,      \* MAX_PDB_SIZE
  TextLength,    \* bound: the length of a text when it is opened
  Members        \* bound: the member sequences of a field list

Junk == AddressTop + 1

ASSUME ProfileAssumption ==
  /\ SymbolNames \subseteq Nat /\ FieldNames \subseteq Nat
  /\ AddressTop \in Nat /\ Values \subseteq 0..AddressTop
  /\ Bases \subseteq 0..AddressTop
  /\ MaxEntries \in Nat \ {0}
  /\ TextLimit \in 1..(Top - 1) /\ PdbLimit \in Nat /\ TextLength \in Nat

VARIABLES
  base,      \* the image base a PDB is loaded for
  symbols,   \* SymbolTable
  offsets,   \* the offsets, a function on the names that have one
  class,     \* the position of the class whose fields are read, 0 before any
  list,      \* the field list to read next, 0 when there is none
  visited    \* the cycle detector: field lists read for this class

profileVars == <<base, symbols, offsets, class, list, visited>>
loadsVars == <<loadVars, profileVars>>

-----------------------------------------------------------------------------
(* SymbolTable.                                                            *)

EmptyTable == [by_name |-> <<>>, by_address |-> <<>>]
TableSize(t) == Cardinality(DOMAIN t.by_name)

SymbolsAt(t, a) == IF a \in DOMAIN t.by_address THEN t.by_address[a] ELSE <<>>

\* The caller has made sure that the name is new.
Insert(t, name, a) ==
  [by_name |-> (name :> a) @@ t.by_name,
   by_address |-> (a :> Append(SymbolsAt(t, a), name)) @@ t.by_address]

\* The symbol and the distance from it, or nothing.
NearestSymbol(t, a) ==
  LET below == {b \in DOMAIN t.by_address : b <= a}
  IN  IF below = {} THEN <<>> ELSE <<Head(t.by_address[Max(below)]), a - Max(below)>>

\* A parse under way: the table so far, and whether every entry was accepted.
Parsed(ok, table) == [ok |-> ok /\ TableSize(table) > 0, table |-> table]
EmptyParse == [ok |-> TRUE, table |-> EmptyTable]
Stopped(r) == [r EXCEPT !.ok = FALSE]

-----------------------------------------------------------------------------
(* The formats.                                                            *)

SystemMapLine(r, line) ==
  IF ~r.ok \/ line[1] = "skip" THEN r
  ELSE IF \/ TableSize(r.table) = MaxEntries
          \/ line[1] # "symbol"
          \/ line[3] = Junk
          \/ line[2] \in DOMAIN r.table.by_name
       THEN Stopped(r)
       ELSE [r EXCEPT !.table = Insert(@, line[2], line[3])]

FromSystemMap(lines) ==
  LET r == FoldLeft(SystemMapLine, EmptyParse, lines) IN Parsed(r.ok, r.table)

\* An object of the JSON text: of entries with one name the last one counts.
JsonObject(entries, tag) ==
  LET own == {i \in DOMAIN entries : entries[i][1] = tag}
      names == {entries[i][2] : i \in own}
  IN  [n \in names |-> entries[Max({i \in own : entries[i][2] = n})][3]]

\* The entries of an object come in the order of their names.
Ordered(object) == SetToSortSeq(DOMAIN object, LAMBDA m, n : m < n)

FromJson(entries) ==
  LET wanted == JsonObject(entries, "symbol")
      fields == JsonObject(entries, "offset")
      table == FoldLeft(LAMBDA t, n : Insert(t, n, wanted[n]), EmptyTable, Ordered(wanted))
      ok == /\ \A i \in DOMAIN entries : entries[i][1] # "bad"
            /\ Cardinality(DOMAIN wanted) <= MaxEntries
            /\ Cardinality(DOMAIN fields) <= MaxEntries
            /\ \A n \in DOMAIN wanted : wanted[n] # Junk
            /\ \A n \in DOMAIN fields : fields[n] # Junk
  IN  [result |-> Parsed(ok, table), offsets |-> fields]

\* A public symbol of a PDB.  The limit is compared before the name is looked
\* up, and the same symbol may come twice.
PdbSymbol(r, record) ==
  IF ~r.ok \/ record[1] # "symbol" THEN r
  ELSE LET name == record[2]
           a == base + record[3]
           known == r.table.by_name
       IN  IF TableSize(r.table) = MaxEntries \/ a > AddressTop THEN Stopped(r)
           ELSE IF name \in DOMAIN known
           THEN IF known[name] = a THEN r ELSE Stopped(r)
           ELSE [r EXCEPT !.table = Insert(@, name, a)]

FromPdb(records) ==
  LET r == FoldLeft(PdbSymbol, EmptyParse, records) IN Parsed(r.ok, r.table)

\* Mutant: the limit is compared before the known offset.
InsertOffsetLimitFirst(r, key, value) ==
  IF ~r.ok \/ Cardinality(DOMAIN r.table) = MaxEntries THEN Stopped(r)
  ELSE IF key \in DOMAIN r.table THEN [r EXCEPT !.ok = r.table[key] = value]
  ELSE [r EXCEPT !.table = (key :> value) @@ @]

\* insert_profile_offset looks the key up first, and then compares the limit.
InsertOffset(r, key, value) ==
  IF ~r.ok THEN r
  ELSE IF key \in DOMAIN r.table THEN [r EXCEPT !.ok = r.table[key] = value]
  ELSE IF Cardinality(DOMAIN r.table) = MaxEntries THEN Stopped(r)
  ELSE [r EXCEPT !.table = (key :> value) @@ @]

-----------------------------------------------------------------------------
(* Actions.                                                                *)

Finish(outcome, table, fields) ==
  /\ stage' = outcome
  /\ symbols' = table
  /\ offsets' = fields
  /\ UNCHANGED <<load, maximum, file, edits, grown, stream, encoded, data, base, class, list, visited>>

\* from_system_map and from_json work on the text that was loaded.
ParseSystemMap ==
  /\ stage = "loaded" /\ load = "system_map"
  /\ LET r == FromSystemMap(data)
     IN  IF r.ok THEN Finish("parsed", r.table, offsets) ELSE Finish("malformed", symbols, offsets)

ParseJson ==
  /\ stage = "loaded" /\ load = "json"
  /\ LET r == FromJson(data)
     IN  IF r.result.ok THEN Finish("parsed", r.result.table, r.offsets)
         ELSE Finish("malformed", symbols, offsets)

\* open_pdb_file compares the size of the file only here.
OpenPdb ==
  /\ stage = "open" /\ load = "pdb"
  /\ IF Len(file) > maximum THEN Finish("refused", symbols, offsets)
     ELSE Finish("read", symbols, offsets)

ReadPdbSymbols ==
  /\ stage = "read" /\ load = "pdb"
  /\ LET r == FromPdb(file)
     IN  IF r.ok THEN Finish("reopen", r.table, offsets) ELSE Finish("malformed", symbols, offsets)

\* Profile::from_pdb_file opens the path again, and reads the types to memory.
ReopenPdb ==
  /\ stage = "reopen"
  /\ IF Len(file) > maximum THEN Finish("refused", symbols, offsets)
     ELSE Finish("stream", symbols, offsets)

ReadPdbTypes ==
  /\ stage = "stream"
  /\ stage' = "types"
  /\ data' = file
  /\ UNCHANGED <<load, maximum, file, edits, grown, stream, encoded, profileVars>>

\* The next class; the loop ends after the last record.
NextClass ==
  /\ stage = "types" /\ list = 0
  /\ LET later == {i \in DOMAIN data : i > class /\ data[i][1] = "class"}
     IN  IF later = {} THEN Finish("parsed", symbols, offsets)
         ELSE /\ class' = Min(later)
              /\ list' = data[Min(later)][3]
              /\ visited' = {}
              /\ UNCHANGED <<loadVars, base, symbols, offsets>>

\* Mutant: the cycle detector remembers only the list before.
VisitingLast == {list}

Visiting == visited \union {list}

\* One field list of the class: its members, and where it continues.
ReadFieldList ==
  /\ stage = "types" /\ list # 0
  /\ IF list \in visited \/ list \notin DOMAIN data
     THEN Finish("malformed", symbols, offsets)
     ELSE IF data[list][1] # "list" THEN Finish("malformed", symbols, offsets)
     ELSE LET r == FoldLeft(LAMBDA s, m : InsertOffset(s, <<data[class][2], m[1]>>, m[2]),
                            [ok |-> TRUE, table |-> offsets], data[list][2])
          IN  IF ~r.ok THEN Finish("malformed", symbols, offsets)
              ELSE /\ offsets' = r.table
                   /\ list' = data[list][3]
                   /\ visited' = Visiting
                   /\ UNCHANGED <<loadVars, base, symbols, class>>

-----------------------------------------------------------------------------
(* The specification.                                                      *)

SymbolUnits == {<<"symbol", n, v>> : n \in SymbolNames, v \in Values}
MapUnits == SymbolUnits \union {<<"skip">>, <<"bad">>, <<"symbol", Min(SymbolNames), Junk>>}
JsonUnits ==
  SymbolUnits \union {<<"offset", f, v>> : f \in FieldNames, v \in Values}
  \union {<<"bad">>, <<"symbol", Min(SymbolNames), Junk>>, <<"offset", Min(FieldNames), Junk>>}
RecordUnits ==
  {<<"class", c, p>> : c \in Classes, p \in 2..PdbLimit}
  \union {<<"list", m, p>> : m \in Members, p \in {0} \union (3..PdbLimit)}

\* The PDBs considered: with symbols only, or with one and with types.
PdbFiles ==
  UpTo(SymbolUnits \union {<<"skip">>}, TextLength)
  \union {<<<<"symbol", Min(SymbolNames), Min(Values)>>>> \o t : t \in UpTo(RecordUnits, PdbLimit - 1)}

ArtifactUnits == {ZipUnit, PageUnit}
Streams == UpTo(ArtifactUnits, TextLength)

InitProfile ==
  /\ symbols = EmptyTable /\ offsets = <<>>
  /\ class = 0 /\ list = 0 /\ visited = {}

LoadsInit ==
  /\ \/ \E kind \in {"limited", "kdmp"} : InitLoad(kind, 0..Top, Streams)
     \/ InitLoad("prefix", 1..(Top - 1), Streams)
     \/ InitLoad("system_map", {TextLimit}, UpTo(MapUnits, TextLength))
     \/ InitLoad("json", {TextLimit}, UpTo(JsonUnits, TextLength))
     \/ InitLoad("pdb", {PdbLimit}, PdbFiles)
  /\ base \in IF load = "pdb" THEN Bases ELSE {0}
  /\ InitProfile

IsArtifact == load \in {"limited", "kdmp", "prefix"}

\* What others write; a JSON text is read by the loop that reads a System.map.
Foreign == IF IsArtifact THEN ArtifactUnits ELSE {<<"skip">>}
Editable == load # "json"

LoadSteps == LoadStep(Streams) /\ UNCHANGED profileVars
PdbStep == OpenPdb \/ ReadPdbSymbols \/ ReopenPdb \/ ReadPdbTypes \/ NextClass \/ ReadFieldList
ParseStep == ParseSystemMap \/ ParseJson \/ PdbStep

LoadsNext ==
  \/ LoadSteps
  \/ ParseStep
  \/ LoadFails /\ UNCHANGED profileVars
  \/ Editable /\ EditStep(Foreign) /\ UNCHANGED profileVars

LoadsSpec == LoadsInit /\ [][LoadsNext]_loadsVars

\* The code is one thread that runs on, whatever others do to the file.
FairLoads == LoadsSpec /\ WF_loadsVars(LoadSteps \/ ParseStep)

-----------------------------------------------------------------------------
(* Properties.                                                             *)

\* What the file says, put down without the order of the code: its entries,
\* the tables they define, and whether they are well formed.
EntriesOf(lines, tag) == SelectSeq(lines, LAMBDA line : line[1] = tag)
Maps(pairs) == [n \in {p[1] : p \in pairs} |-> (CHOOSE p \in pairs : p[1] = n)[2]]
IsFunction(pairs) == \A p, q \in pairs : p[1] = q[1] => p[2] = q[2]

\* The lists a class of the PDB is made of, and the members in them.
ListsFrom(first) ==
  LET reach[n \in Nat] == IF n = 0 THEN {first}
        ELSE reach[n - 1] \union {file[p][3] : p \in {q \in reach[n - 1] :
               q \in DOMAIN file /\ file[q][1] = "list"}}
  IN  reach[Len(file)] \ {0}
MembersFrom(p) ==
  {<<<<file[p][2], m[1]>>, m[2]>> : m \in UNION {Range(file[q][2]) : q \in ListsFrom(file[p][3])}}
ClassesOf == {p \in DOMAIN file : file[p][1] = "class"}
ListsEnd(p) ==
  /\ \A q \in ListsFrom(file[p][3]) : q \in DOMAIN file /\ file[q][1] = "list"
  /\ \E q \in ListsFrom(file[p][3]) : file[q][3] = 0

WellFormed ==
  CASE load = "system_map" ->
         LET s == EntriesOf(data, "symbol")
         IN  /\ \A i \in DOMAIN data : data[i][1] \in {"skip", "symbol"}
             /\ \A i, j \in DOMAIN s : s[i][2] = s[j][2] => i = j
             /\ \A i \in DOMAIN s : s[i][3] # Junk
             /\ Len(s) \in 1..MaxEntries
    [] load = "json" ->
         LET last(i) == ~\E j \in (i + 1)..Len(data) :
                           data[i][1] = data[j][1] /\ data[i][2] = data[j][2]
             count(tag) == Cardinality({i \in DOMAIN data : data[i][1] = tag /\ last(i)})
         IN  /\ \A i \in DOMAIN data : data[i][1] # "bad"
             /\ \A i \in DOMAIN data : last(i) => data[i][3] # Junk
             /\ count("symbol") \in 1..MaxEntries /\ count("offset") \in 0..MaxEntries
    [] OTHER ->
         LET s == EntriesOf(file, "symbol")
             all == UNION {MembersFrom(p) : p \in ClassesOf}
         IN  /\ IsFunction({<<s[i][2], s[i][3]>> : i \in DOMAIN s})
             /\ Cardinality({s[i][2] : i \in DOMAIN s}) \in 1..MaxEntries
             /\ \A i \in DOMAIN s : base + s[i][3] <= AddressTop
             /\ \A p \in ClassesOf : ListsEnd(p)
             /\ IsFunction(all) /\ Cardinality(all) <= MaxEntries

\* A symbol of a PDB that comes again when the table is already full.
RepeatedWhenFull ==
  LET s == EntriesOf(file, "symbol")
      before(i) == {s[j][2] : j \in 1..(i - 1)}
  IN  /\ load = "pdb"
      /\ \E i \in DOMAIN s : s[i][2] \in before(i) /\ Cardinality(before(i)) = MaxEntries

\* A profile is accepted exactly when its file is well formed, whatever the order
\* of its entries; its tables are those the file defines, the two indices of the
\* symbols agree, and the nearest symbol is the first one at the greatest address
\* that is not above.  There are two exceptions.  A PDB is refused for a symbol
\* that repeats an earlier one after the table has become full, because from_pdb
\* compares the limit before it looks the name up: a, a, b is accepted and a, b, a
\* is not.  And a PDB that others change between its two openings may end with
\* the symbols and the offsets of different files.
ProfileExact ==
  LET undisturbed == load # "pdb" \/ edits = 0
      source == IF load = "pdb" THEN file ELSE data
      s == EntriesOf(source, "symbol")
      valueOf(n) == s[Max({i \in DOMAIN s : s[i][2] = n})][3] + base
      names == {s[i][2] : i \in DOMAIN s}
      at(a) == {n \in names : valueOf(n) = a}
      earlier(m, n) ==
        IF load = "json" THEN m <= n
        ELSE Min({i \in DOMAIN s : s[i][2] = m}) <= Min({i \in DOMAIN s : s[i][2] = n})
  IN  /\ stage = "malformed" /\ undisturbed => ~WellFormed \/ RepeatedWhenFull
      /\ stage = "parsed" /\ undisturbed =>
           /\ WellFormed /\ ~RepeatedWhenFull
           /\ symbols.by_name = [n \in names |-> valueOf(n)]
           /\ offsets = CASE load = "system_map" -> <<>>
                          [] load = "json" -> JsonObject(data, "offset")
                          [] OTHER -> Maps(UNION {MembersFrom(p) : p \in ClassesOf})
           /\ \A a \in 0..AddressTop :
                LET found == NearestSymbol(symbols, a)
                    below == {valueOf(n) : n \in names} \intersect (0..a)
                IN  /\ Range(SymbolsAt(symbols, a)) = at(a)
                    /\ Len(SymbolsAt(symbols, a)) = Cardinality(at(a))
                    /\ IF below = {} THEN found = <<>>
                       ELSE /\ found[2] = a - Max(below)
                            /\ found[1] \in at(Max(below))
                            /\ \A m \in at(Max(below)) : earlier(found[1], m)

\* Every load ends, also of a file that others change, of a stream that does not
\* stop within the limit and of field lists that form a cycle.
LoadEnds ==
  <>(\/ stage \in {"refused", "unreadable", "parsed", "malformed"}
     \/ stage = "loaded" /\ IsArtifact)

=============================================================================
