SPECIFICATION FairLoads
CHECK_DEADLOCK FALSE
CONSTANTS
  ChunkSize = 2
  Top = 4
  MaxLength = 5
  MaxEdits = 1
  SymbolNames = {1, 2, 3}
  Values = {1, 2}
  FieldNames = {1, 2, 3}
  Classes = {1, 2}
  AddressTop = 3
  Bases = {1, 2}
  MaxEntries = 2
  TextLimit = 3
  PdbLimit = 4
  TextLength = 3
  Members <- MCMembers
INVARIANTS LoadBounded LoadExact ProfileExact
PROPERTIES LoadEnds
