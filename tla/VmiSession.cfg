SPECIFICATION Spec
CONSTANTS
  Threads = {t1, t2}
  p1 = p1
  p2 = p2
  amd64 = amd64
  aarch64 = aarch64
  cr3 = cr3
  Tags = {amd64, aarch64}
  Roots = {cr3}
  Levels = 2
  Pages <- MCPages
  Locs <- MCLocs
  Words <- MCWords
  Frames <- MCLocs
  Path <- MCPath
  Decode <- MCDecode
  Requests <- MCRequests
  InitialMemory <- MCInitialMemory
  Fault = Fault
  Absent = Absent
  Capacity = 2
  MaxWrites = 1
SYMMETRY MCSymmetry
INVARIANTS
  CacheConsistent
  TranslationsBelongToKey
  FreshUnlessRaced
