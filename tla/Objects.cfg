SPECIFICATION MCSpec
CONSTANTS
  Threads = {t1, t2, t3}
  None = None
  LastToken = 3
  MaxOpens = 4
  Ids = 5
  Absent = Absent
  Vcpus = {v1, v2}
  Registers = {r1}
  Values = {x1, x2}
  Wide = Wide
  MaxCommands = 4
SYMMETRY MCSymmetry
CHECK_DEADLOCK FALSE
INVARIANTS
  ReadsOwnArtifact
  ClosedForGood
  ReferencesExact
  ActiveExists
  ExhaustedMeansFull
  AnswerOfAccessInSync
  WriteVerified
