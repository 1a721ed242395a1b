SPECIFICATION Spec
CONSTANTS
  Sessions = {s1, s2}
  Providers = {"xen"}
  Stranger = Stranger
  None = None
  LastSequence = 2
  MaxLate = 2
SYMMETRY MCSymmetry
INVARIANTS
  NoTemporaryLeft
