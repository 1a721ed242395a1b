SPECIFICATION Spec
CONSTANTS
  Sessions = {s1, s2, s3}
  Providers = {"xen", "virtualbox", "libvirt", "qemu", "fake"}
  Stranger = Stranger
  None = None
  LastSequence = 2
  MaxLate = 2
SYMMETRY MCSymmetry
INVARIANTS
  DestinationComplete
  SuccessIsPublished
  TemporariesExact
PROPERTIES
  NoClobber
