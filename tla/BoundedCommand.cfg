SPECIFICATION FairSpec
CONSTANTS
  Providers = {"xen", "virtualbox", "libvirt"}
  Capacity = 2
  MaxOutput = 2
CHECK_DEADLOCK FALSE
INVARIANTS
  OutputExact
  ChildReaped
PROPERTIES
  CallEnds
