SPECIFICATION Spec
CONSTANTS
  Kinds = {"xen", "qemu", "virtualbox", "libvirt", "snapshot", "dump", "fake"}
  Threads = {t1}
  Requests <- MCRequests
  Descriptors = {1, 2, 3, 4}
VIEW MCView
INVARIANTS ServesWhatItAdvertises RejectedUntouched
PROPERTY AdvertisedStays
