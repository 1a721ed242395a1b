SPECIFICATION FairSpec
CONSTANTS
  Vcpus = {v1, v2}
  None = None
  LastId = 4
  Capacity = 1
  MaxEvents = 2
  SocketSize = 2
INVARIANTS
  AnswersOwnRequest
  RegistersOfVcpu
  EventsAccounted
PROPERTIES
  CommandReturns
