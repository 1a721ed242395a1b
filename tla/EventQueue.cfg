SPECIFICATION FairSpec
CONSTANTS
  Consumers = {c1, c2}
  Capacity = 2
  MaxEvents = 2
  NoEvent = NoEvent
INVARIANTS
  NoLostWakeup
  QueueInOrder
PROPERTIES
  ImplementsChannel
  BoundedCallReturns
  CloseEndsCalls
