CONSTANTS
  MaxQueueDepth = 2
  MaxPublishRetries = 1
  MaxEvents = 4
SPECIFICATION Spec
INVARIANTS
  TypeOK
  AcceptedInOrder
  StopDrains
  PublishedOrDead
PROPERTIES
  StopResolves
  EventsFinish
CHECK_DEADLOCK FALSE
