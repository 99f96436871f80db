CONSTANTS
  MaxQueueDepth = 2
  MaxPublishRetries = 1
  MaxEvents = 4
SPECIFICATION Spec
INVARIANTS
  DeadLetterDurable
CHECK_DEADLOCK FALSE
