CONSTANTS
  Subs = {s1}
  Events = {started}
  Dispatches = {r1}
  Sweeps = {w1, w2}
  MaxRetries = 1
  BatchSize = 2
  MaxDeliveries = 1
  MaxChanges = 2
  MaxFaults = 1
SPECIFICATION FairSpec
INVARIANTS
  TypeOK
  FailedMeansExhausted
  SuccessIsReal
  AttemptsAreCounted
  AnswersAreRecorded
  PendingIsScheduled
PROPERTIES
  DeliverySettles
CHECK_DEADLOCK FALSE
