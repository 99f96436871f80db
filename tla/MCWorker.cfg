CONSTANTS
  FilterWorkers = {w1, w2}
  FilterStreams = {s1}
  FilterConfigs = {c1, c2}
  Unset = Unset
  MaxFilterChanges = 2
  MaxFilterFaults = 1
  Ingests = {i1, i2}
  MaxStamp = 1
  MaxPending = 3
  BatchLimit = 2
  Recorders = {r1, r2, r3}
  Letters = {k1, k2}
  LocalStreams = {s1, s2}
  LocalTTL = 2
  MaxTokens = 3
  MaxNow = 5
SPECIFICATION Spec
INVARIANTS
  WorkerTypeOK
  PollCycleExact
  NothingRoutedAfterDrain
  DeadLettersKept
PROPERTIES
  FilterSetConverges
  ShutdownEnds
  LocalClaimKept
CHECK_DEADLOCK FALSE
