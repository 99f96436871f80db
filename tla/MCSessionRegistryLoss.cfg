\* One worker: a claim is lost by running out, and every way to find out is open.
CONSTANTS
  w1 = w1
  s1 = s1
  c1 = c1
  None = None
  Workers = {w1}
  Streams = {s1}
  Callers = {c1}
  MaxSessions = 1
  TTL = 2
  HeartbeatMs = 1
  MaxSkew = 0
  MaxLag = 2
  MaxMissed = 1
  MaxTime = 6
  MaxTokens = 3
  MaxPending = 2
SPECIFICATION Spec
PROPERTIES
  LossDetected
CHECK_DEADLOCK FALSE
