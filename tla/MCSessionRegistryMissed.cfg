\* heartbeatMs strictly less than ttlMs, immediate answers, exact clocks, and
\* one missed renewal.
CONSTANTS
  w1 = w1
  w2 = w2
  s1 = s1
  c1 = c1
  None = None
  Workers = {w1, w2}
  Streams = {s1}
  Callers = {c1}
  MaxSessions = 1
  TTL = 3
  HeartbeatMs = 2
  MaxSkew = 0
  MaxLag = 0
  MaxMissed = 1
  MaxTime = 6
  MaxTokens = 2
  MaxPending = 3
SPECIFICATION Spec
INVARIANTS
  SessionKeepsLock
CHECK_DEADLOCK FALSE
