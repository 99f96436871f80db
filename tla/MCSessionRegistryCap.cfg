\* One worker with room for one session, and two concurrent route() calls for
\* events of different streams.
CONSTANTS
  w1 = w1
  s1 = s1
  s2 = s2
  c1 = c1
  c2 = c2
  None = None
  Workers = {w1}
  Streams = {s1, s2}
  Callers = {c1, c2}
  MaxSessions = 1
  TTL = 3
  HeartbeatMs = 1
  MaxSkew = 0
  MaxLag = 1
  MaxMissed = 0
  MaxTime = 2
  MaxTokens = 2
  MaxPending = 3
SPECIFICATION Spec
INVARIANTS
  HardCap
CHECK_DEADLOCK FALSE
