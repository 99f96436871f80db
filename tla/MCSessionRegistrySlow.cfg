\* Answers may take longer than the TTL, so claims are lost while sessions run.
CONSTANTS
  w1 = w1
  w2 = w2
  s1 = s1
  c1 = c1
  None = None
  Workers = {w1, w2}
  Streams = {s1}
  Callers = {c1}
  MaxSessions = 1
  TTL = 2
  HeartbeatMs = 1
  MaxSkew = 0
  MaxLag = 2
  MaxMissed = 1
  MaxTime = 4
  MaxTokens = 2
  MaxPending = 2
SPECIFICATION Spec
INVARIANTS
  HeartbeatNeverStops
PROPERTIES
  LockProtocol
SYMMETRY Symmetry
CHECK_DEADLOCK FALSE
