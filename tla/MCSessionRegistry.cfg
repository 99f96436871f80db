\* Two workers and one stream; answers within one unit of time, and one missed
\* renewal in a row: 2 * (HeartbeatMs + MaxLag) + MaxLag < TTL.
CONSTANTS
  w1 = w1
  w2 = w2
  s1 = s1
  c1 = c1
  c2 = c2
  None = None
  Workers = {w1, w2}
  Streams = {s1}
  Callers = {c1, c2}
  MaxSessions = 1
  TTL = 6
  HeartbeatMs = 1
  MaxSkew = 0
  MaxLag = 1
  MaxMissed = 1
  MaxTime = 9
  MaxTokens = 2
  MaxPending = 3
SPECIFICATION Spec
INVARIANTS
  TypeOK
  OnlyOwnerPublishes
  SessionKeepsLock
SYMMETRY Symmetry
CHECK_DEADLOCK FALSE
