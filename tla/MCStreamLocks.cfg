CONSTANTS
  w1 = w1
  w2 = w2
  s1 = s1
  None = None
  Workers = {w1, w2}
  Streams = {s1}
  TTL = 2
  MaxSkew = 1
  MaxTime = 4
  MaxTokens = 2
  MaxPending = 2
SPECIFICATION Spec
INVARIANTS
  TypeOK
  LeaseBounded
  LostStaysLost
PROPERTIES
  LiveClaimKept
  Ownership
SYMMETRY Symmetry
CHECK_DEADLOCK FALSE
