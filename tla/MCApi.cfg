CONSTANTS
  ApiUsers = {u1, u2}
  ApiStreams = {s1}
  Patches = {p1, p2}
  Sockets = {k1}
  NoOne = NoOne
  MaxPatches = 2
  MaxDbFailures = 1
  Requests = {q1, q2}
  ResetTokens = {t1}
  MaxResetAttempts = 1
  MaxMints = 2
  MaxChanges = 2
  MaxCacheLosses = 1
  Notices = {n1, n2, n3}
  Sweepers = {w1, w2}
  SweepBatch = 2
  MaxSweepFailures = 1
  Calls = {c1, c2}
  MaxAttempts = 2
  MaxIssued = 3
  PageItems = {1, 2, 3, 4, 5}
  PageLimit = 2
  MaxPages = 2
  MaxFailures = 1
  Tags = {g1, g2}
  Edits = {e1, e2}
  Absent = Absent
  MaxEdits = 2
  MaxTagFaults = 2
  ToastIds = {1, 2}
  ToastLimit = 1
SPECIFICATION Spec
INVARIANTS
  ApiTypeOK
  RoomsAdmitted
  OldTokensRefused
  RequestsBounded
  EachItemOnce
  SettledTagsAreServed
PROPERTIES
  StatusChangesLegal
  ExpiredGoes
  DismissedGoes
CHECK_DEADLOCK FALSE
