CONSTANTS
  Subs = {s1, s2}
  Events = {started}
  Dispatches = {r1}
  Sweeps = {w1}
  MaxRetries = 1
  BatchSize = 1
  MaxDeliveries = 2
  MaxChanges = 1
  MaxFaults = 0
SPECIFICATION FairSpec
PROPERTIES
  DeliverySettles
CHECK_DEADLOCK FALSE
