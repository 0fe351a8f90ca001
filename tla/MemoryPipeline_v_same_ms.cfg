CONSTANTS
  s1 = s1
  s2 = s2
  p1 = p1
  p2 = p2
  NoKey = NoKey
  NoState = NoState
  Sessions = {s1}
  Profiles = {p1}
  ProfileOf <- MCProfileOf
  BatchProcess = 2
  EveryN = 2
  MaxRetries = 1
  StoreAwaits = TRUE
  RowsPerCapture = {1,2}
  MaxCaptures = 2
  FaultKinds = {}
  MaxFaults = 0
SPECIFICATION Spec
INVARIANTS NothingSkipped
CHECK_DEADLOCK FALSE
