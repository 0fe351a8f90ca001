CONSTANTS
  s1 = s1
  s2 = s2
  p1 = p1
  p2 = p2
  NoKey = NoKey
  NoState = NoState
  Sessions = {s1}
  Profiles = {p1}
  ProfileOf <- MCProfileOf
  BatchProcess = 2
  EveryN = 2
  MaxRetries = 1
  StoreAwaits = FALSE
  RowsPerCapture = {1,2}
  MaxCaptures = 2
  FaultKinds = {"query", "l1", "l2", "soft", "crash"}
  MaxFaults = 1
SPECIFICATION FairSpec
INVARIANTS TypeOK NothingSkipped RowsHaveWakeUp RecordsHaveWakeUp PersonaCurrent
CHECK_DEADLOCK FALSE
PROPERTIES RecordsReachScenes
