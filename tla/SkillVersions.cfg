CONSTANTS
  c1 = c1
  c2 = c2
  c3 = c3
  f = f
  g = g
  Calls = {c1, c2, c3}
  Here = Here
  Paths = {f, g}
  Hidden = {g}
  MaxVersion = 3
  KeepRecent = 0
  Kinds = {"create", "write", "remove", "content", "delete"}
  FaultKinds = {"list", "copy", "put", "asset", "rmdir", "crash"}
  MaxFaults = 1
SYMMETRY CallSymmetry
CHECK_DEADLOCK FALSE
SPECIFICATION Spec
INVARIANTS TypeOK OneHead SerialReadable SerialNoOverwrite LedgerMatches NextDirFree
