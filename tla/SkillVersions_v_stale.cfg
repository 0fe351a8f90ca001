CONSTANTS
  c1 = c1
  c2 = c2
  c3 = c3
  f = f
  g = g
  Calls = {c1, c2, c3}
  Here = Here
  Paths = {f, g}
  Hidden = {g}
  MaxVersion = 3
  KeepRecent = 0
  Kinds = {"create", "content"}
  FaultKinds = {}
  MaxFaults = 0
SYMMETRY CallSymmetry
CHECK_DEADLOCK FALSE
SPECIFICATION Spec
INVARIANTS NoOverwrite
