CONSTANTS
  ChunkMaxBytes = 3
  HeadKeepBytes = 3
  TailKeepBytes = 4
  MaxMessages = 5
  MaxSize = 5
SPECIFICATION Spec
INVARIANTS CutIsLongest
CHECK_DEADLOCK FALSE
