CONSTANTS
  Messages <- MCMessages
  Batch <- MCBatch
  RawBytes <- MCRawBytes
  CompressedBytes <- MCCompressedBytes
  ToolCalls <- MCToolCalls
  Placeholder = omission
  NoCall = none
  Rounds = {1,2,3,4}
  Flushes = {5}
  Streamed = {1,3}
  PanelFlushes = {6}
  ToolCallThreshold = 3
  BytesThreshold = 6
  RequestCompressThresholdBytes = 6
  ChunkMaxBytes = 8
  HeadKeepBytes = 3
  TailKeepBytes = 3
  BoundaryProfile = "sop_v1"
  MinToolCalls = 1
  FaultKinds = {"timeout","archive","read"}
  MaxFaults = 1
SPECIFICATION SerialSpec
INVARIANTS TypeOK CountersMatch BufferBounded
PROPERTIES ImplementsLog
CHECK_DEADLOCK FALSE
