CONSTANTS
  p1 = p1
  p2 = p2
  c1 = c1
  c2 = c2
  c3 = c3
  l2 = l2
  l3 = l3
  off = off
  agent = agent
  Free = Free
  NoJob = NoJob
  NoLock = NoLock
  Pods = {p1, p2}
  Coroutines = {c1, c2, c3}
  PodOf <- MCPodOf
  Capacity = 1
  Jobs = {l2, l3}
  LockKeys = {agent}
  KeyOf <- MCKeyOf
  FollowUp <- MCFollowUp
  Resets = {l2}
  MaxRetries = 1
  MaxRequeue = 1
  FaultKinds = {"redis", "slow", "crash", "renew", "expire", "acquire", "stop"}
  MaxFaults = 1
CHECK_DEADLOCK FALSE
SPECIFICATION FairSpec
INVARIANTS TypeOK PermitsKept LockExclusion NoJobLost FollowUpsCome OneMessagePerJob
PROPERTIES JobsEnd
