CONSTANTS
  a1 = a1
  a2 = a2
  old = old
  t1 = t1
  t2 = t2
  w1 = w1
  w2 = w2
  p1 = p1
  p2 = p2
  Free = Free
  Orphan = Orphan
  NoTask = NoTask
  NoAgent = NoAgent
  Agents = {a1}
  Legacy = {}
  Tasks = {t1}
  Workers = {w1, w2}
  Pods = {p1}
  AgentOf <- OneAgent
  PodOf <- OnOnePod
  PermanentMaxRetries = 2
  ProbedStrategy = "rpop_lpush_downgrade"
  FaultKinds = {}
  MaxFaults = 0
CHECK_DEADLOCK FALSE
SPECIFICATION FairSpec
PROPERTIES AcceptedTaskIsTaken
