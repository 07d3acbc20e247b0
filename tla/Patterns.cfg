CONSTANTS
  t1 = t1
  n1 = n1
  n2 = n2
  Threads = {t1, t2}
  Nodes = {n1, n2}
  NodeOf <- Apart
  FailureThreshold = 2
  SuccessThreshold = 2
  HalfOpenMaxCalls = 1
  RecoveryTicks = 1
  Manual = {"open", "close"}
  MaxVersion = 4
  MaxFaults = 1
  Items = {i1, i2, i3}
  Consumers = {k1, k2}
  BufferSize = 2
  MaxStarts = 1
  AgentThreads = {a1, a2, a3}
  Slots = 1
  QueueLimit = 1
  AgentThreshold = 2
  ProbeLimit = 1
  ProbeSuccesses = 2
  CooldownTicks = 1
  MaxErrors = 2
  e1 = e1
  e2 = e2
  e3 = e3
  Episodes = {e1, e2, e3}
  Deterministic = {e3}
  OriginOf <- Keys
  Quota = 2
  Troubles = {"insert", "approve", "callback"}
SPECIFICATION MCSpec
INVARIANTS TypesOK NeverAhead   SlotsAccounted 
 
CHECK_DEADLOCK FALSE
