CONSTANTS
  t1 = t1
  t2 = t2
  w1 = w1
  NoTask = NoTask
  NoWorker = NoWorker
  Tasks = {t1, t2}
  Workers = {w1}
  Priority <- Numbers
  Accepts <- OneShared
  Delays = {0, 1}
  LeaseTicks = 1
  MaxRetries = 1
  MemoryBackend = FALSE
  Autocommit = TRUE
  Control = {"pause", "stop"}
  MaxFaults = 1
SPECIFICATION FairSpec
PROPERTIES StopEndsMainThread
