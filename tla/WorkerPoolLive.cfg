CONSTANTS
  t1 = t1
  t2 = t2
  w1 = w1
  NoTask = NoTask
  NoWorker = NoWorker
  Tasks = {t1, t2}
  Workers = {w1, w2}
  Priority <- Numbers
  Accepts <- OneShared
  Delays = {0, 1}
  LeaseTicks = 1
  MaxRetries = 0
  MemoryBackend = FALSE
  Autocommit = FALSE
  Control = {}
  MaxFaults = 1
SPECIFICATION FairSpec
PROPERTIES EveryTaskEnds
