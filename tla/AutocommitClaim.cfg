CONSTANTS
  t1 = t1
  t2 = t2
  w1 = w1
  NoTask = NoTask
  NoWorker = NoWorker
  Tasks = {t1}
  Workers = {w1, w2}
  Priority <- Numbers
  Accepts <- OneQueue
  Delays = {0}
  LeaseTicks = 2
  MaxRetries = 1
  MemoryBackend = FALSE
  Autocommit = TRUE
  Control = {}
  MaxFaults = 0
SPECIFICATION Spec
PROPERTY ClaimNeverSteals
