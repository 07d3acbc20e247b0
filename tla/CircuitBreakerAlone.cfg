CONSTANTS
  t1 = t1
  n1 = n1
  n2 = n2
  Threads = {t1}
  Nodes = {n1}
  NodeOf <- Together
  FailureThreshold = 2
  SuccessThreshold = 1
  HalfOpenMaxCalls = 1
  RecoveryTicks = 1
  Manual = {}
  MaxVersion = 5
  MaxFaults = 2
SPECIFICATION FairSpec
PROPERTIES OpenSurvivesFaults
