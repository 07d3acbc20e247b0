CONSTANTS
  N = 3
  Reporters = {r1, r2}
  DefaultHandlers = {r1}
  Starter = client
  MaxRedelivered = 2
  MaxFaults = 1
  ClientMayCrash = TRUE
  StepCount = 4
  Compensable = {0, 1, 3}
  MaxAttempts = 2
  MaxPanics = 2
  Payments = {p1, p2}
  Limit <- Limits
  TrialTicks = 2
  MaxSignups = 2
  admin = admin
  gerente = gerente
  operador = operador
  Users = {admin, gerente, operador}
  RoleOf <- RoleRanks
  Requester = operador
  Timeout = 1
  AgentThreshold = 2
  ProbeLimit = 1
  ProbeSuccesses = 2
  CooldownTicks = 1
  PyClients = {py}
  GwClients = {gw}
  KeyTicks = 3
  MaxCallFailures = 3
  MaxRedisErrors = 1
  Callers = {c1, c2, c3, c4}
  Cancellable = {"read"}
  Nodes = {n1, n2}
  Interval = 1
  MaxTroubles = 2
SPECIFICATION MCSpec
INVARIANTS TypesOK StepsInOrder StatusIsEarned  FreshRollback BillingConsistent
  ApprovedByAuthority LockSound LeftIsGone
PROPERTIES SagaEnds AccessRegained  SharedCloses WritersGetIn StaysActive
CHECK_DEADLOCK FALSE
