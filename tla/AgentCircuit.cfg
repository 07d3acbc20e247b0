\* One thread and the defaults of AgentCircuitBreaker, thresholds scaled down.
CONSTANTS
  AgentThreads = {t1}
  Slots = 1
  QueueLimit = 1
  AgentThreshold = 2
  ProbeLimit = 1
  ProbeSuccesses = 2
  CooldownTicks = 1
  MaxErrors = 2
SPECIFICATION AgentFairSpec
PROPERTY HalfOpenCloses
