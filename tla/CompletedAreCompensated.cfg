CONSTANTS
  N = 2
  Reporters = {r1, r2}
  DefaultHandlers = {r1, r2}
  Starter = client
  MaxRedelivered = 0
  MaxFaults = 0
  ClientMayCrash = FALSE
SPECIFICATION Spec
INVARIANTS CompletedAreCompensated
CHECK_DEADLOCK FALSE
