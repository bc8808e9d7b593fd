\* Three attempts: two open the breaker and one probes, or one opens it and two
\* race for the probe.
SPECIFICATION BreakerFairSpec
CONSTANTS
  Attempts = {r1, r2, r3}
  WindowMs = 1
  Cooldown = 1
  Thresholds = {1, 2}
  ProbeModes = {TRUE, FALSE}
  MaxRetries = 2
CHECK_DEADLOCK FALSE
INVARIANTS
  BreakerTypeOK
PROPERTIES
  OpenUntilCooled
  NoFailureIsLost
  OneProbe
  HalfOpenEnds
