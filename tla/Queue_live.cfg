\* Two requests and a sweep of one row at a time, beside wake-ups; one consumer
\* that takes the second request along; one failure of any kind.
SPECIFICATION QueueFairSpec
CONSTANTS
  Requests = {r1, r2}
  Enqueuers = {e1}
  Consumers = {c1}
  Limit = 1
  BatchSize = 2
  JobAttempts = 2
  MaxSettlements = 2
  MaxFailures = 1
  Null = Null
CHECK_DEADLOCK FALSE
INVARIANTS
  QueueTypeOK
PROPERTIES
  EveryDueRowIsClaimed
