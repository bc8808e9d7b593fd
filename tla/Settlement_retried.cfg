\* A transient settlement failure is to be retried.
SPECIFICATION Spec
CONSTANTS
  s1 = s1  s2 = s2  w1 = w1  w2 = w2
  Requests = {r1}
  Gateways = {g1}
  Owners = {w1}
  Slots = {s1}
  SlotOwner <- OneJob
  Receipts = {x1, x2}
  Defective = {x2}
  OperationIds = {o1}
  BatchSize = 1
  MaxAttempts = 3
  MaxRevision = 1
  MaxFaults = 0
  None = None
  NaN = NaN
CHECK_DEADLOCK FALSE
INVARIANTS
  TransientFailureIsRetried
