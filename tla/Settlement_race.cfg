\* One request: two gateways signal, two workers settle, everything races.
SPECIFICATION Spec
CONSTANTS
  s1 = s1  s2 = s2  w1 = w1  w2 = w2
  Requests = {r1}
  Gateways = {g1, g2}
  Owners = {w1, w2}
  Slots = {s1, s2}
  SlotOwner <- TwoWorkers
  Receipts = {x1, x2}
  Defective = {x2}
  OperationIds = {o1, o2}
  BatchSize = 1
  MaxAttempts = 2
  MaxRevision = 2
  MaxFaults = 2
  None = None
  NaN = NaN
SYMMETRY RaceSymmetry
CHECK_DEADLOCK FALSE
INVARIANTS
  TypeOK
  MoneyFollowsStatus
  OneLiveClaim
  AcceptedReceiptStands
  OneReviewPerDeath
  NoticesTellOfDeaths
PROPERTIES
  KeepsPromise
