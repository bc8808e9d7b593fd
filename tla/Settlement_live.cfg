\* Nothing owed is stranded: two requests, shared transactions, a silent
\* gateway, a crash, a shutdown or a lost claim.
SPECIFICATION FairSpec
CONSTANTS
  s1 = s1  s2 = s2  w1 = w1  w2 = w2
  Requests = {r1, r2}
  Gateways = {g1}
  Owners = {w1}
  Slots = {s1}
  SlotOwner <- OneJob
  Receipts = {x1, x2}
  Defective = {x2}
  OperationIds = {}
  BatchSize = 2
  MaxAttempts = 2
  MaxRevision = 1
  MaxFaults = 1
  None = None
  NaN = NaN
CHECK_DEADLOCK FALSE
PROPERTIES
  OwedIsDisposed
  OpenIsClosed
