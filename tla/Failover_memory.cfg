\* Two requests with two channels in common, each of which may wait and try
\* again, under policies that change while they run.
SPECIFICATION Spec
CONSTANTS
  m1 = m1  m2 = m2  c1 = c1  c2 = c2
  Requests = {r1, r2}
  Models <- Chain
  Channels = {c1, c2}
  ChannelsOf <- Catalog
  Primary <- First
  Policies <- AnyPolicy
  MaxCooldown = 1
  MaxWait = 1
  Threshold = 2
  DeadTtl = 1
  Window = 2
SYMMETRY Symmetry
CHECK_DEADLOCK FALSE
INVARIANTS
  TypeOK
  DeadTakesManyRequests
  PenaltyLeavesAWay
