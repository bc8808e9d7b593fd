\* Every three of thirteen jobs at once, over two requests and two channels.
SPECIFICATION FairSpec
CONSTANTS
  t1 = t1  t2 = t2  t3 = t3
  r1 = r1  r2 = r2  ch1 = ch1  ch2 = ch2
  Requests = {r1, r2}
  Channels = {ch1, ch2}
  Txns = {t1, t2, t3}
  None = None
  Threshold = 0
  Openings <- ThreeOpenings
  Loads <- AllLoads
  MaxTries = 2
CHECK_DEADLOCK FALSE
INVARIANTS
  ReservedIsOwed
PROPERTIES
  RunsSerially
  EveryJobEnds
