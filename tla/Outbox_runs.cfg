\* One notice, two channels, overlapping runs of one process, lost leases.
SPECIFICATION FairSpec
CONSTANTS
  d1 = d1  d2 = d2  w1 = w1  w2 = w2
  Notices = {n1}
  Channels = {c1, c2}
  Runs = {d1, d2}
  Owners = {w1}
  RunOwner <- OneProcess
  MaxAttempts = 2
  LoopLimit = 1
  MaxFaults = 1
  None = None
INVARIANTS
  TypeOK
  OneLiveClaim
  ProgressIsReal
PROPERTIES
  EveryNoticeIsClosed
  SentReachedItsChannels
  RecordedIsNotResent
