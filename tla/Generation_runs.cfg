\* One task, a video or music; two poll runs that overlap, crashes, recovery.
SPECIFICATION FairSpec
CONSTANTS
  Tasks = {t1}
  Runs = {p1, p2}
  Gateway = Gateway
  MaxFaults = 2
  None = None
INVARIANTS
  TypeOK
  DeliveredIsOwed
  ReportedIsUndelivered
PROPERTIES
  TaskEnds
CHECK_DEADLOCK FALSE
