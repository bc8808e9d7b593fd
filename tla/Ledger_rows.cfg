\* Six mixes of four transactions: what is committed is as if serial.
SPECIFICATION FairSpec
CONSTANTS
  t1 = t1  t2 = t2  t3 = t3  t4 = t4
  h1 = h1  h2 = h2  h3 = h3  x1 = x1  x2 = x2
  Users <- TwoUsers
  Internals <- Books
  Revenue = 2
  Holds = {h1, h2, h3, x1, x2}
  Txns = {t1, t2, t3, t4}
  Openings <- OneOpening
  Loads <- AllLoads
  MaxTries = 2
  None = None
CHECK_DEADLOCK FALSE
INVARIANTS
  BooksAgree
  OnlyFloorsAreIncoherent
PROPERTIES
  RunsSerially
  EveryTransactionEnds
