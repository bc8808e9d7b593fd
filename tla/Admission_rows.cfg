\* A pool and its owners under two requests, or the limits of a member under three.
SPECIFICATION Spec
CONSTANTS
  own = own  mem = mem  ko = ko  km = km  kn = kn  s1 = s1  s2 = s2
  r1 = r1  r2 = r2  r3 = r3  t1 = t1  t2 = t2
  Requests = {r1, r2, r3}
  Users = {own, mem}
  Keys = {ko, km, kn}
  Subs = {s1, s2}
  Txns = {t1, t2}
  None = None
  Owner = own
  Pack = 1
  Costs = {0, 1, 3}
  Settings <- AllSettings
SYMMETRY Sym
CHECK_DEADLOCK FALSE
INVARIANTS
  QuotaIsKept
  ChangedValueIsNotSpent
  OpenIsLimited
  SerialMemberIsLimited
