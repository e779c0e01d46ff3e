SPECIFICATION PartSpec
CONSTANTS
  u1 = u1
  u2 = u2
  s1 = s1
  s2 = s2
  k1 = k1
  k2 = k2
  k3 = k3
  w1 = w1
  w2 = w2
  free = free
  paid = paid
  Users = {u1}
  Subs = {s1, s2}
  Versions = {free, paid}
  Priced = {paid}
  Trials = {free}
  FreeVersion = free
  Provisioned = {u1}
  Scheduled <- NoneScheduled
  Keys = {k1, k2}
  Lockable = {s1, s2}
  Workers = {w1}
  MaxTime = 2
  Anchors <- MCAnchors
  Instants <- MCInstants
  MaxPeriods = 24
  None = None
SYMMETRY Symmetry
INVARIANTS TablesAreSound AllowancesAreJust
PROPERTIES CalendarIsExact BoundariesAreKept
CHECK_DEADLOCK FALSE
