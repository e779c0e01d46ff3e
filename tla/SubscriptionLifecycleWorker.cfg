SPECIFICATION FairSpec
CONSTANTS
  u1 = u1
  u2 = u2
  s1 = s1
  s2 = s2
  k1 = k1
  k2 = k2
  k3 = k3
  w1 = w1
  w2 = w2
  free = free
  paid = paid
  Users = {u1, u2}
  Subs = {s1, s2}
  Versions = {free, paid}
  Priced = {paid}
  Trials = {}
  FreeVersion = free
  Provisioned = {}
  Scheduled <- OneScheduled
  Keys = {k1, k2}
  Lockable = {s2}
  Workers = {w1, w2}
  MaxTime = 1
  None = None
PROPERTIES DueIsAdvanced
CHECK_DEADLOCK FALSE
