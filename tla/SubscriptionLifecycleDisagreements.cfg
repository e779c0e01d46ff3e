\* What the repository says and the code does not do. TLC stops at the
\* first counterexample: leave one property in the list at a time.
SPECIFICATION Spec
CONSTANTS
  u1 = u1
  u2 = u2
  s1 = s1
  s2 = s2
  k1 = k1
  k2 = k2
  k3 = k3
  w1 = w1
  w2 = w2
  free = free
  paid = paid
  Users = {u1}
  Subs = {s1, s2}
  Versions = {free, paid}
  Priced = {paid}
  Trials = {}
  FreeVersion = free
  Provisioned = {u1}
  Scheduled <- NoneScheduled
  Keys = {k1, k2, k3}
  Lockable = {}
  Workers = {w1}
  MaxTime = 1
  None = None
INVARIANTS CommandReachesItsRow AppliedIsReplayed OnlyRenewalRewritesBoundaries
PROPERTIES CancelKeepsAccess
CHECK_DEADLOCK FALSE
