\* What the repository says and the code does not do. TLC stops at the
\* first counterexample: leave one property in the list at a time.
SPECIFICATION PaySpec
CONSTANTS
  MaxReports = 3
  u1 = u1
  s1 = s1
  s2 = s2
  k1 = k1
  i1 = i1
  i2 = i2
  w1 = w1
  free = free
  paid = paid
  Users = {u1}
  Subs = {s1}
  Versions = {free, paid}
  Priced = {paid}
  Trials = {}
  FreeVersion = free
  Provisioned = {}
  Scheduled <- NoneScheduled
  Keys = {k1}
  Lockable = {}
  Workers = {w1}
  MaxTime = 1
  Intents = {i1}
  Reported = {"succeeded", "failed", "cancelled", "refunded", "reversed"}
  None = None
INVARIANTS SuccessIsServed PaidCanBeRevoked
PROPERTIES RefundedIsFinal
CHECK_DEADLOCK FALSE
