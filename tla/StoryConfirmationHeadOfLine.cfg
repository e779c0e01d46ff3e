SPECIFICATION ConfirmSpec
CONSTANTS
  r1 = r1
  r2 = r2
  c1 = c1
  c2 = c2
  c3 = c3
  x1 = x1
  x2 = x2
  None = None
  Runs = {r1, r2}
  Commands = {c1, c2, c3}
  RunOf <- MCRunOf
  Claims = {x1, x2}

INVARIANT EligibleIsClaimed
CHECK_DEADLOCK FALSE
