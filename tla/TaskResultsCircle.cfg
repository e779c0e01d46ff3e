SPECIFICATION ResultsSpec
CONSTANTS
  n1 = n1
  n2 = n2
  n3 = n3
  n4 = n4
  a = a
  b = b
  c = c
  s1 = s1
  s2 = s2
  q1 = q1
  q2 = q2
  i1 = i1
  i2 = i2
  g1 = g1
  g2 = g2
  Nil = Nil
  Grants = {g1, g2}
  Notices = {n1, n2, n3, n4}
  SourceOf <- TwoSources
  Rank <- MCRank
  Oversized = {}
  Calls = {a, b}
  RequestOf <- Distinct
  Inputs = {i1, i2}
  InputThread <- InputOfEach
  MaxFinals = 0
INVARIANTS NoCallsInACircle
CHECK_DEADLOCK FALSE
