SPECIFICATION ResultsSpec
CONSTANTS
  n1 = n1
  n2 = n2
  n3 = n3
  n4 = n4
  a = a
  b = b
  c = c
  s1 = s1
  s2 = s2
  q1 = q1
  q2 = q2
  i1 = i1
  i2 = i2
  g1 = g1
  g2 = g2
  Nil = Nil
  Grants = {g1, g2}
  Notices = {n1, n2}
  SourceOf <- OneSource
  Rank <- MCRank
  Oversized = {}
  Calls = {a, b, c}
  RequestOf <- Repeated
  Inputs = {i1}
  InputThread <- InputOfEach
  MaxFinals = 2
SYMMETRY Alike
PROPERTIES ActiveIsLeftAlone
CHECK_DEADLOCK FALSE
