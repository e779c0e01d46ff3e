SPECIFICATION Spec
CONSTANTS
  g1 = g1
  r1 = r1
  r2 = r2
  c1 = c1
  c2 = c2
  c3 = c3
  x1 = x1
  x2 = x2
  k1 = k1
  k2 = k2
  p1 = p1
  p2 = p2
  d1 = d1
  d2 = d2
  s1 = s1
  s2 = s2
  None = None
  Sections = {s1, s2}
  MaxResults = 1
  MaxBearers = 2
  MaxTurns = 1
  NoReport = NoReport
  Runs = {r1, r2}
  Requests = {x1, x2}
  Preflights = {p1, p2}
  Goals = {g1}
  Keys = {k1, k2}
  GoalOf <- MCGoalOf
  LaunchClaims = {d1, d2}
  Commands = {c1, c2, c3}
  RunOf <- MCRunOf
  Claims = {x1, x2}
CONSTRAINT InOrder
SYMMETRY Symmetry
INVARIANTS HistoryTellsRun LaunchesAreSound RunsAreAnsweredOnce BearerFollowsSection TaskTellsSections
PROPERTIES LateClaimsAreFenced FirstWriterWins
CHECK_DEADLOCK FALSE
