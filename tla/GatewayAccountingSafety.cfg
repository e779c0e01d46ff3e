SPECIFICATION Spec
SYMMETRY ProcSymmetry
CONSTANTS
  r1 = r1
  r2 = r2
  h1 = h1
  h2 = h2
  w1 = w1
  w2 = w2
  None = None
  Requests = {r1, r2}
  ImageRequests = {r2}
  Handlers = {h1, h2}
  Workers = {w1, w2}
  LastPeriod = 1
  Estimates = {2}
  Usages = {0, 1, 3}
  PlanTokens = 3
  Bonuses = {1}
  MaxGranted = 4
  MaxFaults = 1
  Crashes = TRUE
INVARIANTS
  BooksBalance
  NoOvercommit
  EligibleStaysFunded
PROPERTIES
  TerminalIsFinal
  PersistedUsageSurvives
  ImplementsAccount
