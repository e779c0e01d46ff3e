SPECIFICATION FairSpec
CONSTANTS
  r1 = r1
  h1 = h1
  h2 = h2
  w1 = w1
  None = None
  Requests = {r1}
  ImageRequests = {}
  Handlers = {h1, h2}
  Workers = {w1}
  LastPeriod = 0
  Estimates = {2}
  Usages = {0, 3}
  PlanTokens = 3
  Bonuses = {}
  MaxGranted = 3
  MaxFaults = 1
  Crashes = FALSE
PROPERTIES
  AdmittedGetsFinalized
