SPECIFICATION FairSpec
CONSTANTS
  r1 = r1
  r2 = r2
  h1 = h1
  h2 = h2
  w1 = w1
  None = None
  Requests = {r1, r2}
  ImageRequests = {r2}
  Handlers = {h1, h2}
  Workers = {w1}
  LastPeriod = 0
  Estimates = {2}
  Usages = {3}
  PlanTokens = 4
  Bonuses = {}
  MaxGranted = 4
  MaxFaults = 0
  Crashes = FALSE
PROPERTIES
  UnknownGetsConsumed
