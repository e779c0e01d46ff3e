SPECIFICATION GatewaySpec
CONSTANTS
  r1 = r1
  r2 = r2
  h1 = h1
  h2 = h2
  w1 = w1
  None = None
  Requests = {r1, r2}
  ImageRequests = {}
  Handlers = {h1, h2}
  Workers = {w1}
  LastPeriod = 0
  Estimates = {2}
  Usages = {0, 3}
  PlanTokens = 3
  Bonuses = {}
  MaxGranted = 3
  MaxFaults = 2
  Crashes = FALSE
  Capacity = 2
  MaxEvents = 3
  MaxOutputs = 2
  Faults = 2
  OpenAI = TRUE
INVARIANTS
  QueueIsBounded
  CaptureIsTruthful
PROPERTIES
  FailedGetsSettled
  CompletionIsLast
  CallbacksReturn
CHECK_DEADLOCK FALSE
