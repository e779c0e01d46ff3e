SPECIFICATION CaptureSpec
CONSTANTS
  Capacity = 2
  MaxEvents = 2
  MaxOutputs = 1
  Faults = 0
  OpenAI = FALSE
INVARIANT CancelIsRecorded
CHECK_DEADLOCK FALSE
