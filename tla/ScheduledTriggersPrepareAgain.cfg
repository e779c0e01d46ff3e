SPECIFICATION Spec
CONSTANTS
  t1 = t1
  t2 = t2
  g1 = g1
  g2 = g2
  x1 = x1
  x2 = x2
  thread = thread
  Tasks = {t1}
  Threads = {thread}
  Source <- OneThread
  Triggers = {g1}
  Turns = {x1}
  Onces = {FALSE}
  Choices = {"source_thread", "new_thread_each_run"}
  LeaseLength = 1
  MaxClaims = 2
  None = None
INVARIANT PreparedCanBePreparedAgain
CHECK_DEADLOCK FALSE
