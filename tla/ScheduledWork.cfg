SPECIFICATION WorkSpec
CONSTANTS
  t1 = t1
  t2 = t2
  g1 = g1
  g2 = g2
  x1 = x1
  x2 = x2
  thread = thread
  Tasks = {t1}
  Threads = {thread}
  Source <- OneThread
  Triggers = {g1}
  Turns = {x1, x2}
  Onces = {TRUE, FALSE}
  Choices = {"source_thread", "new_thread_each_run"}
  LeaseLength = 2
  MaxClaims = 3
  Sources = {s1, s2}
  Workers = {w1, w2}
  Versions = {v1, v2}
  Interval = 2
  MaxChanges = 2
  None = None
  Nil = Nil
  SyncLease = 2
  MaxRuns = 3
INVARIANTS RunIsOneThing NotionIsSound
PROPERTIES TakeoversAreSafe RunsAreResolved LateRunsAreFenced AbandonedIsReplaced
CHECK_DEADLOCK FALSE
