CONSTANTS
  t1 = t1  t2 = t2  t3 = t3  t4 = t4
  None = None
  Threads = {t1, t2, t3}
  initial_thread = t1
  Priorities = {31}
  Spans <- MCSpans
  MaxTick = 2
SPECIFICATION FairSpec
PROPERTY ReadyRuns
CHECK_DEADLOCK FALSE
