CONSTANTS
  t1 = t1  t2 = t2  t3 = t3  t4 = t4
  None = None
  Threads = {t1, t2, t3, t4}
  initial_thread = t1
  Priorities = {31, 40}
  Spans <- MCSpans
  MaxTick = 2
SPECIFICATION CooperativeSpec
INVARIANTS AlarmTypeOK NoAssertFails QueuesMatchStatus
PROPERTIES HighestRunsNext AlarmClockSpec SleepersWake ReadyRuns
CHECK_DEADLOCK FALSE
