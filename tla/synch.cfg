CONSTANTS
  t1 = t1  t2 = t2  t3 = t3  t4 = t4
  l = l  s = s  c = c
  None = None
  Threads = {t1, t2, t3, t4}
  initial_thread = t1
  first_idle = t2
  tid_lock = tid_lock
  Locks = {l, tid_lock}
  Semas = {s}
  Conds = {c}
  Guard <- MCGuard
  May <- MCMay
  MaxValue = 1
  MaxTid = 4
SPECIFICATION FairSpec
INVARIANTS ThreadsTypeOK ElemExclusive NoAssertFails NoLostWakeup LockListRight AllListed
PROPERTIES LocksAreMutexes WaitersGetIn
CHECK_DEADLOCK FALSE
