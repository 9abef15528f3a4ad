CONSTANTS
  MaxPid = 3
  MaxFd = 3
  Pool = 3
  Codes = {0}
SPECIFICATION FairSpec
INVARIANTS RecordInUse NothingLost
PROPERTIES CallsReturn FamilyContract
CHECK_DEADLOCK FALSE
