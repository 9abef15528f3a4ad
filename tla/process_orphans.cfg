CONSTANTS
  MaxPid = 3
  MaxFd = 3
  Pool = 3
  Codes = {0}
SPECIFICATION Spec
INVARIANTS ChildrenOrphaned
CHECK_DEADLOCK FALSE
