CONSTANTS
  PGSIZE = 16
  WORD_SIZE = 2
  PHYS_BASE = 80
  Words = 128
  FileSize = 40
  Pool = 3
  Executables <- MCExecutables
  Commands <- MCCommands
SPECIFICATION Spec
INVARIANTS MemoryRight StackRight NothingLeft
CHECK_DEADLOCK FALSE
