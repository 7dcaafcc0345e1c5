CONSTANTS
  MAX_ARG_COUNT = 3
  MAX_ARG_LENGTH = 9
  MemorySize = 80
  MAX_LINE_SIZE = 8
  FILE_NAME_MAX_LEN = 2
  SEPARATOR = 32
  AMPERSAND = 38
  NEWLINE = 10
  Aliases <- MCAliases
  MaxProcesses = 3
  Sessions <- MCSessions
  None = None
SPECIFICATION Spec
CHECK_DEADLOCK FALSE
INVARIANTS
  ArgumentsArrive
  CopiesAreComplete
