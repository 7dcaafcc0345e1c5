CONSTANTS
  NUM_SECTORS = 8
  NUM_DIR_ENTRIES = 1
  SectorEntries = 2
  MAX_DIR_LEVEL = 3
  Names = {a, b, c}
  MaxPath = 3
  MaxCalls = 5
  MaxStops = 1
  None = None
SPECIFICATION Spec
CHECK_DEADLOCK FALSE
SYMMETRY Symmetry
INVARIANTS
  DiskIsSound
  TreeFollowsCalls
  FailuresHaveReasons
  ComesBack
  SectorsAreFreed
  CheckFindsLeaks
