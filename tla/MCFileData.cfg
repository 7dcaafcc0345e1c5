CONSTANTS
  NUM_SECTORS = 10
  SECTOR_SIZE = 2
  NUM_DIRECT = 2
  f1 = f1
  f2 = f2
  h1 = h1
  h2 = h2
  h3 = h3
  h4 = h4
  Files = {f1, f2}
  Handles = {h1, h2, h3, h4}
  First <- MCFirst
  FileOf <- MCFileOf
  Uses <- MCUses
  Lengths = {1, 5, 10}
  MaxCalls = 3
  None = None
SPECIFICATION Spec
CONSTRAINT Apart
CHECK_DEADLOCK FALSE
INVARIANTS
  SectorsHaveOneOwner
  WritesActOnFile
  ReadsReturnTheFile
