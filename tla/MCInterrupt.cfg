CONSTANTS
  timer = timer
  keyboard = keyboard
  display = display
  disk = disk
  Timer = timer
  Devices <- AllDevices
  Pollers <- MCPollers
  Delays <- MCDelays
  DiskDevice = disk
  SECTORS_PER_TRACK = 3
  NUM_TRACKS = 2
  SEEK_TIME = 3
  ROTATION_TIME = 2
  SYSTEM_TICK = 3
  USER_TICK = 1
  UINT_MAX = 63
  INT_MAX = 31
  MaxTicks = 14
  ConsoleON <- MayWait
SPECIFICATION DiskSpec
CHECK_DEADLOCK FALSE
INVARIANTS
  InterruptsAreOnTime
  LatenciesArePhysical
PROPERTY LoopsEnd
