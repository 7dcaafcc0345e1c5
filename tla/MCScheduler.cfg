CONSTANTS
  main = main
  a = a
  b = b
  c = c
  NULL = NULL
  Main = main
  IntMax = 2
  TCBs <- FourTCBs
  Joinable <- TwoJoinable
  Priority <- MCPriority
  tId <- MCtId
SPECIFICATION SchedulerSpec
CHECK_DEADLOCK FALSE
INVARIANT DestroyedThreadsAreGone
PROPERTY OnlyJoinDropsThreads
