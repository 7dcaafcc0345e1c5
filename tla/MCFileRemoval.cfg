CONSTANTS
  t1 = t1
  t2 = t2
  t3 = t3
  t4 = t4
  Threads = {t1, t2, t3, t4}
  Casts <- MCCasts
  MaxLocks = 3
  None = None
SPECIFICATION Spec
CHECK_DEADLOCK FALSE
INVARIANT FreedFilesAreClosed
PROPERTIES
  FreedOnce
  RemoversAreAwakened
