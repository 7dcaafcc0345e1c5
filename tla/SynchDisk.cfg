CONSTANTS
  Threads = {t1, t2, t3}
  Sectors = {s1, s2}
  Data = {x, y}
  lock = lock
  semaphore = semaphore
  None = None
SPECIFICATION DiskSpec
INVARIANT RequestsFindDiskIdle
PROPERTY ImplementsSectorStore
