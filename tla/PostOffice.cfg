CONSTANTS
  Threads = {t1, t2}
  Boxes = {b1, b2}
  Readers = {r1, r2}
  ReadBox = b1
  PostalWorker = w
  MaxSent = 2
  lock = sendLock
  semaphore = messageSent
  None = None
SPECIFICATION Spec
CHECK_DEADLOCK FALSE
INVARIANTS
  MailIsKept
PROPERTIES
  MailGetsThrough
