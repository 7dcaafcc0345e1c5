CONSTANTS
  t1 = t1
  t2 = t2
  t3 = t3
  t4 = t4
  acceso = acceso
  interno = interno
  send = send
  receive = receive
  d1 = d1
  d2 = d2
  d3 = d3
  s0 = s0
  s1 = s1
  None = None
  NoDonation = NoDonation
  MaxValue = 2
  Threads <- MCThreads
  Semaphores <- MCSemaphores
  Locks <- MCLocks
  Conditions <- MCConditions
  InitialValue <- MCInitialValue
  Priority <- MCPriority
  Rank <- MCRank
  LockOf <- MCLockOf
  aDormir <- MCaDormir
  Users <- MCUsers
  Senders <- MCSenders
  Receivers <- MCReceivers
  Messages = {0, 7}
  Acceso = acceso
  BloqueanteSend = send
  BloqueanteReceive = receive
  Null = None
SPECIFICATION SynchSpec
CHECK_DEADLOCK FALSE
INVARIANTS
  NoLostWakeup
  DonationsEndWithOwnership
  MutualExclusion
  SendReturnsAfterReceipt
  MessagesHaveReceivers
PROPERTIES
  ImplementsCountingSemaphore
  BroadcastAwakensAll
  ImplementsMonitor
