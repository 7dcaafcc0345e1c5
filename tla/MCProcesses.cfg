CONSTANTS
  main = main
  p1 = p1
  p2 = p2
  Threads = {main, p1, p2}
  Main = main
  x = x
  y = y
  f = f
  g = g
  EOF = EOF
  Typed <- MCTyped
  MaxTyped = 2
  lock = wLock
  semaphore = wSem
  rLock = rLock
  rSem = rSem
  None = None
  SIZE = 4
  NoItem = NoItem
  Files = {f, g}
  Programs = {g}
  BadName = BadName
  MaxSize = 2
  MaxDisplay = 2
  Scenarios <- MCScenarios
VIEW MCView
SPECIFICATION Spec
CHECK_DEADLOCK FALSE
INVARIANTS
  OpenCountsAreExact
  IdsNameProcesses
  CharactersKeepTheirTurn
PROPERTIES
  JoinAnswersTheStatus
  TypedCharactersAreRead
