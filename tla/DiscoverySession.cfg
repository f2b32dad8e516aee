SPECIFICATION SessionSpec
CONSTANTS
  w1 = w1
  w2 = w2
  None = None
  Worker <- TwoWorkers
  URLs <- MCURLs
  Service <- MCService
  Found <- MCFound
  Sites <- MCSites
  MaxBegins = 4
CHECK_DEADLOCK FALSE
INVARIANTS
  HandedInOrder
  PreferredFirst
  NothingOverlooked
  RightService
PROPERTY UntriedKept
