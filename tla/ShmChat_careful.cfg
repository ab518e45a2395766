CONSTANTS
  c1 = c1
  c2 = c2
  Clients <- TwoClients
  Talkers <- OnlyC1
  Quitters <- Nobody
  Mortals <- Nobody
  AfterServer = TRUE
  OneByOne = TRUE
  MAX_CLIENTS = 2
  MAX_MESSAGES = 2
  MaxTyped = 2
SPECIFICATION FairSpec
INVARIANTS TypeOK CriticalSection ClientsListed TextsKept
PROPERTIES IsAChatRoom KeyboardReached
CHECK_DEADLOCK FALSE
