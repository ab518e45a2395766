CONSTANTS
  c1 = c1
  c2 = c2
  Clients <- TwoClients
  Talkers <- TwoClients
  Quitters <- OnlyC1
  Mortals <- OnlyC1
  AfterServer = TRUE
  OneByOne = FALSE
  MAX_CLIENTS = 2
  MAX_MESSAGES = 2
  MaxTyped = 1
SPECIFICATION Spec
INVARIANTS NoOverrun
CHECK_DEADLOCK FALSE
