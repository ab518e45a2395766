CONSTANTS
  c1 = c1
  c2 = c2
  Clients <- TwoClients
  Talkers <- TwoClients
  Quitters <- Nobody
  Mortals <- Nobody
  AfterServer = TRUE
  OneByOne = TRUE
  MAX_CLIENTS = 2
  MAX_MESSAGES = 2
  MaxTyped = 1
SPECIFICATION Spec
INVARIANTS TextsKept
CHECK_DEADLOCK FALSE
