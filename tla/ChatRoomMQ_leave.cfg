CONSTANTS
  c1 = c1
  c2 = c2
  Clients <- TwoClients
  Quitters <- OnlyC1
  Mortals <- Nobody
  ServerFaults <- NoFaults
  MaxRuns = 1
  MaxTyped = 0
  ServerCap = 2
  ClientCap = 2
SPECIFICATION Spec
INVARIANTS ServerEndsOnRequest
CHECK_DEADLOCK FALSE
