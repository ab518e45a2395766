CONSTANTS
  c1 = c1
  c2 = c2
  Clients <- TwoClients
  Quitters <- Nobody
  Mortals <- TwoClients
  ServerFaults <- NoFaults
  MaxRuns = 1
  MaxTyped = 2
  ServerCap = 2
  ClientCap = 2
SPECIFICATION FairSpec
INVARIANTS ServerEndsOnRequest
PROPERTIES TextsArrive WindowsConverge
CHECK_DEADLOCK FALSE
