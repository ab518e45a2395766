CONSTANTS
  c1 = c1
  c2 = c2
  Clients <- TwoClients
  Quitters <- OnlyC1
  Mortals <- Nobody
  ServerFaults <- NoFaults
  MaxRuns = 1
  MaxTyped = 2
  ServerCap = 1
  ClientCap = 1
SPECIFICATION FairSpec
PROPERTIES LeavingEnds
CHECK_DEADLOCK FALSE
