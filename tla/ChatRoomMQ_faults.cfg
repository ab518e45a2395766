CONSTANTS
  c1 = c1
  c2 = c2
  Clients <- TwoClients
  Quitters <- OnlyC1
  Mortals <- TwoClients
  ServerFaults <- AllFaults
  MaxRuns = 2
  MaxTyped = 2
  ServerCap = 2
  ClientCap = 2
SPECIFICATION Spec
INVARIANTS
  TypeOK
  StrangerIsALateText
  ListsArriveWhole
  ShownIsPrefix
  SeesItself
  HistoryInOrder
PROPERTIES IsAChatRoom
CHECK_DEADLOCK FALSE
