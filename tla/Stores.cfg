CONSTANTS
  c1 = c1
  c2 = c2
  Customers <- TwoCustomers
  STORES_NUM = 2
  LOADER_CAPACITY = 1
  InitialCapacities <- Small
  InitialNeeds <- Small
  MaxLoads = 1
SPECIFICATION FairSpec
INVARIANTS TypeOK BusyMeansOccupied StockNotNegative
PROPERTIES ProgramEnds
CHECK_DEADLOCK FALSE
