CONSTANTS
  Sv = Sv
  a = a
  b = b
  Clients <- MCClients
  MaxRuns = 2
  MaxIds = 3
  QueueCap = 3
SPECIFICATION FairSpec
INVARIANTS OwnGreetingOnlyIf BufferNotRead ReleaseNotLost
PROPERTIES IsAnExchange CalmRunEnds
CHECK_DEADLOCK FALSE
