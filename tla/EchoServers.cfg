CONSTANTS
  c1 = c1
  c2 = c2
  w1 = w1
  w2 = w2
  Main = Main
  NoConn = NoConn
  NoText = NoText
  Clients <- TwoClients
  N_REQS = 2
  Workers <- TwoWorkers
  BACKLOG = 1
  MaxFds = 3
  Vandals <- OnlyC2
  Signals <- AllSignals
  MaxStarts = 2
  QueueCap = 1
  UdpClients <- OnlyC2
SPECIFICATION FairSpec
INVARIANTS OwnAnswers EndsForAReason
PROPERTIES IsAnEchoService EverybodyIsServed
CHECK_DEADLOCK FALSE
