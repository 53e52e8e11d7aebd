SPECIFICATION FairSpec
CONSTANTS
  ann = ann
  bob = bob
  c1 = c1
  p1 = p1
  Clients = {ann, bob}
  Tries = 1
  Requests <- Posts
  NoConn = NoConn
  Resting <- BothRest
  StationQueueLen = 4
  MaxEvents = 3
  Callers = {c1, c2}
  Memory = {m1, m2}
  Nowhere = Nowhere
  SearchQueueLen = 2
  Timeout = 1
  MaxSearches = 2
  MaxPackets = 1
  Packets = {p1, p2}
  Nothing = Nothing
  SendQueueLen = 6
  MaxOther = 1
  TimeRange = 16
  StartTime = 0
  MaxTime = 2
  Delays = {0, 1}
  MaxSends = 2
CHECK_DEADLOCK FALSE
INVARIANTS
  TypeOK
  HandledInOrder
  NetworkKept
  ChainIsLive
PROPERTIES
  WholeIsAnswered
  StartEnds
  QueryEnds
  DueIsSent
