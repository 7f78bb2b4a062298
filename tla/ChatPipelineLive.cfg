SPECIFICATION FairSpec
CONSTANTS
  c1 = c1
  c2 = c2
  k1 = k1
  k2 = k2
  Conns <- OneConn
  Convs <- TwoConvs
  MaxMessages = 2
  MaxAggregate = 2
  QueueCap = 1
INVARIANTS ClosedIsDrained
PROPERTIES EveryMessageSettled ClosingEnds
