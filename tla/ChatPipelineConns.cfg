SPECIFICATION Spec
CONSTANTS
  c1 = c1
  c2 = c2
  k1 = k1
  k2 = k2
  Conns <- TwoConns
  Convs <- OneConv
  MaxMessages = 3
  MaxAggregate = 3
  QueueCap = 1
INVARIANTS TypeOK ExactlyOnce BufferWillFlush OneTurnAtATime
  OnlyFlushesOvertake
PROPERTY DeliversTurns
