SPECIFICATION FairSpec
CONSTANTS
  Words <- TheWords
  Streams <- TheStreams
  Modes <- Both
  MaxAttempts = 2
  RawCap = 1
  DeltaCap = 1
  MaxTurns = 1
  MaxLoads = 1
  MaxDrops = 1
INVARIANTS TypeOK  
PROPERTIES TurnSettles
CHECK_DEADLOCK FALSE
