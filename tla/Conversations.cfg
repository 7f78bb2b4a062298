SPECIFICATION Spec
CONSTANTS
  w1 = w1
  w2 = w2
  Workers <- TwoWorkers
  PageSize = 2
  MaxIds = 2
  MaxOps = 5
INVARIANTS TypeOK UnreadIsCounted ListedIsAcknowledged
SYMMETRY Twins
CHECK_DEADLOCK FALSE
