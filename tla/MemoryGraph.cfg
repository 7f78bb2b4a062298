SPECIFICATION Spec
CONSTANTS
  Stores <- BothStores
  NTurns = 2
  Topics <- TwoTopics
  Risky <- TopicY
  Replies <- SomeReplies
  Compacts <- SomeCompacts
  Cues <- SomeCues
  Limit = 3
  MaxDepth = 2
  ListLimit = 8
  MaxCards = 2
  MaxFaults = 1
  MaxRestarts = 1
INVARIANTS TypeOK EvidenceIsCounted TurnIsOneStory  BestAreRecalled 
CHECK_DEADLOCK FALSE
