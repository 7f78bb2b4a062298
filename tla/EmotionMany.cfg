SPECIFICATION FairEmotionSpec
CONSTANTS
  h1 = h1
  h2 = h2
  Handlers <- Two
  Threshold = 2
  MaxMessages = 5
INVARIANTS EmotionTypeOK
PROPERTIES BufferDrains
CHECK_DEADLOCK FALSE
