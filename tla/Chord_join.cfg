SPECIFICATION FairSpec
CONSTANTS
  RingSize = 8
  Node <- Nodes3
  FingerNum = 1
  None = None
  Key0 = 0
  Saturates = FALSE
  Narrow = FALSE
  Founder = 6
  Client = {}
  Backlog = 1
  Mortal = {}
  Prompt = TRUE
  TimesOut = FALSE
INVARIANTS OneOrderedRing
PROPERTIES Converges
