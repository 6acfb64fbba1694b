SPECIFICATION FairSpec
CONSTANTS
  RingSize = 8
  Node <- Nodes2
  FingerNum = 3
  None = None
  Key0 = 0
  Saturates = FALSE
  Narrow = FALSE
  Founder = 1
  Client = {}
  Backlog = 3
  Mortal = {}
  Prompt = FALSE
  TimesOut = FALSE
PROPERTIES Converges
CHECK_DEADLOCK FALSE
