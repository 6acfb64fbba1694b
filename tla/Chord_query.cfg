SPECIFICATION FairSpec
CONSTANTS
  RingSize = 8
  Node <- Near2
  FingerNum = 3
  None = None
  Key0 = 0
  Saturates = FALSE
  Narrow = FALSE
  Founder = 1
  Client = {c1}
  Backlog = 2
  Mortal = {}
  Prompt = TRUE
  TimesOut = FALSE
PROPERTIES QueryAnswered Converges
