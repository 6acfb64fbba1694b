SPECIFICATION FairSpec
CONSTANTS
  RingSize = 8
  Node <- Near2
  FingerNum = 3
  None = None
  Key0 = 0
  Saturates = FALSE
  Narrow = FALSE
  Founder = 1
  Client = {}
  Backlog = 2
  Mortal = {3}
  Prompt = TRUE
  TimesOut = FALSE
PROPERTIES DeadForgotten
CHECK_DEADLOCK FALSE
