SPECIFICATION Spec
CONSTANTS
  RingSize = 8
  Node <- Nodes4
  FingerNum = 1
  None = None
  Key0 = 0
  Saturates = FALSE
  Narrow = FALSE
  Founder = 1
  Client = {}
  Backlog = 2
  Mortal = {}
  Prompt = TRUE
  TimesOut = FALSE
INVARIANTS NoCyclicWait
