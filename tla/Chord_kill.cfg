SPECIFICATION Spec
CONSTANTS
  RingSize = 8
  Node <- Near3
  FingerNum = 1
  None = None
  Key0 = 0
  Saturates = FALSE
  Narrow = TRUE
  Founder = 5
  Client = {}
  Backlog = 1
  Mortal = {1, 2}
  Prompt = TRUE
  TimesOut = FALSE
INVARIANTS TypeOK CallsMatch BusyServerHasCaller FindsGoForward
PROPERTIES PostCloser PreCloser DiesOnlyAlone
CHECK_DEADLOCK FALSE
