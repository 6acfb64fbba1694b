SPECIFICATION FairSpec
CONSTANTS
  RingSize = 8
  Node <- AllKeys
  FingerNum = 3
  None = None
  Key0 = 0
  Saturates = TRUE
  Narrow = FALSE
INVARIANTS TypeOK AnswerOwnsKey HopBound FewHops
PROPERTY Answered
CHECK_DEADLOCK FALSE
