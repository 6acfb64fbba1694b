CONSTANTS
  Dirs <- MCDirs
  Names <- MCNames
  Home = "/h"
  MaxDepth = 3
  Lines <- MCLines
  Programs = {"a", "b", "c"}
  InFiles = {"i"}
  OutFiles = {"f", "g"}
  MaxProcs = 4
  Capacity = 1
  MaxOut = 2
SPECIFICATION Spec
INVARIANTS TypeOK RunAsMeant NoneLeft
PROPERTIES ImplementsStack PromptReturns
CHECK_DEADLOCK FALSE
