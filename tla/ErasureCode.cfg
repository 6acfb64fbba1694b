CONSTANTS
  Messages <- MCMessages
  CodeLen = 5
  Missing = 290
SPECIFICATION Spec
INVARIANTS TypeOK FieldTables SameSolution Decoded Transform
CHECK_DEADLOCK FALSE
