SPECIFICATION Spec
CONSTANTS
  Char <- AllChars
  MaxLength = 6
INVARIANTS
  ValidAccepted
CHECK_DEADLOCK FALSE
