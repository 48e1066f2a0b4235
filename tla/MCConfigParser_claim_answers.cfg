SPECIFICATION Spec
CONSTANTS
  Char <- AllChars
  MaxLength = 6
INVARIANTS
  ParseAnswers
CHECK_DEADLOCK FALSE
