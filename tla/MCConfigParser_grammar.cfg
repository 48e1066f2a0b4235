SPECIFICATION Spec
CONSTANTS
  Char <- AllChars
  MaxLength = 8
INVARIANTS
  TypeOK
  StatementsHaveTokens
  StackIsPath
  OpenStatement
  BlocksFormTree
  TreeFollowsTokens
  OnlyEmptyRejected
CHECK_DEADLOCK FALSE
