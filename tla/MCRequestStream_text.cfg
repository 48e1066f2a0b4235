SPECIFICATION FairSpec
CONSTANTS
  Lexeme <- MCLexeme
  HeaderLists <- MCHeaderLists
  Bodies <- MCBodies
  Lines <- MCLines
  Garbage <- MCGarbage
  MaxHeaders = 3
  MaxHops = 4
INVARIANTS
  HeadersAsSent
  PathPresent
  ColonPerServer
  LoopsOnlyWhenUsedUp
  LineNeverAnswered
PROPERTIES
  ClientEnds
CHECK_DEADLOCK FALSE
