SPECIFICATION SpecRoundTrip
CONSTANTS
  Char <- AllChars
  MaxLength = 7
INVARIANTS
  TokensFollowFile
  RoundTrip
CHECK_DEADLOCK FALSE
