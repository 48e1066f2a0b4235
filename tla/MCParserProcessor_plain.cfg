SPECIFICATION Spec
CONSTANTS
  Config <- MCConfig
  Number <- MCNumber
  KeyPrefix = {"ro", "handler", "/"}
INVARIANTS
  SamePort
  SameStaticHandlers
  SameEchoHandlers
  LikeKeysFound
CHECK_DEADLOCK FALSE
