SPECIFICATION Spec
CONSTANTS
  Config <- MCConfig
  Number <- MCNumber
INVARIANTS
  ServesAsConfigured
  MalformedNeverServed
  TypeOK
CHECK_DEADLOCK FALSE
