SPECIFICATION FairSpec
CONSTANTS
  Text <- AnyText
  Node <- MCNode
  Client = {c1, c2}
  Request <- MCRequest
  Route <- MCRoute
  Local = "local"
  MaxThreads = 2
  Buffer = 1
INVARIANTS
  NothingInvented
  WholeOrNothing
  ChainBounded
PROPERTIES
  ChainEnds
CHECK_DEADLOCK FALSE
