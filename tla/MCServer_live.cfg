SPECIFICATION FairSpec
CONSTANTS
  Text <- AnyText
  Conn = {c1, c2}
  Message <- LiveMessages
  HandlerMap <- MCHandlers
  MimeMap <- MCMime
  Files <- MCFiles
  Colonless <- MCColonless
  Private = {"epoll"}
  Garbage = {0}
  MaxLength = 3
  MaxHeap = 2
  MaxFds = 4
  MaxThreads = 2
  MaxWords = 1
  Departures = {"stalled"}
INVARIANTS
  CapacitySuffices
PROPERTIES
  ConnectionAccepted
  RequestEnds
  QuitHonoured
CHECK_DEADLOCK FALSE
