SPECIFICATION Spec
CONSTANTS
  Text <- AnyText
  Conn = {c1, c2}
  Message <- HoldingMessages
  HandlerMap <- MCHandlers
  MimeMap <- MCMime
  Files <- MCFiles
  Colonless <- MCColonless
  Private = {"epoll"}
  Garbage <- NoLength
  MaxLength = 3
  MaxHeap = 6
  MaxFds = 3
  MaxThreads = 1
  MaxWords = 1
  Departures = {"closed", "stalled"}
SYMMETRY Symmetry
INVARIANTS
  DescriptorsAccounted
CHECK_DEADLOCK FALSE
