SPECIFICATION Spec
CONSTANTS
  Text <- AnyText
  Conn = {c1}
  Message <- LiveMessages
  HandlerMap <- MCHandlers
  MimeMap <- MCMime
  Files <- MCFiles
  Colonless <- MCColonless
  Private = {"epoll"}
  Garbage = {0}
  MaxLength = 3
  MaxHeap = 4
  MaxFds = 6
  MaxThreads = 2
  MaxWords = 1
  Departures = {}
INVARIANTS
  QuitIsCaught
CHECK_DEADLOCK FALSE
