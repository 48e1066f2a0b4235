SPECIFICATION Spec
CONSTANTS
  Text <- AnyText
  Conn = {c1, c2}
  Message <- MCMessages
  HandlerMap <- MCHandlers
  MimeMap <- MCMime
  Files <- MCFiles
  Colonless <- MCColonless
  Private <- MCPrivate
  Garbage <- AnyGarbage
  MaxLength = 4
  MaxHeap = 14
  MaxFds = 6
  MaxThreads = 2
  MaxWords = 0
  Departures = {"closed"}
SYMMETRY Symmetry
INVARIANTS
  TypeOK
  NotFoundMeansMissing
  HeadersInOrder
  OnlyWholeHeadsAnswered
  BodyAsArrived
  MemoryExhaustedByLoopOrAnswer
PROPERTIES
  ImplementsService
  SharedMapsReadOnly
CHECK_DEADLOCK FALSE
