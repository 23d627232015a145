CONSTANTS
  Blocks = {b1, b2}
  Clients = {c1, c2}
  CRAS_MAX_ATTACHED_CLIENTS = 1
  PipeSize = 1
  MaxTasks = 1
  PIPE = PIPE
  CONN = CONN
  NULL = NULL
  Outputs = {o1, o2}
  MaxQueue = 4
  NOBODY = NOBODY
  Observers = {k1}
  MaxRequests = 4
  SocketSize = 2
  MAX_VOLUME = 1
SPECIFICATION MCSpec
CHECK_DEADLOCK FALSE
INVARIANTS ListsSound NoOrphanServerStream ObserversUpToDate
PROPERTIES NoCallAfterRemoval Progress
