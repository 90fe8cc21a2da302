SPECIFICATION FairSpec
CONSTANTS
  Calls = {c1, h1}
  HandlerCalls = {h1}
  Closers = {k1}
  QueueCap = 1
  MaxInbox = 1
  None = None
INVARIANT WaiterReachable
PROPERTIES CloseReleasesEveryone DropReleasesEveryone KeepsPromise
CHECK_DEADLOCK FALSE
