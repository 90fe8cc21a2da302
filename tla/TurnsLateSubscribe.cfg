SPECIFICATION DrainedSpec
CONSTANTS
  Runs = {}
  Streams = {s1}
  Waiters = {}
  SubCap = 3
  OutCap = 3
  MaxTransient = 2
  MaxRereads = 1
  MaxItems = 1
  Chatty = {s1}
  Cancellable = {}
  Ordered = TRUE
  Moves = {}
  None = None
CHECK_DEADLOCK FALSE
PROPERTY StreamCloses
