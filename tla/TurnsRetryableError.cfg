SPECIFICATION Spec
CONSTANTS
  Runs = {r1}
  Streams = {s1}
  Waiters = {}
  SubCap = 3
  OutCap = 3
  MaxTransient = 2
  MaxRereads = 1
  MaxItems = 1
  Chatty = {s1}
  Cancellable = {}
  Ordered = TRUE
  Moves = {"retryableError"}
  None = None
CHECK_DEADLOCK FALSE
INVARIANT OneTurnAtATime
