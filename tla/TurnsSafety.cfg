SPECIFICATION Spec
CONSTANTS
  Runs = {r1}
  Streams = {s1}
  Waiters = {w1}
  SubCap = 2
  OutCap = 1
  MaxTransient = 2
  MaxRereads = 2
  MaxItems = 2
  Chatty = {r1, s1}
  Cancellable = {r1, s1}
  Ordered = FALSE
  Moves = {"drop", "fault", "retryableError", "close"}
  None = None
CONSTRAINT ItemsOrCallers
CHECK_DEADLOCK FALSE
INVARIANTS ReturnsWhenOver OverlapOnlyAfterGivingUp
PROPERTY RunReturnsReadOrGathered
