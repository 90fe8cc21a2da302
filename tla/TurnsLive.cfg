SPECIFICATION FairSpec
CONSTANTS
  Runs = {r1}
  Streams = {s1}
  Waiters = {}
  SubCap = 1
  OutCap = 1
  MaxTransient = 2
  MaxRereads = 1
  MaxItems = 1
  Chatty = {s1}
  Cancellable = {r1, s1}
  Ordered = FALSE
  Moves = {"drop", "close", "fault"}
  None = None
CHECK_DEADLOCK FALSE
PROPERTIES WaitsEnd CancelReleases SubscribedStreamCloses
