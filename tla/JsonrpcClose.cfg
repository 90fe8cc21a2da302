SPECIFICATION FairSpec
CONSTANTS
  Calls = {c1}
  Reconnectors = {r1}
  ServerReqs = {}
  QueueCap = 0
  MaxConns = 2
  MaxInbox = 1
  ServerMoves = {"note", "drop"}
  None = None
PROPERTIES CloseReleasesEveryone EndedSessionCtx
CHECK_DEADLOCK FALSE
