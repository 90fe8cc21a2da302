SPECIFICATION DrainedSpec
CONSTANTS
  Calls = {c1, c2}
  Reconnectors = {r1}
  ServerReqs = {}
  QueueCap = 1
  MaxConns = 2
  MaxInbox = 1
  ServerMoves = {}
  None = None
PROPERTIES AnsweredCallReturns
CHECK_DEADLOCK FALSE
