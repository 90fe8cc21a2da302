SPECIFICATION Spec
CONSTANTS
  Calls = {c1, c2}
  Reconnectors = {r1, r2}
  ServerReqs = {q1}
  QueueCap = 1
  MaxConns = 3
  MaxInbox = 1
  ServerMoves = {"note", "malformed", "drop"}
  None = None
SYMMETRY Interchangeable
CONSTRAINT CallsOrRequests
INVARIANTS
  ResponseToAsker HonestDisconnect PendingIsLive WaiterReachable
  ConnAccounted LiveSessionCtx RepliesOnceAtHome
CHECK_DEADLOCK FALSE
