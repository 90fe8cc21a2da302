SPECIFICATION FairSpec
CONSTANTS
  Calls = {c1}
  MaxAttempts = 2
  QueueCap = 1
  MaxSent = 2
  MaxConns = 2
  Worlds <- MCWorlds
INVARIANTS OnlyTheDialLeaks RepeatedOnlyIfAnswered
PROPERTIES
  NoGapsPerConnection EveryMessageArrives CloseEndsEverything ConnectsAgain KeepsPromise
CHECK_DEADLOCK FALSE
