SPECIFICATION LoginSpec
CONSTANTS
  Subs = {s1, s2, h1}
  Events = {e1, h1, any}
  Logins = {h1}
  AnyLogin = any
  Cap = 1
  MaxEvents = 3
INVARIANTS NoPanic NoGaps NobodyLeftWaiting
PROPERTY WaitSeesTheEnd
CHECK_DEADLOCK FALSE
