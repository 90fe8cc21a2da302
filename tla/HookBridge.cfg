SPECIFICATION FairSpec
CONSTANTS
  Shims = {s1, s2}
  Closers = {k1, k2}
INVARIANTS OnlyOneOutlivesClose
PROPERTIES HooksAnswered
CHECK_DEADLOCK FALSE
