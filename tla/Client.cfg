SPECIFICATION FairSpec
CONSTANTS
  Calls = {"init", "initialized", "login", "s1", "s2"}
  Notifies = {"initialized"}
  Starters = {"s1", "s2"}
  Closers = {"new", "k1", "k2"}
  n1 = n1
  n2 = n2
  q1 = q1
  Notes = {n1, n2}
  Reqs = {q1}
  QueueCap = 1
  MaxInbox = 1
  Garbage = Garbage
  None = None
  MaxThreads = 1
  MethodsAsked = {"exec", "file"}
  Worlds <- MCWorlds
INVARIANTS SlotsConserved PanicOnlyIfOverlapped NothingLeftBehind ApprovedByHandler OptionsHonoured
PROPERTIES EndReleasesEveryone RequestsAnswered KeepsPromise
CHECK_DEADLOCK FALSE
