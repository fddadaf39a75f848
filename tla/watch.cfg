SPECIFICATION Spec
CONSTANTS
  f1 = f1
  f2 = f2
  f3 = f3
  Files = {f1, f2, f3}
  Watched = {f1, f2}
  QueueLimit = 3
  MaxVersion = 2
  MaxFailures = 1
INVARIANTS
  QuietIsCurrent
PROPERTIES
  CatchesUp
CHECK_DEADLOCK FALSE
