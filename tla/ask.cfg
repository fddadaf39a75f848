SPECIFICATION AskSpec
CONSTANTS
  c1 = c1
  c2 = c2
  b1 = b1
  b2 = b2
  p1 = p1
  a1 = a1
  a2 = a2
  server = server
  t1 = t1
  t2 = t2
  q1 = q1
  Inf = Inf
  Ids = {c1}
  Bodies <- MCBodies
  Procs = {p1}
  Runners = {server}
  LockOf <- OneWriter
  OpsOf <- Runs
  MaxCalls = 3
  MaxFaults = 0
  Askers = {a1, a2}
  Questions = {q1}
  Types <- MCTypes
  TypeOf <- MCTypeOf
  Requests <- WithBypass
  EpochPerRequest = TRUE
  CacheSize = 1
  MaxAsks = 2
SYMMETRY Symmetry
INVARIANTS
  HitAnswersContext
  CitesItsContext
  FreshSince
  RedactedUnlessAsked
