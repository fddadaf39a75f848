SPECIFICATION FairSpec
CONSTANTS
  c1 = c1
  c2 = c2
  b1 = b1
  b2 = b2
  p1 = p1
  p2 = p2
  server = server
  cli = cli
  Inf = Inf
  Ids = {c1}
  Bodies = {b1, b2}
  Procs = {p1, p2}
  Runners = {server}
  LockOf <- OneRunner
  OpsOf <- ServerOps
  MaxCalls = 3
  MaxFaults = 1
INVARIANTS
  CommitHoldsEpoch
  FactWindows
  LatestVector
PROPERTIES
  AsOfStable
  CallReturns
