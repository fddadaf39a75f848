SPECIFICATION Spec
CONSTANTS
  c1 = c1
  c2 = c2
  b1 = b1
  b2 = b2
  p1 = p1
  p2 = p2
  server = server
  cli = cli
  Inf = Inf
  Ids = {c1, c2}
  Bodies = {b1}
  Procs = {p1, p2}
  Runners = {server, cli}
  LockOf <- TwoRunners
  OpsOf <- AllOps
  MaxCalls = 3
  MaxFaults = 0
SYMMETRY SymmetryIds
INVARIANTS
  Progress
  FactOrder
