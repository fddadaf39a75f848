SPECIFICATION Spec
CONSTANTS
  c1 = c1
  c2 = c2
  b1 = b1
  b2 = b2
  p1 = p1
  p2 = p2
  server = server
  cli = cli
  Inf = Inf
  Ids <- MCIds
  Bodies <- MCBodies
  Procs = {p1, p2}
  Runners = {server}
  LockOf <- OneRunner
  OpsOf <- ServerOps
  MaxCalls = 2
  MaxFaults = 1
SYMMETRY SymmetryP
INVARIANTS
  TypeOK
  BatchStored
  RunMaterializes
  ReindexRestores
  
PROPERTIES
  RowFollowsFile
