SPECIFICATION Spec
CONSTANTS
  q = q
  rewrite = rewrite
  entity = entity
  Ids = {1, 2, 3}
  Tokens = 1
  MaxSubqueries = 3
  DefaultLimit = 2
  Scale = 38122560
  Texts <- MCTexts
  Rankings <- MCRankings
  InitialDocs <- MCDocs
  EdgeSets <- MCEdges
  Limits = {0, 1}
  Fanout = 2
  MaxIngests = 1
  MaxFaults = 1
INVARIANTS
  HybridRespectsArms
  MultiRespectsSubqueries
  SimilarKeepsLimit
