SPECIFICATION Spec
CONSTANTS
  t1 = t1
  t2 = t2
  h1 = h1
  h2 = h2
  syn = syn
  dev = dev
  Titles = {t1, t2}
  Hashes = {h1, h2}
  Corpora <- MCCorpora
  Replies <- MCReplies
  GoodTerms = {syn}
  DeviatingTerms = {dev}
  Limits = {0, 1}
  IdSets = {{}, {2}}
  MaxPasses = 2
  MaxIngests = 1
  MaxFaults = 1
INVARIANTS
  WrittenIsClean
  GoodFixAccepted
PROPERTIES
  WritesOnlyRouted
