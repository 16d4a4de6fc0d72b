CONSTANTS
  d1 = d1
  c1 = c1
  c2 = c2
  noDoc = noDoc
  NoDoc = noDoc
  Docs <- OneDoc
  Calls <- TwoCalls
  MaxEntries = 1
  MaxDisputes = 1
  MaxVersions = 2
  MaxFaults = 1
  MaxSkips = 1
SPECIFICATION FairSpec
INVARIANTS
  TypeOK
PROPERTIES
  StackingBounded
  AIReadsYield
  ShortageIsDisputed
  MatchingEnds
CHECK_DEADLOCK FALSE
