CONSTANTS
  d1 = d1
  c1 = c1
  c2 = c2
  noDoc = noDoc
  NoDoc = noDoc
  Docs <- OneDoc
  Calls <- OneCall
  MaxEntries = 1
  MaxDisputes = 1
  MaxVersions = 2
  MaxFaults = 0
  MaxSkips = 0
SPECIFICATION Spec
PROPERTIES
  PersonsFiguresKept
CHECK_DEADLOCK FALSE
