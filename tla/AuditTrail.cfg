SPECIFICATION Spec
CONSTANTS
  Writers = {w1, w2}
  Contents = {uploaded, paid}
  MaxWrites = 5
INVARIANTS TypeOK LinksLeadToStart
PROPERTY SerialTrailIsChain
CHECK_DEADLOCK FALSE
