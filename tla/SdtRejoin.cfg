SPECIFICATION Spec
CONSTANTS
  Members = {m1}
  SDT_MAX_RESENDS = 2
  ResendTicks = 2
  DuplicateJoins = TRUE
  MaxTotal = 3
INVARIANTS
  CopyIsPast
  NakIsLogical
PROPERTIES
  LostIsReal
CONSTRAINT HeardBound
CHECK_DEADLOCK FALSE
