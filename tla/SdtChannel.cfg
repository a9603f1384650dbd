SPECIFICATION Spec
CONSTANTS
  Members = {m1}
  SDT_MAX_RESENDS = 2
  ResendTicks = 2
  DuplicateJoins = FALSE
  MaxTotal = 5
INVARIANTS
  TypeOK
  CopyIsPast
  WindowFits
  NakIsLogical
PROPERTIES
  LostIsReal
  StreamPromise
CHECK_DEADLOCK FALSE
