SPECIFICATION Spec
CONSTANTS
  Members = {m1}
  SDT_MAX_RESENDS = 2
  ResendTicks = 2
  DuplicateJoins = FALSE
  MaxTotal = 4
INVARIANT NeverHung
CHECK_DEADLOCK FALSE
