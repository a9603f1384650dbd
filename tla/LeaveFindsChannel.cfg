SPECIFICATION Spec
CONSTANTS
  h1 = h1
  h2 = h2
  Hosts = {h1, h2}
  App <- Busy
  SDT_MAX_RESENDS = 2
  Short = 1
  Long = 2
  Dups = FALSE
  MaxInFlight = 2
  MaxChannels = 1
  MaxSeq = 4
  MaxCrashes = 1
INVARIANTS
  LeaveFindsChannel
CHECK_DEADLOCK FALSE
