SPECIFICATION LiveSpec
CONSTANTS
  h1 = h1
  h2 = h2
  Hosts = {h1, h2}
  App <- Stops
  SDT_MAX_RESENDS = 2
  Short = 1
  Long = 2
  Dups = FALSE
  MaxInFlight = 3
  MaxChannels = 2
  MaxSeq = 3
  MaxCrashes = 1
INVARIANTS
  TypeOK
  PeerAgreed
  CopyOfThisChannel
  NoListenerLeak
PROPERTIES
  DeadLeaderNoticed
  TickCollects
CHECK_DEADLOCK FALSE
