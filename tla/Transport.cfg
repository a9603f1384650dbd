SPECIFICATION Spec
CONSTANTS
  a1 = a1
  a2 = a2
  Ports = {"p1"}
  Groups = {a1, a2}
  Protocols = {"SDT", "E131"}
  MAX_NSK_SOCKETS = 1
  MAX_RXGROUPS = 2
  MAX_LISTENERS = 3
  KernelGroups = 1
  MaxChanges = 2
  Vectors = {"SDT", "E131"}
  Senders = {"c1", "c2"}
  Contents = {"x", "y"}
  OwnBlocks <- SomeOwnBlocks
  ForeignBlocks <- SomeForeignBlocks
  MAX_TXBUFS = 4
  SDT_MAX_RESENDS = 2
  Peers = {a1, a2}
  SDT_MAX_CHANNELS = 3
  SDT_MAX_MEMBERS = 3
  CONFIG_MAX_COMPONENTS = 3
  ChannelNumbers = {0, 1}
  MidLimit = 2
  MidWidth = 4
  Octets = {200, 201}
  Locals = {"k1", "k2"}
  Scopes <- SomeScopes
  Hashes = {65535}
  MaxDraws = 2
  Remotes = {"c1", "c2"}
  Properties = {"x", "y"}
  DMP_MAX_SUBSCRIPTIONS = 2
  Starts = {7, 300}
  Incs = {3}
  MaxCount = 2
  MaxRanges = 2
  MaxRefs = 3
  Writers = {"application", "other task"}
  Addrs <- SomeAddrs
  Values <- SomeValues
  Reasons = {1}
  Same = Same
  Blocks <- SomeBlocks
INVARIANTS
  RlpTypeOK
  ListsSound
  
  ExactlyItsUnits
  TxTypeOK
  
  
  
  RecTypeOK
  RecordsSound
  GroupsApart
  
  SubscriptionsHeld
  
  MessagesRead
SYMMETRY Interchangeable
CHECK_DEADLOCK FALSE
