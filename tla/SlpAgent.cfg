SPECIFICATION Spec
CONSTANTS
  DAs = {d1, d2}
  Urls = {u1}
  Others = {o1}
  NULL = NULL
  App = {"register", "discover", "deregister", "close"}
  MAX_DA = 1
  MAX_RQST = 2
  SLP_RETRIES = 2
  CONFIG_RETRY = 1
  CONFIG_MC_MAX = 2
  CONFIG_MC_RETRY_COUNT = 1
  CONFIG_DA_FIND = 1
  CONFIG_START_WAIT = 0
  CONFIG_DA_BEAT = 3
  CONFIG_REG_ACTIVE = 0
  REFRESH = 2
  LIFETIME = 3
  MaxDelay = 1
  MaxInFlight = 1
  MaxAsks = 1
  MaxBoots = 2
INVARIANTS
  TypeOK
  RegisteredOrOnTheWay

  
CHECK_DEADLOCK FALSE
SYMMETRY Symmetry
