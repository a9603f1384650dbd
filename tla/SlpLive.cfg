SPECIFICATION LiveSpec
CONSTANTS
  DAs = {d1}
  Urls = {u1}
  Others = {o1}
  NULL = NULL
  App = {"register", "deregister"}
  MAX_DA = 1
  MAX_RQST = 3
  SLP_RETRIES = 2
  CONFIG_RETRY = 1
  CONFIG_MC_MAX = 5
  CONFIG_MC_RETRY_COUNT = 1
  CONFIG_DA_FIND = 5
  CONFIG_START_WAIT = 0
  CONFIG_DA_BEAT = 4
  CONFIG_REG_ACTIVE = 1
  REFRESH = 3
  LIFETIME = 5
  MaxDelay = 1
  MaxInFlight = 0
  MaxAsks = 1
  MaxBoots = 1
PROPERTIES
  EventuallyRegistered
  RequestsEnd
  SilentDaDropped
  GhostsFade
CHECK_DEADLOCK FALSE
