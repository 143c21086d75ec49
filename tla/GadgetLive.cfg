SPECIFICATION FairSpec
CONSTANTS
  None = None
  Main = Main
  Endpoints <- MCInEndpoints
  InEndpoints <- MCInEndpoints
  Configs <- OneConfig
  EpDescs <- MCInEndpoints
  AddressOf <- OneAddressOf
  DescsOf <- OneDescsOf
  Requests <- LiveRequests
  EP0_BUF_SIZE <- MCBufSize
  HostGivesUp = {"reset", "request"}
  HostReselects = TRUE
  HostReadsFirst = FALSE
  InAnswers = TRUE
  MaxSpawns = 2
  MaxPackets = 1
  MaxEvents = 2
INVARIANTS
  ConfigurationTaken
  NoRequestLost
PROPERTIES
  LastThreadsJoined
  JoinFinishes
  EveryRequestAnswered
CHECK_DEADLOCK FALSE
