SPECIFICATION FairSpec
CONSTANTS
  None = None
  Main = Main
  Endpoints <- MCEndpoints
  InEndpoints <- MCInEndpoints
  Configs <- OneConfig
  EpDescs <- MCEndpoints
  AddressOf <- MCAddressOf
  DescsOf <- BothDescsOf
  Requests <- FewRequests
  EP0_BUF_SIZE <- MCBufSize
  HostGivesUp = {}
  HostReselects = FALSE
  HostReadsFirst = TRUE
  InAnswers = FALSE
  MaxSpawns = 2
  MaxPackets = 1
  MaxEvents = 1
PROPERTIES
  JoinFinishes
CHECK_DEADLOCK FALSE
