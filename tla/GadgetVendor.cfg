SPECIFICATION Spec
CONSTANTS
  None = None
  Main = Main
  Endpoints <- MCEndpoints
  InEndpoints <- MCInEndpoints
  Configs <- OneConfig
  EpDescs <- MCEndpoints
  AddressOf <- MCAddressOf
  DescsOf <- BothDescsOf
  Requests <- VendorRequests
  EP0_BUF_SIZE <- MCBufSize
  HostGivesUp = {}
  HostReselects = FALSE
  HostReadsFirst = TRUE
  InAnswers = TRUE
  MaxSpawns = 2
  MaxPackets = 1
  MaxEvents = 1
PROPERTIES
  AllThreadsJoined
CHECK_DEADLOCK FALSE
