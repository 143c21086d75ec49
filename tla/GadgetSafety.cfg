SPECIFICATION Spec
CONSTANTS
  None = None
  Main = Main
  Endpoints <- MCEndpoints
  InEndpoints <- MCInEndpoints
  Configs <- MCConfigs
  EpDescs <- MCEndpoints
  AddressOf <- MCAddressOf
  DescsOf <- MCDescsOf
  Requests <- MCRequests
  EP0_BUF_SIZE <- MCBufSize
  HostGivesUp = {}
  HostReselects = FALSE
  HostReadsFirst = TRUE
  InAnswers = TRUE
  MaxSpawns = 2
  MaxPackets = 2
  MaxEvents = 1
INVARIANTS
  GadgetTypeOK
  HostAgreesWithDevice
  EndpointsServed
  LiveThreadsFit
  PacketsInOrder
  MainStaysUp
PROPERTIES
  AllThreadsJoined
CHECK_DEADLOCK FALSE
