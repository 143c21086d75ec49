SPECIFICATION FairSpec
CONSTANTS
  NoDevice = NoDevice
  Main = Main
  Callers = {Main, Ep}
  Ep = Ep
  Exports <- MCExports
  BUSID_LEN = 4
  EP0_BUF_SIZE = 1
  Lengths = {0, 1, 2}
  DataStages = {0, 1}
  MaxCmds = 3
INVARIANTS
  StreamTypeOK
  InStep
  AnswerIsWhole
  ImportsFirstListed
  PlaysImported
  CommandsArrive
PROPERTIES
  HandshakeEnds
  CommandsDelivered
CHECK_DEADLOCK FALSE
