SPECIFICATION Spec
CONSTANTS
  NoDevice = NoDevice
  Main = Main
  Callers = {Main, Ep}
  Ep = Ep
  Exports <- MCExports
  BUSID_LEN = 4
  EP0_BUF_SIZE = 1
  Lengths = {0, 1, 2}
  DataStages = {0, 1, 2}
  MaxCmds = 2
INVARIANTS
  CommandsArrive
CHECK_DEADLOCK FALSE
