SPECIFICATION BridgeSpec
CONSTANTS
  MaxSeq = 3
  OverflowChecks = TRUE
  StrayAnswers = TRUE
  NoEntry = NoEntry
  Callers = {c1, c2}
  c1 = c1
  c2 = c2
SYMMETRY CallerSymmetry
INVARIANTS
  AnswerMatchesCall
  ReaderNeverBlocks
  WaiterIsRegistered
CHECK_DEADLOCK FALSE
