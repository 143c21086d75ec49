SPECIFICATION BridgeSpec
CONSTANTS
  MaxSeq = 4
  OverflowChecks = TRUE
  StrayAnswers = FALSE
  NoEntry = NoEntry
  Callers = {c1, c2}
  c1 = c1
  c2 = c2
INVARIANTS
  DrainReachesEveryCall
CHECK_DEADLOCK FALSE
