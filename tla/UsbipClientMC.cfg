SPECIFICATION Spec
CONSTANTS
  MaxSeq = 5
  OverflowChecks = TRUE
  StrayAnswers = TRUE
  NoEntry = NoEntry
INVARIANTS
  TypeOK
  NoFalseRejection
  Framed
  NoLeakedEntry
CONSTRAINT
  StraysEarly
CHECK_DEADLOCK FALSE
