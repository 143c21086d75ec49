SPECIFICATION Spec
CONSTANTS
  Inputs <- MCInputs
  Layouts <- MCLayouts
INVARIANTS
  TypeOK
  InBounds
  FoundApart
  MatchesReference
PROPERTIES
  Terminates
CHECK_DEADLOCK FALSE
