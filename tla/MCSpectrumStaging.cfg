CONSTANTS
  Size = 2
  MaxBlocks = 4
  None = None

SPECIFICATION Spec

INVARIANTS
  TornOnlyWhenLapped
  ShownIsLatest

CHECK_DEADLOCK FALSE
