CONSTANTS
  Capacity = 4
  Laps     = 2
  MaxBlock = 3
  NoSample = NoSample

SPECIFICATION Spec

INVARIANTS
  TypeOK
  DataIntact
  NoDataRace
PROPERTIES
  CheckedBlockFits
  ImplementsFifo
