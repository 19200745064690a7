CONSTANTS
  Keys <- MCKeys
  MaxKeys = 3
  Bytes <- MCBytes
  MaxBytes = 5
  MaxPath = 5
  Albums <- MCAlbums
  Loaded = {1, 2, 3, 4}
  Tracks = 2
  kThemes <- MCThemes
  kVisuals <- MCThemes
  Outputs <- MCOutputs
  Lines <- MCLines
  KeyStep = 50
  IntMax = 400
  MaxQueue = 2

SPECIFICATION Spec

INVARIANTS
  TextArrives
  PathIsSound
  AnswerReadsBack
  VolumeSettles

CHECK_DEADLOCK FALSE
