CONSTANTS
  s1 = s1
  s2 = s2
  s3 = s3
  Album <- ThreeSongs
  NoTrack = NoTrack
  PreWarmAhead = 1
  MaxPending = 3

SPECIFICATION Spec

INVARIANTS
  AdvancedOnce
