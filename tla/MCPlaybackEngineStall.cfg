CONSTANTS
  Tracks = {a}
  MaxLength = 3
  Capacity = 3
  Chunk = 2
  PrefillParts = 2
  DeviceFrames = 1
  Pull = 2
  Threshold = 2
  Devices = {system}
  Default = system
  VolumeInputs = {50}
  NoTrack = NoTrack
  NoSink = NoSink

SPECIFICATION Spec

INVARIANTS
  EndMeansFinished
