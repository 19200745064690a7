CONSTANTS
  Tracks = {a, b}
  MaxLength = 5
  Capacity = 3
  Chunk = 2
  PrefillParts = 2
  DeviceFrames = 2
  Pull = 3
  Threshold = 2
  Devices = {system, headset}
  Default = system
  VolumeInputs = {50, 130}
  NoTrack = NoTrack
  NoSink = NoSink

SPECIFICATION FairSpec

INVARIANTS
  AudioInOrder
  TearDownIsSafe
  OneConsumer
  StateMatchesDevice
  SinkAsChosen
PROPERTIES
  ImplementsPlayer
  CommandsEnd
  EndNoticed
