CONSTANTS
  a = a
  b = b
  c = c
  d = d
  Setters = {ui, watcher}
  LoaderLimit = 3
  Scans <- TwoRootsAndNone
  NoOne = NoOne

SPECIFICATION FairLibSpec

INVARIANTS
  OneRoot
  LoadersCurrent
  NoAlbumTwice
PROPERTIES
  RootChangesEnd
  AlbumsGetLoaded
