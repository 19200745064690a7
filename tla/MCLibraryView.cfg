CONSTANTS
  a = a
  b = b
  c = c
  Setters = {ui, watcher}
  UI = ui
  LoaderLimit = 2
  Scans <- TwoRoots
  NoOne = NoOne

SPECIFICATION Spec

INVARIANTS
  ViewOfVersionCurrent
