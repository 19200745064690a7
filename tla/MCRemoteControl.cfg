CONSTANTS
  Instances = {app, daemon}
  Daemons = {daemon}
  Clients = {c1, c2}
  Backlog = 1
  None = None

SPECIFICATION FairSpec

INVARIANTS
  ListenerIsReached
  OwnAnswer
PROPERTIES
  QuitEnds
  BacklogMoves

CHECK_DEADLOCK FALSE
