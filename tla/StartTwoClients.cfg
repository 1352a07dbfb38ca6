\* Two clients, one of which listens while the other synchronises.
SPECIFICATION StartSpec
CONSTANTS
  c1 = c1
  c2 = c2
  Clients = {c1, c2}
  Listeners = {c1, c2}
  Paths <- MCPaths
  Dirs <- MCDirs
  Excluded = {}
  Empty = Empty
  ErrorPage = ErrorPage
  NoBody = NoBody
  NoShot = NoShot
  AtOnce = FALSE
  MaxTime = 1
  MaxEdits = 2
  MaxSyncs = 3
  MaxFaults = 1
INVARIANTS
  ListenersAgree
PROPERTIES
  RemovalNeedsTombstone
CONSTRAINT TimeOrFault
SYMMETRY MCClientSymmetry
CHECK_DEADLOCK FALSE
