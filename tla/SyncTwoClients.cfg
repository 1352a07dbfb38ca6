\* Two clients whose runs interleave, a directory with a note in it, a fault.
SPECIFICATION Spec
CONSTANTS
  c1 = c1
  c2 = c2
  Clients = {c1, c2}
  Listeners = {}
  Paths <- MCPaths
  Dirs <- MCDirs
  Excluded = {}
  Empty = Empty
  ErrorPage = ErrorPage
  NoBody = NoBody
  NoShot = NoShot
  MaxTime = 1
  MaxEdits = 2
  MaxSyncs = 3
  MaxFaults = 1
INVARIANTS
  CalmSyncAgrees
PROPERTIES
  CalmSyncRespectsMtimes
SYMMETRY ClientSymmetry
CHECK_DEADLOCK FALSE
