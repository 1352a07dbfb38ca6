\* Two clients edit the same note while neither is connected.
SPECIFICATION Spec
CONSTANTS
  c1 = c1
  c2 = c2
  Clients = {c1, c2}
  Listeners = {}
  Paths <- MCOneFile
  Dirs = {}
  Excluded = {}
  Empty = Empty
  ErrorPage = ErrorPage
  NoBody = NoBody
  NoShot = NoShot
  MaxTime = 2
  MaxEdits = 2
  MaxSyncs = 2
  MaxFaults = 0
PROPERTIES
  LaterEditWins
SYMMETRY ClientSymmetry
CHECK_DEADLOCK FALSE
