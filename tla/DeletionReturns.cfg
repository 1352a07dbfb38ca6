\* One client creates a note, synchronises, deletes it and synchronises.
SPECIFICATION Spec
CONSTANTS
  c1 = c1
  Clients = {c1}
  Listeners = {}
  Paths <- MCOneFile
  Dirs = {}
  Excluded = {}
  Empty = Empty
  ErrorPage = ErrorPage
  NoBody = NoBody
  NoShot = NoShot
  MaxTime = 2
  MaxEdits = 2
  MaxSyncs = 3
  MaxFaults = 0
INVARIANTS
  DeletionsPropagate
CHECK_DEADLOCK FALSE
