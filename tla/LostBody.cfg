\* A download is interrupted before the answer comes.
SPECIFICATION Spec
CONSTANTS
  c1 = c1
  c2 = c2
  Clients = {c1, c2}
  Listeners = {}
  Paths <- MCOneFile
  Dirs = {}
  Excluded = {}
  Empty = Empty
  ErrorPage = ErrorPage
  NoBody = NoBody
  NoShot = NoShot
  MaxTime = 1
  MaxEdits = 1
  MaxSyncs = 3
  MaxFaults = 1
INVARIANTS
  OnlyUserBytes
SYMMETRY ClientSymmetry
CHECK_DEADLOCK FALSE
