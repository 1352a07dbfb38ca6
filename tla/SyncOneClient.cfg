\* One client that runs clientsync and one that only listens, a directory with
\* a note in it beside a hidden directory, and a fault.
SPECIFICATION FairSpec
CONSTANTS
  c1 = c1
  w = w
  Clients = {c1}
  Listeners = {w}
  Paths <- MCMixedPaths
  Dirs <- MCMixedDirs
  Excluded <- MCTrash
  Empty = Empty
  ErrorPage = ErrorPage
  NoBody = NoBody
  NoShot = NoShot
  MaxTime = 2
  MaxEdits = 3
  MaxSyncs = 3
  MaxFaults = 1
INVARIANTS
  TypeOK
  ListenerSeesServer
  HiddenStaysLocal
PROPERTIES
  RemovalNeedsTombstone
  SyncTerminates
CHECK_DEADLOCK FALSE
