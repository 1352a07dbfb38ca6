CONSTANTS
  c1 = c1
  c2 = c2
  Clients = {c1, c2}
  Users = {c1, c2}
  UserOps = {"create", "write", "mkdir", "remove", "rename"}
  Paths <- MCTwoDirs
  Dirs <- MCDirs
  Excluded = {}
  Empty = Empty
  ErrorPage = ErrorPage
  NoBody = NoBody
  Prompt = TRUE
  Patient = TRUE
  MaxEdits = 2
  MaxFaults = 1
SPECIFICATION FairSpec
CHECK_DEADLOCK FALSE
INVARIANTS
  TypeOK
  PlainPathsAgree
  PlainNotesAgree
  ListenersOnlyRepeat
  PlainPathsNotRepeated
  PlainDirsWatched
  LoneUserAgrees
PROPERTIES
  Settles
