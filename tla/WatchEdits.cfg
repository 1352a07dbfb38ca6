\* A user creates, writes and removes two notes, and everything goes on running.
SPECIFICATION FairSpec
CONSTANTS
  a = a
  b = b
  Notes = {a, b}
  Absent = Absent
  Empty = Empty
  ErrorPage = ErrorPage
  NoNote = NoNote
  Cap = 1
  Prompt = FALSE
  UserOps = {"create", "write", "remove"}
  RemoteOps = {}
  MaxEdits = 4
  MaxRemote = 0
  MaxFaults = 0
INVARIANTS
  EditsHaveCarrier
PROPERTIES
  EditsArrive
  MirrorsEdits
CHECK_DEADLOCK FALSE
