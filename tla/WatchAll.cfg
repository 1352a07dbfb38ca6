\* Everything at once: all a user and another client may do, an unreachable
\* server.
SPECIFICATION Spec
CONSTANTS
  a = a
  b = b
  Notes = {a, b}
  Absent = Absent
  Empty = Empty
  ErrorPage = ErrorPage
  NoNote = NoNote
  Cap = 1
  Prompt = FALSE
  UserOps = {"create", "write", "remove", "rename", "moveout", "chmod"}
  RemoteOps = {"upload", "remove", "rename"}
  MaxEdits = 2
  MaxRemote = 1
  MaxFaults = 1
INVARIANTS
  TypeOK
  TimersPassOnWrites
SYMMETRY NoteSymmetry
CHECK_DEADLOCK FALSE
