\* Either the user renames and removes, or another client uploads, renames and
\* removes.
SPECIFICATION Spec
CONSTANTS
  a = a
  b = b
  c = c
  Notes = {a, b, c}
  Absent = Absent
  Empty = Empty
  ErrorPage = ErrorPage
  NoNote = NoNote
  Cap = 1
  Prompt = TRUE
  UserOps = {"rename", "remove"}
  RemoteOps = {"upload", "remove", "rename"}
  MaxEdits = 4
  MaxRemote = 3
  MaxFaults = 0
INVARIANTS
  RenamesArrive
  NothingEchoed
  NamesArrive
SYMMETRY NoteSymmetry
CONSTRAINT OneSided
CHECK_DEADLOCK FALSE
