\* A user writes a note and renames it before the write is passed on.
SPECIFICATION Spec
CONSTANTS
  a = a
  b = b
  Notes = {a, b}
  Absent = Absent
  Empty = Empty
  ErrorPage = ErrorPage
  NoNote = NoNote
  Cap = 2
  Prompt = FALSE
  UserOps = {"write", "rename"}
  RemoteOps = {}
  MaxEdits = 2
  MaxRemote = 0
  MaxFaults = 0
INVARIANTS
  QuietMeansSynced
SYMMETRY NoteSymmetry
CHECK_DEADLOCK FALSE
