\* A user writes a note twice, the second time as the debouncer fires.
SPECIFICATION Spec
CONSTANTS
  a = a
  Notes = {a}
  Absent = Absent
  Empty = Empty
  ErrorPage = ErrorPage
  NoNote = NoNote
  Cap = 2
  Prompt = FALSE
  UserOps = {"write"}
  RemoteOps = {}
  MaxEdits = 2
  MaxRemote = 0
  MaxFaults = 0
INVARIANTS
  ResetFindsTimer
SYMMETRY NoteSymmetry
CHECK_DEADLOCK FALSE
