SPECIFICATION Spec
CONSTANTS
  a = a
  b = b
  on = on
  here = here
  json = json
  sqlite = sqlite
  Plugin = {a, b}
  Setting = {k}
  Value = {on, off}
  Dir = {here}
  Backend = {json, sqlite}
  Known = {json}
  Blank = Blank
  Unset = Unset
  Default <- MCDefault
  Missing = Missing
  Corrupt = Corrupt
  Edit <- MCEdit
  Env <- MCEnv
  NoEnv <- MCNoEnv
  NoFile = NoFile
  Empty = Empty
  Idle = Idle
  MaxPuts = 2
  MaxEdits = 1
  MaxRotations = 1
INVARIANTS TypeOK AcceptedIsKept GlobalsAreTheAdmins SavedFileStarts
PROPERTIES AuthNeverLapses
