SPECIFICATION Spec
CONSTANTS
  a = a
  b = b
  Job = {a, b}
  At <- mcAt
  Limits = {0, 2}
  PruneTo = {1}
  MaxSize = 3
  InitialFiles <- mcFiles
  NoFile = NoFile
  Corrupt = Corrupt
  DirSyncMayFail = TRUE
INVARIANTS TypeOK CacheOrdered RestartShowsTheSame AckedIsDurable
PROPERTIES NeverTorn ImplementsRunHistory
