SPECIFICATION FairSpec
CONSTANTS
  a = a
  b = b
  Proc = {a, b}
  Modes <- mcPair
  ProbeMayTimeOut = TRUE
INVARIANTS TypeOK ExitIsClean HeadlessFailureReported
PROPERTIES DuplicateEnds SignalEnds
