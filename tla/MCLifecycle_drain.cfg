SPECIFICATION Spec
CONSTANTS
  a = a
  b = b
  Proc = {a}
  Modes <- mcTUI
  ProbeMayTimeOut = FALSE
INVARIANTS FailureIsReported
