SPECIFICATION FairSpec
CONSTANTS
  a = a
  b = b
  every = every
  odd = odd
  bad = bad
  NoCron = NoCron
  Absent = Absent
  Job = {a, b}
  Runnable = {a, b}
  Handler = {h1}
  Triggered = {b}
  Cron = {every, odd}
  Matches <- mcMatches
  Declared <- mcDeclaredEvery
  Period = 2
  MaxKept = 1
  SaveMayFail = FALSE
  MaxRuns = 3
  MaxMinute = 3
INVARIANTS AtMostOneLive LatestIsNewest IdleLatestIsRecorded
PROPERTIES ImplementsJobRuns StopReturns DueIsLaunched EveryRunEnds
