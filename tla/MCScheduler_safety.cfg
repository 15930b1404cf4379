SPECIFICATION Spec
CONSTANTS
  a = a
  b = b
  every = every
  odd = odd
  bad = bad
  NoCron = NoCron
  Absent = Absent
  Job = {a, b}
  Runnable = {a, b}
  Handler = {h1}
  Triggered = {a, b}
  Cron = {every, odd, bad}
  Matches <- mcMatches
  Declared <- mcDeclared
  Period = 2
  MaxKept = 1
  SaveMayFail = TRUE
  MaxRuns = 3
  MaxMinute = 4
INVARIANTS TypeOK ScheduleCacheCoherent GuardIsExact RecordsAreFinal StopQuiesces
PROPERTIES MinutesAdvance
