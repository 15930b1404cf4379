SPECIFICATION Spec
CONSTANTS
  a = a
  b = b
  every = every
  odd = odd
  bad = bad
  NoCron = NoCron
  Absent = Absent
  Job = {a}
  Runnable = {a}
  Handler = {h1}
  Triggered = {a}
  Cron = {every, odd, bad}
  Matches <- mcMatches
  Declared <- mcDeclaredOne
  Period = 2
  MaxKept = 1
  SaveMayFail = FALSE
  MaxRuns = 3
  MaxMinute = 4
PROPERTIES TickSkipsRunning
