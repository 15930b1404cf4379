SPECIFICATION Spec
CONSTANTS
  daily = daily
  weekly = weekly
  odd = odd
  yes = yes
  no = no
  Handler = {h1, h2}
  Other = other
  Schedule = {daily, weekly, odd}
  Setting = {yes, no}
  Valid = {daily, weekly}
  Accepted = {daily, weekly, odd}
  Absent = Absent
  SaveMayFail = FALSE
INVARIANTS LastUpdateIsInForce
