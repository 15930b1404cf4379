SPECIFICATION Spec
CONSTANTS
  Max <- mcMax
  DaysIn <- mcDaysIn
  Expressions <- mcExpressions
INVARIANTS TypeOK FiresWhenDue ShortcutsAreOnTime
CHECK_DEADLOCK FALSE
