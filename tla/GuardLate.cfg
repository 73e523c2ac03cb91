SPECIFICATION GuardSpec
CONSTANTS
  MaxFixes = 1
  MaxWatchers = 2
  MaxRows = 5
  MaxForeign = 1
INVARIANT LiveWheneverLate
CHECK_DEADLOCK FALSE
