\* The dispatcher, whose watcher may die once.
SPECIFICATION Spec
CONSTANTS
  Roles = {"dispatcher"}
  MaxInputs = 1
  MaxOps = 2
  MaxCrashes <- MCCrashesOfDispatcher
  DiesInGaps = FALSE
PROPERTY NothingLostSilently
CHECK_DEADLOCK FALSE
