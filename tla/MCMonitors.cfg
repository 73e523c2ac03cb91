SPECIFICATION MonitorsSpec
CONSTANTS
  t1 = t1
  a = a
  b = b
  MaxFixes = 1
  MaxWatchers = 2
  MaxRows = 4
  MaxForeign = 1
  Prs = {5, 6}
  OwnTab <- SecretaryTab
  FullTab <- WholeTab
  MaxSpawns = 6
  MaxMessages = 3
  MaxClock = 2
  StaleAfter = 1
  MaxRestarts = 1
  MaxJournal = 5
  Pids = {1, 2, 3}
  NoPid = 0
  Brokers = {7, 8}
  Askers = {t1}
  Callers = {a, b}
  MaxEntries = 2
  MaxMinutes = 1
SYMMETRY Symmetry
INVARIANTS MonitorsTypeOK VerdictsHold PanesAreSound StopSparesOthers LatestSpeaksForAll
PROPERTIES AlarmsAreRight
CHECK_DEADLOCK FALSE
