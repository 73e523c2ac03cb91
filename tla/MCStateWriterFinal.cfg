CONSTANTS
  s1 = s1
  s2 = s2
  t1 = t1
  Secretaries = {s1}
  dispatcher = dispatcher
  Tasks = {t1}
  MaxCommits = 3
  MaxFaults = 0
SPECIFICATION Spec
PROPERTIES
  TerminalIsFinal
CHECK_DEADLOCK FALSE
