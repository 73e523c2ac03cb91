SPECIFICATION Spec
CONSTANTS
  Appliers = {p1, p2}
  t1 = t1
  t2 = t2
  Tasks = {t1, t2}
  root = root
  Bases = {main}
  none = none
  MaxApplies = 2
  MaxFaults = 0
INVARIANT OneActivePatternA
CHECK_DEADLOCK FALSE
