CONSTANTS
  s1 = s1
  s2 = s2
  t1 = t1
  Secretaries = {s1, s2}
  dispatcher = dispatcher
  Tasks = {t1}
  MaxCommits = 2
  MaxFaults = 1
SPECIFICATION FairSpec
INVARIANTS
  SentOncePerRun
  DerivedCatchUp
  ArchiveFollowsStatus
PROPERTIES
  ImplementsRunTable
  EveryCallEnds
CHECK_DEADLOCK FALSE
