SPECIFICATION AssignmentSpec
CONSTANTS
  Appliers = {p1}
  t1 = t1
  t2 = t2
  Tasks = {t1, t2}
  root = root
  Bases = {main, develop}
  none = none
  MaxApplies = 4
  MaxFaults = 2
  Scans = {main, develop}
  Issues = {1}
  MaxTexts = 1
  MaxHour = 2
  DayLength = 2
  Cooldown = 2
  Cap = 1
  Daily = 1
  BatchMax = 1
  MaxCalls = 2
  h1 = h1
  o1 = o1
  p1 = p1
  q1 = q1
  Home = {h1}
  Other = {o1}
  BasePulls = {p1}
  MainPulls = {q1}
  OpenLimit = 2
  MergeLimit = 2
  MaxNow = 1
  MaxChanges = 3
  topic1 = topic1
  Branches = {main, develop}
  Topics = {topic1}
  unset = unset
  MaxCommits = 2
  MaxTries = 3
  MaxMishaps = 1
  Repos = {1, 2}
  Numbers = {1}
  PullNumbers = {8, 9}
  TopN = 1
  BatchSize = 1
  RecentMerges = 1
  MaxEvents = 3
SYMMETRY Alike
INVARIANTS AssignmentTypeOK ReservedIsSendable SeparateDirs BasesMatch CutsAreSound SpendingIsBounded ProposalsAreSound
PROPERTIES NeverRepointed RankingIsSteady
CHECK_DEADLOCK FALSE
