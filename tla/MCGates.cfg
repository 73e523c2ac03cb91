SPECIFICATION GatesSpec
CONSTANTS
  t1 = t1
  a = a
  b = b
  d1 = d1
  d2 = d2
  NoDir = NoDir
  Unlimited = Unlimited
  Tasks = {t1}
  Dirs = {a, b}
  Dispatchers = {d1}
  MaxPanes = 2
  MaxNotes = 1
  SelfEditDirs = {a}
  Files <- ThreeFiles
  Widths = {48, 80}
  Heights = {5, 24}
  Disturbances = {}
  MaxDispatches = 2
  MaxSends = 2
  Hooks = {h1, h2}
  DefaultAllowed = 1
  Allowances = {0, 2, Unlimited}
  MaxGrants = 5
  PaneIds = {1, 2}
  MaxAttempts = 2
  MaxVerified = 2
  MaxReplies = 2
  Branches <- Histories
  MaxPushes = 3
  MaxChecks = 2
  Curators = {h1, h2}
  WorkerDirs = {d1, d2}
  MaxCommands = 5
  h1 = h1
  h2 = h2
SYMMETRY Symmetry
INVARIANTS GatesTypeOK SpawnsAreVerified WorkerHasApproval ReviewsWithinAllowance ClosedAfterItsRetro PassedMeansFixed ArchiveIsSafe MigrationIsSafe
CHECK_DEADLOCK FALSE
