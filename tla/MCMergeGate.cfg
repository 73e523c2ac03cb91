SPECIFICATION FairSpec
CONSTANTS
  MaxHeads = 2
  w1 = w1
  w2 = w2
  Workflows = {w1, w2}
  Grouped = {w2}
  Returns = FALSE
  MaxStarts = 1
  MaxTries = 1
  Overlap = FALSE
INVARIANTS VerdictIsSound MergesAreVetted RecordedOnce
PROPERTIES EveryHeadIsJudged
CHECK_DEADLOCK FALSE
