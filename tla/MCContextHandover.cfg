SPECIFICATION FairSpec
CONSTANTS
  Roles = {"dispatcher", "secretary"}
  MaxInputs = 1
  MaxOps = 2
  MaxCrashes <- MCCrashes
  DiesInGaps = FALSE
PROPERTIES NothingLostSilently ClearSparesConversation ClearedIsFollowedUp
CHECK_DEADLOCK FALSE
