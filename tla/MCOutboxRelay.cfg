CONSTANTS
  secretary = secretary
  old = old
  new = new
  Recipients = {secretary}
  Dispatchers = {old, new}
  Serves <- MCServes
  Limit = 1
  Backfills <- MCBackfills
  StaleMin = 0
  MaxEvents = 2
  MaxFaults = 2
SPECIFICATION FairSpec
INVARIANTS
  SendsAreRecorded
  OutageReportedFirst
PROPERTIES
  HaltIsHonest
  ZeroMiss
  ImplementsContract
