SPECIFICATION MigrationSpec
CONSTANTS
  MaxCommands = 5
INVARIANT RollbackAlwaysRestores
CHECK_DEADLOCK FALSE
