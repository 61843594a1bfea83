CONSTANTS
  MaxQueries = 3
  MaxDup = 1
SPECIFICATION ConnectSpec
INVARIANT NothingLost
CHECK_DEADLOCK FALSE
