SPECIFICATION FairSpec
CONSTANTS
  w1 = w1  w2 = w2
  NoChannel = NoChannel
  Channel <- TwoChannels
  Purpose <- Marketing
  Worker <- MCWorkers
  NMessage = 2
  NIntent = 1
  RetryLimit = 1
  MaxFaults = 1
  MaxEdits = 0
INVARIANTS OneAcceptancePerIntent QueuedHasJob ReportsCountOnce
PROPERTIES IntentMovesOn StatusMovesForward
CHECK_DEADLOCK FALSE
