SPECIFICATION FairSpec
CONSTANTS
  Event = {v1}
  Endpoint = {e1, e2}
  Hears <- HearsAll
  NDelays = 1
  JobRetries = 1
  MaxJobs = 3
  MaxCuts = 1
CHECK_DEADLOCK FALSE
INVARIANTS PendingHasJob OneChain NobodyLeftOut
PROPERTY DeliveryEnds
