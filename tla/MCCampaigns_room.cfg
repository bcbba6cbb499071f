SPECIFICATION Spec
CONSTANTS
  c1 = c1  c2 = c2  w1 = w1  w2 = w2  s1 = s1
  NoRun = NoRun
  Campaign <- MCCampaigns
  Worker <- MCWorker
  Sweeper <- MCSweeper
  NContact = 1
  MaxRuns = 1
  MaxRunning = 1
  Allowance = 1
  ExpansionChunk = 1
  ReadyPage = 1
  PoisonAttempts = 1
  Poison <- NoPoison
  MaxFaults = 0

SYMMETRY MCCampaignSymmetry
INVARIANTS FirstRunHasJob
CHECK_DEADLOCK FALSE
