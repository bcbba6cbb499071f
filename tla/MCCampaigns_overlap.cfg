SPECIFICATION Spec
CONSTANTS
  c1 = c1  c2 = c2  w1 = w1  w2 = w2  s1 = s1
  NoRun = NoRun
  Campaign <- MCCampaign
  Worker <- MCWorkers
  Sweeper <- NoSweeper
  NContact = 1
  MaxRuns = 2
  MaxRunning = 1
  Allowance = 1
  ExpansionChunk = 1
  ReadyPage = 1
  PoisonAttempts = 2
  Poison <- NoPoison
  MaxFaults = 0
SYMMETRY MCSymmetry
INVARIANTS RunsInOrder DraftIsClean CancelledIsQuiet
PROPERTIES EndIsFinal
CHECK_DEADLOCK FALSE
