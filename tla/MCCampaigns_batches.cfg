SPECIFICATION Spec
CONSTANTS
  c1 = c1  c2 = c2  w1 = w1  w2 = w2  s1 = s1
  NoRun = NoRun
  Campaign <- MCCampaign
  Worker <- MCWorkers
  Sweeper <- MCSweeper
  NContact = 2
  MaxRuns = 1
  MaxRunning = 1
  Allowance = 1
  ExpansionChunk = 1
  ReadyPage = 2
  PoisonAttempts = 1
  Poison <- FirstContact
  MaxFaults = 0
SYMMETRY MCSymmetry
INVARIANTS TallyMatches SentOnce
PROPERTIES OutcomeIsFinal DoneMeansDecided ImplementsOutcomes
CHECK_DEADLOCK FALSE
