SPECIFICATION Spec
CONSTANTS
  w1 = w1  w2 = w2
  NoChannel = NoChannel
  Channel <- ThreeChannels
  Purpose <- BothPurposes
  Worker <- MCWorker
  NMessage = 3
  NIntent = 1
  RetryLimit = 1
  MaxFaults = 0
  MaxEdits = 1
INVARIANTS OneTryPerChannel
 
CHECK_DEADLOCK FALSE
