SPECIFICATION FairSpec
CONSTANTS
  e1 = e1
  e2 = e2
  e3 = e3
  Entries = {e1, e2}
  Kind <- OrdinaryAndVoice
  MaxDisturbances = 1
PROPERTY EveryRowSettled
CHECK_DEADLOCK FALSE
