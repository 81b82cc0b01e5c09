SPECIFICATION FairSpec
CONSTANTS
  b1 = b1
  b2 = b2
  c1 = c1
  c2 = c2
  Broker <- Brokers
  Consumer <- Consumers
  home <- Homes
  NoBroker = NoBroker
  MaxIssued = 2
  MaxLogins = 1
  MaxCrashes = 1
CHECK_DEADLOCK FALSE
INVARIANT SpentIsKnown
PROPERTY NoBlindReplay
PROPERTY EveryRequestAnswered
