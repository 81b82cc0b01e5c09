SPECIFICATION FairSpec
CONSTANTS
  p = p
  m = m
  i1 = i1
  i2 = i2
  i3 = i3
  Lane = {p, m}
  Provider <- MCProvider
  MaxInterval = 1
  Item = {i1, i2, i3}
  Candidates <- MCCandidates
  NoLane = NoLane
  Slots = 1
  MaxDisturbances = 1
INVARIANT TypeOK
INVARIANT OneClaimPerClock
 
PROPERTY NormalStartsSpaced
 
CHECK_DEADLOCK FALSE
