SPECIFICATION FairSpec
CONSTANTS
  Task = {t1, t2, t3, t4}
  Max = 2
INVARIANT SlotsAccounted
INVARIANT WorkConserving
INVARIANT NothingLost
PROPERTY FifoStart
PROPERTY SettledIsFinal
PROPERTY EveryTaskSettles
CHECK_DEADLOCK FALSE
