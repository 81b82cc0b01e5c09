SPECIFICATION FairSpec
CONSTANTS
  Actor = {a1, a2, a3}
  NoActor = NoActor
  MaxRequests = 4
INVARIANT ExclusiveUse
INVARIANT NoPriorityInversion
INVARIANT FreeLockIsIdle
PROPERTY PreemptedRunReturns
PROPERTY EveryWaiterServed
CHECK_DEADLOCK FALSE
