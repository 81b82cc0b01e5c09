SPECIFICATION FairScheduleSpec
CONSTANTS
  Row = {o1}
  Interval = 3
  CronEvery = 4
  MaxTime = 5
  MaxEdits = 3
  MaxWriteFailures = 3
  MaxCrashes = 1
CHECK_DEADLOCK FALSE
INVARIANT ScheduleTypeOK
INVARIANT DeadlineCovered
PROPERTY NoBusyTimer
PROPERTY DueIsDelivered
