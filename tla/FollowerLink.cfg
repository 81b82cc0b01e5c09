SPECIFICATION Spec
CONSTANTS
  MaxEvents = 4
  Fragments = 2
  Large = {3}
  BatchMax = 2
  MaxFaults = 2
INVARIANT TypeOK
PROPERTY ImplementsChannel
PROPERTY QueueDrains
CHECK_DEADLOCK FALSE
