SPECIFICATION BegunSpec
CONSTANTS
  e1 = e1
  e2 = e2
  e3 = e3
  Entries = {e1, e2, e3}
  Kind <- OrdinaryAndInterrupts
  MaxDisturbances = 2
SYMMETRY Alike
INVARIANT TypeOK
INVARIANT FlagsMatchPlace
INVARIANT OneTerminal
INVARIANT AbortedRunReplaced
INVARIANT NoStrandedWork
CHECK_DEADLOCK FALSE
