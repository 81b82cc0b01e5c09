SPECIFICATION Spec
CONSTANTS
  Obligation = {o1, o2, o3}
  NoParent = NoParent
INVARIANT NoWaitCycle
INVARIANT LiveChildHoldsParent
INVARIANT NothingStranded
INVARIANT ReadyIsUnblocked
INVARIANT SomeoneCanWork
SYMMETRY Symmetric
CHECK_DEADLOCK FALSE
