SPECIFICATION Spec
CONSTANTS
  Obligation = {o1, o2, o3}
  NoParent = NoParent
SYMMETRY Symmetric
CHECK_DEADLOCK FALSE
INVARIANT NoCombinedCycle
