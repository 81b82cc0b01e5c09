SPECIFICATION Spec
CONSTANTS
  x = x
  y = y
  z = z
  p = p
  px = px
  q = q
  a = a
  b = b
  Lane = {x, y, z}
  Scope = {p, px, q}
  Covers <- MCCovers
  Actor = {a, b}
  Pool <- MCPool
  NoLane = NoLane
  MaxTime = 3
  MaxChanges = 3
INVARIANT TypeOK
INVARIANT WithheldForReason
PROPERTY OpenPoolStarts
CHECK_DEADLOCK FALSE
