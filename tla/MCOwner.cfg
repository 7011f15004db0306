\* Providers that are made, moved out of two places and destroyed, line by line, while the engine finalizes.
CONSTANTS
  Place = {p1, p2, p3}
  Movable = {p1, p2}
  Impl = {i1, i2, i3}
  Null = Null
  MaxCallbacks = 4
SPECIFICATION Spec
INVARIANTS
  
  PinnedAlive
  IInv
PROPERTIES
  GoneFirst
CHECK_DEADLOCK FALSE
