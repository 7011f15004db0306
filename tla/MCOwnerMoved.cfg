\* Providers in a vector that grows.
CONSTANTS
  Place = {p1, p2, p3}
  Movable = {p1, p2, p3}
  Impl = {i1, i2, i3}
  Null = Null
  MaxCallbacks = 5
SYMMETRY Symmetry
SPECIFICATION Spec
INVARIANTS
  CallbacksAlive
CHECK_DEADLOCK FALSE
