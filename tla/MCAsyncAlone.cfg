\* One thread, three requests, no errors: what the destructor and the assignments promise.
CONSTANTS
  Thread = {t1}
  Slot = {s1, s2, s3}
  Request = {r1, r2, r3}
  Answers = {"ok"}
  Null = Null
SYMMETRY Symmetry
SPECIFICATION Spec
INVARIANTS
  NoRequestLost
  AloneInv
PROPERTIES
  NoLateWrite
CHECK_DEADLOCK FALSE
