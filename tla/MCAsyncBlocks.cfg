\* One thread that uses one AsyncRequest for two calls.
CONSTANTS
  Thread = {t1}
  Slot = {s1}
  Request = {r1, r2}
  Answers = {"ok"}
  Null = Null
SPECIFICATION Spec
INVARIANTS
  NonBlocking
CHECK_DEADLOCK FALSE
