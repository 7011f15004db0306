\* One thread, one request that fails.
CONSTANTS
  Thread = {t1}
  Slot = {s1}
  Request = {r1}
  Answers = {"ok", "failed"}
  Null = Null
SPECIFICATION Spec
INVARIANTS
  ToldOnce
CHECK_DEADLOCK FALSE
