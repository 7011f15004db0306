\* Two threads with copies of two requests, results and errors.
CONSTANTS
  Thread = {t1, t2}
  Slot = {s1, s2}
  Request = {r1, r2}
  Answers = {"ok", "failed"}
  Null = Null
SPECIFICATION FairSpec
INVARIANTS
  IInv
PROPERTIES
  WaitDelivers
  Ends
CHECK_DEADLOCK FALSE
