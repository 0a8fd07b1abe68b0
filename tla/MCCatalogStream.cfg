SPECIFICATION FairSpec
CONSTANTS
  f1 = f1
  f2 = f2
  Forms <- MCForms
  FormOrder <- MCFormOrder
  Workers = 2
  Deadline = 3
  Heartbeat = 2
  RetryAfter = 1
  GuardSlots = {1}
  MaxTime = 3
INVARIANTS
  LoadsAreKept
PROPERTIES
  AlwaysEnds
  ImplementsProgress
CHECK_DEADLOCK FALSE
