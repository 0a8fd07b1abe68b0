SPECIFICATION Spec
CONSTANTS
  Users = {u1}
  Forms = {f1, f2, f3}
  Threads = {t1, t2}
  Idle = Idle
  Limit = 2
  Window = 3
  MaxStall = 1
  MaxTime = 8
SYMMETRY MCSymmetry
INVARIANTS
  RateLimited
  PlacesAreSpread
CHECK_DEADLOCK FALSE
