SPECIFICATION Spec
CONSTANTS
  Tickets = {k1, k2}
  SessionIds = {s1, s2}
  Calls = {c1, c2}
  Tabs = {t1, t2}
  Nothing = Nothing
  Delete = Delete
  MayExpire = {}
  MaxRetries = 1
  MaxSignedOut = 1
SYMMETRY MCSymmetry
INVARIANTS
  TabsAreSound
CHECK_DEADLOCK FALSE
