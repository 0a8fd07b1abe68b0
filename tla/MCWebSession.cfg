SPECIFICATION FairSpec
CONSTANTS
  Tickets = {k1}
  SessionIds = {s1}
  Calls = {c1, c2}
  Tabs = {t1, t2}
  Nothing = Nothing
  Delete = Delete
  MayExpire = {s1}
  MaxRetries = 1
  MaxSignedOut = 1
PROPERTIES
  NoNeedlessSignOut
  RevokedIsLetGo
  EveryRunEnds
CHECK_DEADLOCK FALSE
