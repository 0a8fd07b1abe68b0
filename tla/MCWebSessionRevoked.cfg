SPECIFICATION FairSpec
CONSTANTS
  Tickets = {k1}
  SessionIds = {s1}
  Calls = {c1, c2}
  Tabs = {t1}
  Nothing = Nothing
  Delete = Delete
  MayExpire = {s1}
  MaxRetries = 1
  MaxSignedOut = 1
PROPERTY RevokedForGood
CHECK_DEADLOCK FALSE
