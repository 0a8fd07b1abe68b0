SPECIFICATION PartsSpec
CONSTANTS
  Tabs = {t1}
  Loads = {l1, l2}
  f1 = f1
  f2 = f2
  f3 = f3
  Forms = {f1, f2}
  Listing <- MCListing
  MaxChanges = 1
  Nothing = Nothing
  DetailsTTL = 2
  OpenTTL = 1
  ClosedTTL = 4
  MaxCount = 2
  NoEntry = NoEntry
  FormOrder <- MCOrder
INVARIANTS
  RestsOnWhole
  MarkIsOnCurrentForm
PROPERTIES
  AbandonedLoadsEnd
  PageSettles
  OpenCountsAreFresh
CHECK_DEADLOCK FALSE
