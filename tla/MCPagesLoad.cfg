SPECIFICATION PagesSpec
CONSTANTS
  Readers = {r1, r2}
  Lifetime = 2
  Stall = 1
  MaxClock = 5
  NoValue = NoValue
  States = {s1, s2}
  Callbacks = {h1, h2}
  Nobody = Nobody
  Forms = {}
  Tallies = {}
  Anonymity = {TRUE, FALSE}
  Grids = {}
  Matchings = {}
  Samples = {}
  Pairs = {}
  Scans = {}
  Courses = {}
  Pictures = {}
  Prints = {}
  Calls <- MCCalls
  Stages <- MCStages
  SheetTables <- MCSheet
  Files <- MCFiles
  WithFiles = {1}
  NoFile = NoFile
  Life <- MCLife
  MaxTime = 5
  NoEntry = NoEntry
  NoPdf = NoPdf
  Threads = {t1, t2}
  c1 = c1
  c2 = c2
  Credentials = {c1, c2}
  Account <- MCAccount
  DRIVE_PAGE_SIZE = 2
  DRIVE_MAX_FORMS = 3
INVARIANT LoadErrorsAreSurfaced
