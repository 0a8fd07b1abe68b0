SPECIFICATION FairCallSpec
CONSTANTS
  Callers = {c1, c2, c3}
  NoCaller = NoCaller
  NotCached = NotCached
  Ttl = 2
  MaxStall = 1
  MaxClockTime = 5
INVARIANTS
  OneLoadAtATime
  HitsAreFresh
PROPERTIES
  EveryCallEnds
CHECK_DEADLOCK FALSE
