SPECIFICATION DocumentsSpec
CONSTANTS
  Jobs = {j1}
  Workers = {w1, w2}
  NoJob = NoJob
  NoQuota = NoQuota
  Quotas <- MCQuotas
  MaxFaults = 2
  MaxLosses = 2
  SignIns = {s1, s2}
  Requests = {r1, r2}
  Scopes <- MCScopes
  Identity <- MCIdentity
  NoRecord = NoRecord
INVARIANTS
  SucceededIsDownloadable
  StartedOnce
  RecordClaimsNoMore
PROPERTIES
  AdmittedRequestsSucceed
  ImplementsLifecycle
  KeptWhileHonoured
  RevokedIsNoticed
CHECK_DEADLOCK FALSE
