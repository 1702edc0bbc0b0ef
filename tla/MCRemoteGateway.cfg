SPECIFICATION Spec
CONSTANTS
  t1 = t1
  t2 = t2
  p1 = p1
  p2 = p2
  r0 = r0
  r1 = r1
  Free = Free
  Threads = {t1, t2}
  Principals = {p1, p2}
  Records = {r0, r1}
  Privacy <- MCPrivacy
  Ceiling <- MCCeiling
  Configured <- MCConfigured
  Allowed <- MCAllowed
  MaxRequests = 2
  MaxMutations = 1
  MaxAuditRecords = 5
  MaxFiles = 4
INVARIANTS TypeOK EffectsAreAudited AnsweredIsOwned OwnershipIsDurable ReadsStayEntitled QuotasHold
PROPERTIES RequestsEnd
CHECK_DEADLOCK FALSE
