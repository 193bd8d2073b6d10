CONSTANTS
  t1 = t1
  t2 = t2
  u1 = u1
  w1 = w1
  w2 = w2
  d1 = d1
  d2 = d2
  NoTask = NoTask
  NoClaim = NoClaim
  Tasks = {t1, t2}
  Imports = {t2}
  AutoRetry = {t1, t2}
  Owners = {u1}
  Owner <- OneOwner
  MaxActive = 1
  Budget <- TwoAttempts
  LeaseRetries = 2
  Workers = {w1, w2}
  Dispatchers = {d1, d2}
  MaxFaults = 2
SPECIFICATION Spec
SYMMETRY Symmetry
INVARIANTS SingleOwner PublishedOnce PublicationSent IntentKept CapacityRespected
PROPERTIES LifecycleContract
CONSTRAINT OneJobOrUndisturbed
CHECK_DEADLOCK FALSE
