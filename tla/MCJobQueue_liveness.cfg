CONSTANTS
  t1 = t1
  t2 = t2
  u1 = u1
  w1 = w1
  w2 = w2
  d1 = d1
  d2 = d2
  NoTask = NoTask
  NoClaim = NoClaim
  Tasks = {t1}
  Imports = {}
  AutoRetry = {t1}
  Owners = {u1}
  Owner <- OneOwner
  MaxActive = 1
  Budget <- TwoAttempts
  LeaseRetries = 2
  Workers = {w1, w2}
  Dispatchers = {d1}
  MaxFaults = 2
SPECIFICATION FairSpec
PROPERTIES AcceptedJobsEnd CancellationsEnd
CHECK_DEADLOCK FALSE
