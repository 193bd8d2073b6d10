CONSTANTS
  i1 = i1
  p1 = p1
  v1 = v1
  a1 = a1
  a2 = a2
  NoJob = NoJob
  NoPath = NoPath
  NoAttempt = NoAttempt
  Originals = {}
  Reports = {p1}
  Previews = {}
  Attempts = {a1, a2}
  Budget = 2
  MaxJobs = 1
SPECIFICATION FairSpec
PROPERTIES DeletedReportCollected
CHECK_DEADLOCK FALSE
