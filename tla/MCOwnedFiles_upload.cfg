CONSTANTS
  i1 = i1
  p1 = p1
  v1 = v1
  a1 = a1
  a2 = a2
  NoJob = NoJob
  NoPath = NoPath
  NoAttempt = NoAttempt
  Originals = {i1}
  Reports = {}
  Previews = {}
  Attempts = {a1, a2}
  Budget = 2
  MaxJobs = 1
SPECIFICATION Spec
INVARIANTS ReadyOnDisk
CHECK_DEADLOCK FALSE
