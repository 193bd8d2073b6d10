CONSTANTS
  i1 = i1
  p1 = p1
  v1 = v1
  a1 = a1
  a2 = a2
  NoJob = NoJob
  NoPath = NoPath
  NoAttempt = NoAttempt
  Originals = {i1}
  Reports = {p1}
  Previews = {v1}
  Attempts = {a1, a2}
  Budget = 2
  MaxJobs = 1
SPECIFICATION FairSpec
INVARIANTS CompletedHasFile TargetAgrees
PROPERTIES ReadyFileKept OwnedContract OwnedFilesCollected
CHECK_DEADLOCK FALSE
