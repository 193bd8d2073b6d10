CONSTANTS
  r1 = r1
  r2 = r2
  p1 = p1
  e1 = e1
  a1 = a1
  a2 = a2
  u1 = u1
  u2 = u2
  u3 = u3
  k1 = k1
  Original = Original
  NoPath = NoPath
  NoAttempt = NoAttempt
  NoJob = NoJob
  NoKey = NoKey
  Originals = {Original}
  Requests = {r1}
  Profiles = {p1}
  Evaluations = {}
  Attempts = {a1, a2}
  Undoers = {}
  UndoKey <- NoKeys
  UndoKeys = {k1}
  Retention = FALSE
  KeepLast = 1
  Pinnable = {}
  Budget = 2
SPECIFICATION Spec
PROPERTIES TransformationKeepsDataset
CHECK_DEADLOCK FALSE
