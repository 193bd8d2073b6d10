CONSTANTS
  r1 = r1
  r2 = r2
  p1 = p1
  e1 = e1
  a1 = a1
  a2 = a2
  u1 = u1
  u2 = u2
  u3 = u3
  k1 = k1
  Original = Original
  NoPath = NoPath
  NoAttempt = NoAttempt
  NoJob = NoJob
  NoKey = NoKey
  Originals = {Original}
  Requests = {r1, r2}
  Profiles = {p1}
  Evaluations = {e1}
  Attempts = {a1, a2}
  Undoers = {u1, u2, u3}
  UndoKey <- OneShared
  UndoKeys = {k1}
  Retention = TRUE
  KeepLast = 1
  Pinnable = {Original}
  Budget = 2
SPECIFICATION Spec
SYMMETRY Symmetry
CONSTRAINT Explored
INVARIANTS TypeOK WriterKeepsOutput BusyHasJob ProfileIsCurrent AnswersAgree EvaluationsAgree
INVARIANTS ReferencedOnDisk LiveHistory InputKept HistoryChained OnePending
PROPERTIES JobContract  HistoryContract
CHECK_DEADLOCK FALSE
