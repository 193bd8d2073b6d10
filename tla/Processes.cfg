SPECIFICATION Spec
CONSTANTS
  HttpRequests = {r1, r2}
  Accounts = {u1}
  Anonymous = anonymous
  MaxUploads = 1
  MaxAttempts = 1
  UploadLimit = 1
  BodyLimit = 1
  MaxBody = 2
  Queries = {q1, q2}
  Charts = {kpi}
  Paths = {p1, p2}
  Lengths = {1, 2}
  MaxConcurrent = 1
  MaxEntries = 2
  MaxBytes = 3
  MaxChanges = 1
  Activities = {a1, a2}
  MaxIntents = 3
  LastRevision = 4
  MaxResets = 1
  Files = {snapshot1, report1}
  Snapshots = {snapshot1}
  Published = {report1}
INVARIANTS
  UploadsBounded
  ChartAnswers
  ChartsBounded
  UndoneOnce
  ArchiveConsistent
PROPERTIES
  ChildEnds
  SchedulerRecurs
