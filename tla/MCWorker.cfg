SPECIFICATION SpecPass
CONSTANTS
  d1 = d1
  d2 = d2
  s1 = s1
  s2 = s2
  s3 = s3
  f = f
  Dysks = {d1, d2}
  Fns = {f}
  States = {s1, s2, s3}
  Timeout = 1
  ThrottleDefault = 1
  MaxJiffies = 3
  MaxTasks = 3
SYMMETRY Symmetric
INVARIANTS
  TypeOK
  CursorOnTask
  PassVisitsAll
PROPERTIES
  ThrottledTasksWait
  RetriesKeepDeadline
CHECK_DEADLOCK FALSE
