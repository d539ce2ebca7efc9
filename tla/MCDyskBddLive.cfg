SPECIFICATION FairBddSpec
CONSTANTS
  h = h
  d1 = d1
  d2 = d2
  p1 = p1
  k = k
  n1 = n1
  s1 = s1
  s2 = s2
  None = None
  HeadDysk = h
  Dysks = {h, d1, d2}
  Callers = {p1}
  Kthread = k
  Names = {n1}
  MAX_DYSKS = 1
  SLOT_BITS = 1
  MaxRequests = 1
  Fns = {"send", "recv", "del"}
  States = {s1, s2}
  Timeout = 1
  ThrottleDefault = 1
  MaxJiffies = 1
  MaxTasks = 2
INVARIANTS
  MisuseNeedsFailure
  FailedIsBeingDeleted
PROPERTIES
  ImplementsWorker
  DeletedIsFreed
  MarkedTasksDrain
CHECK_DEADLOCK FALSE
