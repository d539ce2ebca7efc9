SPECIFICATION FairSpec
CONSTANTS
  d1 = d1
  d2 = d2
  r1 = r1
  c1 = c1
  c2 = c2
  None = None
  Dysks = {d1}
  Reqs = {r1}
  Writes = {}
  DyskOf <- OneDysk
  ReadOnly = {}
  SMP = TRUE
  Conns = {c1, c2}
  MAX_CONNECTIONS = 1
  UIntModulus = 4
  Fns = {"send", "recv"}
  States <- Objects
  Timeout = 1
  ThrottleDefault = 1
  MaxJiffies = 1
  MaxTasks = 3
  MaxFaults = 0
PROPERTY NewIsEnded
