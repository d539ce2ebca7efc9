SPECIFICATION AzSpec
CONSTANTS
  d1 = d1
  r1 = r1
  c1 = c1
  None = None
  Dysks = {d1}
  Reqs = {r1}
  Writes = {}
  DyskOf <- OneDysk
  ReadOnly = {}
  SMP = FALSE
  Conns = {c1}
  MAX_CONNECTIONS = 1
  UIntModulus = 4
  Fns = {"send", "recv"}
  States <- Objects
  Timeout = 1
  ThrottleDefault = 1
  MaxJiffies = 3
  MaxTasks = 3
INVARIANT AllOrNone
