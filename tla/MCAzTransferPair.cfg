SPECIFICATION AzSpec
CONSTANTS
  d1 = d1
  r1 = r1
  r2 = r2
  c1 = c1
  c2 = c2
  None = None
  Dysks = {d1}
  Reqs = {r1, r2}
  Writes = {r2}
  DyskOf <- OneDysk
  ReadOnly = {}
  SMP = FALSE
  Conns = {c1, c2}
  MAX_CONNECTIONS = 1
  UIntModulus = 4
  Fns = {"send", "recv"}
  States <- Objects
  Timeout = 1
  ThrottleDefault = 1
  MaxJiffies = 1
  MaxTasks = 3
SYMMETRY Symmetric
INVARIANTS
  OneTaskPerRequest
  OneUserPerConnection
PROPERTY EndedAfterStart
