SPECIFICATION PromptSpec
CONSTANTS
  d1 = d1
  d2 = d2
  r1 = r1
  r2 = r2
  r3 = r3
  c1 = c1
  c2 = c2
  None = None
  Dysks = {d1, d2}
  Reqs = {r1, r2, r3}
  Writes = {r1, r3}
  DyskOf <- TwoDysks
  ReadOnly = {d2}
  SMP = FALSE
  Conns = {c1, c2}
  MAX_CONNECTIONS = 1
  UIntModulus = 4
  Fns = {"send", "recv"}
  States <- Objects
  Timeout = 9
  ThrottleDefault = 1
  MaxJiffies = 5
  MaxTasks = 3
  MaxFaults = 2
INVARIANT PoolCountExact
PROPERTY ImplementsBlockDevice
