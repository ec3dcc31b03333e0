SPECIFICATION SettleSpec
CONSTANTS
  s1 = s1
  s2 = s2
  k1 = k1
  k2 = k2
  a1 = a1
  d1 = d1
  d2 = d2
  pA = pA
  SubTask = {s1, s2}
  Task = {k1, k2}
  Account = {a1}
  Device = {d1, d2}
  NoDevice = NoDevice
  NoProfile = NoProfile
  TaskOf <- TwoTasks
  AccountOf <- OneAccount
  ProfileOf <- Shared
  Preferred <- Homes
  ParentsOf <- NoEdges
  Probe = {s2}
  Scheduled = {k1}
  Rank <- Order
  DeviceRank <- DeviceIds
  TickRequest = {t1}
  Operator = {}
  Limit = 1
  MaxRetry = 1
  CircuitBreaker = 2
  Outcomes = {"success", "retry"}
  Evidence = {"none"}
  Reliable = {d2}
  Events = {"account", "silence", "lost result"}
  MaxFaults = 2
PROPERTIES
  EverySubTaskSettles
  ProbeDecides
CHECK_DEADLOCK FALSE
