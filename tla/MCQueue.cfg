SPECIFICATION QueueSpec
CONSTANTS
  s1 = s1
  s2 = s2
  k1 = k1
  a1 = a1
  a2 = a2
  d1 = d1
  d2 = d2
  pA = pA
  t1 = t1
  t2 = t2
  o1 = o1
  o2 = o2
  SubTask = {s1, s2}
  Task = {k1}
  Account = {a1, a2}
  Device = {d1, d2}
  NoDevice = NoDevice
  NoProfile = NoProfile
  TaskOf <- OneTask
  AccountOf <- Accounts
  ProfileOf <- Shared
  Preferred <- Homes
  ParentsOf <- NoEdges
  Probe = {}
  Scheduled = {}
  Rank <- Order
  DeviceRank <- DeviceIds
  TickRequest = {t1, t2}
  Operator = {o1, o2}
  Limit = 2
  MaxRetry = 1
  CircuitBreaker = 2
  Outcomes = {"success", "retry", "fatal"}
  Evidence = {"none"}
  Reliable = {d1, d2}
  MaxFaults = 2
  Events = {"silence", "expiry", "requeue"}
  Planner = {l1, l2}
  Profile = {m1, m2, m3}
  Comment = {1, 2, 3}
  Tag = {tall}
  Text = {hi, yo}
  Tree <- Trees
  m1 = m1
  m2 = m2
  m3 = m3
  tall = tall
  hi = hi
  yo = yo
  MaxTemplateRevision = 3
  MaxPlanRevision = 3
  MaxProfileChanges = 3
INVARIANTS
  PlanningSafe
  
  QueueSafe
PROPERTIES
  SealedPlanStands
  FencedQueue
CHECK_DEADLOCK FALSE
