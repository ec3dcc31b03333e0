SPECIFICATION Spec
CONSTANTS
  StatWorker = {w1, w2}
  Account = {1, 2}
  MaxSlot = 2
  SlotsPerDay = 1
  MaxFullRuns = 2
  MaxStatFaults = 1
  Strategy = {t1}
  ReadyElement = {r1}
  ActionElement = {f1}
  Page = {g1}
  ElementStatus = {"active", "disabled"}
  Definition = {x1}
  ActionId = {i1, i2}
  Client = {c1, c2}
  MaxRevision = 2
  MaxRuns = 1
  MaxSource = 2
  MaxReleases = 2
  NoStrategy = NoStrategy
PROPERTIES
  SaveStopsOnConflict
CHECK_DEADLOCK FALSE
