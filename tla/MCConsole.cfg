SPECIFICATION Spec
CONSTANTS
  Put = {p, q}
  Get = {g}
  SettingsHost = {h1, h2}
  Never = Never
  MaxOther = 1
  MaxHostDeaths = 1
  s1 = s1
  s2 = s2
  h1 = h1
  h2 = h2
  Session = {s1, s2}
  Host = {h1, h2}
  Homes <- MCHomes
  NoSession = NoSession
  MaxBumps = 3
  MaxPickerFaults = 1
  ExJob = {j1, j2}
  Profile = {p1, p2}
  Visitor = {v1, v2}
  BatchSizes = {1, 2}
  Nobody = Nobody
  MaxExDeaths = 1
  MaxClosers = 2
  j1 = j1
  j2 = j2
  p1 = p1
  p2 = p2
  v1 = v1
  v2 = v2
INVARIANTS
  SettingsSafe
  PickerSafe
  JobsSafe
PROPERTIES
  ChangesSettleOnce
  SessionsEnd
  JobsEndWell
CHECK_DEADLOCK FALSE
