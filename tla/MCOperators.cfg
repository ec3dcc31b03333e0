SPECIFICATION OperatorsSpec
CONSTANTS
  p = p
  q = q
  Assignment = {p, q}
  Account = {a1, a2, a3}
  NoAccount = NoAccount
  NoParent = NoParent
  Parent <- MCParent
  MaxCampaignRevision = 99
  MaxRevision = 99
  MaxPrepare = 99
  BatchSize = 2
  Retries = 2
  Events = {"page", "pause", "cancel", "reject", "late_reject", "open", "redis", "exception", "job_death"}
  MaxCalls = 3
  MaxDeaths = 1
  User = {u1, u2}
  Root = u1
  Browser = {r1, r2}
  FailureLimit = 1
  MaxChanges = 2
  Process = {g1, g2, g3}
  KeyRetries = 3
  MaxKeyFaults = 2
SYMMETRY Alike
INVARIANTS
  NoCommentLeftBehind
  SignsAlike
PROPERTIES
  AccountsHold
CHECK_DEADLOCK FALSE
