SPECIFICATION Execution
CONSTANTS
  p = p
  q = q
  Assignment = {p, q}
  Account = {a1, a2, a3}
  NoAccount = NoAccount
  NoParent = NoParent
  Parent <- MCParent
  MaxCampaignRevision = 99
  MaxRevision = 99
  MaxPrepare = 99
  BatchSize = 1
  Retries = 2
  Events = {"page", "resume", "late_reject", "close"}
  MaxCalls = 5
  MaxDeaths = 0
SYMMETRY Accounts
INVARIANTS
  NoReplay
CHECK_DEADLOCK FALSE
