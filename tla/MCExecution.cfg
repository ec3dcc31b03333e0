SPECIFICATION Execution
CONSTANTS
  p = p
  c = c
  Assignment = {p, c}
  Account = {a1, a2, a3}
  NoAccount = NoAccount
  NoParent = NoParent
  Parent <- MCParent
  MaxCampaignRevision = 99
  MaxRevision = 99
  MaxPrepare = 99
  BatchSize = 3
  Retries = 2
  Events = {"page", "pause", "resume", "reject", "resolve", "retry", "redis", "close", "observe",
            "exception", "job_death", "restart"}
  MaxCalls = 3
  MaxDeaths = 1
SYMMETRY Accounts
INVARIANTS
  ExecutionSafe
  NoReplay
PROPERTIES
  Spec
CHECK_DEADLOCK FALSE
