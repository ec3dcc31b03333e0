SPECIFICATION Execution
CONSTANTS
  p = p
  c = c
  Assignment = {p, c}
  Account = {a1, a2}
  NoAccount = NoAccount
  NoParent = NoParent
  Parent <- MCParent
  MaxCampaignRevision = 99
  MaxRevision = 99
  MaxPrepare = 99
  BatchSize = 3
  Retries = 2
  Events = {"page", "open", "close", "resolve"}
  MaxCalls = 4
  MaxDeaths = 0
PROPERTIES
  ApprovedIsSettled
  EligibleIsTaken
CHECK_DEADLOCK FALSE
