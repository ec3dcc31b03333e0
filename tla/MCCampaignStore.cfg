SPECIFICATION BoundedSpec
CONSTANTS
  p = p
  c = c
  g = g
  Assignment = {p, c, g}
  Account = {a1, a2, a3}
  NoAccount = NoAccount
  NoParent = NoParent
  Parent <- MCParent
  MaxCampaignRevision = 5
  MaxRevision = 13
  MaxPrepare = 1
SYMMETRY Accounts
INVARIANTS
  TypeOK
  ReplyOnlyUnderVerifiedParent
  ReceiptMatchesStatus
  SubmitUsesFrozenIdentity
  ApprovalsFollowTheirRow
  DistinctPublishers
PROPERTIES
  VerifiedIsFinal
  PausesAreExact
CHECK_DEADLOCK FALSE
