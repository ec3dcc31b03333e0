SPECIFICATION Spec
CONSTANTS
  a = a
  b = b
  st = st
  Alias = {a, b}
  Strategy = {st}
  DepChoice <- MCDeps
  CoverChoice <- MCCovers
  Tick = {t, u}
  Web = web
  Reader = reader
  MaxEffects = 3
  MaxDisturbances = 2
  Hook = {1, 2}
  Dispatcher = {d, e}
  AttemptLimit = 2
  MaxDispatchFaults = 2
  c1 = c1
  c2 = c2
  Call = {c1, c2}
  KeyChoice <- MCKeys
  WebProcess = {w1, w2}
  Nobody = Nobody
  Refusal = Refusal
  MaxRunFaults = 1
  Attempt = {p, q}
  NoAttempt = none
  FormerAttempt = former
  MaxVersion = 2
  MaxFlush = 1
  MaxFaults = 1
INVARIANTS
  PublicationSafe
  EffectsSafe
  RequestsSafe
PROPERTIES
  PublicationSettles
  FailuresEndWell
  DeliveriesSettleOnce
  RequestsEndOnce
CHECK_DEADLOCK FALSE
