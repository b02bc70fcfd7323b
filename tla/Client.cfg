SPECIFICATION ClientSpec
CONSTANTS
  Tabs = {t1, t2}
  Drains = {d1, d2}
  MaxOps = 2
  MaxReloads = 1
  MaxOutages = 1
  MayFail = TRUE
  Replicas = {r1, r2}
  People = {alice, bob}
  Owner = alice
  NoTarget = NoTarget
  MaxTime = 3
  MaxEdits = 3
  MaxSealed = 2
  DistinctTimes = TRUE
  Ttl = 4
  Warning = 1
  Throttle = 1
  MaxDelay = 1
  MaxTokens = 2
  MaxPageTime = 10
  Assets = {a1, a2}
  STATIC_ASSETS = {a1}
  MaxRelease = 3
  MaxFetches = 2
INVARIANTS
  ClientTypeOK NothingIsDropped  LastWriterWins
   StaticAssetsAreCurrent
SYMMETRY Interchangeable
\* The bounds on operations, outages, reloads, sealed documents, time and releases end every behaviour.
CHECK_DEADLOCK FALSE
