SPECIFICATION GovernanceSpec
CONSTANTS
  Events = {allow, block}
  Times = {1, 2}
  MaxRecords = 3
  MaxChanges = 3
  EditedSequences <- Numbers
  Genesis <- FirstHash
  Hash <- HashOf
  Processes = {p1, p2}
  Names = {n1}
  MaxBumps = 2
  MaxTime = 2
  MayBreak = TRUE
  Latencies = {1, 2}
  WindowAge = 2
  MaxSamples = 3
  Skew = 3
  MaxArrivals = 5
  Base <- Limits
  LimitWindow = 2
  LastSeason = 3
  MaxHits = 7
  MaxEntries = 2
INVARIANTS
  GovernanceTypeOK  HealthyIsComplete  
SYMMETRY Interchangeable
\* The bounds on records, changes, bumps, samples, hits and time end every behaviour.
CHECK_DEADLOCK FALSE
