SPECIFICATION ReturningSpec
CONSTANTS
  Request = {r1, r2}
  Hash = {h1, h2}
  NoState = NoState
  Salts <- EarlySalt
  Window = 1
  StateTTL = 2
  MaxAge = 1
  Baseline = TRUE
  Horizon = 4
CHECK_DEADLOCK FALSE
INVARIANTS AdmittedWasProven 
PROPERTY EveryRequestAnswered
