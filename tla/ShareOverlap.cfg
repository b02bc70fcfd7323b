SPECIFICATION Spec
CONSTANTS
  Request = {r1, r2, r3, r4}
  Token = {t1}
  NoLink = NoLink
  Limits <- TwoOrUnlimited
  Lifetimes <- ShortLife
  Horizon = 1
  Threads = 2
  MayCrash = TRUE
SYMMETRY Interchangeable
\* Every request of the bounded supply may have been used.
CHECK_DEADLOCK FALSE
INVARIANTS CounterWithinLimit RevokedBeforeIsRefused EveryViewCounted
