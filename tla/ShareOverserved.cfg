SPECIFICATION Spec
CONSTANTS
  Request = {r1, r2, r3, r4}
  Token = {t1}
  NoLink = NoLink
  Limits <- TightLimit
  Lifetimes <- LongLife
  Horizon = 1
  Threads = 4
  MayCrash = FALSE
SYMMETRY Interchangeable
CHECK_DEADLOCK FALSE
INVARIANT ServedWithinLimit
