CONSTANTS
  UserIds = {u1}
  Scopes = {}
  Tokens = {t1, t2}
  FreshIds = {t1, t2}
  LegacyTokens = {}
  Procs = {p1}
  Reqs = {r1, r2}
  SessionTTL = 4
  GraceTTL = 1
  CacheTTL = 1
  ThrottleTTL = 2
  MaxLag = 1
  Faults = {"refuse", "crash", "evict"}
  NoParent = NoParent
  Invalid = Invalid
  DocText = DocText
  NotFound = NotFound
  Absent = Absent
  Null = Null
  Pending = Pending
  Error = Error
SPECIFICATION FairSpec
INVARIANTS NoLocalReplay SlidingExpiry
PROPERTIES BurnIsFinal  EveryRequestAnswered
CHECK_DEADLOCK FALSE
