CONSTANTS
  UserIds = {u1}
  Scopes = {}
  Tokens = {t1}
  FreshIds = {t1}
  LegacyTokens = {}
  Procs = {p1}
  Reqs = {r1, r2}
  SessionTTL = 3
  GraceTTL = 1
  CacheTTL = 1
  ThrottleTTL = 1
  MaxLag = 0
  Faults = {}
  NoParent = NoParent
  Invalid = Invalid
  DocText = DocText
  NotFound = NotFound
  Absent = Absent
  Null = Null
  Pending = Pending
  Error = Error
SPECIFICATION Spec
INVARIANTS
  OwnerNotForbidden
CHECK_DEADLOCK FALSE
