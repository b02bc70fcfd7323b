CONSTANTS
  UserIds = {u1}
  Scopes = {}
  Tokens = {old, t1}
  FreshIds = {t1}
  LegacyTokens = {old}
  Procs = {p1, p2}
  Reqs = {r1, r2}
  SessionTTL = 3
  GraceTTL = 1
  CacheTTL = 1
  ThrottleTTL = 1
  MaxLag = 0
  Faults = {}
  NoParent = NoParent
  Invalid = Invalid
  DocText = DocText
  NotFound = NotFound
  Absent = Absent
  Null = Null
  Pending = Pending
  Error = Error
SPECIFICATION Spec
PROPERTY BurnIsFinal
CHECK_DEADLOCK FALSE
