SPECIFICATION Spec
CONSTANTS
  Requests = {r1, r2, r3}
  Stages = {50}
  BadStages = {7}
  EnvStage = 10
  EnvHold = FALSE
  Bucket = 30
  Codes = {1, 2}
  MinCode = 2
  None = None
  CacheTTL = 1
  MaxLag = 1
  MaxTime = 4
  MaxSettings = 2
  MayFail = FALSE
PROPERTIES  AnswersAreRecent
SYMMETRY Interchangeable
\* The last tick and the answered requests end every behaviour.
CHECK_DEADLOCK FALSE
