SPECIFICATION LoopsSpec
CONSTANTS
  Callers = {c1, c2}
  Tasks = {w1, w2, w3}
  MaxJobs = 2
  None = None
  Nodes = {n1, n2}
  Operators = {o1, o2}
  Loops = {l1, l2, l3}
  NoLoop = NoLoop
  Requested = {"predatorcontrolgraph_engine", "predatorcontrolgraphenginelarge", "shapes", "predatorshardworker"}
  Lengths = {0, 1, 2, 9}
  NotAList = 9
  NoName = NoName
  Blocked = Blocked
  NoValue = NoValue
  Tokens = {"${", "}", ".", "item", "a", "__proto__"}
  MaxLength = 6
  Types = {"item"}
  Known <- KnownValues
  BlockedKeys = {"__proto__"}
  Keys = {"a", "b", "__proto__"}
  Samples <- SampleTexts
  MaxKeys = 3
  Undefined = Undefined
  PayloadSizes <- SomePayloads
  Overhead = 1
  maxVaultCapacity = 5
  MaxListeners = 2
  MaxCalls = 2
  MaxScript = 1
INVARIANTS OneOfEach  ParamsResolved ListenersAreServed
PROPERTIES EveryWaitEnds
\* A job that survives its cancellation leaves those who stop the worker waiting for ever.
CHECK_DEADLOCK FALSE
