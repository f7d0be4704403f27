SPECIFICATION Spec
CONSTANTS
  Client = {c1, c2}
  Second = 2
  Minute = 2
  Hour = 4
  PerMinute = 2
  PerHour = 2
  ModelPerDay = 1
  MaxTracked = 1
  NoDay = NoDay
  MaxDelay = 1
  NoClient = NoClient
  Midnight = 3
  MaxTick = 5
  MaxAsked = 4
  Caller = {h1, h2}
  Prompt = {"q"}
  NoPrompt = NoPrompt
  Chain <- McChain
  Models = 1
  RetryAttempts = 1
  BreakerThreshold = 2
  Record = TRUE
SYMMETRY McSymmetry
INVARIANT EveryClientLimited
\* The clock stops at its bound.
CHECK_DEADLOCK FALSE
