SPECIFICATION FairSpec
CONSTANTS
  o1 = o1
  o2 = o2
  OrderId = {o1, o2}
  PaymentId = {"p1", "p2"}
  None = None
  Method = {"card", "upi", "cash"}
  Money <- McMoney
  Day = {0, 2, 5, 6}
  CaptureWindow = 4
  Unknown = 99
  RateCard <- McRateCard
  Tolerance = 1
  Caller = {"run"}
  Worker = "run"
  Prompt <- McPrompt
  NoPrompt = NoPrompt
  Chain <- McChain
  Models = 2
  RetryAttempts = 2
  BreakerThreshold = 2
  Record = TRUE
  Sources <- McSources
  Required <- McRequired
  SampleSize = 2
  Input <- McInput
INVARIANT TypeOK
INVARIANT NothingClaimedTwice
INVARIANT NamedPaymentWins
INVARIANT OrdersAccountedFor
INVARIANT ReversalsAccountedFor
INVARIANT WaterfallAddsUp
INVARIANT FaultsAreReal
INVARIANT RetriesAreEarned
INVARIANT GateHolds
PROPERTY BreakerHolds
PROPERTY EveryRunEnds
\* A reconciliation stops when it is done.
CHECK_DEADLOCK FALSE
