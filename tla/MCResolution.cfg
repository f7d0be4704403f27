SPECIFICATION MCFairSpec
CONSTANTS
  Credits = 2
  Payouts = 3
  Amount = {2, 3, 4}
  Day = {0, 4}
  CreditWindow = 3
  InFlightWindow = 2
  NearTolerance = 1
  RoundingTolerance = 1
  ChargeCeiling = 3
  SearchWindow = 6
  MaxCandidates = 3
  MaxCombination = 2
  TriageLimit = 2
  MaxAttempts = 2
  Component <- AnyComponent
  MaxComponents = 2
INVARIANT TypeOK
INVARIANT NothingMatchedTwice
INVARIANT UtrWins
INVARIANT NoGapSwallowed
INVARIANT EverythingAccountedFor
INVARIANT AbsenceMatchesClaims
INVARIANT ModelClosesOnEvidence
PROPERTY EveryRunEnds
PROPERTY NeverGuesses
PROPERTY DecidedOnce
PROPERTY ImplementsAssignment
\* A reconciliation stops when it is done.
CHECK_DEADLOCK FALSE
