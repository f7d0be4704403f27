SPECIFICATION MCSpec
CONSTANTS
  Credits = 2
  Payouts = 3
  Amount = {2, 4}
  Day = {0, 4}
  CreditWindow = 3
  InFlightWindow = 2
  NearTolerance = 1
  RoundingTolerance = 0
  ChargeCeiling = 3
  SearchWindow = 6
  MaxCandidates = 3
  MaxCombination = 2
  TriageLimit = 2
  MaxAttempts = 2
  Component <- FewComponents
  MaxComponents = 2
INVARIANT AmbiguousStaysOpen
\* A reconciliation stops when it is done.
CHECK_DEADLOCK FALSE
