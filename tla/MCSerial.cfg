SPECIFICATION SerialSpec
CONSTANTS
  Run = {r1, r2, r3}
  Desk = {d1, d2}
  Key = {k1, k2}
  External = {k2}
  Repeatable = {}
  MaxCases = 2
  NoOne = NoOne
  r1 = r1
  r2 = r2
  r3 = r3
  d1 = d1
  d2 = d2
  k1 = k1
  k2 = k2
SYMMETRY Symmetric
INVARIANT ResolutionInForce
INVARIANT HistoryExplainsStatus
INVARIANT ResolvedRunMatchesStatus
PROPERTY SettledStaysSettled
PROPERTY FirstSeenKept
PROPERTY ImplementsLedger
\* Runs and resolves are used once each; when all are spent the system stops.
CHECK_DEADLOCK FALSE
