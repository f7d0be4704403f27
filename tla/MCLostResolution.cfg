SPECIFICATION Spec
CONSTANTS
  Run = {r1, r2}
  Desk = {d1}
  Key = {k1}
  External = {k1}
  Repeatable = {}
  MaxCases = 1
  NoOne = NoOne
  r1 = r1
  r2 = r2
  d1 = d1
  k1 = k1
PROPERTY SettledStaysSettled
\* Runs and resolves are used once each; when all are spent the system stops.
CHECK_DEADLOCK FALSE
