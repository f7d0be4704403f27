SPECIFICATION SerialSpec
CONSTANTS
  Run = {r1}
  Desk = {d1}
  Key = {k1}
  External = {k1}
  Repeatable = {k1}
  MaxCases = 2
  NoOne = NoOne
  r1 = r1
  d1 = d1
  k1 = k1
INVARIANT OneRowPerCase
\* Runs and resolves are used once each; when all are spent the system stops.
CHECK_DEADLOCK FALSE
