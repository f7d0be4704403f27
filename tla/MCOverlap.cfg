SPECIFICATION Spec
CONSTANTS
  Run = {r1, r2, r3}
  Desk = {d1, d2}
  Key = {k1}
  External = {k1}
  Repeatable = {k1}
  MaxCases = 2
  NoOne = NoOne
  r1 = r1
  r2 = r2
  r3 = r3
  d1 = d1
  d2 = d2
  k1 = k1
SYMMETRY Symmetric
INVARIANT TypeOK
INVARIANT OnlyPeopleSettle
INVARIANT HistoryOpensWithDetection
INVARIANT NothingOfUnfinishedWork
\* Runs and resolves are used once each; when all are spent the system stops.
CHECK_DEADLOCK FALSE
