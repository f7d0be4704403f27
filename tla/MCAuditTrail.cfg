SPECIFICATION Spec
CONSTANTS
  Worker = {w1, w2}
  Desk = {d1, d2}
  Item = {i1, i2}
  Keep = 1
  Repeats = FALSE
  MaxRuns = 3
  MaxDecisions = 2
  Nobody = Nobody
SYMMETRY McSymmetry
 
 
PROPERTY NewestKept
\* Runs and decisions stop at their bounds.
CHECK_DEADLOCK FALSE
