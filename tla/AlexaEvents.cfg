SPECIFICATION Spec
CONSTANTS
  Endpoints = {e1, e2}
  Names = {n1, n2}
  Values = {v1, v2}
  Workers = {w1, w2}
  Gone = Gone
  Absent = Absent
  MaxRuns = 3
  MaxFaults = 3
SYMMETRY Symmetry
CHECK_DEADLOCK FALSE
INVARIANTS
  TypeOK
  LedgerTrue
  Reconciled
