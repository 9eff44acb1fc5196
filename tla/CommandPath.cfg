CONSTANTS
  q1 = q1
  q2 = q2
  q3 = q3
  d1 = d1
  Requests = {q1, q2, q3}
  Directives = {d1}
  NoDirective = NoDirective
  DirectiveOf <- Twice
  Uuids = {d1}
  Relative = {d1}
  NoRequest = NoRequest
  ReplayCap = 1
  CompletedCap = 1
  ResultsCap = 1
  MaxFaults = 1
SYMMETRY Deliveries
SPECIFICATION Spec
INVARIANTS
  TypeOK
  ActsOnce
PROPERTIES
  KeepsPromise
CHECK_DEADLOCK FALSE
