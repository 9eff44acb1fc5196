CONSTANTS
  Entities = {e1, e2}
  Values = {v1, v2}
  Absent = Absent
  Keep = Keep
  Sessions = {s1, s2}
  NoSession = NoSession
  MaxChanges = 2
SPECIFICATION Spec
INVARIANTS
  LatestStateSent
CHECK_DEADLOCK FALSE
