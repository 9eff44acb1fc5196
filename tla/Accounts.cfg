SPECIFICATION Spec
CONSTANTS
  MaxTime = 5
  Requests = {1, 2, 3, 4}
  Codes = {1, 2, 3, 4}
  Exchanges = {11, 12, 13}
  Tabs = {t1, t2}
  Tenants = {a, b}
  LoginWindow = 1
  MaxLoginFailures = 1
  SessionLife = 2
  CsrfLife = 0
  CodeLife = 1
  Day = 3
  Hour = 2
  RetryDelay = 1
  AttemptRetention = 3
  MaxSteps = 5
  MaxFailures = 1
  None = None
  Absent = Absent
  Never = Never
SYMMETRY Symmetry
CONSTRAINT Slices
CHECK_DEADLOCK FALSE
INVARIANTS
  TypeOK
  
  LoginsLimited
  OneLivePair
  CleanedDaily
PROPERTIES
  SessionsEnd
