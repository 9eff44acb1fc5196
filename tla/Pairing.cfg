CONSTANTS
  n1 = n1
  Pairings = {p1, p2}
  NonceOf <- SameNonce
  Claims = {c1, c2}
  Polls = {q1, q2}
  Rotations = {r1, r2}
  MaxFailures = 1
  NoPairing = NoPairing
  NoClaim = NoClaim
  NoPoll = NoPoll
  NoTx = NoTx
SPECIFICATION Spec
SYMMETRY Symmetric
CONSTRAINT RotatedOrRaced
INVARIANTS
  TypeOK
  OneClaim
  DeliveredOnce
  CredentialReachesFlow
  OneUsablePerNonce
  FailuresLimited
  OneActiveCredential
PROPERTIES
  TerminalStatus
CHECK_DEADLOCK FALSE
