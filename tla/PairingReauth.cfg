CONSTANTS
  n1 = n1
  Pairings = {p1, p2}
  NonceOf <- FreshNonces
  Claims = {c1, c2}
  Polls = {q1}
  Rotations = {}
  MaxFailures = 1
  NoPairing = NoPairing
  NoClaim = NoClaim
  NoPoll = NoPoll
  NoTx = NoTx
SPECIFICATION Spec
INVARIANTS
  ReauthKeepsInstallation
CHECK_DEADLOCK FALSE
