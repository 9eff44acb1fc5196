CONSTANTS
  h1 = h1
  h2 = h2
  s1 = s1
  s2 = s2
  s3 = s3
  c1 = c1
  c2 = c2
  c3 = c3
  k1 = k1
  k2 = k2
  f1 = f1
  f2 = f2
  Installations = {h1}
  Sessions = {s1, s2}
  InstallationOf <- OneHome
  Commands = {k1, k2}
  Fingerprints = {f1, f2}
  Calls = {c1, c2, c3}
  CompletedCap = 1
  NoSession = NoSession
  NoCall = NoCall
  NoCommand = NoCommand
  NoFingerprint = NoFingerprint
  NoAnswer = NoAnswer
SPECIFICATION Spec
SYMMETRY Symmetric
CONSTRAINT Slices
INVARIANTS
  TypeOK
  NoOrphan
  AnswerIsOwn
  SentOnce
  MarkHasOwner
  CacheConsistent
  ReplacedIsClosed
PROPERTIES
  OnlyOwnerOrSuccessor
  ResultThroughOwner
CHECK_DEADLOCK FALSE
