SPECIFICATION FairSpec
CONSTANTS
  Phases = {p, q}
  MaxRound = 1
  MaxMishaps = 1
  MaxPrompts = 1
  MaxSize = 1
  Projected = {p}
  NoFile = NoFile
INVARIANTS
  TypeOK
  CertifiedIsFinished
  AuditedLastIsCertified
PROPERTIES
  NewWorkRevokes
  EventuallyCertified
