SPECIFICATION FairSpec
CONSTANTS
  Policies = {"auto", "required", "off"}
  MaxMsgs = 5
  MaxMishaps = 2
  MaxStrays = 1
  UsedRelations = {"supports", "counters", "attacks"}
  CrossDomain = FALSE
  Unset = Unset
INVARIANTS
  TypeOK
  RecheckAgrees
  ContractCertifies
  CertifiedWasDebated
PROPERTIES
  EventuallyCertified
CHECK_DEADLOCK FALSE
