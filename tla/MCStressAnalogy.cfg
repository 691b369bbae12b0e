SPECIFICATION Spec
CONSTANTS
  Policies = {"auto"}
  MaxMsgs = 5
  MaxMishaps = 0
  MaxStrays = 0
  UsedRelations = {"supports", "counters"}
  CrossDomain = TRUE
  Unset = Unset
INVARIANTS
  ContractCertifies
CHECK_DEADLOCK FALSE
