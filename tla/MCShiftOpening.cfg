SPECIFICATION Spec
CONSTANTS
  Cast <- MCCast
  Claims <- MCClaims
  Sizes = {2, 4}
  AnswerSizes = {2}
  Budget = 5
  MaxAttempts = 2
  MaxKills = 1
  None = None
INVARIANT ArgumentationSeesFraming
CHECK_DEADLOCK FALSE
