SPECIFICATION FairSpec
CONSTANTS
  Cast <- MCCast
  Claims <- MCClaims
  Sizes = {2, 4}
  AnswerSizes = {2}
  Budget = 5
  MaxAttempts = 2
  MaxKills = 1
  None = None
INVARIANTS
  RecordIsOfThePrompt
  ShiftsWereShown
  HonestShiftsPass
  WindowIsGreedy
  FixedRolesInFull
  ArgumentationReplays
PROPERTY
  EventuallyCommitted
CHECK_DEADLOCK FALSE
