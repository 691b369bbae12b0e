SPECIFICATION Spec
CONSTANTS
  Writers = {w1}
  Bodies = {a}
  MaxRound = 2
  MaxMsgs = 1
  MaxCrashes = 0
  Fresh = TRUE
  NoFile = NoFile
  Torn = Torn
INVARIANTS AllAcksKept
