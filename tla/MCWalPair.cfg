SPECIFICATION Spec
CONSTANTS
  Writers = {w1, w2}
  Bodies = {a}
  MaxRound = 2
  MaxMsgs = 1
  MaxCrashes = 0
  Fresh = FALSE
  NoFile = NoFile
  Torn = Torn
INVARIANTS
  SequentialRounds
  NoFalseFinalEvent
SYMMETRY WriterSymmetry
VIEW PairView
CHECK_DEADLOCK FALSE
