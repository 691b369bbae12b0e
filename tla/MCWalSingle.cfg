SPECIFICATION FairSpec
CONSTANTS
  Writers = {w1}
  Bodies = {a}
  MaxRound = 2
  MaxMsgs = 2
  MaxCrashes = 2
  Fresh = TRUE
  NoFile = NoFile
  Torn = Torn
INVARIANTS
  OneFilePerRound
  FinalsValid
  FinalInProgress
  StoredAcksKept
  ResumeIsWritable
PROPERTIES
  ImplementsRoundLog
  EventuallyFinal
