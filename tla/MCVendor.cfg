SPECIFICATION FairSpec
CONSTANTS
  Entries = {"contract"}
  Members = {"engine"}
  Strays = {"stray"}
  Caches = {"pyc"}
  Contents = {1, 2}
  MaxEdits = 1
  MaxCommits = 2
  MaxLocals = 1
  MaxKills = 1
  Absent = Absent
  Torn = Torn
  Unknown = Unknown
INVARIANTS
  VerifiedIsWhole
  PinIsTrue
PROPERTY
  VendoringRepairs
