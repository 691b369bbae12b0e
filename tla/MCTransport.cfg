SPECIFICATION TransportSpec
CONSTANTS
  a1 = a1
  a2 = a2
  a3 = a3
  p1 = p1
  p2 = p2
  Agents = {a1, a2, a3}
  Personas = {p1, p2}
  NoPersona = NoPersona
  Values = {"x", "y"}
  SpawnOrders <- Orders
  MaxLines = 3
  MaxCrashes = 2
  Timeouts = TRUE
  NoFile = NoFile
INVARIANTS
  TypeOK
  BatchesMatchSpawn
  OkResultIsCurrent
  CollectReplays
  LossIsVisible
