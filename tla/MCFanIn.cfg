SPECIFICATION FanInSpec
CONSTANTS
  a1 = a1
  a2 = a2
  a3 = a3
  p1 = p1
  p2 = p2
  Agents = {a1, a2, a3}
  Personas = {p1, p2}
  NoPersona = NoPersona
  Values = {"x", "y"}
  SpawnOrders <- ValidOrders
  MaxBatches = 3
INVARIANTS
  TypeOK
  NoPayloadReuse
  BoundToItsOwner
  CompleteIsSound
  AnsweredNotMissing
  DeliveryIrrelevant
CHECK_DEADLOCK FALSE
