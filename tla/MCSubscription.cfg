CONSTANTS
  r1 = r1
  r2 = r2
  a1 = a1
  a2 = a2
  Receiver <- MCReceiver
  Account <- MCAccount
  Capacity = 1
  Plant = "order"
  MaxPublished = 3
SPECIFICATION Spec
INVARIANTS
  TypeOK
  DeliveredOrCounted
CHECK_DEADLOCK FALSE
