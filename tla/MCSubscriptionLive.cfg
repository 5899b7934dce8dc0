CONSTANTS
  r1 = r1
  r2 = r2
  a1 = a1
  a2 = a2
  Receiver <- MCReceiver
  Account <- MCOneAccount
  Capacity = 2
  Plant = "ticker"
  MaxPublished = 3
SPECIFICATION FairSpec
PROPERTIES
  LastWordReachesAll
  ClosedWhenAllGone
CHECK_DEADLOCK FALSE
