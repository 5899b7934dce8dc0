SPECIFICATION FairSpec
CONSTANTS
  Strategy <- MCStrategy
  Ring = 2
  MaxAttempt = 4
  MaxFault = 5
INVARIANTS
  TypeOK
  LossIsHeard
PROPERTY Recovers
CHECK_DEADLOCK FALSE
