SPECIFICATION FairSpec
CONSTANTS
  Strategy <- MCRetry
  Ring = 2
  MaxAttempt = 2
  MaxFault = 2
PROPERTY PersistentConnection
CHECK_DEADLOCK FALSE
