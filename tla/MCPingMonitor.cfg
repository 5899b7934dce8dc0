CONSTANTS
  Interval <- MCInterval
  Timeout <- MCTimeout
  WriteLimit <- MCWriteLimit
  Slack <- MCSlack
  MaxTime = 24
  None = None
SPECIFICATION Spec
INVARIANTS
  TypeOK
  SilenceBounded
  TimeoutWithPongOnlyAfterWrite
  PongIsForPending
PROPERTY ReplacedOnlyWhenHeldUp
CHECK_DEADLOCK FALSE
