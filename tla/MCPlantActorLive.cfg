CONSTANTS
  login = login
  logout = logout
  request = request
  Call <- MCLogin
  LoginCall <- MCLogin
  LogoutCall <- MCNone
  NoCall = NoCall
  Cap = 1
  NotifyPing = FALSE
SPECIFICATION FairSpec
PROPERTIES
  ConnectionLossStops
  EveryCallEnds
  QueuedAbortStops
CHECK_DEADLOCK FALSE
