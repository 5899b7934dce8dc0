CONSTANTS
  login = login
  logout = logout
  request = request
  Call <- MCLogin
  LoginCall <- MCLogin
  LogoutCall <- MCNone
  NoCall = NoCall
  Cap = 1
  NotifyPing = TRUE
SPECIFICATION FairSpec
PROPERTY DeadConnectionStops
CHECK_DEADLOCK FALSE
