CONSTANTS
  login = login
  logout = logout
  request = request
  Call <- MCLogout
  LoginCall <- MCNone
  LogoutCall <- MCLogout
  NoCall = NoCall
  Cap = 1
  NotifyPing = TRUE
SPECIFICATION FairSpec
PROPERTY DisconnectStops
CHECK_DEADLOCK FALSE
