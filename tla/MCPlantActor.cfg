CONSTANTS
  login = login
  logout = logout
  request = request
  Call <- MCSession
  LoginCall <- MCLogin
  LogoutCall <- MCLogout
  NoCall = NoCall
  Cap = 1
  NotifyPing = TRUE
SPECIFICATION Spec
INVARIANTS
  TypeOK
  CallersAccounted
  ControlFollowsAnswer
  SilentStopOnlyOnClose
PROPERTY ImplementsService
CHECK_DEADLOCK FALSE
