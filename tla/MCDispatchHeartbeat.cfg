SPECIFICATION Spec
CONSTANTS
  c1 = c1
  c2 = c2
  a1 = a1
  a2 = a2
  Call <- MCCall
  Account <- MCAccount
  Repertoire <- MCRepertoire
  MaxParts = 2
  MaxPushed = 1
CHECK_DEADLOCK FALSE
INVARIANT HeartbeatErrorsReported
